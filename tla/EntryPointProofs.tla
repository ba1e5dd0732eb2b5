-------------------------- MODULE EntryPointProofs --------------------------
(***************************************************************************)
(* What EntryPoint guarantees for any bundles, aggregators, accounts,      *)
(* paymasters and call depth, whatever the code it calls does.             *)
(***************************************************************************)
EXTENDS EntryPoint, RecursionTheorems

-----------------------------------------------------------------------------
(***************************************************************************)
(* The inductive invariant.                                                *)
(***************************************************************************)

\* The provers do not know that a string literal is a STRING.
Aggregator == STRING \cup {NoAggregator}

Entry == [op: UserOperation, aggregator: Aggregator]

OpInfo == [prefund: Nat, context: BOOLEAN, preOpGas: Nat]

ValidationResult == [aggregator: Aggregator, validAfter: Nat, validUntil: Nat]

SendFrame == [kind: {"send"}, saved: Ledger]

BundleFrame ==
    [kind: {"bundle"}, saved: Ledger, ops: Seq(Entry), beneficiary: Address \cup {Nobody},
     pc: CallOuts \cup {"validate", "settle"}, infos: Seq(OpInfo), done: Nat, collected: Nat,
     accountData: ValidationResult, gas: Nat, inner: Ledger,
     mode: {"opSucceeded", "opReverted", "postOpReverted"}]

Frame == SendFrame \cup BundleFrame

InnerCalls == {"call", "postOp", "postOpReverted", "settle"}

\* The loops are where pc says they are, and an operation was charged for what
\* it requires.
FrameOK(f) ==
    f.kind = "bundle" =>
        /\ f.done <= Len(f.infos)
        /\ Len(f.infos) <= Len(f.ops)
        /\ f.done > 0 => Len(f.infos) = Len(f.ops)
        /\ \A i \in 1..Len(f.infos) : f.infos[i].prefund = RequiredPrefund(f.ops[i].op)
        /\ f.pc \in {"create", "account", "paymaster"} => Len(f.infos) < Len(f.ops)
        /\ f.pc \in InnerCalls => Len(f.infos) = Len(f.ops) /\ f.done < Len(f.ops)
        /\ f.pc \in {"postOp", "postOpReverted"} => f.infos[f.done + 1].context
        /\ f.pc = "compensate" => f.done = Len(f.ops)

\* What stands of operation i of the bundle at depth k.
Stands(l, k, i, what) == [depth |-> k, op |-> i, what |-> what] \in l.effects

Honoured(l, k, i, context) ==
    IF context
    THEN /\ Stands(l, k, i, "postOp") # Stands(l, k, i, "postOpReverted")
         /\ Stands(l, k, i, "postOpReverted") => ~Stands(l, k, i, "call")
    ELSE ~Stands(l, k, i, "postOp") /\ ~Stands(l, k, i, "postOpReverted")

\* What stands of the operation in progress depends on how far it got.
InProgress(l, k, f) ==
    LET i == f.done + 1
    IN  CASE f.pc = "settle" -> Honoured(l, k, i, f.infos[i].context)
          [] f.pc = "postOp" -> ~Stands(l, k, i, "postOp") /\ ~Stands(l, k, i, "postOpReverted")
          [] OTHER -> \A what \in CallOuts : ~Stands(l, k, i, what)

EffectsOK(l, k, f) ==
    /\ \A e \in l.effects : e.depth = k => f.kind = "bundle" /\ e.op <= f.done + 1
    /\ f.kind = "bundle" =>
          /\ \A i \in 1..f.done : Honoured(l, k, i, f.infos[i].context)
          /\ InProgress(l, k, f)

\* What the frames up to depth k hold of a, and hold in fees.
HeldUpTo(fs, k, a) == SumFunctionOnSet([j \in 1..k |-> HeldBy(fs[j], a)], 1..k)

FeesUpTo(fs, k) == SumFunctionOnSet([j \in 1..k |-> FeesOf(fs[j])], 1..k)

Claims(l) == SumFunctionOnSet(l.claim, Address)

\* The ledger is in order for a call stack that is cut off above depth k.
Good(l, fs, k) ==
    /\ l \in Ledger
    /\ \A a \in Address : l.claim[a] = SM!Owed(l)[a] + HeldUpTo(fs, k, a)
    /\ l.balance = Claims(l) + FeesUpTo(fs, k)
    /\ \A e \in l.effects : e.depth <= k
    /\ \A j \in 1..k : EffectsOK(l, j, fs[j])

\* The frames as they were when innerHandleOp was called.
Paused(fs, k) == [fs EXCEPT ![k] = [@ EXCEPT !.pc = "validate"]]

WellFormed(fs, k) == \A j \in 1..k : fs[j] \in Frame /\ FrameOK(fs[j])

\* A revert puts back a ledger that was saved at some depth: what holds of the
\* ledger for the whole call stack has to hold of every saved one for the
\* frames that will be left.
StackOK(fs) ==
    /\ fs \in Seq(Frame)
    /\ Len(fs) <= MaxDepth
    /\ WellFormed(fs, Len(fs))
    /\ \A k \in 1..Len(fs) : Good(fs[k].saved, fs, k - 1)
    /\ \A k \in 1..Len(fs) :
          fs[k].kind = "bundle" /\ fs[k].pc \in InnerCalls
              => Good(fs[k].inner, Paused(fs, k), k)

IInv ==
    /\ now \in 1..MaxTime
    /\ budget \in 0..CallBudget
    /\ StackOK(frames)
    /\ Good(ledger, frames, Len(frames))

-----------------------------------------------------------------------------
(***************************************************************************)
(* Types.                                                                  *)
(***************************************************************************)

LEMMA Constants ==
    /\ NumAddr \in Nat \ {0} /\ MaxUint112 \in Nat /\ MaxTime \in Nat \ {0}
    /\ MaxDepth \in Nat /\ CallBudget \in Nat /\ EthSupply \in Nat
    /\ Amounts \subseteq Nat /\ Delays \subseteq Nat
    /\ IsFiniteSet(Address)
<1>1. NumAddr \in Nat \ {0}
  BY EntryPointConstants
<1>2. IsFiniteSet(1..NumAddr)
  BY <1>1, FS_Interval
<1> QED
  BY <1>1, <1>2, EntryPointConstants DEF Address, SM!Address

LEMMA Products ==
    ASSUME NEW x \in Nat, NEW y \in Nat
    PROVE  x * y \in Nat
OBVIOUS

LEMMA OperationType ==
    ASSUME NEW op \in UserOperation
    PROVE  /\ RequiredPrefund(op) \in Nat
           /\ Payer(op) \in Address
           /\ UserOpGasPrice(op) \in Nat
<1>1. /\ op.callGasLimit \in Nat /\ op.verificationGasLimit \in Nat
      /\ op.preVerificationGas \in Nat /\ op.maxFeePerGas \in Nat
      /\ op.maxPriorityFeePerGas \in Nat /\ op.sender \in Address
      /\ op.paymaster \in Address \cup {Nobody}
  BY DEF UserOperation
<1>2. RequiredPrefund(op) \in Nat
  <2> DEFINE gas == op.callGasLimit
                      + op.verificationGasLimit * (IF op.paymaster # Nobody THEN 3 ELSE 1)
                      + op.preVerificationGas
  <2>1. gas \in Nat
    BY <1>1
  <2>2. RequiredPrefund(op) = gas * op.maxFeePerGas
    BY DEF RequiredPrefund
  <2> HIDE DEF gas
  <2> QED
    BY <1>1, <2>1, <2>2, Products
<1>3. Payer(op) \in Address
  BY <1>1 DEF Payer
<1>4. UserOpGasPrice(op) \in Nat
  <2> DEFINE a == op.maxFeePerGas
             b == op.maxPriorityFeePerGas + BaseFee
  <2>1. a \in Nat /\ b \in Nat
    BY <1>1, EntryPointConstants
  <2>2. UserOpGasPrice(op) = a \/ UserOpGasPrice(op) = Min({a, b})
    BY DEF UserOpGasPrice
  <2>3. Min({a, b}) \in {a, b}
    <3> HIDE DEF a, b
    <3>1. \E x \in {a, b} : \A y \in {a, b} : x <= y
      BY <2>1
    <3> QED
      BY <3>1 DEF Min
  <2> QED
    BY <2>1, <2>2, <2>3
<1> QED
  BY <1>2, <1>3, <1>4

Prefunds(ops, a) ==
    [i \in DOMAIN ops |-> IF Payer(ops[i].op) = a THEN RequiredPrefund(ops[i].op) ELSE 0]

Charged(f) == Len(f.infos) + (IF f.pc = "paymaster" THEN 1 ELSE 0)

LEMMA BundleType ==
    ASSUME NEW f \in Frame, f.kind = "bundle"
    PROVE  /\ f \in BundleFrame
           /\ f.ops \in Seq(Entry) /\ f.infos \in Seq(OpInfo)
           /\ f.done \in Nat /\ f.collected \in Nat /\ f.gas \in Nat
           /\ f.inner \in Ledger /\ f.saved \in Ledger
           /\ Len(f.ops) \in Nat /\ Len(f.infos) \in Nat
<1>1. f \in BundleFrame
  BY DEF Frame, SendFrame
<1>2. f.ops \in Seq(Entry) /\ f.infos \in Seq(OpInfo)
  BY <1>1 DEF BundleFrame
<1> QED
  BY <1>1, <1>2 DEF BundleFrame

LEMMA EntryType ==
    ASSUME NEW ops \in Seq(Entry), NEW i \in 1..Len(ops)
    PROVE  /\ ops[i].op \in UserOperation
           /\ RequiredPrefund(ops[i].op) \in Nat
           /\ Payer(ops[i].op) \in Address
           /\ i \in DOMAIN ops
<1>1. ops[i] \in Entry /\ i \in DOMAIN ops
  OBVIOUS
<1>2. ops[i].op \in UserOperation
  BY <1>1 DEF Entry
<1> QED
  BY <1>1, <1>2, OperationType

\* The prefund of one operation, for a.
LEMMA PrefundType ==
    ASSUME NEW ops \in Seq(Entry), NEW i \in 1..Len(ops), NEW a
    PROVE  /\ Prefunds(ops, a)[i] =
                 IF Payer(ops[i].op) = a THEN RequiredPrefund(ops[i].op) ELSE 0
           /\ Prefunds(ops, a)[i] \in Nat
BY EntryType DEF Prefunds

LEMMA HeldBySum ==
    ASSUME NEW f, NEW a
    PROVE  HeldBy(f, a) = IF f.kind = "bundle"
                          THEN SumFunctionOnSet(Prefunds(f.ops, a), f.done + 1 .. Charged(f))
                          ELSE 0
BY DEF HeldBy, Prefunds, Charged

\* A bundle is charged for operations it has.
LEMMA ChargedBound ==
    ASSUME NEW f \in Frame, f.kind = "bundle", FrameOK(f)
    PROVE  /\ Charged(f) \in Nat
           /\ f.done <= Charged(f) /\ Charged(f) <= Len(f.ops)
           /\ f.done + 1 .. Charged(f) \subseteq 1..Len(f.ops)
           /\ IsFiniteSet(f.done + 1 .. Charged(f))
<1>1. Len(f.ops) \in Nat /\ Len(f.infos) \in Nat /\ f.done \in Nat
  BY BundleType
<1>2. Charged(f) \in Nat /\ f.done <= Charged(f) /\ Charged(f) <= Len(f.ops)
  <2>1. f.done <= Len(f.infos) /\ Len(f.infos) <= Len(f.ops)
    BY DEF FrameOK
  <2>2. f.pc = "paymaster" => Len(f.infos) < Len(f.ops)
    BY DEF FrameOK
  <2>3. CASE f.pc = "paymaster"
    BY <1>1, <2>1, <2>2, <2>3 DEF Charged
  <2>4. CASE f.pc # "paymaster"
    BY <1>1, <2>1, <2>4 DEF Charged
  <2> QED
    BY <2>3, <2>4
<1>3. IsFiniteSet(f.done + 1 .. Charged(f))
  <2>1. f.done + 1 \in Int /\ Charged(f) \in Int
    BY <1>1, <1>2
  <2> QED
    BY <2>1, FS_Interval
<1> QED
  BY <1>1, <1>2, <1>3

LEMMA HeldByType ==
    ASSUME NEW f \in Frame, FrameOK(f), NEW a
    PROVE  HeldBy(f, a) \in Nat /\ FeesOf(f) \in Nat
<1>1. CASE f.kind # "bundle"
  BY <1>1, HeldBySum DEF FeesOf
<1>2. CASE f.kind = "bundle"
  <2>1. \A i \in f.done + 1 .. Charged(f) : Prefunds(f.ops, a)[i] \in Nat
    BY <1>2, ChargedBound, BundleType, PrefundType
  <2>2. SumFunctionOnSet(Prefunds(f.ops, a), f.done + 1 .. Charged(f)) \in Nat
    <3>1. IsFiniteSet(f.done + 1 .. Charged(f))
      BY <1>2, ChargedBound
    <3> DEFINE charged == f.done + 1 .. Charged(f)
               prefunds == Prefunds(f.ops, a)
    <3>2. \A i \in charged : prefunds[i] \in Nat
      BY <2>1
    <3>3. \A i \in charged : prefunds[i] \in Int
      BY <3>2
    <3> HIDE DEF charged, prefunds
    <3>4. SumFunctionOnSet(prefunds, charged) \in Nat
      BY <3>1, <3>2, <3>3, SumInt DEF charged
    <3> QED
      BY <3>4 DEF charged, prefunds
  <2> QED
    BY <1>2, <2>2, HeldBySum, BundleType DEF FeesOf
<1> QED
  BY <1>1, <1>2

\* What the frames up to k hold is what the ones below hold and what k holds.
LEMMA UpTo ==
    ASSUME NEW k \in Nat, k # 0, NEW fs, WellFormed(fs, k), NEW a
    PROVE  /\ HeldUpTo(fs, k, a) = HeldUpTo(fs, k - 1, a) + HeldBy(fs[k], a)
           /\ HeldUpTo(fs, k, a) \in Nat /\ HeldUpTo(fs, k - 1, a) \in Nat
<1>1. \A j \in 1..k : HeldBy(fs[j], a) \in Nat
  BY HeldByType DEF WellFormed
<1> DEFINE held(n) == [j \in 1..n |-> HeldBy(fs[j], a)]
<1>2. /\ \A j \in 1..k : held(k)[j] \in Nat
      /\ \A j \in 1..(k - 1) : held(k - 1)[j] = held(k)[j]
      /\ held(k)[k] = HeldBy(fs[k], a)
  BY <1>1
<1>3. /\ HeldUpTo(fs, k, a) = SumFunctionOnSet(held(k), 1..k)
      /\ HeldUpTo(fs, k - 1, a) = SumFunctionOnSet(held(k - 1), 1..(k - 1))
  BY DEF HeldUpTo
<1> HIDE DEF held
<1> QED
  BY <1>2, <1>3, SumUpTo

LEMMA FeesUpToStep ==
    ASSUME NEW k \in Nat, k # 0, NEW fs, WellFormed(fs, k)
    PROVE  /\ FeesUpTo(fs, k) = FeesUpTo(fs, k - 1) + FeesOf(fs[k])
           /\ FeesUpTo(fs, k) \in Nat /\ FeesUpTo(fs, k - 1) \in Nat
<1>1. \A j \in 1..k : FeesOf(fs[j]) \in Nat
  BY HeldByType DEF WellFormed
<1> DEFINE fees(n) == [j \in 1..n |-> FeesOf(fs[j])]
<1>2. /\ \A j \in 1..k : fees(k)[j] \in Nat
      /\ \A j \in 1..(k - 1) : fees(k - 1)[j] = fees(k)[j]
      /\ fees(k)[k] = FeesOf(fs[k])
  BY <1>1
<1>3. /\ FeesUpTo(fs, k) = SumFunctionOnSet(fees(k), 1..k)
      /\ FeesUpTo(fs, k - 1) = SumFunctionOnSet(fees(k - 1), 1..(k - 1))
  BY DEF FeesUpTo
<1> HIDE DEF fees
<1> QED
  BY <1>2, <1>3, SumUpTo

LEMMA UpToNothing ==
    ASSUME NEW fs, NEW a
    PROVE  HeldUpTo(fs, 0, a) = 0 /\ FeesUpTo(fs, 0) = 0
<1>1. 1..0 = {}
  OBVIOUS
<1> QED
  BY <1>1, SumEmpty DEF HeldUpTo, FeesUpTo

\* Only the frames up to k matter.
LEMMA LocalSums ==
    ASSUME NEW k \in Nat, NEW fs, NEW gs, \A j \in 1..k : fs[j] = gs[j], NEW a
    PROVE  HeldUpTo(fs, k, a) = HeldUpTo(gs, k, a)
<1>1. [j \in 1..k |-> HeldBy(fs[j], a)] = [j \in 1..k |-> HeldBy(gs[j], a)]
  OBVIOUS
<1> QED
  BY <1>1 DEF HeldUpTo

LEMMA LocalFees ==
    ASSUME NEW k \in Nat, NEW fs, NEW gs, \A j \in 1..k : fs[j] = gs[j]
    PROVE  FeesUpTo(fs, k) = FeesUpTo(gs, k)
<1>1. [j \in 1..k |-> FeesOf(fs[j])] = [j \in 1..k |-> FeesOf(gs[j])]
  OBVIOUS
<1> QED
  BY <1>1 DEF FeesUpTo

LEMMA Local ==
    ASSUME NEW k \in Nat, NEW fs, NEW gs, \A j \in 1..k : fs[j] = gs[j],
           NEW l, Good(l, fs, k)
    PROVE  Good(l, gs, k)
<1>1. \A a : HeldUpTo(fs, k, a) = HeldUpTo(gs, k, a)
  BY LocalSums
<1>2. FeesUpTo(fs, k) = FeesUpTo(gs, k)
  BY LocalFees
<1> QED
  BY <1>1, <1>2 DEF Good

-----------------------------------------------------------------------------
(***************************************************************************)
(* How a ledger that is in order stays so when the top of the call stack   *)
(* changes.                                                                *)
(***************************************************************************)

LEMMA LedgerType ==
    ASSUME NEW l \in Ledger
    PROVE  /\ l.balance \in Nat /\ Claims(l) \in Nat
           /\ \A a \in Address : /\ l.claim[a] \in Nat
                                 /\ l.deposits[a] \in SM!DepositInfo
                                 /\ SM!Owed(l)[a] = l.deposits[a].deposit + l.deposits[a].stake
                                 /\ SM!Owed(l)[a] \in Nat
           /\ \A e \in l.effects : e.depth \in Nat /\ e.op \in Nat
<1>1. \A a \in Address : l.claim[a] \in Nat /\ l.deposits[a] \in SM!DepositInfo
  BY DEF Ledger
<1>2. \A a \in Address : l.claim[a] \in Int
  BY <1>1
<1>3. Claims(l) \in Nat
  BY <1>1, <1>2, Constants, SumInt DEF Claims
<1>4. ASSUME NEW a \in Address
      PROVE  /\ SM!Owed(l)[a] = l.deposits[a].deposit + l.deposits[a].stake
             /\ SM!Owed(l)[a] \in Nat
  <2>1. l.deposits[a].deposit \in Nat /\ l.deposits[a].stake \in Nat
    BY <1>1, Constants DEF SM!DepositInfo
  <2>2. SM!Owed(l)[a] = l.deposits[a].deposit + l.deposits[a].stake
    BY DEF SM!Owed, Address
  <2> QED
    BY <2>1, <2>2
<1> QED
  BY <1>1, <1>3, <1>4 DEF Ledger

\* What is below depth k of two ledgers that log the same there.
LEMMA EffectsBelow ==
    ASSUME NEW l, NEW m, NEW j, NEW f, EffectsOK(l, j, f),
           \A e : e.depth = j => (e \in m.effects <=> e \in l.effects)
    PROVE  EffectsOK(m, j, f)
<1>1. \A i, what : Stands(m, j, i, what) <=> Stands(l, j, i, what)
  BY DEF Stands
<1>2. \A i, context : Honoured(m, j, i, context) <=> Honoured(l, j, i, context)
  BY DEF Honoured, Stands
<1>3. InProgress(m, j, f) <=> InProgress(l, j, f)
  BY <1>1, <1>2 DEF InProgress
<1> QED
  BY <1>2, <1>3 DEF EffectsOK

\* The innermost frame changes, and the ledger with it.
LEMMA MoveTop ==
    ASSUME NEW k \in Nat, k # 0, NEW fs, NEW gs, NEW l, NEW m \in Ledger,
           Good(l, fs, k), WellFormed(fs, k), WellFormed(gs, k),
           \A j \in 1..(k - 1) : gs[j] = fs[j],
           \A a \in Address :
               m.claim[a] - SM!Owed(m)[a] - HeldBy(gs[k], a)
                 = l.claim[a] - SM!Owed(l)[a] - HeldBy(fs[k], a),
           m.balance - Claims(m) - FeesOf(gs[k]) = l.balance - Claims(l) - FeesOf(fs[k]),
           \A e : e.depth # k => (e \in m.effects <=> e \in l.effects),
           EffectsOK(m, k, gs[k])
    PROVE  Good(m, gs, k)
<1>1. /\ l \in Ledger
      /\ \A a \in Address : l.claim[a] = SM!Owed(l)[a] + HeldUpTo(fs, k, a)
      /\ l.balance = Claims(l) + FeesUpTo(fs, k)
      /\ \A e \in l.effects : e.depth <= k
      /\ \A j \in 1..k : EffectsOK(l, j, fs[j])
  BY DEF Good
<1>2. k \in 1..k /\ k - 1 \in Nat
  OBVIOUS
<1>3. ASSUME NEW a \in Address
      PROVE  m.claim[a] = SM!Owed(m)[a] + HeldUpTo(gs, k, a)
  <2>1. /\ HeldUpTo(fs, k, a) = HeldUpTo(fs, k - 1, a) + HeldBy(fs[k], a)
        /\ HeldUpTo(fs, k - 1, a) \in Nat
    BY UpTo
  <2>2. /\ HeldUpTo(gs, k, a) = HeldUpTo(gs, k - 1, a) + HeldBy(gs[k], a)
        /\ HeldUpTo(gs, k - 1, a) \in Nat
    BY UpTo
  <2>3. HeldUpTo(gs, k - 1, a) = HeldUpTo(fs, k - 1, a)
    BY <1>2, LocalSums
  <2>4. /\ HeldBy(fs[k], a) \in Nat
        /\ HeldBy(gs[k], a) \in Nat
    BY <1>2, HeldByType DEF WellFormed
  <2>5. /\ m.claim[a] \in Nat /\ SM!Owed(m)[a] \in Nat
        /\ l.claim[a] \in Nat /\ SM!Owed(l)[a] \in Nat
    BY <1>1, LedgerType
  <2>6. l.claim[a] = SM!Owed(l)[a] + HeldUpTo(fs, k, a)
    BY <1>1
  <2> QED
    BY <2>1, <2>2, <2>3, <2>4, <2>5, <2>6
<1>4. m.balance = Claims(m) + FeesUpTo(gs, k)
  <2>1. /\ FeesUpTo(fs, k) = FeesUpTo(fs, k - 1) + FeesOf(fs[k])
        /\ FeesUpTo(fs, k - 1) \in Nat
    BY FeesUpToStep
  <2>2. /\ FeesUpTo(gs, k) = FeesUpTo(gs, k - 1) + FeesOf(gs[k])
        /\ FeesUpTo(gs, k - 1) \in Nat
    BY FeesUpToStep
  <2>3. FeesUpTo(gs, k - 1) = FeesUpTo(fs, k - 1)
    BY <1>2, LocalFees
  <2>4. /\ FeesOf(fs[k]) \in Nat
        /\ FeesOf(gs[k]) \in Nat
    BY <1>2, HeldByType DEF WellFormed
  <2>5. /\ m.balance \in Nat /\ Claims(m) \in Nat
        /\ l.balance \in Nat /\ Claims(l) \in Nat
    BY <1>1, LedgerType
  <2> QED
    BY <1>1, <2>1, <2>2, <2>3, <2>4, <2>5
<1>5. \A e \in m.effects : e.depth <= k
  BY <1>1
<1>6. ASSUME NEW j \in 1..k
      PROVE  EffectsOK(m, j, gs[j])
  <2>1. CASE j = k
    BY <2>1
  <2>2. CASE j # k
    <3>1. gs[j] = fs[j] /\ EffectsOK(l, j, fs[j])
      BY <1>1, <2>2
    <3> QED
      BY <2>2, <3>1, EffectsBelow
  <2> QED
    BY <2>1, <2>2
<1> QED
  BY <1>3, <1>4, <1>5, <1>6 DEF Good

\* The innermost frame, which holds nothing any more, is left.
LEMMA PopTop ==
    ASSUME NEW k \in Nat, k # 0, NEW fs, NEW l, NEW m \in Ledger,
           Good(l, fs, k), WellFormed(fs, k),
           m.deposits = l.deposits, m.claim = l.claim, m.balance = l.balance,
           \A a \in Address : HeldBy(fs[k], a) = 0, FeesOf(fs[k]) = 0,
           \A e : e \in m.effects <=> e \in l.effects /\ e.depth # k
    PROVE  Good(m, fs, k - 1)
<1>1. /\ l \in Ledger
      /\ \A a \in Address : l.claim[a] = SM!Owed(l)[a] + HeldUpTo(fs, k, a)
      /\ l.balance = Claims(l) + FeesUpTo(fs, k)
      /\ \A e \in l.effects : e.depth <= k
      /\ \A j \in 1..k : EffectsOK(l, j, fs[j])
  BY DEF Good
<1>2. Claims(m) = Claims(l) /\ SM!Owed(m) = SM!Owed(l)
  BY DEF Claims, SM!Owed
<1>3. ASSUME NEW a \in Address
      PROVE  HeldUpTo(fs, k, a) = HeldUpTo(fs, k - 1, a)
  BY UpTo
<1>4. FeesUpTo(fs, k) = FeesUpTo(fs, k - 1)
  BY FeesUpToStep
<1>5. \A e \in m.effects : e.depth <= k - 1
  BY <1>1, LedgerType
<1>6. \A j \in 1..(k - 1) : EffectsOK(m, j, fs[j])
  <2> TAKE j \in 1..(k - 1)
  <2>1. j \in 1..k /\ j # k
    OBVIOUS
  <2> QED
    BY <1>1, <2>1, EffectsBelow
<1> QED
  BY <1>1, <1>2, <1>3, <1>4, <1>5, <1>6 DEF Good

\* A frame is pushed that holds nothing yet.
LEMMA PushTop ==
    ASSUME NEW k \in Nat, NEW fs, NEW gs, NEW l,
           Good(l, fs, k), WellFormed(fs, k), WellFormed(gs, k + 1),
           \A j \in 1..k : gs[j] = fs[j],
           \A a \in Address : HeldBy(gs[k + 1], a) = 0, FeesOf(gs[k + 1]) = 0,
           gs[k + 1].kind = "bundle" => gs[k + 1].done = 0 /\ gs[k + 1].pc = "validate"
    PROVE  Good(l, gs, k + 1)
<1>1. /\ l \in Ledger
      /\ \A a \in Address : l.claim[a] = SM!Owed(l)[a] + HeldUpTo(fs, k, a)
      /\ l.balance = Claims(l) + FeesUpTo(fs, k)
      /\ \A e \in l.effects : e.depth <= k
      /\ \A j \in 1..k : EffectsOK(l, j, fs[j])
  BY DEF Good
<1> DEFINE n == k + 1
<1>2. n \in Nat /\ n # 0 /\ n - 1 = k
  OBVIOUS
<1>3. ASSUME NEW a \in Address
      PROVE  HeldUpTo(gs, n, a) = HeldUpTo(fs, k, a)
  <2>1. HeldUpTo(gs, n, a) = HeldUpTo(gs, n - 1, a) + HeldBy(gs[n], a)
    BY <1>2, UpTo
  <2>2. HeldUpTo(gs, n - 1, a) \in Nat
    BY <1>2, UpTo
  <2>3. HeldUpTo(gs, k, a) = HeldUpTo(fs, k, a)
    BY LocalSums
  <2> QED
    BY <1>2, <2>1, <2>2, <2>3
<1>4. FeesUpTo(gs, n) = FeesUpTo(fs, k)
  <2>1. FeesUpTo(gs, n) = FeesUpTo(gs, n - 1) + FeesOf(gs[n])
    BY <1>2, FeesUpToStep
  <2>2. FeesUpTo(gs, n - 1) \in Nat
    BY <1>2, FeesUpToStep
  <2>3. FeesUpTo(gs, k) = FeesUpTo(fs, k)
    BY LocalFees
  <2> QED
    BY <1>2, <2>1, <2>2, <2>3
<1>5. \A e \in l.effects : e.depth <= n /\ e.depth # n
  BY <1>1, LedgerType
<1>6. EffectsOK(l, n, gs[n])
  <2>1. \A i, what : ~Stands(l, n, i, what)
    BY <1>5 DEF Stands
  <2>2. gs[n].kind = "bundle" => InProgress(l, n, gs[n])
    BY <2>1 DEF InProgress
  <2>3. gs[n].kind = "bundle" => 1..gs[n].done = {}
    OBVIOUS
  <2> QED
    BY <1>5, <2>2, <2>3 DEF EffectsOK
<1>7. \A j \in 1..n : EffectsOK(l, j, gs[j])
  <2> TAKE j \in 1..n
  <2>1. CASE j = n
    BY <1>6, <2>1
  <2>2. CASE j # n
    BY <1>1, <2>2
  <2> QED
    BY <2>1, <2>2
<1> QED
  BY <1>1, <1>3, <1>4, <1>5, <1>7 DEF Good

-----------------------------------------------------------------------------
(***************************************************************************)
(* The operations of StakeManager change the entry of one address, and     *)
(* move as much ether as they change what it is owed and claims.           *)
(***************************************************************************)

Updated(l, deposits, balance, claim, committed, unlockedAt) ==
    [l EXCEPT !.deposits = deposits, !.balance = balance, !.claim = claim,
              !.committed = committed, !.unlockedAt = unlockedAt]

LEMMA UpdatedType ==
    ASSUME NEW l \in Ledger, NEW deposits \in [Address -> SM!DepositInfo], NEW balance \in Nat,
           NEW claim \in [Address -> Nat],
           NEW committed \in [Address -> Nat], NEW unlockedAt \in [Address -> Nat]
    PROVE  Updated(l, deposits, balance, claim, committed, unlockedAt) \in Ledger
BY DEF Ledger, Updated

LEMMA UpdatedFields ==
    ASSUME NEW l \in Ledger, NEW deposits, NEW balance, NEW claim, NEW committed, NEW unlockedAt
    PROVE  LET m == Updated(l, deposits, balance, claim, committed, unlockedAt)
           IN  /\ m.deposits = deposits /\ m.balance = balance /\ m.claim = claim
               /\ m.effects = l.effects /\ m.deployed = l.deployed
               /\ m.committed = committed /\ m.unlockedAt = unlockedAt
BY DEF Ledger, Updated

LEMMA ClaimsChange ==
    ASSUME NEW l \in Ledger, NEW a \in Address, NEW d \in Int, NEW m,
           m.claim = [l.claim EXCEPT ![a] = l.claim[a] + d]
    PROVE  Claims(m) = Claims(l) + d
<1>1. \A b \in Address : l.claim[b] \in Int
  BY LedgerType
<1>2. l.claim \in [Address -> Nat]
  BY DEF Ledger
<1>3. /\ \A b \in Address : l.claim[b] \in Int /\ m.claim[b] \in Int
      /\ \A b \in Address \ {a} : m.claim[b] = l.claim[b]
      /\ m.claim[a] = l.claim[a] + d
  BY <1>1, <1>2
<1>4. Claims(m) = Claims(l) + m.claim[a] - l.claim[a]
  <2> DEFINE f == l.claim
             g == m.claim
  <2>1. IsFiniteSet(Address)
    BY Constants
  <2>2. /\ \A b \in Address : f[b] \in Int /\ g[b] \in Int
        /\ \A b \in Address \ {a} : g[b] = f[b]
    BY <1>3
  <2>3. Claims(m) = SumFunctionOnSet(g, Address) /\ Claims(l) = SumFunctionOnSet(f, Address)
    BY DEF Claims
  <2> HIDE DEF f, g
  <2>4. SumFunctionOnSet(g, Address) = SumFunctionOnSet(f, Address) + g[a] - f[a]
    BY <2>1, <2>2, SumChange
  <2> QED
    BY <2>3, <2>4 DEF f, g
<1>5. Claims(l) \in Nat /\ l.claim[a] \in Int
  BY <1>1, LedgerType
<1> QED
  BY <1>3, <1>4, <1>5

LEMMA UpToType ==
    ASSUME NEW k \in Nat, NEW fs, WellFormed(fs, k), NEW a
    PROVE  HeldUpTo(fs, k, a) \in Nat /\ FeesUpTo(fs, k) \in Nat
<1>1. CASE k = 0
  BY <1>1, UpToNothing
<1>2. CASE k # 0
  BY <1>2, UpTo, FeesUpToStep
<1> QED
  BY <1>1, <1>2

LEMMA EntryChange ==
    ASSUME NEW k \in Nat, NEW fs, WellFormed(fs, k), NEW l, Good(l, fs, k),
           NEW a \in Address, NEW info \in SM!DepositInfo, NEW d \in Int,
           info.deposit + info.stake = l.deposits[a].deposit + l.deposits[a].stake + d,
           NEW C \in [Address -> Nat], NEW U \in [Address -> Nat]
    PROVE  Good(Updated(l, [l.deposits EXCEPT ![a] = info], l.balance + d,
                        [l.claim EXCEPT ![a] = l.claim[a] + d], C, U), fs, k)
<1> DEFINE D == [l.deposits EXCEPT ![a] = info]
           B == l.balance + d
           K == [l.claim EXCEPT ![a] = l.claim[a] + d]
           m == Updated(l, D, B, K, C, U)
<1>1. /\ l \in Ledger
      /\ \A b \in Address : l.claim[b] = SM!Owed(l)[b] + HeldUpTo(fs, k, b)
      /\ l.balance = Claims(l) + FeesUpTo(fs, k)
      /\ \A e \in l.effects : e.depth <= k
      /\ \A j \in 1..k : EffectsOK(l, j, fs[j])
  BY DEF Good
<1>2. l.deposits \in [Address -> SM!DepositInfo] /\ l.claim \in [Address -> Nat]
  BY <1>1 DEF Ledger
<1>3. /\ D \in [Address -> SM!DepositInfo]
      /\ D[a] = info /\ \A b \in Address \ {a} : D[b] = l.deposits[b]
  BY <1>2
<1>4. \A b \in Address : /\ SM!Owed(l)[b] = l.deposits[b].deposit + l.deposits[b].stake
                         /\ HeldUpTo(fs, k, b) \in Nat
                         /\ l.claim[b] \in Nat
                         /\ SM!Owed(l)[b] \in Nat
  BY <1>1, LedgerType, UpToType
<1>5. info.deposit + info.stake \in Nat
  BY Constants DEF SM!DepositInfo
<1>6. l.claim[a] + d = info.deposit + info.stake + HeldUpTo(fs, k, a)
  BY <1>1, <1>4, <1>5
<1>7. K \in [Address -> Nat] /\ K[a] = l.claim[a] + d /\ \A b \in Address \ {a} : K[b] = l.claim[b]
  BY <1>2, <1>4, <1>5, <1>6
<1> HIDE DEF D, K
<1>8. [l EXCEPT !.claim = K].claim = [l.claim EXCEPT ![a] = l.claim[a] + d]
  BY <1>1 DEF Ledger, K
<1>9. Claims([l EXCEPT !.claim = K]) = SumFunctionOnSet(K, Address)
  BY <1>1 DEF Claims, Ledger
<1>10. SumFunctionOnSet(K, Address) = Claims(l) + d
  BY <1>1, <1>8, <1>9, ClaimsChange, ZenonT(30)
<1>11. SumFunctionOnSet(K, Address) \in Nat
  <2>1. \A b \in Address : K[b] \in Nat /\ K[b] \in Int
    BY <1>7
  <2> QED
    BY <2>1, Constants, SumInt
<1>12. FeesUpTo(fs, k) \in Nat
  <2>1. HeldUpTo(fs, k, a) \in Nat /\ FeesUpTo(fs, k) \in Nat
    BY UpToType
  <2> QED
    BY <2>1
<1>13. B = SumFunctionOnSet(K, Address) + FeesUpTo(fs, k) /\ B \in Nat
  <2>1. Claims(l) \in Nat
    BY <1>1, LedgerType
  <2> QED
    BY <1>1, <1>10, <1>11, <1>12, <2>1
<1> HIDE DEF B
<1>14. m \in Ledger
  BY <1>1, <1>3, <1>7, <1>13, UpdatedType
<1>15. m.deposits = D /\ m.balance = B /\ m.claim = K /\ m.effects = l.effects
  BY <1>1, UpdatedFields
<1> HIDE DEF m
<1>16. ASSUME NEW b \in Address
       PROVE  m.claim[b] = SM!Owed(m)[b] + HeldUpTo(fs, k, b)
  <2>1. SM!Owed(m)[b] = D[b].deposit + D[b].stake
    BY <1>14, <1>15, LedgerType
  <2>2. CASE b = a
    BY <1>3, <1>6, <1>7, <1>15, <2>1, <2>2
  <2>3. CASE b # a
    BY <1>1, <1>3, <1>4, <1>7, <1>15, <2>1, <2>3
  <2> QED
    BY <2>2, <2>3
<1>17. m.balance = Claims(m) + FeesUpTo(fs, k)
  BY <1>13, <1>15 DEF Claims
<1>18. \A j \in 1..k : EffectsOK(m, j, fs[j])
  BY <1>1, <1>15, EffectsBelow
<1>19. Good(m, fs, k)
  BY <1>1, <1>14, <1>15, <1>16, <1>17, <1>18 DEF Good
<1> QED
  BY <1>19 DEF m, D, K, B

-----------------------------------------------------------------------------
(***************************************************************************)
(* The call stack.                                                         *)
(***************************************************************************)

LEMMA StackType ==
    ASSUME NEW fs, StackOK(fs)
    PROVE  /\ fs \in Seq(Frame) /\ Len(fs) \in Nat
           /\ WellFormed(fs, Len(fs))
           /\ \A j \in 1..Len(fs) : fs[j] \in Frame /\ FrameOK(fs[j])
BY DEF StackOK, WellFormed

\* The ledger as it is when a frame is pushed is the one it saves.
LEMMA StackPush ==
    ASSUME NEW fs, StackOK(fs), Len(fs) < MaxDepth, NEW f \in Frame, FrameOK(f),
           Good(f.saved, fs, Len(fs)), f.kind = "bundle" => f.pc = "validate"
    PROVE  StackOK(Append(fs, f))
<1> DEFINE gs == Append(fs, f)
           n == Len(fs)
<1>1. fs \in Seq(Frame) /\ n \in Nat
  BY StackType
<1>2. /\ gs \in Seq(Frame) /\ Len(gs) = n + 1
      /\ gs[n + 1] = f
      /\ \A j \in 1..n : gs[j] = fs[j]
  BY <1>1
<1> HIDE DEF gs, n
<1>3. Len(gs) <= MaxDepth
  BY <1>1, <1>2, Constants DEF n
<1>4. WellFormed(gs, Len(gs))
  <2> SUFFICES ASSUME NEW j \in 1..(n + 1)
               PROVE  gs[j] \in Frame /\ FrameOK(gs[j])
    BY <1>2 DEF WellFormed
  <2>1. CASE j = n + 1
    BY <1>2, <2>1
  <2>2. CASE j # n + 1
    <3>1. j \in 1..n
      BY <1>1, <2>2
    <3> QED
      BY <1>2, <3>1, StackType DEF n
  <2> QED
    BY <2>1, <2>2
<1>5. ASSUME NEW k \in 1..(n + 1)
      PROVE  Good(gs[k].saved, gs, k - 1)
  <2>1. k - 1 \in Nat /\ \A j \in 1..(k - 1) : j \in 1..n /\ fs[j] = gs[j]
    BY <1>1, <1>2
  <2>2. Good(gs[k].saved, fs, k - 1)
    <3>1. CASE k = n + 1
      BY <1>1, <1>2, <3>1 DEF n
    <3>2. CASE k # n + 1
      <4>1. k \in 1..n
        BY <1>1, <3>2
      <4> QED
        BY <1>2, <4>1 DEF StackOK, n
    <3> QED
      BY <3>1, <3>2
  <2> QED
    BY <2>1, <2>2, Local
<1>6. ASSUME NEW k \in 1..(n + 1), gs[k].kind = "bundle", gs[k].pc \in InnerCalls
      PROVE  Good(gs[k].inner, Paused(gs, k), k)
  <2>1. k \in 1..n
    BY <1>1, <1>2, <1>6 DEF InnerCalls
  <2>2. Good(fs[k].inner, Paused(fs, k), k)
    BY <1>2, <1>6, <2>1 DEF StackOK, n
  <2>3. \A j \in 1..k : j \in 1..n /\ Paused(fs, k)[j] = Paused(gs, k)[j]
    BY <1>1, <1>2, <2>1, SMTT(30) DEF Paused, n
  <2>4. gs[k] = fs[k] /\ k \in Nat
    BY <1>2, <2>1
  <2> QED
    BY <2>2, <2>3, <2>4, Local
<1>7. StackOK(gs)
  BY <1>2, <1>3, <1>4, <1>5, <1>6 DEF StackOK
<1> QED
  BY <1>7 DEF gs

LEMMA StackPop ==
    ASSUME NEW fs, StackOK(fs), fs # <<>>
    PROVE  /\ StackOK(SubSeq(fs, 1, Len(fs) - 1))
           /\ Len(SubSeq(fs, 1, Len(fs) - 1)) = Len(fs) - 1
           /\ \A l : Good(l, fs, Len(fs) - 1) => Good(l, SubSeq(fs, 1, Len(fs) - 1), Len(fs) - 1)
<1> DEFINE gs == SubSeq(fs, 1, Len(fs) - 1)
           n == Len(fs) - 1
<1>1. fs \in Seq(Frame) /\ Len(fs) \in Nat /\ n \in Nat
  BY StackType
<1>2. /\ gs \in Seq(Frame) /\ Len(gs) = n
      /\ \A j \in 1..n : j \in 1..Len(fs) /\ gs[j] = fs[j]
  <2>1. gs \in Seq(Frame)
    BY <1>1
  <2>2. Len(gs) = n
    <3>1. gs = SubSeq(fs, 1, n)
      OBVIOUS
    <3> HIDE DEF gs, n
    <3> QED
      BY <1>1, <3>1
  <2>3. \A j \in 1..n : j \in 1..Len(fs) /\ gs[j] = fs[j]
    BY <1>1
  <2> QED
    BY <2>1, <2>2, <2>3
<1> HIDE DEF gs
<1>3. Len(gs) <= MaxDepth
  BY <1>1, <1>2, Constants DEF StackOK
<1> HIDE DEF n
<1>4. WellFormed(gs, Len(gs))
  BY <1>2, StackType DEF WellFormed
<1>5. ASSUME NEW k \in 1..n
      PROVE  Good(gs[k].saved, gs, k - 1)
  <2>1. k - 1 \in Nat /\ \A j \in 1..(k - 1) : j \in 1..n /\ fs[j] = gs[j]
    BY <1>1, <1>2
  <2>2. Good(gs[k].saved, fs, k - 1)
    BY <1>2 DEF StackOK
  <2> QED
    BY <2>1, <2>2, Local
<1>6. ASSUME NEW k \in 1..n, gs[k].kind = "bundle", gs[k].pc \in InnerCalls
      PROVE  Good(gs[k].inner, Paused(gs, k), k)
  <2>1. Good(fs[k].inner, Paused(fs, k), k)
    BY <1>2, <1>6 DEF StackOK
  <2>2. \A j \in 1..k : j \in 1..n /\ Paused(fs, k)[j] = Paused(gs, k)[j]
    BY <1>1, <1>2 DEF Paused
  <2>3. gs[k] = fs[k] /\ k \in Nat
    BY <1>2
  <2> QED
    BY <2>1, <2>2, <2>3, Local
<1>7. StackOK(gs)
  BY <1>2, <1>3, <1>4, <1>5, <1>6 DEF StackOK
<1>8. ASSUME NEW l, Good(l, fs, n)
      PROVE  Good(l, gs, n)
  BY <1>1, <1>2, <1>8, Local
<1> QED
  BY <1>2, <1>7, <1>8 DEF gs, n

\* The innermost bundle goes on.
LEMMA StackGoto ==
    ASSUME NEW fs, StackOK(fs), fs # <<>>, NEW g \in Frame, FrameOK(g),
           g.saved = fs[Len(fs)].saved,
           g.kind = "bundle" /\ g.pc \in InnerCalls
               => Good(g.inner, Paused([fs EXCEPT ![Len(fs)] = g], Len(fs)), Len(fs))
    PROVE  StackOK([fs EXCEPT ![Len(fs)] = g])
<1> DEFINE gs == [fs EXCEPT ![Len(fs)] = g]
           n == Len(fs)
<1>1. fs \in Seq(Frame) /\ n \in Nat /\ n \in 1..n
  BY StackType
<1>2. /\ gs \in Seq(Frame) /\ Len(gs) = n
      /\ gs[n] = g
      /\ \A j \in 1..n : j # n => gs[j] = fs[j]
  BY <1>1
<1>3. g.kind = "bundle" /\ g.pc \in InnerCalls => Good(g.inner, Paused(gs, n), n)
  OBVIOUS
<1> HIDE DEF gs, n
<1>4. WellFormed(gs, Len(gs))
  <2> SUFFICES ASSUME NEW j \in 1..n
               PROVE  gs[j] \in Frame /\ FrameOK(gs[j])
    BY <1>2 DEF WellFormed
  <2>1. CASE j = n
    BY <1>2, <2>1
  <2>2. CASE j # n
    BY <1>2, <2>2, StackType DEF n
  <2> QED
    BY <2>1, <2>2
<1>5. ASSUME NEW k \in 1..n
      PROVE  Good(gs[k].saved, gs, k - 1)
  <2>1. k - 1 \in Nat /\ \A j \in 1..(k - 1) : fs[j] = gs[j]
    BY <1>1, <1>2
  <2>2. gs[k].saved = fs[k].saved
    BY <1>2 DEF n
  <2>3. Good(gs[k].saved, fs, k - 1)
    BY <2>2 DEF StackOK, n
  <2> QED
    BY <2>1, <2>3, Local
<1>6. ASSUME NEW k \in 1..n, gs[k].kind = "bundle", gs[k].pc \in InnerCalls
      PROVE  Good(gs[k].inner, Paused(gs, k), k)
  <2>1. CASE k = n
    BY <1>2, <1>3, <1>6, <2>1
  <2>2. CASE k # n
    <3>1. gs[k] = fs[k] /\ k \in Nat
      BY <1>2, <2>2
    <3>2. Good(fs[k].inner, Paused(fs, k), k)
      BY <1>6, <3>1 DEF StackOK, n
    <3>3. \A j \in 1..k : j \in 1..n /\ Paused(fs, k)[j] = Paused(gs, k)[j]
      BY <1>1, <1>2, <2>2 DEF Paused, n
    <3> QED
      BY <3>1, <3>2, <3>3, Local
  <2> QED
    BY <2>1, <2>2
<1>7. Len(gs) <= MaxDepth
  BY <1>2 DEF StackOK, n
<1>8. StackOK(gs)
  BY <1>2, <1>4, <1>5, <1>6, <1>7 DEF StackOK
<1> QED
  BY <1>8 DEF gs

-----------------------------------------------------------------------------
(***************************************************************************)
(* The operations of StakeManager.                                         *)
(***************************************************************************)

LEMMA Fields ==
    ASSUME NEW fs, NEW k, NEW l, Good(l, fs, k), NEW a \in Address
    PROVE  /\ l \in Ledger
           /\ l.deposits \in [Address -> SM!DepositInfo] /\ l.claim \in [Address -> Nat]
           /\ l.committed \in [Address -> Nat] /\ l.unlockedAt \in [Address -> Nat]
           /\ l.balance \in Nat /\ l.claim[a] \in Nat
           /\ l.deposits[a] \in SM!DepositInfo
           /\ l.deposits[a].deposit \in Nat /\ l.deposits[a].stake \in Nat
           /\ l.deposits[a].unstakeDelaySec \in Nat
           /\ l.committed[a] \in Nat
<1>1. l \in Ledger
  BY DEF Good
<1>2. l.deposits[a] \in SM!DepositInfo
  BY <1>1 DEF Ledger
<1>3. /\ l.deposits[a].deposit \in Nat /\ l.deposits[a].stake \in Nat
      /\ l.deposits[a].unstakeDelaySec \in Nat
  BY <1>2, Constants DEF SM!DepositInfo
<1> QED
  BY <1>1, <1>2, <1>3 DEF Ledger

\* depositTo, and receive().
LEMMA DepositToGood ==
    ASSUME NEW fs, NEW k \in Nat, WellFormed(fs, k), Good(ledger, fs, k),
           NEW a \in Address, NEW value \in Nat, SM!DepositTo(a, value)
    PROVE  Good(ledger', fs, k)
<1> DEFINE old == ledger.deposits[a]
           info == [old EXCEPT !.deposit = old.deposit + value]
<1>1. /\ ledger' = SM!IncrementDeposit(SM!Receive(ledger, a, value), a, value)
      /\ old.deposit + value <= MaxUint112
  BY DEF SM!DepositTo, SM!Finish, SM!CanIncrementDeposit
<1>2. /\ ledger \in Ledger /\ old \in SM!DepositInfo
      /\ old.deposit \in Nat /\ old.stake \in Nat
      /\ ledger.committed \in [Address -> Nat] /\ ledger.unlockedAt \in [Address -> Nat]
  BY Fields
<1>3. ledger' = Updated(ledger, [ledger.deposits EXCEPT ![a] = info], ledger.balance + value,
                        [ledger.claim EXCEPT ![a] = ledger.claim[a] + value],
                        ledger.committed, ledger.unlockedAt)
  BY <1>1, <1>2 DEF SM!IncrementDeposit, SM!Receive, Updated, Ledger
<1>4. info \in SM!DepositInfo /\ info.deposit + info.stake = old.deposit + old.stake + value
  BY <1>1, <1>2, Constants DEF SM!DepositInfo
<1> HIDE DEF info
<1> QED
  BY <1>2, <1>3, <1>4, EntryChange

LEMMA AddStakeGood ==
    ASSUME NEW fs, NEW k \in Nat, WellFormed(fs, k), Good(ledger, fs, k),
           NEW a \in Address, NEW delay \in Nat, NEW value \in Nat,
           SM!AddStake(a, delay, value)
    PROVE  Good(ledger', fs, k)
<1> DEFINE old == ledger.deposits[a]
           info == [deposit |-> old.deposit, staked |-> TRUE, stake |-> old.stake + value,
                    unstakeDelaySec |-> delay, withdrawTime |-> 0]
           longest == IF ledger.committed[a] < delay THEN delay ELSE ledger.committed[a]
           C == [ledger.committed EXCEPT ![a] = longest]
           U == [ledger.unlockedAt EXCEPT ![a] = 0]
<1>1. /\ ledger' = [SM!Receive(ledger, a, value) EXCEPT
                      !.deposits[a] = info,
                      !.committed[a] = IF @ < delay THEN delay ELSE @,
                      !.unlockedAt[a] = 0]
      /\ old.stake + value <= MaxUint112
  BY DEF SM!AddStake, SM!Finish
<1>2. /\ ledger \in Ledger /\ old \in SM!DepositInfo
      /\ old.deposit \in Nat /\ old.stake \in Nat /\ ledger.committed[a] \in Nat
      /\ ledger.committed \in [Address -> Nat] /\ ledger.unlockedAt \in [Address -> Nat]
  BY Fields
<1>3. info \in SM!DepositInfo /\ info.deposit + info.stake = old.deposit + old.stake + value
  BY <1>1, <1>2, Constants DEF SM!DepositInfo
<1>4. C \in [Address -> Nat] /\ U \in [Address -> Nat]
  BY <1>2
<1>5. ledger' = Updated(ledger, [ledger.deposits EXCEPT ![a] = info], ledger.balance + value,
                        [ledger.claim EXCEPT ![a] = ledger.claim[a] + value], C, U)
  <2> HIDE DEF info
  <2> QED
    BY <1>1, <1>2 DEF SM!Receive, Updated, Ledger
<1> HIDE DEF info, C, U
<1> QED
  BY <1>3, <1>4, <1>5, EntryChange

LEMMA UnlockStakeGood ==
    ASSUME NEW fs, NEW k \in Nat, WellFormed(fs, k), Good(ledger, fs, k), now \in 1..MaxTime,
           NEW a \in Address, SM!UnlockStake(a)
    PROVE  Good(ledger', fs, k)
<1> DEFINE old == ledger.deposits[a]
           time == now + old.unstakeDelaySec
           info == [old EXCEPT !.withdrawTime = time, !.staked = FALSE]
           U == [ledger.unlockedAt EXCEPT ![a] = now]
<1>1. /\ ledger' = [ledger EXCEPT !.deposits[a] = info, !.unlockedAt[a] = now]
      /\ time <= MaxTime
  BY DEF SM!UnlockStake, SM!Finish
<1>2. /\ ledger \in Ledger /\ old \in SM!DepositInfo
      /\ old.deposit \in Nat /\ old.stake \in Nat /\ old.unstakeDelaySec \in Nat
      /\ ledger.committed \in [Address -> Nat] /\ ledger.unlockedAt \in [Address -> Nat]
      /\ ledger.balance \in Nat /\ ledger.claim[a] \in Nat /\ ledger.claim \in [Address -> Nat]
  BY Fields
<1>3. now \in Nat /\ time \in 0..MaxTime
  BY <1>1, <1>2, Constants
<1> HIDE DEF time
<1>4. info \in SM!DepositInfo /\ info.deposit + info.stake = old.deposit + old.stake + 0
  <2> HIDE DEF old
  <2>1. info \in SM!DepositInfo /\ info.deposit = old.deposit /\ info.stake = old.stake
    BY <1>2, <1>3 DEF SM!DepositInfo
  <2> QED
    BY <1>2, <2>1
<1>5. U \in [Address -> Nat]
  BY <1>2, <1>3
<1>6. ledger.balance + 0 = ledger.balance
      /\ [ledger.claim EXCEPT ![a] = ledger.claim[a] + 0] = ledger.claim
  BY <1>2
<1>7. ledger' = Updated(ledger, [ledger.deposits EXCEPT ![a] = info], ledger.balance,
                        ledger.claim, ledger.committed, U)
  <2> HIDE DEF info
  <2> QED
    BY <1>1, <1>2 DEF Updated, Ledger
<1> HIDE DEF info, U
<1>8. 0 \in Int
  OBVIOUS
<1> QED
  BY <1>2, <1>4, <1>5, <1>6, <1>7, <1>8, EntryChange

\* A withdrawal, up to its send.
LEMMA WithdrawStakeGood ==
    ASSUME NEW fs, NEW k \in Nat, WellFormed(fs, k), Good(ledger, fs, k),
           NEW a \in Address, SM!WithdrawStake(a)
    PROVE  Good(ledger', fs, k)
<1> DEFINE old == ledger.deposits[a]
           amount == old.stake
           info == [old EXCEPT !.unstakeDelaySec = 0, !.withdrawTime = 0, !.stake = 0]
           C == [ledger.committed EXCEPT ![a] = 0]
           U == [ledger.unlockedAt EXCEPT ![a] = 0]
           d == 0 - amount
<1>1. ledger' = [[ledger EXCEPT !.deposits[a] = info, !.claim[a] = @ - old.stake,
                                !.committed[a] = 0, !.unlockedAt[a] = 0]
                   EXCEPT !.balance = @ - old.stake]
  BY DEF SM!WithdrawStake, SM!Send
<1>2. /\ ledger \in Ledger /\ old \in SM!DepositInfo
      /\ old.deposit \in Nat /\ old.stake \in Nat
      /\ ledger.committed \in [Address -> Nat] /\ ledger.unlockedAt \in [Address -> Nat]
      /\ ledger.balance \in Nat /\ ledger.claim[a] \in Nat
  BY Fields
<1>3. info \in SM!DepositInfo /\ info.deposit = old.deposit /\ info.stake = 0
  <2>1. 0 \in 0..MaxUint112 /\ 0 \in 0..MaxTime /\ 0 \in Nat
    BY Constants
  <2> HIDE DEF old
  <2> QED
    BY <1>2, <2>1 DEF SM!DepositInfo
<1>4. /\ info.deposit + info.stake = old.deposit + old.stake + d /\ d \in Int
      /\ ledger.balance + d = ledger.balance - old.stake
      /\ ledger.claim[a] + d = ledger.claim[a] - old.stake
  BY <1>2, <1>3
<1>5. C \in [Address -> Nat] /\ U \in [Address -> Nat]
  BY <1>2
<1>6. ledger' = Updated(ledger, [ledger.deposits EXCEPT ![a] = info], ledger.balance - old.stake,
                        [ledger.claim EXCEPT ![a] = ledger.claim[a] - old.stake], C, U)
  <2> HIDE DEF info
  <2> QED
    BY <1>1, <1>2 DEF Updated, Ledger
<1> HIDE DEF info, C, U, d
<1> QED
  BY <1>3, <1>4, <1>5, <1>6, EntryChange

LEMMA WithdrawToGood ==
    ASSUME NEW fs, NEW k \in Nat, WellFormed(fs, k), Good(ledger, fs, k),
           NEW a \in Address, NEW amount \in Nat, SM!WithdrawTo(a, amount)
    PROVE  Good(ledger', fs, k)
<1> DEFINE old == ledger.deposits[a]
           info == [old EXCEPT !.deposit = old.deposit - amount]
           d == 0 - amount
<1>1. /\ ledger' = [[ledger EXCEPT !.deposits[a].deposit = @ - amount, !.claim[a] = @ - amount]
                      EXCEPT !.balance = @ - amount]
      /\ amount <= old.deposit
  BY DEF SM!WithdrawTo, SM!Send
<1>2. /\ ledger \in Ledger /\ old \in SM!DepositInfo
      /\ old.deposit \in Nat /\ old.stake \in Nat
      /\ ledger.committed \in [Address -> Nat] /\ ledger.unlockedAt \in [Address -> Nat]
      /\ ledger.balance \in Nat /\ ledger.claim[a] \in Nat
  BY Fields
<1>3. info \in SM!DepositInfo /\ info.deposit = old.deposit - amount /\ info.stake = old.stake
  BY <1>1, <1>2, Constants DEF SM!DepositInfo
<1>4. /\ info.deposit + info.stake = old.deposit + old.stake + d /\ d \in Int
      /\ ledger.balance + d = ledger.balance - amount
      /\ ledger.claim[a] + d = ledger.claim[a] - amount
  BY <1>2, <1>3
<1>5. ledger' = Updated(ledger, [ledger.deposits EXCEPT ![a] = info], ledger.balance - amount,
                        [ledger.claim EXCEPT ![a] = ledger.claim[a] - amount],
                        ledger.committed, ledger.unlockedAt)
  BY <1>1, <1>2 DEF Updated, Ledger
<1> HIDE DEF info, d
<1> QED
  BY <1>2, <1>3, <1>4, <1>5, EntryChange

-----------------------------------------------------------------------------
(***************************************************************************)
(* The shapes that a step may have.                                        *)
(***************************************************************************)

LEMMA EnteredOK ==
    ASSUME budget \in 0..CallBudget, SM!Entered
    PROVE  budget' \in 0..CallBudget
BY Constants DEF SM!Entered

\* Back to the code that called.
LEMMA Finishes ==
    ASSUME IInv, Good(ledger', frames, Len(frames)), UNCHANGED <<frames, now>>,
           budget' \in 0..CallBudget
    PROVE  IInv'
<1>1. now' \in 1..MaxTime /\ StackOK(frames')
  BY DEF IInv
<1>2. Good(ledger', frames', Len(frames'))
  OBVIOUS
<1> QED
  BY <1>1, <1>2 DEF IInv

\* Out of the contract, with a new frame.
LEMMA Pushes ==
    ASSUME IInv, Good(ledger', frames, Len(frames)), UNCHANGED now,
           budget' \in 0..CallBudget, Len(frames) < MaxDepth,
           NEW f \in Frame, FrameOK(f), f.saved = ledger, frames' = Append(frames, f),
           f.kind = "bundle" => f.pc = "validate" /\ f.done = 0 /\ f.collected = 0 /\ f.infos = <<>>
    PROVE  IInv'
<1>1. StackOK(frames) /\ Good(ledger, frames, Len(frames)) /\ now' \in 1..MaxTime
  BY DEF IInv
<1>2. frames \in Seq(Frame) /\ Len(frames) \in Nat /\ WellFormed(frames, Len(frames))
  BY <1>1, StackType
<1>3. StackOK(frames')
  BY <1>1, StackPush
<1>4. /\ Len(frames') = Len(frames) + 1
      /\ frames'[Len(frames) + 1] = f
      /\ \A j \in 1..Len(frames) : frames'[j] = frames[j]
  BY <1>2
<1>5. \A a : HeldBy(f, a) = 0
  <2> TAKE a
  <2>1. CASE f.kind # "bundle"
    BY <2>1, HeldBySum
  <2>2. CASE f.kind = "bundle"
    <3>1. f.done + 1 .. Charged(f) = {}
      <4>1. Len(<<>>) = 0 /\ 1..0 = {}
        OBVIOUS
      <4>2. Charged(f) = 0
        <5>1. Len(f.infos) = 0
          BY <2>2, <4>1
        <5>2. f.pc # "paymaster"
          BY <2>2
        <5> QED
          BY <5>1, <5>2 DEF Charged
      <4> QED
        BY <2>2, <4>1, <4>2
    <3> QED
      BY <2>2, <3>1, HeldBySum, SumEmpty
  <2> QED
    BY <2>1, <2>2
<1>6. FeesOf(f) = 0
  BY DEF FeesOf
<1>7. WellFormed(frames', Len(frames) + 1)
  BY <1>3, <1>4, StackType
<1>8. Good(ledger', frames', Len(frames) + 1)
  BY <1>2, <1>4, <1>5, <1>6, <1>7, PushTop
<1> QED
  BY <1>1, <1>3, <1>4, <1>8 DEF IInv

\* The innermost frame is left.
LEMMA Leaves ==
    ASSUME IInv, frames # <<>>, NEW l, Good(l, frames, Len(frames) - 1), SM!Leave(l)
    PROVE  IInv'
<1>1. StackOK(frames) /\ now' \in 1..MaxTime
  BY DEF IInv, SM!Leave
<1>2. budget' \in 0..CallBudget
  BY Constants DEF IInv, SM!Leave
<1>3. frames' = SubSeq(frames, 1, Len(frames) - 1) /\ ledger' = l
  BY DEF SM!Leave
<1>4. StackOK(frames') /\ Good(ledger', frames', Len(frames'))
  BY <1>1, <1>3, StackPop
<1> QED
  BY <1>1, <1>2, <1>4 DEF IInv

\* The innermost frame goes on.
LEMMA Goes ==
    ASSUME IInv, frames # <<>>, NEW l, NEW g \in Frame, Goto(l, g), FrameOK(g),
           g.saved = frames[Len(frames)].saved,
           Good(l, [frames EXCEPT ![Len(frames)] = g], Len(frames)),
           g.kind = "bundle" /\ g.pc \in InnerCalls
               => Good(g.inner, Paused([frames EXCEPT ![Len(frames)] = g], Len(frames)),
                       Len(frames))
    PROVE  IInv'
<1>1. /\ ledger' = l /\ frames' = [frames EXCEPT ![Len(frames)] = g]
      /\ now' = now /\ budget' = budget
  BY DEF Goto
<1>2. StackOK(frames) /\ now' \in 1..MaxTime /\ budget' \in 0..CallBudget
  BY <1>1 DEF IInv
<1>3. StackOK(frames')
  BY <1>1, <1>2, StackGoto
<1>4. Len(frames') = Len(frames)
  BY <1>1, <1>2, StackType
<1> QED
  BY <1>1, <1>2, <1>3, <1>4 DEF IInv

\* The innermost frame is undone: the ledger it saved is in order without it.
LEMMA Reverts ==
    ASSUME IInv, frames # <<>>, Revert
    PROVE  IInv'
<1>1. StackOK(frames) /\ Len(frames) \in Nat /\ frames \in Seq(Frame)
  BY StackType DEF IInv
<1>2. Len(frames) \in 1..Len(frames)
  BY <1>1
<1>3. Good(frames[Len(frames)].saved, frames, Len(frames) - 1)
  BY <1>1, <1>2 DEF StackOK
<1> QED
  BY <1>3, Leaves DEF Revert, Bundle, SM!Innermost

\* The calls of StakeManager.
LEMMA StakeManagerKeeps ==
    ASSUME IInv, SM!StakeManagerCall
    PROVE  IInv'
<1>1. PICK a \in Address :
        \/ \E value \in Amounts : SM!DepositTo(a, value)
        \/ \E delay \in Delays, value \in Amounts : SM!AddStake(a, delay, value)
        \/ SM!UnlockStake(a)
        \/ SM!WithdrawStake(a)
        \/ \E amount \in Amounts : SM!WithdrawTo(a, amount)
  BY DEF SM!StakeManagerCall, Address
<1>2. /\ StackOK(frames) /\ Len(frames) \in Nat /\ WellFormed(frames, Len(frames))
      /\ Good(ledger, frames, Len(frames)) /\ now \in 1..MaxTime /\ budget \in 0..CallBudget
      /\ ledger \in Ledger
  BY StackType DEF IInv, Good
<1> DEFINE send == [kind |-> "send", saved |-> ledger]
<1>3. /\ send \in Frame /\ FrameOK(send) /\ send.saved = ledger /\ send.kind # "bundle"
  BY <1>2 DEF Frame, SendFrame, FrameOK
<1> HIDE DEF send
<1>4. ASSUME NEW value \in Amounts, SM!DepositTo(a, value) PROVE IInv'
  <2>1. value \in Nat /\ SM!Entered /\ UNCHANGED <<frames, now>>
    BY <1>4, Constants DEF SM!DepositTo, SM!Finish
  <2>2. Good(ledger', frames, Len(frames))
    BY <1>2, <1>4, <2>1, DepositToGood
  <2> QED
    BY <1>2, <2>1, <2>2, EnteredOK, Finishes
<1>5. ASSUME NEW delay \in Delays, NEW value \in Amounts, SM!AddStake(a, delay, value) PROVE IInv'
  <2>1. value \in Nat /\ delay \in Nat /\ SM!Entered /\ UNCHANGED <<frames, now>>
    BY <1>5, Constants DEF SM!AddStake, SM!Finish
  <2>2. Good(ledger', frames, Len(frames))
    BY <1>2, <1>5, <2>1, AddStakeGood
  <2> QED
    BY <1>2, <2>1, <2>2, EnteredOK, Finishes
<1>6. ASSUME SM!UnlockStake(a) PROVE IInv'
  <2>1. SM!Entered /\ UNCHANGED <<frames, now>>
    BY <1>6 DEF SM!UnlockStake, SM!Finish
  <2>2. Good(ledger', frames, Len(frames))
    BY <1>2, <1>6, UnlockStakeGood
  <2> QED
    BY <1>2, <2>1, <2>2, EnteredOK, Finishes
<1>7. ASSUME SM!WithdrawStake(a) PROVE IInv'
  <2>1. /\ SM!Entered /\ UNCHANGED now /\ Len(frames) < MaxDepth
        /\ frames' = Append(frames, send)
    BY <1>7 DEF SM!WithdrawStake, SM!Send, send
  <2>2. Good(ledger', frames, Len(frames))
    BY <1>2, <1>7, WithdrawStakeGood
  <2>3. budget' \in 0..CallBudget
    BY <1>2, <2>1, EnteredOK
  <2> QED
    BY <1>3, <2>1, <2>2, <2>3, Pushes
<1>8. ASSUME NEW amount \in Amounts, SM!WithdrawTo(a, amount) PROVE IInv'
  <2>1. /\ SM!Entered /\ UNCHANGED now /\ Len(frames) < MaxDepth
        /\ frames' = Append(frames, send) /\ amount \in Nat
    BY <1>8, Constants DEF SM!WithdrawTo, SM!Send, send
  <2>2. Good(ledger', frames, Len(frames))
    BY <1>2, <1>8, <2>1, WithdrawToGood
  <2>3. budget' \in 0..CallBudget
    BY <1>2, <2>1, EnteredOK
  <2> QED
    BY <1>3, <2>1, <2>2, <2>3, Pushes
<1> QED
  BY <1>1, <1>4, <1>5, <1>6, <1>7, <1>8

\* The receiver of a withdrawal returns.
LEMMA SendReturnsKeeps ==
    ASSUME IInv, NEW success \in BOOLEAN, SM!SendReturns(success)
    PROVE  IInv'
<1> DEFINE n == Len(frames)
<1>1. /\ frames # <<>> /\ frames[n].kind = "send"
      /\ SM!Leave(IF success THEN ledger ELSE frames[n].saved)
  BY DEF SM!SendReturns, SM!Innermost
<1>2. /\ StackOK(frames) /\ n \in Nat /\ n # 0 /\ WellFormed(frames, n)
      /\ frames \in Seq(Frame) /\ Good(ledger, frames, n) /\ ledger \in Ledger
  BY <1>1, StackType DEF IInv, Good
<1>3. n \in 1..n
  BY <1>2
<1>4. CASE success
  <2>1. /\ \A a \in Address : HeldBy(frames[n], a) = 0
        /\ FeesOf(frames[n]) = 0
    BY <1>1, HeldBySum DEF FeesOf
  <2>2. \A e \in ledger.effects : e.depth # n
    <3>1. EffectsOK(ledger, n, frames[n])
      BY <1>2, <1>3 DEF Good
    <3> QED
      BY <1>1, <3>1 DEF EffectsOK
  <2> HIDE DEF n
  <2>3. Good(ledger, frames, n - 1)
    BY <1>2, <2>1, <2>2, PopTop
  <2> QED
    BY <1>1, <1>4, <2>3, Leaves DEF n
<1>5. CASE ~success
  <2>1. Revert
    BY <1>1, <1>5 DEF Revert, Bundle, SM!Innermost
  <2> QED
    BY <1>1, <2>1, Reverts
<1> QED
  BY <1>4, <1>5

-----------------------------------------------------------------------------
(***************************************************************************)
(* Entering the contract.                                                  *)
(***************************************************************************)

LEMMA MapType ==
    ASSUME NEW S, NEW n \in Nat, NEW s \in [1..n -> S]
    PROVE  s \in Seq(S)
OBVIOUS

LEMMA EnterKeeps ==
    ASSUME IInv, NEW ops \in Seq(Entry), NEW b \in Beneficiaries, Enter(ops, b)
    PROVE  IInv'
<1> DEFINE f == NewBundle(ops, b)
<1>1. /\ StackOK(frames) /\ Good(ledger, frames, Len(frames))
      /\ ledger \in Ledger /\ budget \in 0..CallBudget
  BY DEF IInv, Good
<1>2. /\ SM!Entered /\ Len(frames) < MaxDepth /\ frames' = Append(frames, f)
      /\ ledger' = ledger /\ now' = now
  BY DEF Enter
<1>3. /\ f.kind = "bundle" /\ f.pc = "validate" /\ f.done = 0 /\ f.collected = 0
      /\ f.infos = <<>> /\ f.ops = ops /\ f.saved = ledger
  BY DEF NewBundle
<1>4. Valid \in ValidationResult
  <2>1. NoAggregator \in Aggregator /\ 0 \in Nat /\ MaxTime \in Nat
    BY Constants DEF Aggregator
  <2> QED
    BY <2>1 DEF Valid, ValidationResult
<1>5. f \in BundleFrame
  <2>1. b \in Address \cup {Nobody}
    BY EntryPointConstants
  <2>2. <<>> \in Seq(OpInfo)
    OBVIOUS
  <2> HIDE DEF Entry, OpInfo, ValidationResult, Ledger, Address, Valid
  <2> QED
    BY <1>1, <1>4, <2>1, <2>2 DEF NewBundle, BundleFrame
<1> HIDE DEF f
<1>6. FrameOK(f)
  <2>1. Len(f.infos) = 0 /\ Len(f.ops) \in Nat
    BY <1>3
  <2> QED
    BY <1>3, <2>1 DEF FrameOK, InnerCalls
<1>7. budget' \in 0..CallBudget
  BY <1>1, <1>2, EnteredOK
<1> QED
  BY <1>1, <1>2, <1>3, <1>5, <1>6, <1>7, Pushes DEF Frame

LEMMA HandleOpsKeeps ==
    ASSUME IInv, NEW ops \in Batches, NEW b \in Beneficiaries, HandleOps(ops, b)
    PROVE  IInv'
<1> DEFINE entries == [i \in DOMAIN ops |-> [op |-> ops[i], aggregator |-> NoAggregator]]
<1>1. ops \in Seq(UserOperation)
  BY EntryPointConstants
<1>2. entries \in Seq(Entry)
  <2>1. DOMAIN ops = 1..Len(ops) /\ Len(ops) \in Nat
    BY <1>1
  <2>2. ASSUME NEW i \in DOMAIN ops
        PROVE  [op |-> ops[i], aggregator |-> NoAggregator] \in Entry
    <3>1. ops[i] \in UserOperation /\ NoAggregator \in Aggregator
      BY <1>1 DEF Aggregator
    <3> QED
      BY <3>1 DEF Entry
  <2>3. entries \in [1..Len(ops) -> Entry]
    BY <2>1, <2>2
  <2> HIDE DEF entries
  <2> QED
    BY <2>1, <2>3, MapType
<1>3. Enter(entries, b)
  BY DEF HandleOps
<1> QED
  BY <1>2, <1>3, EnterKeeps

LEMMA HandleAggregatedOpsKeeps ==
    ASSUME IInv, NEW groups \in Groups, NEW b \in Beneficiaries, HandleAggregatedOps(groups, b)
    PROVE  IInv'
<1> DEFINE Of(g) == [i \in DOMAIN groups[g].userOps |->
                       [op |-> groups[g].userOps[i], aggregator |-> groups[g].aggregator]]
           entries == [g \in DOMAIN groups |-> Of(g)]
<1>1. groups \in Seq([aggregator: STRING, userOps: Seq(UserOperation)])
  BY EntryPointConstants
<1>2. ASSUME NEW g \in DOMAIN groups
      PROVE  Of(g) \in Seq(Entry)
  <2> DEFINE ops == groups[g].userOps
             name == groups[g].aggregator
  <2>1. ops \in Seq(UserOperation) /\ name \in Aggregator
    <3> DEFINE Group == [aggregator: STRING, userOps: Seq(UserOperation)]
    <3>1. groups[g] \in Group
      <4>1. groups \in Seq(Group)
        BY <1>1
      <4> HIDE DEF Group
      <4> QED
        BY <4>1
    <3> QED
      BY <3>1 DEF Aggregator
  <2> HIDE DEF ops, name
  <2>2. DOMAIN ops = 1..Len(ops) /\ Len(ops) \in Nat
    BY <2>1
  <2>3. \A i \in DOMAIN ops : [op |-> ops[i], aggregator |-> name] \in Entry
    BY <2>1, <2>2 DEF Entry
  <2>4. [i \in DOMAIN ops |-> [op |-> ops[i], aggregator |-> name]] \in [1..Len(ops) -> Entry]
    BY <2>2, <2>3
  <2>5. Of(g) = [i \in DOMAIN ops |-> [op |-> ops[i], aggregator |-> name]]
    BY DEF ops, name
  <2> QED
    BY <2>2, <2>4, <2>5, MapType
<1>3. entries \in Seq(Seq(Entry))
  <2>1. DOMAIN groups = 1..Len(groups) /\ Len(groups) \in Nat
    BY <1>1
  <2> HIDE DEF Of
  <2>2. entries \in [1..Len(groups) -> Seq(Entry)]
    BY <1>2, <2>1
  <2> HIDE DEF entries
  <2> QED
    BY <2>1, <2>2, MapType
<1>4. Enter(FlattenSeq(entries), b)
  BY DEF HandleAggregatedOps
<1> HIDE DEF entries
<1>5. FlattenSeq(entries) \in Seq(Entry)
  BY <1>3, FlattenSeqType
<1> QED
  BY <1>4, <1>5, EnterKeeps

\* A new contract does not matter to the books.
LEMMA DeployKeeps ==
    ASSUME IInv, NEW a \in Address, Deploy(a)
    PROVE  IInv'
<1>1. /\ Good(ledger, frames, Len(frames)) /\ budget \in 0..CallBudget /\ ledger \in Ledger
  BY DEF IInv, Good
<1>2. /\ SM!Entered /\ UNCHANGED <<frames, now>>
      /\ ledger' = [ledger EXCEPT !.deployed = @ \cup {a}]
  BY DEF Deploy, SM!Finish
<1> DEFINE deployed == ledger.deployed \cup {a}
<1>3. deployed \in SUBSET Address
  BY <1>1 DEF Ledger
<1>4. ledger' = [ledger EXCEPT !.deployed = deployed]
  BY <1>2
<1> HIDE DEF deployed
<1>5. /\ ledger' \in Ledger /\ ledger'.deposits = ledger.deposits
      /\ ledger'.balance = ledger.balance /\ ledger'.claim = ledger.claim
      /\ ledger'.effects = ledger.effects
  BY <1>1, <1>3, <1>4 DEF Ledger
<1>6. Good(ledger', frames, Len(frames))
  <2>1. Claims(ledger') = Claims(ledger) /\ SM!Owed(ledger') = SM!Owed(ledger)
    BY <1>5 DEF Claims, SM!Owed
  <2>2. \A j \in 1..Len(frames) : EffectsOK(ledger', j, frames[j])
    BY <1>1, <1>5, EffectsBelow DEF Good
  <2> QED
    BY <1>1, <1>5, <2>1, <2>2 DEF Good
<1> QED
  BY <1>1, <1>2, <1>6, EnteredOK, Finishes

-----------------------------------------------------------------------------
(***************************************************************************)
(* The innermost bundle.                                                   *)
(***************************************************************************)

\* f and g are the same bundle at the same operation.
Twins(f, g) ==
    /\ f.kind = "bundle" /\ g.kind = "bundle"
    /\ g.saved = f.saved /\ g.ops = f.ops /\ g.infos = f.infos
    /\ g.done = f.done /\ g.collected = f.collected

HoldsBetween == {"paymaster", "compensate"}

LEMMA TwinsHold ==
    ASSUME NEW f, NEW g, Twins(f, g), f.pc \notin HoldsBetween, g.pc \notin HoldsBetween
    PROVE  /\ \A a : HeldBy(g, a) = HeldBy(f, a)
           /\ FeesOf(g) = FeesOf(f)
<1>1. f.pc # "paymaster" /\ g.pc # "paymaster" /\ f.pc # "compensate" /\ g.pc # "compensate"
  BY DEF HoldsBetween
<1>2. Charged(g) = Charged(f)
  BY <1>1 DEF Charged, Twins
<1> QED
  BY <1>1, <1>2, HeldBySum DEF Twins, FeesOf

LEMMA TwinsEffects ==
    ASSUME NEW f, NEW g, Twins(f, g), g.pc = f.pc, NEW l, NEW k, EffectsOK(l, k, f)
    PROVE  EffectsOK(l, k, g)
<1>1. InProgress(l, k, g) <=> InProgress(l, k, f)
  BY DEF Twins, InProgress
<1> QED
  BY <1>1 DEF Twins, EffectsOK

\* The bundle at depth k goes on, with the effects at its own depth changed.
LEMMA TwinTop ==
    ASSUME NEW k \in Nat, k # 0, NEW fs, NEW gs, NEW l, NEW m \in Ledger,
           Good(l, fs, k), WellFormed(fs, k), WellFormed(gs, k),
           \A j \in 1..(k - 1) : gs[j] = fs[j],
           Twins(fs[k], gs[k]), fs[k].pc \notin HoldsBetween, gs[k].pc \notin HoldsBetween,
           m.deposits = l.deposits, m.claim = l.claim, m.balance = l.balance,
           \A e : e.depth # k => (e \in m.effects <=> e \in l.effects),
           EffectsOK(m, k, gs[k])
    PROVE  Good(m, gs, k)
<1>1. \A a : HeldBy(gs[k], a) = HeldBy(fs[k], a)
  BY TwinsHold
<1>2. FeesOf(gs[k]) = FeesOf(fs[k])
  BY TwinsHold
<1>3. Claims(m) = Claims(l) /\ SM!Owed(m) = SM!Owed(l)
  BY DEF Claims, SM!Owed
<1>4. /\ \A a \in Address :
            m.claim[a] - SM!Owed(m)[a] - HeldBy(gs[k], a)
              = l.claim[a] - SM!Owed(l)[a] - HeldBy(fs[k], a)
      /\ m.balance - Claims(m) - FeesOf(gs[k]) = l.balance - Claims(l) - FeesOf(fs[k])
  BY <1>1, <1>2, <1>3
<1> QED
  BY <1>4, MoveTop

LEMMA Innermost ==
    ASSUME IInv, NEW pc, InBundle(pc)
    PROVE  LET n == Len(frames)
           IN  /\ frames # <<>> /\ frames \in Seq(Frame)
               /\ n \in Nat /\ n # 0 /\ n \in 1..n /\ n \in 1..MaxDepth
               /\ Bundle = frames[n] /\ Bundle.kind = "bundle" /\ Bundle.pc = pc
               /\ Bundle \in BundleFrame /\ FrameOK(Bundle)
               /\ WellFormed(frames, n)
               /\ Good(ledger, frames, n) /\ ledger \in Ledger
               /\ EffectsOK(ledger, n, Bundle)
               /\ pc \in InnerCalls => Good(Bundle.inner, Paused(frames, n), n)
<1> DEFINE n == Len(frames)
<1>1. frames # <<>> /\ Bundle = frames[n] /\ Bundle.kind = "bundle" /\ Bundle.pc = pc
  BY DEF InBundle, Bundle, SM!Innermost
<1>2. /\ StackOK(frames) /\ frames \in Seq(Frame) /\ WellFormed(frames, n)
      /\ Good(ledger, frames, n) /\ ledger \in Ledger
      /\ \A j \in 1..n : frames[j] \in Frame /\ FrameOK(frames[j])
  BY StackType DEF IInv, Good
<1>3. n \in Nat /\ n # 0 /\ n \in 1..n
  BY <1>1, <1>2
<1>4. n \in 1..MaxDepth
  BY <1>2, <1>3, Constants DEF StackOK
<1> HIDE DEF n
<1>5. Bundle \in BundleFrame /\ FrameOK(Bundle)
  BY <1>1, <1>2, <1>3, BundleType
<1>6. EffectsOK(ledger, n, Bundle)
  BY <1>1, <1>2, <1>3 DEF Good
<1>7. pc \in InnerCalls => Good(Bundle.inner, Paused(frames, n), n)
  BY <1>1, <1>2, <1>3 DEF StackOK, n
<1> QED
  BY <1>1, <1>2, <1>3, <1>4, <1>5, <1>6, <1>7 DEF n

\* The stack with another innermost bundle.
With(g) == [frames EXCEPT ![Len(frames)] = g]

LEMMA WithType ==
    ASSUME IInv, NEW pc, InBundle(pc), NEW g \in BundleFrame, FrameOK(g)
    PROVE  LET n == Len(frames)
           IN  /\ With(g)[n] = g
               /\ \A j \in 1..(n - 1) : With(g)[j] = frames[j]
               /\ WellFormed(With(g), n)
               /\ Paused(With(g), n)[n] = [g EXCEPT !.pc = "validate"]
               /\ \A j \in 1..(n - 1) : Paused(With(g), n)[j] = frames[j]
               /\ WellFormed(Paused(With(g), n), n)
               /\ With(Bundle) = frames
<1> DEFINE n == Len(frames)
           gs == With(g)
           paused == [g EXCEPT !.pc = "validate"]
<1>1. /\ frames \in Seq(Frame) /\ n \in Nat /\ n \in 1..n /\ WellFormed(frames, n)
      /\ Bundle = frames[n]
  BY Innermost
<1>2. gs[n] = g /\ DOMAIN gs = 1..n /\ \A j \in 1..(n - 1) : gs[j] = frames[j]
  BY <1>1 DEF With
<1>3. paused \in BundleFrame
  BY DEF BundleFrame
<1>4. FrameOK(paused)
  <2>1. /\ paused.kind = g.kind /\ paused.done = g.done /\ paused.infos = g.infos
        /\ paused.ops = g.ops /\ paused.pc = "validate"
    BY DEF BundleFrame
  <2> HIDE DEF paused
  <2> QED
    BY <2>1 DEF FrameOK, InnerCalls
<1> HIDE DEF gs, paused
<1>5. /\ Paused(gs, n)[n] = paused
      /\ \A j \in 1..(n - 1) : Paused(gs, n)[j] = frames[j]
  BY <1>1, <1>2 DEF Paused, paused
<1>6. \A j \in 1..n : j = n \/ j \in 1..(n - 1)
  BY <1>1
<1>7. WellFormed(gs, n)
  BY <1>1, <1>2, <1>6 DEF WellFormed, Frame
<1>8. WellFormed(Paused(gs, n), n)
  BY <1>1, <1>3, <1>4, <1>5, <1>6 DEF WellFormed, Frame
<1>9. With(Bundle) = frames
  BY <1>1 DEF With
<1> QED
  BY <1>2, <1>5, <1>7, <1>8, <1>9 DEF gs, paused

\* A step of the innermost bundle outside innerHandleOp.
LEMMA Moves ==
    ASSUME IInv, NEW pc, InBundle(pc), NEW m \in Ledger, NEW g \in BundleFrame, FrameOK(g),
           g.saved = Bundle.saved, Goto(m, g), g.pc \notin InnerCalls,
           \A a \in Address :
               m.claim[a] - SM!Owed(m)[a] - HeldBy(g, a)
                 = ledger.claim[a] - SM!Owed(ledger)[a] - HeldBy(Bundle, a),
           m.balance - Claims(m) - FeesOf(g) = ledger.balance - Claims(ledger) - FeesOf(Bundle),
           m.effects = ledger.effects,
           EffectsOK(m, Len(frames), g)
    PROVE  IInv'
<1> DEFINE n == Len(frames)
<1>1. /\ frames # <<>> /\ n \in Nat /\ n # 0 /\ Bundle = frames[n]
      /\ WellFormed(frames, n) /\ Good(ledger, frames, n)
  BY Innermost
<1>2. /\ With(g)[n] = g
      /\ \A j \in 1..(n - 1) : With(g)[j] = frames[j]
      /\ WellFormed(With(g), n)
  BY WithType
<1> HIDE DEF n
<1>3. EffectsOK(m, n, g)
  BY DEF n
<1>4. Good(m, With(g), n)
  BY <1>1, <1>2, <1>3, MoveTop
<1>5. g \in Frame
  BY DEF Frame
<1> QED
  BY <1>1, <1>4, <1>5, Goes DEF With, n

\* A step of the innermost bundle that leaves the books alone.
LEMMA Rests ==
    ASSUME IInv, NEW pc, InBundle(pc), NEW g \in BundleFrame, FrameOK(g),
           Goto(ledger, g), Twins(Bundle, g), g.pc \notin InnerCalls,
           pc \notin HoldsBetween, g.pc \notin HoldsBetween,
           EffectsOK(ledger, Len(frames), g)
    PROVE  IInv'
<1>1. ledger \in Ledger /\ Bundle.pc = pc
  BY Innermost
<1>2. \A a : HeldBy(g, a) = HeldBy(Bundle, a)
  BY <1>1, TwinsHold
<1>3. FeesOf(g) = FeesOf(Bundle) /\ g.saved = Bundle.saved
  BY <1>1, TwinsHold DEF Twins
<1> QED
  BY <1>1, <1>2, <1>3, Moves

\* A step of innerHandleOp and of what follows it, with m made from the ledger
\* or from the one that innerHandleOp was entered with.
LEMMA InnerMoves ==
    ASSUME IInv, NEW pc \in InnerCalls, InBundle(pc), NEW m \in Ledger,
           NEW g \in BundleFrame, FrameOK(g), Goto(m, g),
           Twins(Bundle, g), g.pc \in InnerCalls, g.inner = Bundle.inner,
           NEW l \in {ledger, Bundle.inner},
           m.deposits = l.deposits, m.claim = l.claim, m.balance = l.balance,
           \A e : e.depth # Len(frames) => (e \in m.effects <=> e \in l.effects),
           EffectsOK(m, Len(frames), g)
    PROVE  IInv'
<1> DEFINE n == Len(frames)
           gs == With(g)
           paused(f) == [f EXCEPT !.pc = "validate"]
<1>1. /\ frames # <<>> /\ n \in Nat /\ n # 0 /\ Bundle = frames[n]
      /\ WellFormed(frames, n) /\ Good(ledger, frames, n)
      /\ Bundle \in BundleFrame /\ FrameOK(Bundle) /\ Bundle.pc = pc
      /\ Good(Bundle.inner, Paused(frames, n), n)
  BY Innermost
<1>2. /\ gs[n] = g
      /\ \A j \in 1..(n - 1) : gs[j] = frames[j]
      /\ WellFormed(gs, n)
      /\ Paused(gs, n)[n] = paused(g)
      /\ \A j \in 1..(n - 1) : Paused(gs, n)[j] = frames[j]
      /\ WellFormed(Paused(gs, n), n)
  BY WithType
<1>3. /\ Paused(frames, n)[n] = paused(Bundle)
      /\ \A j \in 1..(n - 1) : Paused(frames, n)[j] = frames[j]
      /\ WellFormed(Paused(frames, n), n)
  <2>1. With(Bundle) = frames
    BY <1>1, WithType
  <2> QED
    BY <1>1, <2>1, WithType
<1>4. /\ Twins(paused(Bundle), g) /\ Twins(paused(Bundle), paused(g))
      /\ paused(Bundle).pc = "validate" /\ paused(g).pc = "validate"
  BY <1>1 DEF Twins, BundleFrame
<1>5. pc \notin HoldsBetween /\ g.pc \notin HoldsBetween /\ "validate" \notin HoldsBetween
  BY DEF HoldsBetween, InnerCalls
<1>6. EffectsOK(m, n, g)
  OBVIOUS
<1>7. \A e : e.depth # n => (e \in m.effects <=> e \in l.effects)
  OBVIOUS
<1>8. Bundle.inner \in Ledger /\ g \in Frame
  BY <1>1 DEF BundleFrame, Frame
<1>9. n \in 1..n
  BY <1>1
<1> HIDE DEF n, gs, paused
<1>10. Good(m, gs, n)
  <2>1. CASE l = ledger
    BY <1>1, <1>2, <1>5, <1>6, <1>7, <2>1, TwinTop
  <2>2. CASE l = Bundle.inner
    BY <1>1, <1>2, <1>3, <1>4, <1>5, <1>6, <1>7, <2>2, TwinTop
  <2> QED
    BY <2>1, <2>2
<1>11. Good(g.inner, Paused(gs, n), n)
  <2>1. EffectsOK(Bundle.inner, n, paused(Bundle))
    BY <1>1, <1>3, <1>9 DEF Good
  <2>2. EffectsOK(Bundle.inner, n, paused(g))
    BY <1>4, <2>1, TwinsEffects
  <2> QED
    BY <1>1, <1>2, <1>3, <1>4, <1>5, <1>8, <2>2, TwinTop
<1>12. g.saved = frames[n].saved
  BY <1>1 DEF Twins
<1> QED
  BY <1>1, <1>8, <1>10, <1>11, <1>12, Goes DEF With, n, gs

-----------------------------------------------------------------------------
(***************************************************************************)
(* The validation loop.                                                    *)
(***************************************************************************)

\* Outside innerHandleOp nothing stands of the operation in progress.
LEMMA FreshEffects ==
    ASSUME NEW f, NEW g, f.kind = "bundle", g.kind = "bundle", g.done = f.done,
           \A i \in 1..f.done : g.infos[i] = f.infos[i],
           f.pc \notin {"settle", "postOp"}, g.pc \notin {"settle", "postOp"},
           NEW l, NEW k, EffectsOK(l, k, f)
    PROVE  EffectsOK(l, k, g)
<1>1. f.pc # "settle" /\ f.pc # "postOp" /\ g.pc # "settle" /\ g.pc # "postOp"
  OBVIOUS
<1>2. InProgress(l, k, f)
  BY DEF EffectsOK
<1>3. InProgress(l, k, g)
  BY <1>1, <1>2 DEF InProgress
<1> QED
  BY <1>3 DEF EffectsOK

LEMMA ValidateKeeps ==
    ASSUME IInv, Validate
    PROVE  IInv'
<1>1. InBundle("validate")
  BY DEF Validate
<1>2. /\ frames # <<>> /\ Bundle \in BundleFrame /\ FrameOK(Bundle) /\ Bundle.pc = "validate"
      /\ EffectsOK(ledger, Len(frames), Bundle) /\ Bundle.kind = "bundle"
      /\ Bundle \in Frame
  BY <1>1, Innermost DEF Frame
<1>3. Len(Bundle.infos) \in Nat /\ Len(Bundle.ops) \in Nat
  BY <1>2, BundleType
<1>4. Len(Bundle.infos) < Len(Bundle.ops)
  BY <1>3 DEF Validate, Validating
<1>5. Revert \/ \E pc \in {"create", "account"} : Goto(ledger, [Bundle EXCEPT !.pc = pc])
  BY DEF Validate
<1>6. ASSUME NEW pc \in {"create", "account"}, Goto(ledger, [Bundle EXCEPT !.pc = pc])
      PROVE  IInv'
  <2> DEFINE g == [Bundle EXCEPT !.pc = pc]
  <2>1. /\ g \in BundleFrame /\ g.pc = pc /\ g.kind = "bundle" /\ g.saved = Bundle.saved
        /\ g.ops = Bundle.ops /\ g.infos = Bundle.infos /\ g.done = Bundle.done
        /\ g.collected = Bundle.collected
    BY <1>2 DEF BundleFrame, CallOuts
  <2>2. Goto(ledger, g)
    BY <1>6
  <2> HIDE DEF g
  <2>3. FrameOK(g)
    BY <1>2, <1>4, <2>1 DEF FrameOK, InnerCalls
  <2>4. Twins(Bundle, g)
    BY <1>2, <2>1 DEF Twins
  <2>5. EffectsOK(ledger, Len(frames), g)
    BY <1>2, <2>1, FreshEffects
  <2>6. g.pc \notin InnerCalls /\ g.pc \notin HoldsBetween /\ "validate" \notin HoldsBetween
    BY <2>1 DEF InnerCalls, HoldsBetween
  <2> QED
    BY <1>1, <2>1, <2>2, <2>3, <2>4, <2>5, <2>6, Rests
<1> QED
  BY <1>2, <1>5, <1>6, Reverts

LEMMA CreateSenderReturnsKeeps ==
    ASSUME IInv, NEW sender1, CreateSenderReturns(sender1)
    PROVE  IInv'
<1>1. InBundle("create")
  BY DEF CreateSenderReturns
<1>2. /\ frames # <<>> /\ Bundle \in BundleFrame /\ FrameOK(Bundle) /\ Bundle.pc = "create"
      /\ EffectsOK(ledger, Len(frames), Bundle) /\ Bundle.kind = "bundle"
  BY <1>1, Innermost
<1> DEFINE g == [Bundle EXCEPT !.pc = "account"]
<1>3. Revert \/ Goto(ledger, g)
  BY DEF CreateSenderReturns
<1>4. /\ g \in BundleFrame /\ g.pc = "account" /\ g.kind = "bundle" /\ g.saved = Bundle.saved
      /\ g.ops = Bundle.ops /\ g.infos = Bundle.infos /\ g.done = Bundle.done
      /\ g.collected = Bundle.collected
  BY <1>2 DEF BundleFrame, CallOuts
<1> HIDE DEF g
<1>5. FrameOK(g)
  BY <1>2, <1>4 DEF FrameOK, InnerCalls
<1>6. Twins(Bundle, g)
  BY <1>2, <1>4 DEF Twins
<1>7. EffectsOK(ledger, Len(frames), g)
  BY <1>2, <1>4, FreshEffects
<1>8. "account" \notin InnerCalls /\ "account" \notin HoldsBetween /\ "create" \notin HoldsBetween
  BY DEF InnerCalls, HoldsBetween
<1>9. CASE Goto(ledger, g)
  BY <1>1, <1>4, <1>5, <1>6, <1>7, <1>8, <1>9, Rests
<1> QED
  BY <1>2, <1>3, <1>9, Reverts

\* One more operation was charged for.
LEMMA Charges ==
    ASSUME NEW f \in Frame, NEW g \in Frame, f.kind = "bundle", g.kind = "bundle",
           FrameOK(f), FrameOK(g), g.ops = f.ops, g.done = f.done,
           Charged(g) = Charged(f) + 1, NEW a
    PROVE  HeldBy(g, a) = HeldBy(f, a) + Prefunds(f.ops, a)[Charged(g)]
<1> DEFINE S == f.done + 1 .. Charged(f)
           n == Charged(g)
           p == Prefunds(f.ops, a)
<1>1. /\ Charged(f) \in Nat /\ f.done \in Nat /\ f.done <= Charged(f) /\ IsFiniteSet(S)
      /\ S \subseteq 1..Len(f.ops)
  BY ChargedBound, BundleType
<1>2. n \in 1..Len(f.ops)
  <2>1. n \in Nat /\ n <= Len(g.ops)
    BY ChargedBound
  <2> QED
    BY <1>1, <2>1
<1>3. f.done + 1 .. n = S \cup {n} /\ n \notin S
  BY <1>1
<1>4. \A i \in S \cup {n} : p[i] \in Int
  <2>1. f.ops \in Seq(Entry)
    BY BundleType
  <2>2. \A i \in 1..Len(f.ops) : p[i] \in Nat
    BY <2>1, PrefundType
  <2> QED
    BY <1>1, <1>2, <2>2
<1>5. HeldBy(f, a) = SumFunctionOnSet(p, S)
  BY HeldBySum
<1>6. HeldBy(g, a) = SumFunctionOnSet(p, S \cup {n})
  <2>1. HeldBy(g, a) = SumFunctionOnSet(p, f.done + 1 .. n)
    BY HeldBySum
  <2> QED
    BY <1>3, <2>1
<1> HIDE DEF S, n, p
<1>7. SumFunctionOnSet(p, S \cup {n}) = p[n] + SumFunctionOnSet(p, S)
  BY <1>1, <1>3, <1>4, SumAdd
<1>8. SumFunctionOnSet(p, S) \in Int /\ p[n] \in Int
  BY <1>1, <1>4, SumInt
<1>9. HeldBy(g, a) = HeldBy(f, a) + p[n]
  BY <1>5, <1>6, <1>7, <1>8
<1> QED
  BY <1>9 DEF p, n

\* As many were charged for.
LEMMA ChargesNothing ==
    ASSUME NEW f, NEW g, f.kind = "bundle", g.kind = "bundle",
           g.ops = f.ops, g.done = f.done, Charged(g) = Charged(f), NEW a
    PROVE  HeldBy(g, a) = HeldBy(f, a)
BY HeldBySum

LEMMA ChargedLedger ==
    ASSUME NEW l \in Ledger, NEW a \in Address, NEW amount \in Nat,
           amount <= l.deposits[a].deposit
    PROVE  LET m == DecrementDeposit(l, a, amount)
           IN  /\ m \in Ledger
               /\ m.claim = l.claim /\ m.balance = l.balance /\ m.effects = l.effects
               /\ m.deployed = l.deployed
               /\ \A b \in Address :
                     SM!Owed(m)[b] = SM!Owed(l)[b] - (IF b = a THEN amount ELSE 0)
<1> DEFINE info == [l.deposits[a] EXCEPT !.deposit = @ - amount]
           D == [l.deposits EXCEPT ![a] = info]
           m == [l EXCEPT !.deposits = D]
<1>1. l.deposits \in [Address -> SM!DepositInfo] /\ l.deposits[a] \in SM!DepositInfo
  BY DEF Ledger
<1>2. /\ info \in SM!DepositInfo /\ info.stake = l.deposits[a].stake
      /\ info.deposit = l.deposits[a].deposit - amount
      /\ l.deposits[a].deposit \in Nat /\ l.deposits[a].stake \in Nat
  BY <1>1, Constants DEF SM!DepositInfo
<1> HIDE DEF info
<1>3. D \in [Address -> SM!DepositInfo] /\ D[a] = info /\ \A b \in Address \ {a} : D[b] = l.deposits[b]
  BY <1>1, <1>2
<1>4. DecrementDeposit(l, a, amount) = m
  BY DEF DecrementDeposit, info, Ledger
<1> HIDE DEF D
<1>5. /\ m \in Ledger /\ m.deposits = D
      /\ m.claim = l.claim /\ m.balance = l.balance /\ m.effects = l.effects
      /\ m.deployed = l.deployed
  BY <1>3 DEF Ledger
<1> HIDE DEF m
<1>6. ASSUME NEW b \in Address
      PROVE  SM!Owed(m)[b] = SM!Owed(l)[b] - (IF b = a THEN amount ELSE 0)
  <2>1. SM!Owed(m)[b] = D[b].deposit + D[b].stake
    BY <1>5, LedgerType
  <2>2. SM!Owed(l)[b] = l.deposits[b].deposit + l.deposits[b].stake /\ SM!Owed(l)[b] \in Nat
    BY LedgerType
  <2>3. CASE b = a
    BY <1>2, <1>3, <2>1, <2>2, <2>3
  <2>4. CASE b # a
    BY <1>3, <2>1, <2>2, <2>4
  <2> QED
    BY <2>3, <2>4
<1> QED
  BY <1>4, <1>5, <1>6

\* The bundle while it validates an operation: nothing is settled yet.
LEMMA ValidatingBundle ==
    ASSUME IInv, NEW pc \in {"account", "paymaster"}, InBundle(pc)
    PROVE  /\ frames # <<>> /\ Bundle \in BundleFrame /\ Bundle \in Frame /\ FrameOK(Bundle)
           /\ Bundle.pc = pc /\ Bundle.kind = "bundle"
           /\ EffectsOK(ledger, Len(frames), Bundle) /\ ledger \in Ledger
           /\ Bundle.ops \in Seq(Entry) /\ Bundle.infos \in Seq(OpInfo)
           /\ Bundle.done = 0 /\ Validating \in 1..Len(Bundle.ops)
           /\ Validating = Len(Bundle.infos) + 1
           /\ Len(Bundle.infos) \in Nat /\ Len(Bundle.ops) \in Nat
           /\ Bundle.ops[Validating].op \in UserOperation
           /\ RequiredPrefund(Bundle.ops[Validating].op) \in Nat
           /\ Payer(Bundle.ops[Validating].op) \in Address
           /\ Charged(Bundle) = Len(Bundle.infos) + (IF pc = "paymaster" THEN 1 ELSE 0)
<1>1. /\ frames # <<>> /\ Bundle \in BundleFrame /\ FrameOK(Bundle) /\ Bundle.pc = pc
      /\ EffectsOK(ledger, Len(frames), Bundle) /\ Bundle.kind = "bundle" /\ ledger \in Ledger
      /\ Bundle \in Frame
  BY Innermost DEF Frame
<1>2. /\ Bundle.ops \in Seq(Entry) /\ Bundle.infos \in Seq(OpInfo) /\ Bundle.done \in Nat
      /\ Len(Bundle.infos) \in Nat /\ Len(Bundle.ops) \in Nat
  BY <1>1, BundleType
<1>3. Len(Bundle.infos) < Len(Bundle.ops)
  BY <1>1 DEF FrameOK
<1>4. Bundle.done = 0
  BY <1>1, <1>2, <1>3 DEF FrameOK
<1>5. Validating \in 1..Len(Bundle.ops) /\ Validating = Len(Bundle.infos) + 1
  BY <1>2, <1>3 DEF Validating
<1>6. /\ Bundle.ops[Validating].op \in UserOperation
      /\ RequiredPrefund(Bundle.ops[Validating].op) \in Nat
      /\ Payer(Bundle.ops[Validating].op) \in Address
  BY <1>2, <1>5, EntryType
<1>7. Charged(Bundle) = Len(Bundle.infos) + (IF pc = "paymaster" THEN 1 ELSE 0)
  BY <1>1 DEF Charged
<1> QED
  BY <1>1, <1>2, <1>3, <1>4, <1>5, <1>6, <1>7

\* What the operation that is being validated costs a.
Charge(a) == Prefunds(Bundle.ops, a)[Validating]

\* A step of the validation of one operation, with m made from the ledger.
LEMMA ValidationMoves ==
    ASSUME IInv, NEW pc \in {"account", "paymaster"}, InBundle(pc), NEW m \in Ledger,
           NEW g \in BundleFrame, FrameOK(g), Goto(m, g), g.kind = "bundle",
           g.saved = Bundle.saved, g.ops = Bundle.ops, g.done = 0,
           g.collected = Bundle.collected, g.pc \in {"validate", "paymaster"},
           Charged(g) = Len(Bundle.infos) + 1,
           m.claim = ledger.claim, m.balance = ledger.balance, m.effects = ledger.effects,
           \A a \in Address :
               SM!Owed(m)[a] = SM!Owed(ledger)[a] - (IF pc = "account" THEN Charge(a) ELSE 0)
    PROVE  IInv'
<1>1. /\ Bundle \in Frame /\ FrameOK(Bundle) /\ Bundle.pc = pc /\ Bundle.kind = "bundle"
      /\ EffectsOK(ledger, Len(frames), Bundle) /\ ledger \in Ledger
      /\ Bundle.ops \in Seq(Entry) /\ Bundle.done = 0 /\ Validating \in 1..Len(Bundle.ops)
      /\ Validating = Len(Bundle.infos) + 1 /\ Len(Bundle.infos) \in Nat
      /\ Charged(Bundle) = Len(Bundle.infos) + (IF pc = "paymaster" THEN 1 ELSE 0)
  BY ValidatingBundle
<1>2. g \in Frame /\ Charged(g) = Validating
  BY <1>1 DEF Frame
<1>3. ASSUME NEW a \in Address
      PROVE  HeldBy(g, a) = HeldBy(Bundle, a) + (IF pc = "account" THEN Charge(a) ELSE 0)
  <2>1. CASE pc = "account"
    <3>1. Charged(g) = Charged(Bundle) + 1
      BY <1>1, <2>1
    <3> QED
      BY <1>1, <1>2, <2>1, <3>1, Charges DEF Charge
  <2>2. CASE pc = "paymaster"
    <3>1. Charged(g) = Charged(Bundle)
      BY <1>1, <2>2
    <3>2. HeldBy(g, a) = HeldBy(Bundle, a)
      BY <1>1, <3>1, ChargesNothing
    <3>3. HeldBy(Bundle, a) \in Nat
      BY <1>1, HeldByType
    <3> QED
      BY <2>2, <3>2, <3>3
  <2> QED
    BY <2>1, <2>2
<1>4. ASSUME NEW a \in Address
      PROVE  m.claim[a] - SM!Owed(m)[a] - HeldBy(g, a)
               = ledger.claim[a] - SM!Owed(ledger)[a] - HeldBy(Bundle, a)
  <2>1. Charge(a) \in Nat
    BY <1>1, PrefundType DEF Charge
  <2>2. HeldBy(Bundle, a) \in Nat
    BY <1>1, HeldByType
  <2>3. ledger.claim[a] \in Nat /\ SM!Owed(ledger)[a] \in Nat
    BY <1>1, LedgerType
  <2>4. SM!Owed(m)[a] = SM!Owed(ledger)[a] - (IF pc = "account" THEN Charge(a) ELSE 0)
    OBVIOUS
  <2>5. HeldBy(g, a) = HeldBy(Bundle, a) + (IF pc = "account" THEN Charge(a) ELSE 0)
    BY <1>3
  <2>6. m.claim[a] = ledger.claim[a]
    OBVIOUS
  <2>7. CASE pc = "account"
    BY <2>1, <2>2, <2>3, <2>4, <2>5, <2>6, <2>7
  <2>8. CASE pc = "paymaster"
    BY <2>1, <2>2, <2>3, <2>4, <2>5, <2>6, <2>8
  <2> QED
    BY <2>7, <2>8
<1>5. m.balance - Claims(m) - FeesOf(g) = ledger.balance - Claims(ledger) - FeesOf(Bundle)
  <2>1. Claims(m) = Claims(ledger)
    BY DEF Claims
  <2>2. FeesOf(g) = FeesOf(Bundle)
    BY <1>1 DEF FeesOf
  <2> QED
    BY <2>1, <2>2
<1>6. EffectsOK(m, Len(frames), g)
  <2>1. EffectsOK(ledger, Len(frames), g)
    <3>1. \A i \in 1..Bundle.done : g.infos[i] = Bundle.infos[i]
      BY <1>1
    <3>2. g.done = Bundle.done
      BY <1>1
    <3>3. Bundle.pc \notin {"settle", "postOp"} /\ g.pc \notin {"settle", "postOp"}
      BY <1>1
    <3> QED
      BY <1>1, <3>1, <3>2, <3>3, FreshEffects
  <2> QED
    BY <2>1, EffectsBelow
<1>7. g.pc \notin InnerCalls
  BY DEF InnerCalls
<1> QED
  BY <1>4, <1>5, <1>6, <1>7, Moves

\* The end of the validation of one operation.
LEMMA FinishValidationKeeps ==
    ASSUME IInv, NEW pc \in {"account", "paymaster"}, InBundle(pc), NEW m \in Ledger,
           NEW accountData, NEW paymasterData, NEW context \in BOOLEAN, NEW gas \in Nat,
           FinishValidation(m, accountData, paymasterData, context, gas),
           m.claim = ledger.claim, m.balance = ledger.balance, m.effects = ledger.effects,
           \A a \in Address :
               SM!Owed(m)[a] = SM!Owed(ledger)[a] - (IF pc = "account" THEN Charge(a) ELSE 0)
    PROVE  IInv'
<1> DEFINE op == Bundle.ops[Validating].op
           info == [prefund |-> RequiredPrefund(op), context |-> context,
                    preOpGas |-> gas + op.preVerificationGas]
           g == [Bundle EXCEPT !.pc = "validate", !.infos = Append(@, info),
                               !.accountData = Valid, !.gas = 0]
<1>1. /\ frames # <<>> /\ Bundle \in BundleFrame /\ FrameOK(Bundle) /\ Bundle.kind = "bundle"
      /\ Bundle.ops \in Seq(Entry) /\ Bundle.infos \in Seq(OpInfo)
      /\ Bundle.done = 0 /\ Validating \in 1..Len(Bundle.ops)
      /\ Validating = Len(Bundle.infos) + 1 /\ Len(Bundle.infos) \in Nat
      /\ Len(Bundle.ops) \in Nat
      /\ op \in UserOperation /\ RequiredPrefund(op) \in Nat
  BY ValidatingBundle
<1>2. Revert \/ Goto(m, g)
  BY DEF FinishValidation
<1>3. info \in OpInfo /\ info.prefund = RequiredPrefund(op)
  <2>1. op.preVerificationGas \in Nat
    BY <1>1 DEF UserOperation
  <2>2. gas + op.preVerificationGas \in Nat
    BY <2>1
  <2> HIDE DEF op
  <2> QED
    BY <1>1, <2>2 DEF OpInfo
<1> DEFINE infos == Append(Bundle.infos, info)
<1> HIDE DEF info, op
<1>4. /\ infos \in Seq(OpInfo) /\ Len(infos) = Validating /\ infos[Validating] = info
      /\ \A i \in 1..Len(Bundle.infos) : infos[i] = Bundle.infos[i]
  BY <1>1, <1>3
<1>5. g = [Bundle EXCEPT !.pc = "validate", !.infos = infos, !.accountData = Valid, !.gas = 0]
  BY <1>1 DEF BundleFrame
<1> HIDE DEF infos, g
<1>6. Valid \in ValidationResult
  BY Constants DEF Valid, ValidationResult, Aggregator
<1>7. /\ g \in BundleFrame /\ g.pc = "validate" /\ g.kind = "bundle" /\ g.saved = Bundle.saved
      /\ g.ops = Bundle.ops /\ g.infos = infos /\ g.done = 0
      /\ g.collected = Bundle.collected
  BY <1>1, <1>4, <1>5, <1>6 DEF BundleFrame
<1>8. FrameOK(g)
  <2>1. \A i \in 1..Len(infos) : infos[i].prefund = RequiredPrefund(Bundle.ops[i].op)
    <3> TAKE i \in 1..Len(infos)
    <3>1. CASE i = Validating
      BY <1>3, <1>4, <3>1 DEF op
    <3>2. CASE i # Validating
      <4>1. i \in 1..Len(Bundle.infos)
        BY <1>1, <1>4, <3>2
      <4> QED
        BY <1>1, <1>4, <4>1 DEF FrameOK
    <3> QED
      BY <3>1, <3>2
  <2>2. "validate" \notin InnerCalls
    BY DEF InnerCalls
  <2> QED
    BY <1>1, <1>4, <1>7, <2>1, <2>2 DEF FrameOK
<1>9. Charged(g) = Len(Bundle.infos) + 1
  BY <1>1, <1>4, <1>7 DEF Charged
<1>10. CASE Goto(m, g)
  BY <1>7, <1>8, <1>9, <1>10, ValidationMoves
<1> QED
  BY <1>1, <1>2, <1>10, Reverts

LEMMA AccountReturnsKeeps ==
    ASSUME IInv, NEW data \in Verdicts, NEW gas \in GasUse, AccountReturns(data, gas)
    PROVE  IInv'
<1> DEFINE op == Bundle.ops[Validating].op
           prefund == RequiredPrefund(op)
           charged == DecrementDeposit(ledger, Payer(op), prefund)
           g == [Bundle EXCEPT !.pc = "paymaster", !.accountData = data, !.gas = gas]
<1>1. InBundle("account")
  BY DEF AccountReturns
<1>2. /\ frames # <<>> /\ Bundle \in BundleFrame /\ FrameOK(Bundle) /\ Bundle.kind = "bundle"
      /\ Bundle.ops \in Seq(Entry) /\ Bundle.infos \in Seq(OpInfo)
      /\ Bundle.done = 0 /\ Validating \in 1..Len(Bundle.ops) /\ Len(Bundle.ops) \in Nat
      /\ Validating = Len(Bundle.infos) + 1 /\ Len(Bundle.infos) \in Nat
      /\ prefund \in Nat /\ Payer(op) \in Address /\ ledger \in Ledger
  BY <1>1, ValidatingBundle
<1>3. gas \in Nat /\ data \in ValidationResult
  BY EntryPointConstants DEF ValidationResult, Aggregator
<1>4. \/ Revert
      \/ /\ prefund <= ledger.deposits[Payer(op)].deposit
         /\ \/ FinishValidation(charged, data, Valid, FALSE, gas)
            \/ Goto(charged, g)
  BY DEF AccountReturns
<1>5. ASSUME prefund <= ledger.deposits[Payer(op)].deposit
      PROVE  /\ charged \in Ledger
             /\ charged.claim = ledger.claim /\ charged.balance = ledger.balance
             /\ charged.effects = ledger.effects
             /\ \A a \in Address : SM!Owed(charged)[a] = SM!Owed(ledger)[a] - Charge(a)
  <2> DEFINE payer == Payer(op)
  <2>1. \A a : Charge(a) = IF a = payer THEN prefund ELSE 0
    BY <1>2, PrefundType DEF Charge
  <2> HIDE DEF prefund, payer
  <2>2. /\ charged \in Ledger
        /\ charged.claim = ledger.claim /\ charged.balance = ledger.balance
        /\ charged.effects = ledger.effects
        /\ \A a \in Address :
              SM!Owed(charged)[a] = SM!Owed(ledger)[a] - (IF a = payer THEN prefund ELSE 0)
    BY <1>2, <1>5, ChargedLedger DEF payer
  <2> QED
    BY <2>1, <2>2
<1> HIDE DEF charged, prefund
<1>6. ASSUME prefund <= ledger.deposits[Payer(op)].deposit, Goto(charged, g)
      PROVE  IInv'
  <2>1. /\ g \in BundleFrame /\ g.pc = "paymaster" /\ g.kind = "bundle" /\ g.saved = Bundle.saved
        /\ g.ops = Bundle.ops /\ g.infos = Bundle.infos /\ g.done = 0
        /\ g.collected = Bundle.collected
    BY <1>2, <1>3 DEF BundleFrame, CallOuts
  <2>2. Goto(charged, g)
    BY <1>6
  <2> HIDE DEF g, op
  <2>3. FrameOK(g)
    BY <1>2, <2>1 DEF FrameOK, InnerCalls
  <2>4. Charged(g) = Len(Bundle.infos) + 1
    BY <2>1 DEF Charged
  <2> QED
    BY <1>1, <1>5, <1>6, <2>1, <2>2, <2>3, <2>4, ValidationMoves
<1>7. ASSUME prefund <= ledger.deposits[Payer(op)].deposit,
             FinishValidation(charged, data, Valid, FALSE, gas)
      PROVE  IInv'
  <2> HIDE DEF op, g
  <2> QED
    BY <1>1, <1>3, <1>5, <1>7, FinishValidationKeeps
<1> QED
  BY <1>2, <1>4, <1>6, <1>7, Reverts

LEMMA PaymasterReturnsKeeps ==
    ASSUME IInv, NEW context \in BOOLEAN, NEW data, NEW gas \in GasUse,
           PaymasterReturns(context, data, gas)
    PROVE  IInv'
<1>1. InBundle("paymaster")
  BY DEF PaymasterReturns
<1>2. Bundle \in Frame /\ Bundle.kind = "bundle" /\ ledger \in Ledger
  BY <1>1, ValidatingBundle
<1>3. Bundle.gas + gas \in Nat
  <2>1. Bundle.gas \in Nat /\ gas \in Nat
    BY <1>2, BundleType, EntryPointConstants
  <2> QED
    BY <2>1
<1>4. FinishValidation(ledger, Bundle.accountData, data, context, Bundle.gas + gas)
  BY DEF PaymasterReturns
<1>5. \A a \in Address : SM!Owed(ledger)[a] = SM!Owed(ledger)[a] - 0
  BY <1>2, LedgerType
<1> QED
  BY <1>1, <1>2, <1>3, <1>4, <1>5, FinishValidationKeeps

LEMMA ValidationFailsKeeps ==
    ASSUME IInv, ValidationFails
    PROVE  IInv'
<1>1. frames # <<>> /\ Revert
  BY DEF ValidationFails, InBundle
<1> QED
  BY <1>1, Reverts

-----------------------------------------------------------------------------
(***************************************************************************)
(* The execution loop.                                                     *)
(***************************************************************************)

\* Every operation is validated, and one is still to be settled.
ExecutingOK ==
    /\ Len(Bundle.infos) = Len(Bundle.ops)
    /\ Executing \in 1..Len(Bundle.ops)

LEMMA ExecutingBundle ==
    ASSUME IInv, NEW pc \in InnerCalls \cup {"validate"}, InBundle(pc),
           pc = "validate" => ExecutingOK
    PROVE  LET op == Bundle.ops[Executing].op
               info == Bundle.infos[Executing]
           IN  /\ ExecutingOK
               /\ Executing \in Nat /\ Executing = Bundle.done + 1 /\ Bundle.done \in Nat
               /\ op \in UserOperation /\ info \in OpInfo
               /\ info.prefund = RequiredPrefund(op) /\ info.context \in BOOLEAN
               /\ RequiredPrefund(op) \in Nat /\ UserOpGasPrice(op) \in Nat
               /\ Payer(op) \in Address
               /\ Bundle.gas \in Nat /\ Bundle.collected \in Nat
               /\ Bundle.ops \in Seq(Entry) /\ Bundle.infos \in Seq(OpInfo)
               /\ Len(Bundle.ops) \in Nat
<1>1. Bundle \in Frame /\ FrameOK(Bundle) /\ Bundle.pc = pc /\ Bundle.kind = "bundle"
  BY Innermost DEF Frame
<1>2. /\ Bundle.ops \in Seq(Entry) /\ Bundle.infos \in Seq(OpInfo) /\ Bundle.done \in Nat
      /\ Len(Bundle.ops) \in Nat /\ Bundle.gas \in Nat /\ Bundle.collected \in Nat
  BY <1>1, BundleType
<1>3. ExecutingOK
  <2>1. CASE pc = "validate"
    BY <2>1
  <2>2. CASE pc \in InnerCalls
    <3>1. Len(Bundle.infos) = Len(Bundle.ops) /\ Bundle.done < Len(Bundle.ops)
      BY <1>1, <2>2 DEF FrameOK
    <3> QED
      BY <1>2, <3>1 DEF ExecutingOK, Executing
  <2> QED
    BY <2>1, <2>2
<1>4. /\ Executing \in 1..Len(Bundle.ops) /\ Executing \in 1..Len(Bundle.infos)
      /\ Executing \in Nat /\ Executing = Bundle.done + 1
  BY <1>2, <1>3 DEF ExecutingOK, Executing
<1>5. Bundle.infos[Executing] \in OpInfo
  BY <1>2, <1>4
<1>6. Bundle.infos[Executing].context \in BOOLEAN
  BY <1>5 DEF OpInfo
<1>7. Bundle.infos[Executing].prefund = RequiredPrefund(Bundle.ops[Executing].op)
  BY <1>1, <1>4 DEF FrameOK
<1>8. /\ Bundle.ops[Executing].op \in UserOperation
      /\ RequiredPrefund(Bundle.ops[Executing].op) \in Nat
      /\ Payer(Bundle.ops[Executing].op) \in Address
      /\ UserOpGasPrice(Bundle.ops[Executing].op) \in Nat
  BY <1>2, <1>4, EntryType, OperationType
<1> QED
  BY <1>2, <1>3, <1>4, <1>5, <1>6, <1>7, <1>8

\* What follows the operation's call: postOp if the paymaster asked for it.
LEMMA NextCall ==
    ASSUME NEW l, NEW k, NEW g, g.kind = "bundle",
           g.pc \in {"call", "postOp", "postOpReverted", "settle"},
           \A what \in CallOuts : what # "call" => ~Stands(l, k, g.done + 1, what),
           g.pc \in {"call", "postOpReverted"} => ~Stands(l, k, g.done + 1, "call"),
           g.pc = "settle" => ~g.infos[g.done + 1].context
    PROVE  InProgress(l, k, g)
<1> DEFINE i == g.done + 1
<1>1. ~Stands(l, k, i, "postOp") /\ ~Stands(l, k, i, "postOpReverted")
  BY DEF CallOuts
<1>2. CASE g.pc = "settle"
  <2>1. Honoured(l, k, i, g.infos[i].context)
    BY <1>1, <1>2 DEF Honoured
  <2> QED
    BY <1>2, <2>1 DEF InProgress
<1>3. CASE g.pc = "postOp"
  BY <1>1, <1>3 DEF InProgress
<1>4. CASE g.pc \in {"call", "postOpReverted"}
  <2>1. \A what \in CallOuts : ~Stands(l, k, i, what)
    BY <1>4
  <2>2. g.pc # "settle" /\ g.pc # "postOp"
    BY <1>4
  <2> QED
    BY <2>1, <2>2 DEF InProgress
<1> QED
  BY <1>2, <1>3, <1>4

\* From a ledger in which nothing stands of the operation.
LEMMA FromFresh ==
    ASSUME NEW l, NEW k, NEW f, NEW g, Twins(f, g), EffectsOK(l, k, f), f.pc = "validate",
           g.pc \in {"call", "postOp", "postOpReverted", "settle"},
           g.pc = "settle" => ~g.infos[g.done + 1].context
    PROVE  EffectsOK(l, k, g)
<1>1. f.pc # "settle" /\ f.pc # "postOp" /\ g.done = f.done /\ g.infos = f.infos
      /\ f.kind = "bundle" /\ g.kind = "bundle"
  BY DEF Twins
<1>2. InProgress(l, k, f)
  BY <1>1 DEF EffectsOK
<1>3. \A what \in CallOuts : ~Stands(l, k, g.done + 1, what)
  BY <1>1, <1>2 DEF InProgress
<1>4. "call" \in CallOuts
  BY DEF CallOuts
<1>5. InProgress(l, k, g)
  BY <1>1, <1>3, <1>4, NextCall
<1> QED
  BY <1>1, <1>5 DEF EffectsOK

LEMMA ExecuteKeeps ==
    ASSUME IInv, Execute
    PROVE  IInv'
<1> DEFINE n == Len(frames)
           info == Bundle.infos[Executing]
           pc == IF Bundle.ops[Executing].op.callData THEN "call"
                 ELSE IF info.context THEN "postOp" ELSE "settle"
           g == [[Bundle EXCEPT !.inner = ledger, !.gas = info.preOpGas] EXCEPT !.pc = pc]
<1>1. InBundle("validate") /\ Goto(ledger, g)
  BY DEF Execute
<1>2. /\ frames # <<>> /\ n \in Nat /\ n # 0 /\ n \in 1..n /\ Bundle = frames[n]
      /\ Bundle \in BundleFrame /\ FrameOK(Bundle) /\ Bundle.pc = "validate"
      /\ Bundle.kind = "bundle" /\ WellFormed(frames, n) /\ Good(ledger, frames, n)
      /\ ledger \in Ledger /\ EffectsOK(ledger, n, Bundle) /\ Bundle \in Frame
  BY <1>1, Innermost DEF Frame
<1>3. ExecutingOK
  <2>1. /\ Len(Bundle.infos) \in Nat /\ Len(Bundle.ops) \in Nat /\ Bundle.done \in Nat
        /\ Len(Bundle.infos) <= Len(Bundle.ops)
    BY <1>2, BundleType DEF FrameOK
  <2>2. Len(Bundle.infos) + 1 > Len(Bundle.ops) /\ Bundle.done + 1 <= Len(Bundle.ops)
    BY DEF Execute, Validating, Executing
  <2> QED
    BY <2>1, <2>2 DEF ExecutingOK, Executing
<1>4. info \in OpInfo /\ Executing = Bundle.done + 1 /\ Bundle.done \in Nat /\ Len(Bundle.ops) \in Nat
  BY <1>1, <1>3, ExecutingBundle
<1>5. info.preOpGas \in Nat
  BY <1>4 DEF OpInfo
<1>6. pc \in {"call", "postOp", "settle"} /\ (pc = "postOp" => info.context)
      /\ (pc = "settle" => ~info.context)
  OBVIOUS
<1> HIDE DEF pc
<1>7. /\ g \in BundleFrame /\ g.pc = pc /\ g.kind = "bundle" /\ g.saved = Bundle.saved
      /\ g.ops = Bundle.ops /\ g.infos = Bundle.infos /\ g.done = Bundle.done
      /\ g.collected = Bundle.collected /\ g.inner = ledger
  BY <1>2, <1>5, <1>6 DEF BundleFrame, CallOuts
<1> HIDE DEF g
<1>8. FrameOK(g)
  <2>1. Len(Bundle.infos) = Len(Bundle.ops) /\ Bundle.done < Len(Bundle.ops)
    BY <1>3, <1>4 DEF ExecutingOK
  <2>2. g.pc \notin {"create", "account", "paymaster"} /\ g.pc # "compensate"
    BY <1>6, <1>7
  <2>3. g.pc \in {"postOp", "postOpReverted"} => g.infos[g.done + 1].context
    BY <1>4, <1>6, <1>7
  <2> QED
    BY <1>2, <1>7, <2>1, <2>2, <2>3 DEF FrameOK
<1>9. Twins(Bundle, g)
  BY <1>2, <1>7 DEF Twins
<1>10. Bundle.pc \notin HoldsBetween /\ g.pc \notin HoldsBetween /\ "validate" \notin HoldsBetween
  BY <1>2, <1>6, <1>7 DEF HoldsBetween
<1>11. /\ With(g)[n] = g
       /\ \A j \in 1..(n - 1) : With(g)[j] = frames[j]
       /\ WellFormed(With(g), n)
       /\ Paused(With(g), n)[n] = [g EXCEPT !.pc = "validate"]
       /\ \A j \in 1..(n - 1) : Paused(With(g), n)[j] = frames[j]
       /\ WellFormed(Paused(With(g), n), n)
  BY <1>1, <1>7, <1>8, WithType
<1>12. EffectsOK(ledger, n, g)
  <2>1. g.pc = "settle" => ~g.infos[g.done + 1].context
    BY <1>4, <1>6, <1>7
  <2>2. g.pc \in {"call", "postOp", "postOpReverted", "settle"}
    BY <1>6, <1>7
  <2> QED
    BY <1>2, <1>9, <2>1, <2>2, FromFresh
<1> HIDE DEF n
<1>13. Good(ledger, With(g), n)
  BY <1>2, <1>9, <1>10, <1>11, <1>12, TwinTop
<1>14. Good(ledger, Paused(With(g), n), n)
  <2> DEFINE paused == [g EXCEPT !.pc = "validate"]
  <2>1. Twins(Bundle, paused) /\ paused.pc = "validate"
    BY <1>2, <1>7 DEF Twins, BundleFrame
  <2> HIDE DEF paused
  <2>2. EffectsOK(ledger, n, paused)
    BY <1>2, <2>1, TwinsEffects
  <2>3. Paused(With(g), n)[n] = paused
    BY <1>11 DEF paused
  <2> QED
    BY <1>2, <1>10, <1>11, <2>1, <2>2, <2>3, TwinTop
<1>15. g \in Frame /\ g.saved = frames[n].saved
  BY <1>2, <1>7 DEF Frame
<1> QED
  BY <1>1, <1>2, <1>7, <1>8, <1>13, <1>14, <1>15, Goes DEF With, n

LEMMA OutOfGasKeeps ==
    ASSUME IInv, OutOfGas
    PROVE  IInv'
<1>1. frames # <<>> /\ Revert
  BY DEF OutOfGas, InBundle
<1> QED
  BY <1>1, Reverts

\* The ledger that innerHandleOp was entered with, for a bundle that goes on.
LEMMA InnerFresh ==
    ASSUME IInv, NEW pc \in InnerCalls, InBundle(pc), NEW g, Twins(Bundle, g),
           g.pc \in {"postOp", "postOpReverted", "settle"},
           g.pc = "settle" => ~g.infos[g.done + 1].context
    PROVE  EffectsOK(Bundle.inner, Len(frames), g)
<1> DEFINE n == Len(frames)
           paused == [Bundle EXCEPT !.pc = "validate"]
<1>1. /\ Bundle \in BundleFrame /\ FrameOK(Bundle) /\ n \in 1..n
      /\ Good(Bundle.inner, Paused(frames, n), n)
  BY Innermost
<1>2. Paused(frames, n)[n] = paused
  <2>1. With(Bundle) = frames
    BY <1>1, WithType
  <2> QED
    BY <1>1, <2>1, WithType
<1>3. EffectsOK(Bundle.inner, n, paused)
  BY <1>1, <1>2 DEF Good
<1>4. Twins(paused, g) /\ paused.pc = "validate"
  BY <1>1 DEF Twins, BundleFrame
<1> HIDE DEF paused
<1> QED
  BY <1>3, <1>4, FromFresh

LEMMA InnerRevertsKeeps ==
    ASSUME IInv, NEW pc \in InnerCalls, InBundle(pc), NEW gas \in Nat, InnerReverts(gas)
    PROVE  IInv'
<1> DEFINE next == IF Bundle.infos[Executing].context THEN "postOpReverted" ELSE "settle"
           g == [Bundle EXCEPT !.mode = "postOpReverted", !.gas = @ + gas, !.pc = next]
<1>1. Goto(Bundle.inner, g)
  BY DEF InnerReverts
<1>2. /\ Bundle \in BundleFrame /\ FrameOK(Bundle) /\ Bundle.pc = pc /\ Bundle.kind = "bundle"
  BY Innermost
<1>3. /\ Len(Bundle.infos) = Len(Bundle.ops) /\ Executing \in 1..Len(Bundle.ops)
      /\ Executing = Bundle.done + 1 /\ Bundle.done \in Nat /\ Len(Bundle.ops) \in Nat
      /\ Bundle.gas \in Nat
  BY ExecutingBundle DEF ExecutingOK, InnerCalls
<1>4. /\ next \in {"postOpReverted", "settle"}
      /\ next = "postOpReverted" => Bundle.infos[Executing].context
      /\ next = "settle" => ~Bundle.infos[Executing].context
  OBVIOUS
<1>5. Bundle.gas + gas \in Nat
  BY <1>3
<1> HIDE DEF next
<1>6. /\ g \in BundleFrame /\ g.pc = next /\ g.kind = "bundle" /\ g.saved = Bundle.saved
      /\ g.ops = Bundle.ops /\ g.infos = Bundle.infos /\ g.done = Bundle.done
      /\ g.collected = Bundle.collected /\ g.inner = Bundle.inner
  BY <1>2, <1>4, <1>5 DEF BundleFrame, CallOuts
<1> HIDE DEF g
<1>7. FrameOK(g)
  <2>1. Bundle.done < Len(Bundle.ops)
    BY <1>3
  <2>2. g.pc \notin {"create", "account", "paymaster"} /\ g.pc # "compensate"
    BY <1>4, <1>6
  <2>3. g.pc \in {"postOp", "postOpReverted"} => g.infos[g.done + 1].context
    BY <1>3, <1>4, <1>6
  <2> QED
    BY <1>2, <1>3, <1>6, <2>1, <2>2, <2>3 DEF FrameOK
<1>8. Twins(Bundle, g)
  BY <1>2, <1>6 DEF Twins
<1>9. EffectsOK(Bundle.inner, Len(frames), g)
  <2>1. g.pc = "settle" => ~g.infos[g.done + 1].context
    BY <1>3, <1>4, <1>6
  <2> QED
    BY <1>4, <1>6, <1>8, <2>1, InnerFresh
<1>10. g.pc \in InnerCalls /\ Bundle.inner \in Ledger
  BY <1>2, <1>4, <1>6 DEF InnerCalls, BundleFrame
<1> QED
  BY <1>1, <1>6, <1>7, <1>8, <1>9, <1>10, InnerMoves

\* The log of what was executed.
LEMMA RecordType ==
    ASSUME NEW l \in Ledger, Len(frames) \in 1..MaxDepth, Executing \in Nat, NEW what \in CallOuts
    PROVE  LET m == Record(l, what)
           IN  /\ m \in Ledger
               /\ m.deposits = l.deposits /\ m.claim = l.claim /\ m.balance = l.balance
               /\ \A e : e.depth # Len(frames) => (e \in m.effects <=> e \in l.effects)
               /\ \A e \in m.effects : e \in l.effects \/ e.op = Executing
               /\ \A i, w : Stands(m, Len(frames), i, w)
                              <=> Stands(l, Len(frames), i, w) \/ (i = Executing /\ w = what)
<1> DEFINE effect == [depth |-> Len(frames), op |-> Executing, what |-> what]
           effects == l.effects \cup {effect}
           m == Record(l, what)
<1>1. effect \in [depth: 1..MaxDepth, op: Nat, what: CallOuts]
  OBVIOUS
<1>2. /\ effect.depth = Len(frames) /\ effect.op = Executing
      /\ \A i, w : [depth |-> Len(frames), op |-> i, what |-> w] = effect
                      <=> i = Executing /\ w = what
  OBVIOUS
<1>3. m = [l EXCEPT !.effects = effects]
  BY DEF Record, Ledger
<1> HIDE DEF effect, m
<1>4. effects \in SUBSET [depth: 1..MaxDepth, op: Nat, what: CallOuts]
  BY <1>1 DEF Ledger
<1>5. /\ m \in Ledger /\ m.deposits = l.deposits /\ m.claim = l.claim /\ m.balance = l.balance
      /\ m.effects = effects
  BY <1>3, <1>4 DEF Ledger
<1>6. \A e : e.depth # Len(frames) => (e \in m.effects <=> e \in l.effects)
  BY <1>2, <1>5
<1>7. \A e \in m.effects : e \in l.effects \/ e.op = Executing
  BY <1>2, <1>5
<1>8. \A i, w : Stands(m, Len(frames), i, w)
                  <=> Stands(l, Len(frames), i, w) \/ (i = Executing /\ w = what)
  BY <1>2, <1>5 DEF Stands
<1> QED
  BY <1>5, <1>6, <1>7, <1>8 DEF m

\* A call of the operation in progress is logged, and the bundle goes on as g.
LEMMA RecordMoves ==
    ASSUME IInv, NEW pc \in InnerCalls, InBundle(pc), NEW what \in CallOuts,
           NEW g \in BundleFrame, FrameOK(g), Twins(Bundle, g), g.pc \in InnerCalls,
           g.inner = Bundle.inner, Goto(Record(ledger, what), g),
           InProgress(Record(ledger, what), Len(frames), g)
    PROVE  IInv'
<1> DEFINE n == Len(frames)
           m == Record(ledger, what)
<1>1. /\ ledger \in Ledger /\ n \in 1..MaxDepth /\ EffectsOK(ledger, n, Bundle)
      /\ Bundle.kind = "bundle"
  BY Innermost
<1>2. Executing \in Nat /\ Executing = Bundle.done + 1 /\ Bundle.done \in Nat
  BY ExecutingBundle DEF InnerCalls
<1>3. /\ m \in Ledger
      /\ m.deposits = ledger.deposits /\ m.claim = ledger.claim /\ m.balance = ledger.balance
      /\ \A e : e.depth # n => (e \in m.effects <=> e \in ledger.effects)
      /\ \A e \in m.effects : e \in ledger.effects \/ e.op = Executing
      /\ \A i, w : Stands(m, n, i, w) <=> Stands(ledger, n, i, w) \/ (i = Executing /\ w = what)
  BY <1>1, <1>2, RecordType
<1>4. InProgress(m, n, g) /\ Goto(m, g)
  OBVIOUS
<1> HIDE DEF n, m
<1>5. EffectsOK(m, n, g)
  <2>1. /\ \A e \in ledger.effects : e.depth = n => e.op <= Bundle.done + 1
        /\ \A i \in 1..Bundle.done : Honoured(ledger, n, i, Bundle.infos[i].context)
    BY <1>1 DEF EffectsOK
  <2>2. \A e \in m.effects : e.depth = n => e.op <= Bundle.done + 1
    BY <1>2, <1>3, <2>1
  <2>3. ASSUME NEW i \in 1..Bundle.done
        PROVE  Honoured(m, n, i, Bundle.infos[i].context)
    <3>1. i # Executing
      BY <1>2
    <3>2. \A w : Stands(m, n, i, w) <=> Stands(ledger, n, i, w)
      BY <1>3, <3>1
    <3>3. Honoured(ledger, n, i, Bundle.infos[i].context)
      BY <2>1
    <3> QED
      BY <3>2, <3>3 DEF Honoured, Stands
  <2>4. g.kind = "bundle" /\ g.done = Bundle.done /\ g.infos = Bundle.infos
    BY DEF Twins
  <2> QED
    BY <1>4, <2>2, <2>3, <2>4 DEF EffectsOK
<1> QED
  BY <1>3, <1>4, <1>5, InnerMoves DEF n

LEMMA CallReturnsKeeps ==
    ASSUME IInv, NEW success \in BOOLEAN, NEW gas \in GasUse, CallReturns(success, gas)
    PROVE  IInv'
<1> DEFINE n == Len(frames)
           next == IF Bundle.infos[Executing].context THEN "postOp" ELSE "settle"
           mode == IF success THEN "opSucceeded" ELSE "opReverted"
           g == [Bundle EXCEPT !.mode = mode, !.gas = @ + gas, !.pc = next]
<1>1. /\ InBundle("call") /\ "call" \in InnerCalls
      /\ Goto(IF success THEN Record(ledger, "call") ELSE Bundle.inner, g)
  BY DEF CallReturns, InnerCalls
<1>2. /\ Bundle \in BundleFrame /\ FrameOK(Bundle) /\ Bundle.pc = "call" /\ Bundle.kind = "bundle"
      /\ ledger \in Ledger /\ n \in 1..MaxDepth /\ EffectsOK(ledger, n, Bundle)
  BY <1>1, Innermost
<1>3. /\ Len(Bundle.infos) = Len(Bundle.ops) /\ Executing \in 1..Len(Bundle.ops)
      /\ Executing = Bundle.done + 1 /\ Bundle.done \in Nat /\ Len(Bundle.ops) \in Nat
      /\ Bundle.gas \in Nat
  BY <1>1, ExecutingBundle DEF ExecutingOK, InnerCalls
<1>4. /\ next \in {"postOp", "settle"}
      /\ next = "postOp" => Bundle.infos[Executing].context
      /\ next = "settle" => ~Bundle.infos[Executing].context
      /\ mode \in {"opSucceeded", "opReverted"}
  OBVIOUS
<1>5. Bundle.gas + gas \in Nat
  BY <1>3, EntryPointConstants, SMTT(30)
<1> HIDE DEF next, mode
<1>6. /\ g \in BundleFrame /\ g.pc = next /\ g.kind = "bundle" /\ g.saved = Bundle.saved
      /\ g.ops = Bundle.ops /\ g.infos = Bundle.infos /\ g.done = Bundle.done
      /\ g.collected = Bundle.collected /\ g.inner = Bundle.inner
  BY <1>2, <1>4, <1>5 DEF BundleFrame, CallOuts
<1> HIDE DEF g
<1>7. FrameOK(g)
  <2>1. Bundle.done < Len(Bundle.ops)
    BY <1>3
  <2>2. g.pc \notin {"create", "account", "paymaster"} /\ g.pc # "compensate"
    BY <1>4, <1>6
  <2>3. g.pc \in {"postOp", "postOpReverted"} => g.infos[g.done + 1].context
    BY <1>3, <1>4, <1>6
  <2> QED
    BY <1>2, <1>3, <1>6, <2>1, <2>2, <2>3 DEF FrameOK
<1>8. Twins(Bundle, g)
  BY <1>2, <1>6 DEF Twins
<1>9. g.pc = "settle" => ~g.infos[g.done + 1].context
  BY <1>3, <1>4, <1>6
<1>10. g.pc \in InnerCalls
  BY <1>4, <1>6 DEF InnerCalls
<1>11. CASE success
  <2> DEFINE m == Record(ledger, "call")
  <2>1. "call" \in CallOuts
    BY DEF CallOuts
  <2>2. \A i, w : Stands(m, n, i, w) <=> Stands(ledger, n, i, w) \/ (i = Executing /\ w = "call")
    BY <1>2, <1>3, <2>1, RecordType
  <2>3. \A what \in CallOuts : ~Stands(ledger, n, Executing, what)
    <3>1. InProgress(ledger, n, Bundle)
      BY <1>2 DEF EffectsOK
    <3>2. Bundle.pc # "settle" /\ Bundle.pc # "postOp"
      BY <1>2
    <3> QED
      BY <1>3, <3>1, <3>2 DEF InProgress
  <2> HIDE DEF m, n
  <2>4. \A what \in CallOuts : what # "call" => ~Stands(m, n, g.done + 1, what)
    BY <1>3, <1>6, <2>2, <2>3
  <2>5. g.pc \notin {"call", "postOpReverted"} /\ g.pc \in {"postOp", "settle"}
    BY <1>4, <1>6
  <2>6. InProgress(m, n, g)
    BY <1>6, <1>9, <2>4, <2>5, NextCall
  <2> QED
    BY <1>1, <1>6, <1>7, <1>8, <1>10, <1>11, <2>1, <2>6, RecordMoves DEF m, n
<1>12. CASE ~success
  <2>1. EffectsOK(Bundle.inner, n, g)
    <3>1. g.pc \in {"postOp", "postOpReverted", "settle"}
      BY <1>4, <1>6
    <3> QED
      BY <1>1, <1>8, <1>9, <3>1, InnerFresh
  <2>2. Bundle.inner \in Ledger /\ Goto(Bundle.inner, g)
    BY <1>1, <1>2, <1>12 DEF BundleFrame
  <2> QED
    BY <1>1, <1>6, <1>7, <1>8, <1>10, <2>1, <2>2, InnerMoves
<1> QED
  BY <1>11, <1>12

\* postOp succeeds, inside innerHandleOp or after it.
LEMMA PostOpSucceeds ==
    ASSUME IInv, NEW what \in {"postOp", "postOpReverted"}, InBundle(what), NEW gas \in GasUse,
           Goto(Record(ledger, what), [Bundle EXCEPT !.gas = @ + gas, !.pc = "settle"])
    PROVE  IInv'
<1> DEFINE n == Len(frames)
           g == [Bundle EXCEPT !.gas = @ + gas, !.pc = "settle"]
           m == Record(ledger, what)
<1>1. what \in InnerCalls /\ what \in CallOuts
  BY DEF InnerCalls, CallOuts
<1>2. /\ Bundle \in BundleFrame /\ FrameOK(Bundle) /\ Bundle.pc = what /\ Bundle.kind = "bundle"
      /\ ledger \in Ledger /\ n \in 1..MaxDepth /\ EffectsOK(ledger, n, Bundle)
  BY Innermost
<1>3. /\ Len(Bundle.infos) = Len(Bundle.ops) /\ Executing \in 1..Len(Bundle.ops)
      /\ Executing = Bundle.done + 1 /\ Bundle.done \in Nat /\ Len(Bundle.ops) \in Nat
      /\ Bundle.gas \in Nat
  BY <1>1, ExecutingBundle DEF ExecutingOK
<1>4. Bundle.infos[Executing].context
  BY <1>2, <1>3 DEF FrameOK
<1>5. Bundle.gas + gas \in Nat
  BY <1>3, EntryPointConstants, SMTT(30)
<1>6. /\ g \in BundleFrame /\ g.pc = "settle" /\ g.kind = "bundle" /\ g.saved = Bundle.saved
      /\ g.ops = Bundle.ops /\ g.infos = Bundle.infos /\ g.done = Bundle.done
      /\ g.collected = Bundle.collected /\ g.inner = Bundle.inner
  BY <1>2, <1>5 DEF BundleFrame
<1>7. Goto(m, g)
  OBVIOUS
<1> HIDE DEF g
<1>8. FrameOK(g)
  <2>1. Bundle.done < Len(Bundle.ops)
    BY <1>3
  <2> QED
    BY <1>2, <1>3, <1>6, <2>1 DEF FrameOK
<1>9. Twins(Bundle, g)
  BY <1>2, <1>6 DEF Twins
<1>10. \A i, w : Stands(m, n, i, w) <=> Stands(ledger, n, i, w) \/ (i = Executing /\ w = what)
  BY <1>1, <1>2, <1>3, RecordType
<1> HIDE DEF m
<1>11. /\ what = "postOp" => ~Stands(ledger, n, Executing, "postOpReverted")
       /\ what = "postOpReverted" => /\ ~Stands(ledger, n, Executing, "postOp")
                                     /\ ~Stands(ledger, n, Executing, "call")
  <2>1. InProgress(ledger, n, Bundle)
    BY <1>2 DEF EffectsOK
  <2>2. CASE what = "postOp"
    BY <1>2, <1>3, <2>1, <2>2 DEF InProgress
  <2>3. CASE what = "postOpReverted"
    <3>1. Bundle.pc # "settle" /\ Bundle.pc # "postOp"
      BY <1>2, <2>3
    <3>2. \A w \in CallOuts : ~Stands(ledger, n, Executing, w)
      BY <1>3, <2>1, <3>1 DEF InProgress
    <3> QED
      BY <2>3, <3>2 DEF CallOuts
  <2> QED
    BY <2>2, <2>3
<1>12. Honoured(m, n, Executing, TRUE)
  <2>1. CASE what = "postOp"
    <3>1. Stands(m, n, Executing, "postOp") /\ ~Stands(m, n, Executing, "postOpReverted")
      BY <1>10, <1>11, <2>1
    <3> QED
      BY <3>1 DEF Honoured, Stands
  <2>2. CASE what = "postOpReverted"
    <3>1. /\ ~Stands(m, n, Executing, "postOp") /\ Stands(m, n, Executing, "postOpReverted")
          /\ ~Stands(m, n, Executing, "call")
      BY <1>10, <1>11, <2>2
    <3> QED
      BY <3>1 DEF Honoured, Stands
  <2> QED
    BY <2>1, <2>2
<1>13. InProgress(m, n, g)
  <2>1. Honoured(m, n, g.done + 1, g.infos[g.done + 1].context)
    BY <1>3, <1>4, <1>6, <1>12 DEF Honoured
  <2> QED
    BY <1>6, <2>1 DEF InProgress
<1>14. g.pc \in InnerCalls
  BY <1>6 DEF InnerCalls
<1> QED
  BY <1>1, <1>6, <1>7, <1>8, <1>9, <1>13, <1>14, RecordMoves DEF m

LEMMA PostOpReturnsKeeps ==
    ASSUME IInv, NEW outcome, NEW gas \in GasUse, PostOpReturns(outcome, gas)
    PROVE  IInv'
<1>1. InBundle("postOp") /\ frames # <<>> /\ "postOp" \in InnerCalls /\ gas \in Nat
  BY EntryPointConstants DEF PostOpReturns, InBundle, InnerCalls
<1>2. \/ Goto(Record(ledger, "postOp"), [Bundle EXCEPT !.gas = @ + gas, !.pc = "settle"])
      \/ InnerReverts(gas)
      \/ Revert
  BY DEF PostOpReturns
<1> QED
  BY <1>1, <1>2, PostOpSucceeds, InnerRevertsKeeps, Reverts

LEMMA PostOpRevertedReturnsKeeps ==
    ASSUME IInv, NEW success \in BOOLEAN, NEW gas \in GasUse, PostOpRevertedReturns(success, gas)
    PROVE  IInv'
<1>1. InBundle("postOpReverted") /\ frames # <<>>
  BY DEF PostOpRevertedReturns, InBundle
<1>2. \/ Goto(Record(ledger, "postOpReverted"), [Bundle EXCEPT !.gas = @ + gas, !.pc = "settle"])
      \/ Revert
  BY DEF PostOpRevertedReturns
<1> QED
  BY <1>1, <1>2, PostOpSucceeds, Reverts

\* One operation is settled: its prefund is not held any more.
LEMMA Settles ==
    ASSUME NEW f \in Frame, NEW g, f.kind = "bundle", g.kind = "bundle",
           FrameOK(f), g.ops = f.ops, g.done = f.done + 1,
           Charged(g) = Charged(f), f.done < Charged(f), NEW a
    PROVE  /\ HeldBy(f, a) = HeldBy(g, a) + Prefunds(f.ops, a)[f.done + 1]
           /\ HeldBy(g, a) \in Nat
<1> DEFINE S == f.done + 1 .. Charged(f)
           n == f.done + 1
           R == S \ {n}
           p == Prefunds(f.ops, a)
<1>1. /\ Charged(f) \in Nat /\ f.done \in Nat /\ IsFiniteSet(S) /\ S \subseteq 1..Len(f.ops)
  BY ChargedBound, BundleType
<1>2. n \in S /\ R = n + 1 .. Charged(f)
  BY <1>1
<1>3. \A i \in S : p[i] \in Nat /\ p[i] \in Int
  <2>1. f.ops \in Seq(Entry)
    BY BundleType
  <2>2. \A i \in 1..Len(f.ops) : p[i] \in Nat
    BY <2>1, PrefundType
  <2> QED
    BY <1>1, <2>2
<1>4. HeldBy(f, a) = SumFunctionOnSet(p, S)
  BY HeldBySum
<1>5. HeldBy(g, a) = SumFunctionOnSet(p, R)
  <2>1. HeldBy(g, a) = SumFunctionOnSet(p, n + 1 .. Charged(f))
    BY HeldBySum
  <2> QED
    BY <1>2, <2>1
<1>6. IsFiniteSet(R)
  BY <1>1, FS_Subset
<1>7. \A i \in R : p[i] \in Nat /\ p[i] \in Int
  BY <1>3
<1> HIDE DEF S, p, R, n
<1>8. SumFunctionOnSet(p, R) \in Nat
  BY <1>6, <1>7, SumInt
<1>9. SumFunctionOnSet(p, S) = p[n] + SumFunctionOnSet(p, R)
  BY <1>1, <1>2, <1>3, SumRemove DEF R
<1>10. p[n] \in Nat
  BY <1>2, <1>3
<1>11. HeldBy(f, a) = HeldBy(g, a) + p[n] /\ HeldBy(g, a) \in Nat
  BY <1>4, <1>5, <1>8, <1>9, <1>10
<1> QED
  BY <1>11 DEF p, n

\* The books after an operation was settled.
AfterSettling(l, a, refund, cost) ==
    [SM!IncrementDeposit(l, a, refund) EXCEPT !.claim[a] = @ - cost]

LEMMA SettledLedger ==
    ASSUME NEW l \in Ledger, NEW a \in Address, NEW refund \in Nat, NEW cost \in Nat,
           l.deposits[a].deposit + refund <= MaxUint112, cost <= l.claim[a]
    PROVE  LET m == AfterSettling(l, a, refund, cost)
           IN  /\ m \in Ledger /\ m.balance = l.balance /\ m.effects = l.effects
               /\ m.claim = [l.claim EXCEPT ![a] = l.claim[a] + (0 - cost)]
               /\ \A b \in Address :
                     SM!Owed(m)[b] = SM!Owed(l)[b] + (IF b = a THEN refund ELSE 0)
<1> DEFINE info == [l.deposits[a] EXCEPT !.deposit = @ + refund]
           D == [l.deposits EXCEPT ![a] = info]
           K == [l.claim EXCEPT ![a] = l.claim[a] + (0 - cost)]
           m == [l EXCEPT !.deposits = D, !.claim = K]
<1>1. /\ l.deposits \in [Address -> SM!DepositInfo] /\ l.deposits[a] \in SM!DepositInfo
      /\ l.claim \in [Address -> Nat] /\ l.claim[a] \in Nat
  BY DEF Ledger
<1>2. /\ info \in SM!DepositInfo /\ info.stake = l.deposits[a].stake
      /\ info.deposit = l.deposits[a].deposit + refund
      /\ l.deposits[a].deposit \in Nat /\ l.deposits[a].stake \in Nat
  BY <1>1, Constants DEF SM!DepositInfo
<1>3. AfterSettling(l, a, refund, cost) = m
  <2>1. SM!IncrementDeposit(l, a, refund) = [l EXCEPT !.deposits = D]
    BY DEF SM!IncrementDeposit, Ledger
  <2>2. l.claim[a] - cost = l.claim[a] + (0 - cost)
    BY <1>1
  <2> HIDE DEF D
  <2>3. [[l EXCEPT !.deposits = D] EXCEPT !.claim[a] = @ - cost]
          = [l EXCEPT !.deposits = D, !.claim = [l.claim EXCEPT ![a] = l.claim[a] - cost]]
    BY DEF Ledger
  <2> QED
    BY <2>1, <2>2, <2>3 DEF AfterSettling
<1> HIDE DEF info
<1>4. D \in [Address -> SM!DepositInfo] /\ D[a] = info /\ \A b \in Address \ {a} : D[b] = l.deposits[b]
  BY <1>1, <1>2
<1>5. K \in [Address -> Nat]
  <2>1. l.claim[a] + (0 - cost) \in Nat
    BY <1>1
  <2> QED
    BY <1>1, <2>1
<1> HIDE DEF D, K
<1>6. /\ m \in Ledger /\ m.deposits = D /\ m.claim = K
      /\ m.balance = l.balance /\ m.effects = l.effects
  BY <1>4, <1>5 DEF Ledger
<1> HIDE DEF m
<1>7. ASSUME NEW b \in Address
      PROVE  SM!Owed(m)[b] = SM!Owed(l)[b] + (IF b = a THEN refund ELSE 0)
  <2>1. SM!Owed(m)[b] = D[b].deposit + D[b].stake
    BY <1>6, LedgerType
  <2>2. SM!Owed(l)[b] = l.deposits[b].deposit + l.deposits[b].stake /\ SM!Owed(l)[b] \in Nat
    BY LedgerType
  <2>3. CASE b = a
    BY <1>2, <1>4, <2>1, <2>2, <2>3
  <2>4. CASE b # a
    BY <1>4, <2>1, <2>2, <2>4
  <2> QED
    BY <2>3, <2>4
<1> QED
  BY <1>3, <1>6, <1>7 DEF K

\* The operation in progress becomes one of the settled ones.
LEMMA SettledEffects ==
    ASSUME NEW l \in Ledger, NEW k, NEW f, NEW g, EffectsOK(l, k, f),
           f.kind = "bundle", f.pc = "settle", f.done \in Nat,
           g.kind = "bundle", g.pc = "validate", g.infos = f.infos, g.done = f.done + 1
    PROVE  EffectsOK(l, k, g)
<1>1. /\ \A e \in l.effects : e.depth = k => e.op <= f.done + 1
      /\ \A i \in 1..f.done : Honoured(l, k, i, f.infos[i].context)
      /\ Honoured(l, k, f.done + 1, f.infos[f.done + 1].context)
  BY DEF EffectsOK, InProgress
<1>2. \A e \in l.effects : e.op \in Nat
  BY LedgerType
<1>3. \A e \in l.effects : e.depth = k => e.op <= g.done + 1 /\ e.op # g.done + 1
  BY <1>1, <1>2
<1>4. \A i \in 1..g.done : Honoured(l, k, i, g.infos[i].context)
  <2> TAKE i \in 1..g.done
  <2>1. i = f.done + 1 \/ i \in 1..f.done
    OBVIOUS
  <2> QED
    BY <1>1, <2>1
<1>5. \A what : ~Stands(l, k, g.done + 1, what)
  BY <1>3 DEF Stands
<1>6. InProgress(l, k, g)
  BY <1>5 DEF InProgress
<1> QED
  BY <1>3, <1>4, <1>6 DEF EffectsOK

LEMMA SettleKeeps ==
    ASSUME IInv, Settle
    PROVE  IInv'
<1> DEFINE n == Len(frames)
           op == Bundle.ops[Executing].op
           prefund == Bundle.infos[Executing].prefund
           cost == Bundle.gas * UserOpGasPrice(op)
           refund == prefund - cost
           payer == Payer(op)
           m == AfterSettling(ledger, payer, refund, cost)
           g == [Bundle EXCEPT !.pc = "validate", !.done = @ + 1, !.collected = @ + cost,
                               !.gas = 0, !.inner = Bundle.saved, !.mode = "opSucceeded"]
<1>1. InBundle("settle") /\ "settle" \in InnerCalls
  BY DEF Settle, InnerCalls
<1>2. /\ frames # <<>> /\ frames \in Seq(Frame) /\ n \in Nat /\ n # 0 /\ Bundle = frames[n]
      /\ Bundle \in BundleFrame /\ FrameOK(Bundle) /\ Bundle.pc = "settle"
      /\ Bundle.kind = "bundle" /\ WellFormed(frames, n) /\ Good(ledger, frames, n)
      /\ ledger \in Ledger /\ EffectsOK(ledger, n, Bundle) /\ Bundle \in Frame
  BY <1>1, Innermost DEF Frame
<1>3. /\ Len(Bundle.infos) = Len(Bundle.ops) /\ Executing \in 1..Len(Bundle.ops)
      /\ Executing = Bundle.done + 1 /\ Bundle.done \in Nat /\ Len(Bundle.ops) \in Nat
      /\ Bundle.gas \in Nat /\ Bundle.collected \in Nat /\ Bundle.ops \in Seq(Entry)
      /\ prefund = RequiredPrefund(op) /\ prefund \in Nat /\ payer \in Address
      /\ UserOpGasPrice(op) \in Nat
  BY <1>1, ExecutingBundle DEF ExecutingOK
<1>4. cost \in Nat
  BY <1>3, Products
<1>5. \/ /\ cost <= prefund
         /\ ledger.deposits[payer].deposit + refund <= MaxUint112
         /\ Goto(m, g)
      \/ InnerReverts(0)
      \/ Revert
  BY DEF Settle, Refund, SM!CanIncrementDeposit, AfterSettling
<1>6. \A a : Prefunds(Bundle.ops, a)[Executing] = IF payer = a THEN prefund ELSE 0
  BY <1>3, PrefundType
<1> HIDE DEF op, prefund, cost, payer
<1>7. ASSUME cost <= prefund, ledger.deposits[payer].deposit + refund <= MaxUint112, Goto(m, g)
      PROVE  IInv'
  <2>1. refund \in Nat /\ refund = prefund - cost
    BY <1>3, <1>4, <1>7
  <2> HIDE DEF refund
  <2>2. Bundle.done + 1 \in Nat /\ Bundle.collected + cost \in Nat
    BY <1>3, <1>4
  <2>3. /\ g \in BundleFrame /\ g.pc = "validate" /\ g.kind = "bundle" /\ g.saved = Bundle.saved
        /\ g.ops = Bundle.ops /\ g.infos = Bundle.infos /\ g.done = Bundle.done + 1
        /\ g.collected = Bundle.collected + cost
    BY <1>2, <2>2 DEF BundleFrame
  <2>4. Goto(m, g)
    BY <1>7
  <2> HIDE DEF g
  <2>5. FrameOK(g)
    <3>1. g.done <= Len(g.infos) /\ Len(g.infos) = Len(g.ops)
      BY <1>3, <2>3
    <3> QED
      BY <1>2, <1>3, <2>3, <3>1 DEF FrameOK, InnerCalls
  <2>6. Charged(g) = Charged(Bundle) /\ Bundle.done < Charged(Bundle)
    BY <1>2, <1>3, <2>3 DEF Charged
  <2>7. ASSUME NEW a
        PROVE  /\ HeldBy(Bundle, a) = HeldBy(g, a) + (IF payer = a THEN prefund ELSE 0)
               /\ HeldBy(g, a) \in Nat
    <3>1. /\ HeldBy(Bundle, a) = HeldBy(g, a) + Prefunds(Bundle.ops, a)[Bundle.done + 1]
          /\ HeldBy(g, a) \in Nat
      BY <1>2, <2>3, <2>6, Settles
    <3> QED
      BY <1>3, <1>6, <3>1
  <2>8. cost <= ledger.claim[payer]
    <3>1. /\ ledger.claim[payer] = SM!Owed(ledger)[payer] + HeldUpTo(frames, n, payer)
          /\ SM!Owed(ledger)[payer] \in Nat
      BY <1>2, <1>3, LedgerType DEF Good
    <3>2. /\ HeldUpTo(frames, n, payer) = HeldUpTo(frames, n - 1, payer) + HeldBy(frames[n], payer)
          /\ HeldUpTo(frames, n - 1, payer) \in Nat
      BY <1>2, UpTo
    <3>3. HeldBy(frames[n], payer) = HeldBy(g, payer) + prefund /\ HeldBy(g, payer) \in Nat
      BY <1>2, <2>7
    <3> HIDE DEF n
    <3> QED
      BY <1>3, <1>4, <1>7, <3>1, <3>2, <3>3
  <2>9. /\ m \in Ledger /\ m.balance = ledger.balance /\ m.effects = ledger.effects
        /\ m.claim = [ledger.claim EXCEPT ![payer] = ledger.claim[payer] + (0 - cost)]
        /\ \A b \in Address :
              SM!Owed(m)[b] = SM!Owed(ledger)[b] + (IF b = payer THEN refund ELSE 0)
    <3>1. ledger \in Ledger /\ payer \in Address /\ refund \in Nat /\ cost \in Nat
      BY <1>2, <1>3, <1>4, <2>1
    <3>2. ledger.deposits[payer].deposit + refund <= MaxUint112
      BY <1>7
    <3> QED
      BY <2>8, <3>1, <3>2, SettledLedger
  <2> HIDE DEF m, n
  <2>10. ASSUME NEW a \in Address
         PROVE  m.claim[a] - SM!Owed(m)[a] - HeldBy(g, a)
                  = ledger.claim[a] - SM!Owed(ledger)[a] - HeldBy(Bundle, a)
    <3>1. ledger.claim \in [Address -> Nat] /\ ledger.claim[a] \in Nat /\ SM!Owed(ledger)[a] \in Nat
      BY <1>2, LedgerType DEF Ledger
    <3>2. CASE a = payer
      <4>1. m.claim[a] = ledger.claim[a] + (0 - cost)
        BY <2>9, <3>1, <3>2
      <4>2. SM!Owed(m)[a] = SM!Owed(ledger)[a] + refund
        BY <2>9, <3>2
      <4>3. HeldBy(Bundle, a) = HeldBy(g, a) + prefund /\ HeldBy(g, a) \in Nat
        BY <2>7, <3>2
      <4>4. prefund \in Nat /\ cost \in Nat
        BY <1>3, <1>4
      <4> QED
        BY <2>1, <3>1, <4>1, <4>2, <4>3, <4>4
    <3>3. CASE a # payer
      <4>1. m.claim[a] = ledger.claim[a]
        BY <2>9, <3>1, <3>3
      <4>2. SM!Owed(m)[a] = SM!Owed(ledger)[a]
        BY <2>9, <3>1, <3>3
      <4>3. HeldBy(Bundle, a) = HeldBy(g, a)
        BY <2>7, <3>3
      <4> QED
        BY <4>1, <4>2, <4>3
    <3> QED
      BY <3>2, <3>3
  <2>11. m.balance - Claims(m) - FeesOf(g) = ledger.balance - Claims(ledger) - FeesOf(Bundle)
    <3>1. Claims(m) = Claims(ledger) + (0 - cost)
      <4>1. 0 - cost \in Int
        BY <1>4
      <4> QED
        BY <1>2, <1>3, <2>9, <4>1, ClaimsChange
    <3>2. FeesOf(g) = FeesOf(Bundle) + cost /\ FeesOf(Bundle) \in Nat
      BY <1>2, <1>3, <2>3 DEF FeesOf
    <3>3. ledger.balance \in Nat /\ Claims(ledger) \in Nat
      BY <1>2, LedgerType
    <3> QED
      BY <1>4, <2>9, <3>1, <3>2, <3>3
  <2>12. EffectsOK(m, n, g)
    <3>1. EffectsOK(ledger, n, g)
      BY <1>2, <1>3, <2>3, SettledEffects
    <3> QED
      BY <2>9, <3>1, EffectsBelow
  <2>13. g.pc \notin InnerCalls
    BY <2>3 DEF InnerCalls
  <2> QED
    BY <1>1, <2>3, <2>4, <2>5, <2>9, <2>10, <2>11, <2>12, <2>13, Moves DEF n
<1> QED
  BY <1>1, <1>2, <1>5, <1>7, InnerRevertsKeeps, Reverts

LEMMA CompensateKeeps ==
    ASSUME IInv, Compensate
    PROVE  IInv'
<1> DEFINE n == Len(frames)
           balance == ledger.balance - Bundle.collected
           m == [ledger EXCEPT !.balance = balance]
           g == [Bundle EXCEPT !.pc = "compensate"]
<1>1. InBundle("validate")
  BY DEF Compensate
<1>2. /\ frames # <<>> /\ n \in Nat /\ n # 0 /\ Bundle = frames[n]
      /\ Bundle \in BundleFrame /\ FrameOK(Bundle) /\ Bundle.pc = "validate"
      /\ Bundle.kind = "bundle" /\ WellFormed(frames, n) /\ Good(ledger, frames, n)
      /\ ledger \in Ledger /\ EffectsOK(ledger, n, Bundle) /\ Bundle \in Frame
  BY <1>1, Innermost DEF Frame
<1>3. /\ Bundle.done \in Nat /\ Bundle.collected \in Nat
      /\ Len(Bundle.infos) \in Nat /\ Len(Bundle.ops) \in Nat
  BY <1>2, BundleType
<1>4. Revert \/ Goto(m, g)
  BY DEF Compensate
<1>5. /\ g \in BundleFrame /\ g.pc = "compensate" /\ g.kind = "bundle" /\ g.saved = Bundle.saved
      /\ g.ops = Bundle.ops /\ g.infos = Bundle.infos /\ g.done = Bundle.done
      /\ g.collected = Bundle.collected
  BY <1>2 DEF BundleFrame, CallOuts
<1>6. ledger.balance \in Nat /\ balance \in Nat
  <2>1. ledger.balance = Claims(ledger) + FeesUpTo(frames, n)
    BY <1>2 DEF Good
  <2>2. /\ FeesUpTo(frames, n) = FeesUpTo(frames, n - 1) + FeesOf(frames[n])
        /\ FeesUpTo(frames, n - 1) \in Nat
    BY <1>2, FeesUpToStep
  <2>3. FeesOf(frames[n]) = Bundle.collected
    BY <1>2 DEF FeesOf
  <2>4. ledger.balance \in Nat /\ Claims(ledger) \in Nat
    BY <1>2, LedgerType
  <2> HIDE DEF n
  <2> QED
    BY <1>3, <2>1, <2>2, <2>3, <2>4
<1>7. /\ m \in Ledger /\ m.deposits = ledger.deposits /\ m.claim = ledger.claim
      /\ m.effects = ledger.effects /\ m.balance = balance
  BY <1>2, <1>6 DEF Ledger
<1>8. CASE Goto(m, g)
  <2> HIDE DEF m, g, n
  <2>1. FrameOK(g)
    <3>1. Len(Bundle.infos) = Len(Bundle.ops) /\ Bundle.done = Len(Bundle.ops)
      BY <1>2, <1>3 DEF Compensate, Validating, Executing, FrameOK
    <3> QED
      BY <1>2, <1>5, <3>1 DEF FrameOK, InnerCalls
  <2>2. Charged(g) = Charged(Bundle)
    BY <1>2, <1>5 DEF Charged
  <2>3. \A a : HeldBy(g, a) = HeldBy(Bundle, a)
    BY <1>2, <1>5, <2>2, ChargesNothing
  <2>4. Claims(m) = Claims(ledger) /\ SM!Owed(m) = SM!Owed(ledger)
    BY <1>7 DEF Claims, SM!Owed
  <2>5. FeesOf(g) = 0 /\ FeesOf(Bundle) = Bundle.collected
    BY <1>2, <1>5 DEF FeesOf
  <2>6. m.balance - Claims(m) - FeesOf(g) = ledger.balance - Claims(ledger) - FeesOf(Bundle)
    <3>1. Claims(ledger) \in Nat
      BY <1>2, LedgerType
    <3> QED
      BY <1>3, <1>6, <1>7, <2>4, <2>5, <3>1
  <2>7. EffectsOK(m, n, g)
    <3>1. EffectsOK(ledger, n, g)
      BY <1>2, <1>5, FreshEffects
    <3> QED
      BY <1>7, <3>1, EffectsBelow
  <2>8. g.pc \notin InnerCalls
    BY <1>5 DEF InnerCalls
  <2> QED
    BY <1>1, <1>5, <1>7, <1>8, <2>1, <2>3, <2>4, <2>6, <2>7, <2>8, Moves DEF n
<1> QED
  BY <1>2, <1>4, <1>8, Reverts

LEMMA CompensateReturnsKeeps ==
    ASSUME IInv, NEW success \in BOOLEAN, CompensateReturns(success)
    PROVE  IInv'
<1> DEFINE n == Len(frames)
           effects == {e \in ledger.effects : e.depth < n}
           m == [ledger EXCEPT !.effects = effects]
<1>1. InBundle("compensate") /\ (Revert \/ SM!Leave(m))
  BY DEF CompensateReturns
<1>2. /\ frames # <<>> /\ n \in Nat /\ n # 0 /\ Bundle = frames[n]
      /\ FrameOK(Bundle) /\ Bundle.pc = "compensate"
      /\ Bundle.kind = "bundle" /\ WellFormed(frames, n) /\ Good(ledger, frames, n)
      /\ ledger \in Ledger /\ Bundle \in Frame
  BY <1>1, Innermost DEF Frame
<1>3. effects \in SUBSET [depth: 1..MaxDepth, op: Nat, what: CallOuts]
  BY <1>2 DEF Ledger
<1>4. \A e : e \in effects <=> e \in ledger.effects /\ e.depth # n
  <2>1. \A e \in ledger.effects : e.depth <= n /\ e.depth \in Nat
    BY <1>2, LedgerType DEF Good
  <2> HIDE DEF n
  <2> QED
    BY <1>2, <2>1
<1> HIDE DEF effects
<1>5. /\ m \in Ledger /\ m.deposits = ledger.deposits /\ m.claim = ledger.claim
      /\ m.effects = effects /\ m.balance = ledger.balance
  BY <1>2, <1>3 DEF Ledger
<1> HIDE DEF m
<1>6. ASSUME NEW a
      PROVE  HeldBy(frames[n], a) = 0 /\ FeesOf(frames[n]) = 0
  <2>1. Bundle.done \in Nat /\ Charged(Bundle) \in Nat /\ Charged(Bundle) <= Bundle.done
    BY <1>2, BundleType, ChargedBound DEF FrameOK
  <2>2. Bundle.done + 1 .. Charged(Bundle) = {}
    BY <2>1
  <2>3. HeldBy(Bundle, a) = 0
    BY <1>2, <2>2, HeldBySum, SumEmpty
  <2> QED
    BY <1>2, <2>3 DEF FeesOf
<1> HIDE DEF n
<1>7. Good(m, frames, n - 1)
  <2>1. HeldBy(frames[n], Nobody) = 0 /\ FeesOf(frames[n]) = 0
    BY <1>6
  <2> QED
    BY <1>2, <1>4, <1>5, <1>6, <2>1, PopTop
<1> QED
  BY <1>1, <1>2, <1>7, Reverts, Leaves DEF n

LEMMA TickKeeps ==
    ASSUME IInv, SM!Tick
    PROVE  IInv'
<1>1. now < MaxTime /\ now' = now + 1 /\ UNCHANGED <<ledger, frames, budget>>
  BY DEF SM!Tick
<1>2. now' \in 1..MaxTime
  BY <1>1, Constants DEF IInv
<1> QED
  BY <1>1, <1>2 DEF IInv

LEMMA StutterKeeps ==
    ASSUME IInv, UNCHANGED vars
    PROVE  IInv'
BY DEF vars, IInv

-----------------------------------------------------------------------------
(***************************************************************************)
(* The invariant holds initially, is kept by every step, and implies what  *)
(* is promised.                                                            *)
(***************************************************************************)

LEMMA SumOfZeros ==
    ASSUME NEW S, IsFiniteSet(S), NEW f, \A x \in S : f[x] = 0
    PROVE  SumFunctionOnSet(f, S) = 0
<1> DEFINE h == [x \in S |-> 0]
<1>1. \A x \in S : f[x] \in Int /\ h[x] \in Int /\ h[x] = f[x] + h[x] /\ f[x] = h[x]
  OBVIOUS
<1> HIDE DEF h
<1>2. SumFunctionOnSet(h, S) = SumFunctionOnSet(f, S) + SumFunctionOnSet(h, S)
  BY <1>1, SumPlus
<1>3. SumFunctionOnSet(h, S) \in Int /\ SumFunctionOnSet(f, S) \in Int
  BY <1>1, SumInt
<1> QED
  BY <1>2, <1>3

LEMMA InitOK ==
    ASSUME Init
    PROVE  IInv
<1>1. now \in 1..MaxTime /\ budget \in 0..CallBudget
  BY Constants DEF Init
<1>2. frames = <<>> /\ Len(frames) = 0 /\ frames \in Seq(Frame)
  BY DEF Init
<1>3. StackOK(frames)
  BY <1>2, Constants DEF StackOK, WellFormed
<1>4. SM!NoDeposit \in SM!DepositInfo
  BY Constants DEF SM!NoDeposit, SM!DepositInfo
<1>5. ledger \in Ledger
  BY <1>4, EntryPointConstants DEF Init, Ledger
<1>6. /\ \A a \in Address : ledger.claim[a] = 0 /\ ledger.deposits[a] = SM!NoDeposit
      /\ ledger.balance = 0 /\ ledger.effects = {}
  BY DEF Init
<1>7. \A a \in Address : SM!Owed(ledger)[a] = 0
  BY <1>5, <1>6, LedgerType DEF SM!NoDeposit
<1>8. Claims(ledger) = 0
  BY <1>6, Constants, SumOfZeros DEF Claims
<1>9. /\ \A a \in Address : HeldUpTo(frames, 0, a) = 0
      /\ HeldUpTo(frames, 0, Nobody) = 0 /\ FeesUpTo(frames, 0) = 0
  BY UpToNothing
<1>10. Good(ledger, frames, 0)
  BY <1>5, <1>6, <1>7, <1>8, <1>9 DEF Good
<1> QED
  BY <1>1, <1>2, <1>3, <1>10 DEF IInv

LEMMA NextOK ==
    ASSUME IInv, [Next]_vars
    PROVE  IInv'
<1>1. CASE OutsideCall
  <2>1. CASE StakeManagerCall
    BY <2>1, StakeManagerKeeps DEF StakeManagerCall
  <2>2. ASSUME NEW a \in Address, Deploy(a) PROVE IInv'
    BY <2>2, DeployKeeps
  <2>3. ASSUME NEW b \in Beneficiaries, NEW ops \in Batches, HandleOps(ops, b) PROVE IInv'
    BY <2>3, HandleOpsKeeps
  <2>4. ASSUME NEW b \in Beneficiaries, NEW groups \in Groups, HandleAggregatedOps(groups, b)
        PROVE  IInv'
    BY <2>4, HandleAggregatedOpsKeeps
  <2> QED
    BY <1>1, <2>1, <2>2, <2>3, <2>4 DEF OutsideCall
<1>2. CASE OutsideReturn
  <2>1. ASSUME NEW a, CreateSenderReturns(a) PROVE IInv'
    BY <2>1, CreateSenderReturnsKeeps
  <2>2. CASE ValidationFails
    BY <2>2, ValidationFailsKeeps
  <2>3. ASSUME NEW success \in BOOLEAN, SM!SendReturns(success) PROVE IInv'
    BY <2>3, SendReturnsKeeps
  <2>4. ASSUME NEW success \in BOOLEAN, CompensateReturns(success) PROVE IInv'
    BY <2>4, CompensateReturnsKeeps
  <2>5. ASSUME NEW gas \in GasUse, NEW data \in Verdicts, AccountReturns(data, gas) PROVE IInv'
    BY <2>5, AccountReturnsKeeps
  <2>6. ASSUME NEW gas \in GasUse, NEW data \in Verdicts, NEW context \in BOOLEAN,
               PaymasterReturns(context, data, gas)
        PROVE  IInv'
    BY <2>6, PaymasterReturnsKeeps
  <2>7. ASSUME NEW gas \in GasUse, NEW success \in BOOLEAN, CallReturns(success, gas) PROVE IInv'
    BY <2>7, CallReturnsKeeps
  <2>8. ASSUME NEW gas \in GasUse, NEW success \in BOOLEAN, PostOpRevertedReturns(success, gas)
        PROVE  IInv'
    BY <2>8, PostOpRevertedReturnsKeeps
  <2>9. ASSUME NEW gas \in GasUse, NEW outcome, PostOpReturns(outcome, gas) PROVE IInv'
    BY <2>9, PostOpReturnsKeeps
  <2> QED
    BY <1>2, <2>1, <2>2, <2>3, <2>4, <2>5, <2>6, <2>7, <2>8, <2>9 DEF OutsideReturn
<1>3. CASE ContractStep
  BY <1>3, ValidateKeeps, ExecuteKeeps, OutOfGasKeeps, SettleKeeps, CompensateKeeps
  DEF ContractStep
<1> QED
  BY <1>1, <1>2, <1>3, TickKeeps, StutterKeeps DEF Next

LEMMA SumOverDomain ==
    ASSUME NEW f
    PROVE  SumFunction(f) = SumFunctionOnSet(f, DOMAIN f)
BY DEF SumFunction

\* What is stated of the whole call stack is what holds up to its top.
LEMMA WholeStack ==
    ASSUME IInv
    PROVE  /\ \A a : Held(a) = HeldUpTo(frames, Len(frames), a)
           /\ Fees = FeesUpTo(frames, Len(frames))
<1>1. DOMAIN frames = 1..Len(frames)
  BY StackType DEF IInv
<1>2. ASSUME NEW a
      PROVE  Held(a) = HeldUpTo(frames, Len(frames), a)
  <2> DEFINE held == [k \in 1..Len(frames) |-> HeldBy(frames[k], a)]
  <2>1. Held(a) = SumFunction(held) /\ DOMAIN held = 1..Len(frames)
    BY <1>1 DEF Held
  <2>2. HeldUpTo(frames, Len(frames), a) = SumFunctionOnSet(held, 1..Len(frames))
    BY DEF HeldUpTo
  <2> HIDE DEF held
  <2> QED
    BY <2>1, <2>2, SumOverDomain
<1>3. Fees = FeesUpTo(frames, Len(frames))
  <2> DEFINE fees == [k \in 1..Len(frames) |-> FeesOf(frames[k])]
  <2>1. Fees = SumFunction(fees) /\ DOMAIN fees = 1..Len(frames)
    BY <1>1 DEF Fees
  <2>2. FeesUpTo(frames, Len(frames)) = SumFunctionOnSet(fees, 1..Len(frames))
    BY DEF FeesUpTo
  <2> HIDE DEF fees
  <2> QED
    BY <2>1, <2>2, SumOverDomain
<1> QED
  BY <1>2, <1>3

LEMMA IInvTypeOK ==
    ASSUME IInv
    PROVE  TypeOK
<1>1. /\ StackOK(frames) /\ DOMAIN frames = 1..Len(frames) /\ Len(frames) <= MaxDepth
      /\ \A k \in 1..Len(frames) : frames[k] \in Frame /\ FrameOK(frames[k])
      /\ ledger \in Ledger
  BY StackType, SMTT(30) DEF IInv, StackOK, Good
<1>2. ASSUME NEW k \in DOMAIN frames
      PROVE  /\ frames[k].saved \in Ledger
             /\ frames[k].kind = "bundle" => BundleOK(frames[k])
  <2>1. frames[k] \in Frame /\ FrameOK(frames[k])
    BY <1>1
  <2>2. frames[k].saved \in Ledger
    BY <2>1 DEF Frame, SendFrame, BundleFrame
  <2>3. CASE frames[k].kind = "bundle"
    <3>1. frames[k] \in BundleFrame
      BY <2>1, <2>3, BundleType
    <3>2. /\ frames[k].pc \in CallOuts \cup {"validate", "settle"}
          /\ frames[k].mode \in {"opSucceeded", "opReverted", "postOpReverted"}
          /\ frames[k].inner \in Ledger
      BY <3>1 DEF BundleFrame
    <3> QED
      BY <2>1, <2>2, <2>3, <3>2 DEF BundleOK, FrameOK
  <2> QED
    BY <2>2, <2>3
<1> QED
  BY <1>1, <1>2 DEF TypeOK, IInv

LEMMA IInvClaimsBacked ==
    ASSUME IInv
    PROVE  ClaimsBacked
BY WholeStack DEF IInv, Good, ClaimsBacked

LEMMA IInvSolvent ==
    ASSUME IInv
    PROVE  Solvent
<1> DEFINE onBooks == [a \in Address |-> SM!Owed(ledger)[a] + Held(a)]
<1>1. Good(ledger, frames, Len(frames))
  BY DEF IInv
<1>2. \A a \in Address : onBooks[a] = ledger.claim[a]
  BY <1>1, WholeStack DEF Good
<1>3. DOMAIN onBooks = Address
  OBVIOUS
<1>4. Solvent <=> ledger.balance = SumFunction(onBooks) + Fees
  BY DEF Solvent
<1> HIDE DEF onBooks
<1>5. SumFunction(onBooks) = SumFunctionOnSet(onBooks, Address)
  BY <1>3, SumOverDomain
<1>6. SumFunctionOnSet(onBooks, Address) = Claims(ledger)
  <2> DEFINE claim == ledger.claim
  <2>1. \A a \in Address : onBooks[a] = claim[a]
    BY <1>2
  <2> HIDE DEF claim
  <2>2. SumFunctionOnSet(onBooks, Address) = SumFunctionOnSet(claim, Address)
    BY <2>1, Constants, SumEqual
  <2> QED
    BY <2>2 DEF Claims, claim
<1>7. ledger.balance = Claims(ledger) + Fees
  BY <1>1, WholeStack DEF Good
<1> QED
  BY <1>4, <1>5, <1>6, <1>7

LEMMA IInvPaymasterHonoured ==
    ASSUME IInv
    PROVE  PaymasterHonoured
<1>1. /\ Good(ledger, frames, Len(frames)) /\ DOMAIN frames = 1..Len(frames)
  BY StackType DEF IInv
<1> SUFFICES ASSUME NEW k \in Bundles, NEW i \in 1..frames[k].done
             PROVE  Honoured(ledger, k, i, frames[k].infos[i].context)
  BY DEF PaymasterHonoured, Honoured, Stands
<1>2. k \in 1..Len(frames) /\ frames[k].kind = "bundle"
  BY <1>1 DEF Bundles
<1>3. EffectsOK(ledger, k, frames[k])
  BY <1>1, <1>2 DEF Good
<1> QED
  BY <1>2, <1>3 DEF EffectsOK

\* The invariant is inductive: it holds initially and every step keeps it.
THEOREM Invariant == Spec => []IInv
<1> QED
  BY InitOK, NextOK, PTL DEF Spec

\* Ledger, saved ledgers and call stack are well formed at every depth, and no
\* operation of handleOps is executed while one is still to be validated.
THEOREM TypeCorrect == Spec => []TypeOK
<1> QED
  BY Invariant, IInvTypeOK, PTL

\* The contract's ether is what it owes, what it took in prefunds and what it
\* collected in fees, for any bundles, whatever the code that handleOps calls
\* out to enters meanwhile and however deeply, and after every revert.
THEOREM EtherAccounted == Spec => []Solvent
<1> QED
  BY Invariant, IInvSolvent, PTL

\* _validatePrepayment, _handlePostOp and the withdrawals of StakeManager move
\* no ether from one address's deposit to another's.
THEOREM ClaimsKept == Spec => []ClaimsBacked
<1> QED
  BY Invariant, IInvClaimsBacked, PTL

\* innerHandleOp and _handlePostOp give a paymaster with a context one postOp
\* that stands, and nobody else one.
THEOREM PostOpGuaranteed == Spec => []PaymasterHonoured
<1> QED
  BY Invariant, IInvPaymasterHonoured, PTL

=============================================================================
