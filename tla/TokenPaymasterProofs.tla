------------------------ MODULE TokenPaymasterProofs ------------------------
(***************************************************************************)
(* What TokenPaymaster guarantees for any accounts, owners, rates and      *)
(* bundles.                                                                *)
(***************************************************************************)
EXTENDS TokenPaymaster, SequenceTheorems, TLAPS

-----------------------------------------------------------------------------
(***************************************************************************)
(* The inductive invariant.                                                *)
(***************************************************************************)

Chain == [tokens: [Holder -> Nat], allowed: SUBSET User, owner: Admin \cup {NoOwner}]

Executing == {"call", "postOp", "settle", "postOpReverted"}

BundleRecord ==
    [phase: {"idle", "validate"} \cup Executing, ops: Seq(Op), contexts: Seq(Account),
     saved: Seq(Chain)]

\* A bundle that is undone brings back the owner and the allowance of before,
\* so that what holds of the chain has to hold of the saved ones.
ChainOK(c) == c \in Chain /\ (c.owner # NoOwner => c.allowed \subseteq {c.owner})

BundleOK(b) ==
    /\ b \in BundleRecord
    /\ b.phase = "idle" => Len(b.ops) = 0 /\ Len(b.contexts) = 0 /\ Len(b.saved) = 0
    /\ b.phase = "validate" => Len(b.contexts) < Len(b.ops) /\ Len(b.saved) = 1
    /\ b.phase \in Executing =>
          Len(b.contexts) = Len(b.ops) /\ Len(b.ops) # 0 /\ Len(b.saved) = 2
    /\ \A i \in 1..Len(b.contexts) : b.contexts[i] = b.ops[i].account
    /\ \A k \in 1..Len(b.saved) : ChainOK(b.saved[k])
    /\ Len(b.ops) <= MaxOps

\* A single operation is started on the chain that it was validated on, and
\* that chain is what an inner call that reverts brings back.
Covered(b) ==
    b.phase \in Executing =>
        b.saved[2].tokens[b.contexts[1]] >= TokenValueOfEth(b.ops[1].maxCost)

FrameOK(b) == BundleOK(b) /\ (MaxOps = 1 => Covered(b))

\* The bundles around the innermost one wait for code they called, so that none
\* is about to settle; below them is the idle one.
Waiting ==
    /\ outer \in Seq(BundleRecord)
    /\ \A k \in 1..Len(outer) : FrameOK(outer[k]) /\ outer[k].phase # "postOpReverted"
    /\ \A k \in 1..Len(outer) : k = 1 => outer[k].phase = "idle"
    /\ bundle.phase # "idle" => Len(outer) # 0

Undone == MaxOps = 1 /\ bundle.phase = "postOpReverted" => chain = bundle.saved[2]

IInv ==
    /\ ChainOK(chain)
    /\ FrameOK(bundle)
    /\ Waiting
    /\ Undone

-----------------------------------------------------------------------------
(***************************************************************************)
(* Numbers and records.                                                    *)
(***************************************************************************)

LEMMA Assumptions ==
    /\ Paymaster \notin User /\ NoOwner \notin Holder /\ Paymaster \in Holder
    /\ User \subseteq Holder /\ Account \subseteq User /\ Admin \subseteq User
    /\ NoOwner \notin Admin
    /\ MaxCosts \subseteq Nat /\ Rate \in Nat \ {0} /\ CostOfPost \in Nat
    /\ MaxTokens \in Nat /\ MaxOps \in Nat
  BY TokenPaymasterConstants DEF User, Holder

\* What costs less is not more tokens.
LEMMA ValueMonotone ==
    ASSUME NEW v \in Nat, NEW w \in Nat, v <= w
    PROVE  TokenValueOfEth(v) \in Nat /\ TokenValueOfEth(v) <= TokenValueOfEth(w)
<1> DEFINE q == v \div Rate
           r == w \div Rate
<1>1. Rate \in Nat /\ Rate > 0
  BY Assumptions
<1>2. /\ q \in Nat /\ r \in Nat
      /\ Rate * q <= v /\ w < Rate * r + Rate
  BY <1>1
<1> HIDE DEF q, r
<1>3. ASSUME q > r PROVE FALSE
  <2>1. q - r - 1 \in Nat /\ Rate * (q - r - 1) \in Nat
    BY <1>1, <1>2, <1>3
  <2>2. Rate * q = Rate * r + Rate + Rate * (q - r - 1)
    BY <1>1, <1>2, <2>1
  <2>3. Rate * q \in Nat /\ Rate * r \in Nat
    BY <1>1, <1>2
  <2> QED
    BY <1>1, <1>2, <2>1, <2>2, <2>3
<1> QED
  BY <1>2, <1>3 DEF q, r, TokenValueOfEth

LEMMA ChainType ==
    ASSUME NEW c \in Chain
    PROVE  /\ c.tokens \in [Holder -> Nat] /\ c.allowed \in SUBSET User
           /\ c.owner \in Admin \cup {NoOwner}
  BY DEF Chain

LEMMA TransferType ==
    ASSUME NEW tokens \in [Holder -> Nat], NEW from \in Holder, NEW to \in Holder,
           NEW amount \in Nat, amount <= tokens[from]
    PROVE  Transferred(tokens, from, to, amount) \in [Holder -> Nat]
<1> DEFINE less == [tokens EXCEPT ![from] = tokens[from] - amount]
<1>1. tokens[from] - amount \in Nat
  OBVIOUS
<1>2. less \in [Holder -> Nat]
  BY <1>1
<1> HIDE DEF less
<1>3. less[to] + amount \in Nat
  BY <1>2
<1>4. [less EXCEPT ![to] = less[to] + amount] \in [Holder -> Nat]
  BY <1>2, <1>3
<1> QED
  BY <1>4 DEF Transferred, less

LEMMA BundleType ==
    ASSUME NEW b, BundleOK(b)
    PROVE  /\ b \in BundleRecord
           /\ b.phase \in {"idle", "validate"} \cup Executing
           /\ b.ops \in Seq(Op) /\ b.contexts \in Seq(Account) /\ b.saved \in Seq(Chain)
           /\ Len(b.ops) \in Nat /\ Len(b.contexts) \in Nat /\ Len(b.saved) \in Nat
           /\ DOMAIN b.saved = 1..Len(b.saved)
<1>1. b \in BundleRecord
  BY DEF BundleOK
<1>2. b.ops \in Seq(Op) /\ b.contexts \in Seq(Account) /\ b.saved \in Seq(Chain)
  BY <1>1 DEF BundleRecord
<1> QED
  BY <1>1, <1>2 DEF BundleRecord

-----------------------------------------------------------------------------
(***************************************************************************)
(* Steps of the users.  They change the chain, and never one that was      *)
(* saved.                                                                  *)
(***************************************************************************)
LEMMA TopKeeps ==
    ASSUME IInv, UNCHANGED outer, ChainOK(chain'), FrameOK(bundle'), Undone',
           bundle'.phase # "idle" => bundle.phase # "idle"
    PROVE  IInv'
  BY DEF IInv, Waiting

LEMMA OutsideKeeps ==
    ASSUME IInv, NEW after, ChainOK(after), OutsideStep(after)
    PROVE  IInv'
<1>1. /\ chain' = after /\ bundle' = bundle /\ outer' = outer
      /\ bundle.phase # "postOpReverted"
  BY DEF OutsideStep, OutsideRuns, In
<1>2. Undone'
  BY <1>1 DEF Undone
<1> QED
  BY <1>1, <1>2, TopKeeps DEF IInv

LEMMA TransferKeeps ==
    ASSUME IInv, NEW a \in User, NEW target \in Holder, NEW amount \in 1 .. MaxTokens,
           Transfer(a, target, amount)
    PROVE  IInv'
<1> DEFINE t == Transferred(chain.tokens, a, target, amount)
           after == [chain EXCEPT !.tokens = t]
<1>1. ChainOK(chain) /\ chain \in Chain /\ chain.tokens \in [Holder -> Nat]
  BY ChainType DEF IInv, ChainOK
<1>2. a \in Holder /\ amount \in Nat /\ amount <= chain.tokens[a]
  BY <1>1, Assumptions DEF Transfer
<1>3. t \in [Holder -> Nat]
  BY <1>1, <1>2, TransferType
<1>4. OutsideStep(after)
  BY DEF Transfer
<1> HIDE DEF t
<1>5. ChainOK(after)
  BY <1>1, <1>3 DEF Chain, ChainOK
<1> QED
  BY <1>4, <1>5, OutsideKeeps

LEMMA WithdrawKeeps ==
    ASSUME IInv, NEW a \in User, NEW target \in Holder, NEW amount \in 1 .. MaxTokens,
           Withdraw(a, target, amount)
    PROVE  IInv'
<1> DEFINE t == Transferred(chain.tokens, Paymaster, target, amount)
           after == [chain EXCEPT !.tokens = t]
<1>1. ChainOK(chain) /\ chain \in Chain /\ chain.tokens \in [Holder -> Nat]
  BY ChainType DEF IInv, ChainOK
<1>2. Paymaster \in Holder /\ amount \in Nat /\ amount <= chain.tokens[Paymaster]
  BY <1>1, Assumptions DEF Withdraw
<1>3. t \in [Holder -> Nat]
  BY <1>1, <1>2, TransferType
<1>4. OutsideStep(after)
  BY DEF Withdraw
<1> HIDE DEF t
<1>5. ChainOK(after)
  BY <1>1, <1>3 DEF Chain, ChainOK
<1> QED
  BY <1>4, <1>5, OutsideKeeps

LEMMA MintTokensKeeps ==
    ASSUME IInv, NEW a \in User, NEW recipient \in Holder, NEW amount \in 1 .. MaxTokens,
           MintTokens(a, recipient, amount)
    PROVE  IInv'
<1> DEFINE t == [chain.tokens EXCEPT ![recipient] = chain.tokens[recipient] + amount]
           after == [chain EXCEPT !.tokens = t]
<1>1. ChainOK(chain) /\ chain \in Chain /\ chain.tokens \in [Holder -> Nat]
  BY ChainType DEF IInv, ChainOK
<1>2. chain.tokens[recipient] + amount \in Nat
  BY <1>1, Assumptions
<1>3. t \in [Holder -> Nat]
  BY <1>1, <1>2
<1>4. OutsideStep(after)
  BY DEF MintTokens
<1> HIDE DEF t
<1>5. ChainOK(after)
  BY <1>1, <1>3 DEF Chain, ChainOK
<1> QED
  BY <1>4, <1>5, OutsideKeeps

\* The new owner is the only one allowed, since the old one was.
LEMMA TransferOwnershipKeeps ==
    ASSUME IInv, NEW a \in User, NEW newOwner \in Admin, TransferOwnership(a, newOwner)
    PROVE  IInv'
<1> DEFINE allowed == (chain.allowed \ {a}) \cup {newOwner}
           after == [chain EXCEPT !.owner = newOwner, !.allowed = allowed]
<1>1. ChainOK(chain) /\ chain \in Chain
  BY DEF IInv, ChainOK
<1>2. a = chain.owner /\ a # NoOwner /\ OutsideStep(after)
  BY Assumptions DEF TransferOwnership
<1>3. allowed \subseteq {newOwner} /\ allowed \in SUBSET User
  BY <1>1, <1>2, Assumptions DEF ChainOK
<1> HIDE DEF allowed
<1>4. after \in Chain /\ after.owner = newOwner /\ after.allowed = allowed
  BY <1>1, <1>3 DEF Chain
<1>5. ChainOK(after)
  BY <1>3, <1>4 DEF ChainOK
<1> QED
  BY <1>2, <1>5, OutsideKeeps

LEMMA RenounceOwnershipKeeps ==
    ASSUME IInv, NEW a \in User, RenounceOwnership(a)
    PROVE  IInv'
<1> DEFINE after == [chain EXCEPT !.owner = NoOwner]
<1>1. chain \in Chain /\ OutsideStep(after)
  BY DEF IInv, ChainOK, RenounceOwnership
<1>2. after \in Chain /\ after.owner = NoOwner
  BY <1>1 DEF Chain
<1>3. ChainOK(after)
  BY <1>2 DEF ChainOK
<1> QED
  BY <1>1, <1>3, OutsideKeeps

LEMMA UserStepKeeps ==
    ASSUME IInv, NEW a \in User, UserStep(a)
    PROVE  IInv'
  BY TransferKeeps, WithdrawKeeps, MintTokensKeeps, TransferOwnershipKeeps,
     RenounceOwnershipKeeps DEF UserStep

-----------------------------------------------------------------------------
(***************************************************************************)
(* Steps of EntryPoint.                                                    *)
(***************************************************************************)

LEMMA OpsType ==
    ASSUME NEW ops \in Ops
    PROVE  ops \in Seq(Op) /\ Len(ops) \in Nat \ {0} /\ Len(ops) <= MaxOps
<1>1. PICK n \in 1..MaxOps : ops \in [1..n -> Op]
  BY DEF Ops
<1>2. n \in Nat \ {0} /\ n <= MaxOps
  BY <1>1, Assumptions
<1>3. ops \in Seq(Op) /\ Len(ops) = n
  BY <1>1, <1>2
<1> QED
  BY <1>2, <1>3

LEMMA HandleOpsKeeps ==
    ASSUME IInv, NEW ops \in Ops, HandleOps(ops)
    PROVE  IInv'
<1> DEFINE saved == <<chain>>
           b == [NoBundle EXCEPT !.phase = "validate", !.ops = ops, !.saved = saved]
<1>1. /\ chain' = chain /\ outer' = Append(outer, bundle) /\ bundle' = b
      /\ bundle.phase # "postOpReverted"
  BY DEF HandleOps, OutsideRuns, In
<1>2. /\ ChainOK(chain) /\ chain \in Chain /\ FrameOK(bundle) /\ bundle \in BundleRecord
      /\ outer \in Seq(BundleRecord) /\ Len(outer) \in Nat
  BY DEF IInv, FrameOK, BundleOK, ChainOK, Waiting
<1>3. saved \in Seq(Chain) /\ Len(saved) = 1 /\ saved[1] = chain
  BY <1>2
<1> HIDE DEF saved
<1>4. ops \in Seq(Op) /\ Len(ops) \in Nat \ {0} /\ Len(ops) <= MaxOps
  BY OpsType
<1>5. /\ b \in BundleRecord /\ b.phase = "validate" /\ b.ops = ops
      /\ b.contexts = <<>> /\ Len(b.contexts) = 0 /\ b.saved = saved
  <2>1. <<>> \in Seq(Account) /\ Len(<<>>) = 0
    OBVIOUS
  <2> QED
    BY <1>3, <1>4, <2>1 DEF NoBundle, BundleRecord
<1> HIDE DEF b
<1>6. FrameOK(b)
  <2>1. \A k \in 1..Len(saved) : ChainOK(saved[k])
    BY <1>2, <1>3
  <2>2. \A i \in 1..Len(b.contexts) : b.contexts[i] = b.ops[i].account
    BY <1>5
  <2>3. b.phase # "idle" /\ b.phase \notin Executing
    BY <1>5 DEF Executing
  <2>4. Len(b.contexts) < Len(b.ops) /\ Len(b.saved) = 1
    BY <1>3, <1>4, <1>5
  <2> QED
    BY <1>4, <1>5, <2>1, <2>2, <2>3, <2>4 DEF FrameOK, BundleOK, Covered
<1>7. Waiting'
  <2> DEFINE n == Len(outer)
             pushed == Append(outer, bundle)
  <2>1. /\ n \in Nat /\ pushed \in Seq(BundleRecord) /\ Len(pushed) = n + 1
        /\ \A k \in 1..n : pushed[k] = outer[k]
    BY <1>2
  <2>2. pushed[n + 1] = bundle
    BY <1>2
  <2>3. n = 0 => bundle.phase = "idle"
    BY DEF IInv, Waiting
  <2>4. /\ \A k \in 1..n : FrameOK(outer[k]) /\ outer[k].phase # "postOpReverted"
        /\ \A k \in 1..n : k = 1 => outer[k].phase = "idle"
    BY DEF IInv, Waiting
  <2> HIDE DEF n, pushed
  <2>5. \A k \in 1..(n + 1) : k \in 1..n \/ (k = n + 1 /\ (k = 1 => n = 0))
    BY <2>1
  <2>6. \A k \in 1..(n + 1) :
            /\ FrameOK(pushed[k]) /\ pushed[k].phase # "postOpReverted"
            /\ k = 1 => pushed[k].phase = "idle"
    BY <1>1, <1>2, <2>1, <2>2, <2>3, <2>4, <2>5
  <2>7. outer' = pushed /\ Len(pushed) # 0
    BY <1>1, <2>1 DEF pushed
  <2> QED
    BY <2>1, <2>6, <2>7 DEF Waiting
<1>8. Undone'
  BY <1>1, <1>5 DEF Undone
<1> QED
  BY <1>1, <1>2, <1>6, <1>7, <1>8 DEF IInv

\* A bundle is over: the one around it goes on.
LEMMA LeaveKeeps ==
    ASSUME IInv, bundle.phase # "idle", Leave, ChainOK(chain')
    PROVE  IInv'
<1> DEFINE n == Len(outer)
           m == n - 1
           front == SubSeq(outer, 1, m)
<1>1. /\ n \in Nat \ {0} /\ outer \in Seq(BundleRecord)
      /\ \A k \in 1..n : FrameOK(outer[k]) /\ outer[k].phase # "postOpReverted"
      /\ \A k \in 1..n : k = 1 => outer[k].phase = "idle"
  BY DEF IInv, Waiting
<1>2. bundle' = outer[n] /\ outer' = front
  BY DEF Leave
<1>3. m \in Nat /\ n \in 1..n /\ (m = 0 => n = 1) /\ \A k \in 1..m : k \in 1..n
  BY <1>1
<1>4. 1 \in Int /\ m \in Int /\ \A k \in 1..m : outer[k] \in BundleRecord
  <2> HIDE DEF m
  <2> QED
    BY <1>1, <1>3, ElementOfSeq
<1>5. /\ front \in Seq(BundleRecord)
      /\ Len(front) = IF 1 <= m THEN m - 1 + 1 ELSE 0
      /\ \A k \in 1..(m - 1 + 1) : front[k] = outer[1 + k - 1]
  <2> HIDE DEF m
  <2> QED
    BY <1>4, SubSeqProperties
<1> HIDE DEF n, m, front
<1>6. Len(front) = m /\ \A k \in 1..m : k \in 1..(m - 1 + 1) /\ 1 + k - 1 = k
  BY <1>3, <1>5
<1>7. \A k \in 1..m : front[k] = outer[k]
  BY <1>5, <1>6
<1>8. bundle'.phase # "idle" => m # 0
  BY <1>1, <1>2, <1>3
<1>9. Waiting'
  BY <1>1, <1>2, <1>3, <1>5, <1>6, <1>7, <1>8 DEF Waiting
<1>10. FrameOK(bundle') /\ Undone'
  BY <1>1, <1>2, <1>3 DEF Undone
<1> QED
  BY <1>9, <1>10 DEF IInv

\* A single operation is validated and started on one and the same chain.
LEMMA ValidateKeeps ==
    ASSUME IInv, ValidatePaymasterUserOp
    PROVE  IInv'
<1> DEFINE op == Validating
           n == Len(bundle.contexts)
           contexts == Append(bundle.contexts, op.account)
           last == Len(contexts) = Len(bundle.ops)
           phase == IF last THEN "call" ELSE "validate"
           saved == IF last THEN Append(bundle.saved, chain) ELSE bundle.saved
<1>1. /\ bundle.phase = "validate" /\ chain' = chain /\ outer' = outer
      /\ bundle' = [bundle EXCEPT !.contexts = contexts, !.phase = phase, !.saved = saved]
      /\ chain.tokens[op.account] >= TokenValueOfEth(op.maxCost)
  BY DEF ValidatePaymasterUserOp, Validated, In
<1>2. BundleOK(bundle) /\ ChainOK(chain)
  BY DEF IInv, FrameOK
<1>3. /\ bundle \in BundleRecord /\ bundle.contexts \in Seq(Account) /\ bundle.ops \in Seq(Op)
      /\ bundle.saved \in Seq(Chain) /\ n \in Nat /\ Len(bundle.ops) \in Nat
      /\ n < Len(bundle.ops) /\ Len(bundle.saved) = 1 /\ chain \in Chain
      /\ ChainOK(bundle.saved[1])
  BY <1>1, <1>2, BundleType, SMTT(30) DEF BundleOK, ChainOK
<1>4. op \in Op /\ op = bundle.ops[n + 1]
  BY <1>3 DEF Validating
<1>5. op.account \in Account
  BY <1>4 DEF Op
<1> HIDE DEF op
<1>6. /\ contexts \in Seq(Account) /\ Len(contexts) = n + 1 /\ contexts[n + 1] = op.account
      /\ \A i \in 1..n : contexts[i] = bundle.contexts[i]
  BY <1>3, <1>5
<1> HIDE DEF contexts
<1>7. /\ saved \in Seq(Chain)
      /\ last => Len(saved) = 2 /\ saved[1] = bundle.saved[1] /\ saved[2] = chain
      /\ ~last => Len(saved) = 1 /\ saved[1] = bundle.saved[1]
  <2> HIDE DEF last
  <2>1. CASE last
    <3>1. saved = Append(bundle.saved, chain)
      BY <2>1
    <3> HIDE DEF saved
    <3> QED
      BY <1>3, <2>1, <3>1
  <2>2. CASE ~last
    BY <1>3, <2>2
  <2> QED
    BY <2>1, <2>2
<1>8. phase \in {"call", "validate"} /\ (phase = "call" <=> last)
  OBVIOUS
<1>9. last <=> n + 1 = Len(bundle.ops)
  BY <1>6
<1> HIDE DEF saved, phase, last
<1>10. /\ bundle' \in BundleRecord
       /\ bundle'.phase = phase /\ bundle'.ops = bundle.ops
       /\ bundle'.contexts = contexts /\ bundle'.saved = saved
  BY <1>1, <1>3, <1>6, <1>7, <1>8 DEF BundleRecord, Executing
<1>11. BundleOK(bundle')
  <2>1. ASSUME NEW i \in 1..(n + 1) PROVE contexts[i] = bundle.ops[i].account
    <3>1. i = n + 1 \/ i \in 1..n
      BY <1>3
    <3> QED
      BY <1>2, <1>4, <1>6, <3>1 DEF BundleOK
  <2>2. \A k \in 1..Len(saved) : ChainOK(saved[k])
    <3> TAKE k \in 1..Len(saved)
    <3>1. CASE last
      <4>1. Len(saved) = 2
        BY <1>7, <3>1
      <4>2. k = 1 \/ k = 2
        BY <4>1
      <4> QED
        BY <1>2, <1>3, <1>7, <3>1, <4>2
    <3>2. CASE ~last
      <4>1. Len(saved) = 1
        BY <1>7, <3>2
      <4>2. k = 1
        BY <4>1
      <4> QED
        BY <1>3, <1>7, <3>2, <4>2
    <3> QED
      BY <3>1, <3>2
  <2>3. ~last => n + 1 < Len(bundle.ops)
    BY <1>3, <1>9
  <2>4. bundle'.phase # "idle"
    BY <1>8, <1>10
  <2>5. bundle'.phase = "validate" => ~last
    BY <1>8, <1>10
  <2>6. bundle'.phase \in Executing => last /\ Len(bundle.ops) # 0
    BY <1>3, <1>8, <1>10 DEF Executing
  <2>7. Len(bundle.ops) <= MaxOps
    BY <1>2 DEF BundleOK
  <2> QED
    BY <1>3, <1>6, <1>7, <1>9, <1>10, <2>1, <2>2, <2>3, <2>4, <2>5, <2>6, <2>7 DEF BundleOK
<1>12. MaxOps = 1 => Covered(bundle')
  <2> SUFFICES ASSUME MaxOps = 1 PROVE Covered(bundle')
    OBVIOUS
  <2>1. n = 0
    BY <1>2, <1>3 DEF BundleOK
  <2>2. contexts[1] = op.account /\ bundle.ops[1] = op
    BY <1>4, <1>6, <2>1
  <2>3. bundle'.phase \in Executing => saved[2] = chain
    BY <1>7, <1>8, <1>10 DEF Executing
  <2> QED
    BY <1>1, <1>10, <2>2, <2>3 DEF Covered
<1>13. bundle'.phase # "postOpReverted"
  BY <1>8, <1>10
<1> QED
  BY <1>1, <1>2, <1>11, <1>12, <1>13, TopKeeps DEF FrameOK, Undone

\* A call of the operation in progress ended, or failed.
LEMMA PhaseKeeps ==
    ASSUME IInv, bundle.phase \in Executing, NEW phase \in Executing,
           bundle' = [bundle EXCEPT !.phase = phase], UNCHANGED outer, ChainOK(chain'),
           phase = "postOpReverted" => chain' = bundle.saved[2]
    PROVE  IInv'
<1>1. FrameOK(bundle) /\ BundleOK(bundle) /\ bundle.phase # "idle"
  BY DEF IInv, FrameOK, Executing
<1>2. bundle \in BundleRecord
  BY <1>1 DEF BundleOK
<1>3. /\ bundle' \in BundleRecord
      /\ bundle'.phase = phase /\ bundle'.ops = bundle.ops
      /\ bundle'.contexts = bundle.contexts /\ bundle'.saved = bundle.saved
  BY <1>2 DEF BundleRecord
<1>4. BundleOK(bundle')
  BY <1>1, <1>3 DEF BundleOK, Executing
<1>5. MaxOps = 1 => Covered(bundle')
  BY <1>1, <1>3 DEF FrameOK, Covered
<1>6. Undone'
  BY <1>3 DEF Undone
<1> QED
  BY <1>1, <1>4, <1>5, <1>6, TopKeeps DEF FrameOK

LEMMA SavedOK ==
    ASSUME IInv, bundle.phase # "idle"
    PROVE  /\ ChainOK(bundle.saved[1])
           /\ bundle.phase \in Executing => ChainOK(bundle.saved[2])
<1>1. BundleOK(bundle)
  BY DEF IInv, FrameOK
<1>2. /\ Len(bundle.saved) \in {1, 2}
      /\ bundle.phase \in Executing => Len(bundle.saved) = 2
  BY <1>1, BundleType DEF BundleOK
<1>3. 1 \in 1..1 /\ 1 \in 1..2 /\ 2 \in 1..2
  OBVIOUS
<1> QED
  BY <1>1, <1>2, <1>3 DEF BundleOK

LEMMA BundleRevertsKeeps ==
    ASSUME IInv, BundleReverts
    PROVE  IInv'
  BY SavedOK, LeaveKeeps DEF BundleReverts, In

LEMMA CallReturnsKeeps ==
    ASSUME IInv, NEW success \in BOOLEAN, CallReturns(success)
    PROVE  IInv'
<1>1. /\ bundle.phase = "call" /\ chain' \in {chain, bundle.saved[2]} /\ outer' = outer
      /\ bundle' = [bundle EXCEPT !.phase = "postOp"]
  BY DEF CallReturns, In
<1>2. bundle.phase \in Executing /\ bundle.phase # "idle" /\ "postOp" \in Executing
  BY <1>1 DEF Executing
<1>3. ChainOK(chain')
  BY <1>1, <1>2, SavedOK DEF IInv
<1> QED
  BY <1>1, <1>2, <1>3, PhaseKeeps

LEMMA InnerRevertsKeeps ==
    ASSUME IInv, InnerReverts
    PROVE  IInv'
<1>1. /\ chain' = bundle.saved[2] /\ outer' = outer
      /\ bundle' = [bundle EXCEPT !.phase = "postOpReverted"]
  BY DEF InnerReverts
<1>2. bundle.phase \in Executing /\ bundle.phase # "idle" /\ "postOpReverted" \in Executing
  BY DEF InnerReverts, Inside, Executing
<1>3. ChainOK(chain')
  BY <1>1, <1>2, SavedOK
<1> QED
  BY <1>1, <1>2, <1>3, PhaseKeeps

\* What is left of a sequence after its first element.
LEMMA TailType ==
    ASSUME NEW S, NEW s \in Seq(S), Len(s) # 0
    PROVE  /\ Head(s) = s[1] /\ s[1] \in S
           /\ Tail(s) \in Seq(S) /\ Len(Tail(s)) = Len(s) - 1 /\ Len(s) - 1 \in Nat
           /\ \A i \in 1..Len(Tail(s)) : i + 1 \in 1..Len(s) /\ Tail(s)[i] = s[i + 1]
<1>1. s # <<>>
  OBVIOUS
<1>2. Tail(s) \in Seq(S) /\ Len(Tail(s)) = Len(s) - 1
  BY <1>1
<1>3. \A i \in 1..Len(Tail(s)) : i + 1 \in 1..Len(s) /\ Tail(s)[i] = s[i + 1]
  BY <1>1, <1>2
<1> QED
  BY <1>1, <1>2, <1>3

LEMMA SecondReplaced ==
    ASSUME NEW S, NEW s \in Seq(S), Len(s) = 2, NEW e \in S
    PROVE  /\ [s EXCEPT ![2] = e] \in Seq(S) /\ Len([s EXCEPT ![2] = e]) = 2
           /\ [s EXCEPT ![2] = e][1] = s[1] /\ [s EXCEPT ![2] = e][2] = e
<1> DEFINE t == [s EXCEPT ![2] = e]
           n == Len(s)
<1>1. n \in Nat /\ s \in [1..n -> S] /\ n = 2
  BY LenProperties
<1> HIDE DEF n
<1>2. t \in [1..n -> S] /\ t[1] = s[1] /\ t[2] = e
  BY <1>1
<1> HIDE DEF t
<1>3. n \in Nat
  BY <1>1
<1>4. t \in [1..n -> S]
  BY <1>2
<1>5. t \in Seq(S) /\ DOMAIN t = 1..n
  BY <1>3, <1>4
<1>6. Len(t) = n
  BY <1>3, <1>5
<1> QED
  BY <1>1, <1>2, <1>5, <1>6 DEF t

\* An operation was settled; those that follow are none if bundles are single
\* operations.
LEMMA SettledKeeps ==
    ASSUME IInv, bundle.phase \in Executing, NEW after, ChainOK(after), Settled(after)
    PROVE  IInv'
<1> DEFINE ops == Tail(bundle.ops)
           contexts == Tail(bundle.contexts)
           saved == [bundle.saved EXCEPT ![2] = after]
<1>1. BundleOK(bundle) /\ ChainOK(chain) /\ bundle.phase # "idle"
  BY DEF IInv, FrameOK, Executing
<1>2. /\ bundle \in BundleRecord /\ bundle.contexts \in Seq(Account) /\ bundle.ops \in Seq(Op)
      /\ bundle.saved \in Seq(Chain)
      /\ Len(bundle.contexts) = Len(bundle.ops) /\ Len(bundle.ops) # 0 /\ Len(bundle.saved) = 2
      /\ Len(bundle.ops) \in Nat /\ Len(bundle.ops) <= MaxOps
  BY <1>1, BundleType DEF BundleOK
<1>3. /\ ops \in Seq(Op) /\ Len(ops) = Len(bundle.ops) - 1
      /\ \A i \in 1..Len(ops) : i + 1 \in 1..Len(bundle.ops) /\ ops[i] = bundle.ops[i + 1]
  BY <1>2, TailType
<1>4. /\ contexts \in Seq(Account) /\ Len(contexts) = Len(bundle.ops) - 1
      /\ \A i \in 1..Len(contexts) :
            i + 1 \in 1..Len(bundle.ops) /\ contexts[i] = bundle.contexts[i + 1]
  BY <1>2, TailType
<1>5. after \in Chain
  BY DEF ChainOK
<1>6. /\ saved \in Seq(Chain) /\ Len(saved) = 2
      /\ saved[1] = bundle.saved[1] /\ saved[2] = after
  BY <1>2, <1>5, SecondReplaced
<1>7. CASE Len(bundle.ops) = 1
  BY <1>1, <1>7, LeaveKeeps DEF Settled, LastSettles
<1>8. CASE Len(bundle.ops) # 1
  <2>1. /\ chain' = after /\ outer' = outer
        /\ bundle' = [bundle EXCEPT !.phase = "call", !.ops = ops, !.contexts = contexts,
                                    !.saved = saved]
    BY <1>2, <1>8 DEF Settled, LastSettles, BundleRecord
  <2> HIDE DEF ops, contexts, saved
  <2>2. /\ bundle' \in BundleRecord /\ bundle'.phase = "call" /\ bundle'.ops = ops
        /\ bundle'.contexts = contexts /\ bundle'.saved = saved
    BY <1>2, <1>3, <1>4, <1>6, <2>1 DEF BundleRecord, Executing
  <2>3. ASSUME NEW i \in 1..Len(contexts)
        PROVE  contexts[i] = ops[i].account
    <3>1. /\ i + 1 \in 1..Len(bundle.contexts) /\ contexts[i] = bundle.contexts[i + 1]
          /\ ops[i] = bundle.ops[i + 1]
      BY <1>2, <1>3, <1>4
    <3>2. \A k \in 1..Len(bundle.contexts) : bundle.contexts[k] = bundle.ops[k].account
      BY <1>1 DEF BundleOK
    <3> QED
      BY <3>1, <3>2
  <2>4. \A k \in 1..Len(saved) : ChainOK(saved[k])
    <3> TAKE k \in 1..Len(saved)
    <3>1. k = 1 \/ k = 2
      BY <1>6
    <3>2. ChainOK(bundle.saved[1])
      BY <1>1, <1>2 DEF BundleOK
    <3> QED
      BY <1>6, <3>1, <3>2
  <2>5. bundle'.phase # "idle" /\ bundle'.phase # "validate"
    BY <2>2
  <2>6. BundleOK(bundle')
    <3>1. Len(ops) = Len(contexts) /\ Len(ops) # 0 /\ Len(ops) <= MaxOps
      BY <1>2, <1>3, <1>4, <1>8, Assumptions
    <3> QED
      BY <1>6, <2>2, <2>3, <2>4, <2>5, <3>1 DEF BundleOK
  <2>7. MaxOps # 1
    <3>1. \A n \in Nat : n # 0 /\ n # 1 => ~(n <= 1)
      OBVIOUS
    <3> QED
      BY <1>2, <1>8, <3>1
  <2> QED
    BY <1>1, <2>1, <2>2, <2>6, <2>7, TopKeeps DEF FrameOK, Undone
<1> QED
  BY <1>7, <1>8

\* What the first operation may be charged.
LEMMA ChargeType ==
    ASSUME IInv, bundle.phase \in Executing, NEW gasCost \in GasCosts
    PROVE  /\ Context = bundle.contexts[1] /\ Context \in Account
           /\ Head(bundle.ops) = bundle.ops[1] /\ bundle.ops[1].maxCost \in MaxCosts
           /\ Charge(gasCost) \in Nat
           /\ bundle.ops[1].maxCost # 0 =>
                 Charge(gasCost) <= TokenValueOfEth(bundle.ops[1].maxCost)
<1> DEFINE maxCost == bundle.ops[1].maxCost
<1>1. BundleOK(bundle)
  BY DEF IInv, FrameOK
<1>2. /\ bundle.contexts \in Seq(Account) /\ Len(bundle.contexts) # 0
      /\ bundle.ops \in Seq(Op) /\ Len(bundle.ops) # 0
  BY <1>1, BundleType DEF BundleOK
<1>3. /\ Context = bundle.contexts[1] /\ Context \in Account
      /\ Head(bundle.ops) = bundle.ops[1] /\ bundle.ops[1] \in Op
  BY <1>2, TailType DEF Context
<1>4. maxCost \in MaxCosts /\ maxCost \in Nat /\ CostOfPost \in Nat
  BY <1>3, Assumptions DEF Op
<1>5. gasCost \in IF maxCost = 0 THEN {0} ELSE 0 .. maxCost - CostOfPost
  BY <1>3 DEF GasCosts
<1> HIDE DEF maxCost
<1>6. gasCost + CostOfPost \in Nat /\ (maxCost # 0 => gasCost + CostOfPost <= maxCost)
  BY <1>4, <1>5
<1>7. Charge(gasCost) \in Nat /\ (maxCost # 0 => Charge(gasCost) <= TokenValueOfEth(maxCost))
  BY <1>4, <1>6, ValueMonotone DEF Charge
<1> QED
  BY <1>3, <1>4, <1>7 DEF maxCost

LEMMA PostOpKeeps ==
    ASSUME IInv, bundle.phase \in Executing, NEW gasCost \in GasCosts, PostOp(gasCost)
    PROVE  IInv'
<1> DEFINE t == Transferred(chain.tokens, Context, Paymaster, Charge(gasCost))
           after == [chain EXCEPT !.tokens = t]
<1>1. ChainOK(chain) /\ chain \in Chain /\ chain.tokens \in [Holder -> Nat]
  BY ChainType DEF IInv, ChainOK
<1>2. /\ Context \in Holder /\ Paymaster \in Holder
      /\ Charge(gasCost) \in Nat /\ Charge(gasCost) <= chain.tokens[Context]
  BY <1>1, ChargeType, Assumptions DEF PostOp, CanCharge
<1>3. t \in [Holder -> Nat]
  BY <1>1, <1>2, TransferType
<1>4. PostOpReturns(after) \/ Settled(after)
  BY DEF PostOp, Charged
<1> HIDE DEF t
<1>5. ChainOK(after)
  BY <1>1, <1>3 DEF Chain, ChainOK
<1> HIDE DEF after
<1>6. CASE PostOpReturns(after)
  <2>1. /\ chain' = after /\ outer' = outer
        /\ bundle' = [bundle EXCEPT !.phase = "settle"] /\ "settle" \in Executing
    BY <1>6 DEF PostOpReturns, Executing
  <2> QED
    BY <1>5, <2>1, PhaseKeeps
<1>7. CASE Settled(after)
  BY <1>5, <1>7, SettledKeeps
<1> QED
  BY <1>4, <1>6, <1>7

LEMMA InnerReturnsKeeps ==
    ASSUME IInv, In("settle"), Settled(chain)
    PROVE  IInv'
<1>1. bundle.phase \in Executing /\ ChainOK(chain)
  BY DEF In, Executing, IInv
<1> QED
  BY <1>1, SettledKeeps

-----------------------------------------------------------------------------
(***************************************************************************)
(* The theorems.                                                           *)
(***************************************************************************)
LEMMA InitOK == Init => IInv
<1> SUFFICES ASSUME Init PROVE IInv
  OBVIOUS
<1>1. PICK owner \in Admin :
          chain = [tokens |-> [a \in Holder |-> IF a = Paymaster THEN 1 ELSE 0],
                   allowed |-> {owner}, owner |-> owner]
  BY DEF Init
<1>2. {owner} \in SUBSET User
  BY Assumptions
<1>3. ChainOK(chain)
  BY <1>1, <1>2 DEF ChainOK, Chain
<1>4. /\ NoBundle \in BundleRecord /\ NoBundle.phase = "idle"
      /\ Len(NoBundle.ops) = 0 /\ Len(NoBundle.contexts) = 0 /\ Len(NoBundle.saved) = 0
  BY Assumptions DEF NoBundle, BundleRecord
<1>5. "validate" # "idle" /\ "idle" \notin Executing
  BY DEF Executing
<1>6. bundle = NoBundle /\ outer = <<>>
  BY DEF Init, NoTransaction
<1>7. BundleOK(NoBundle)
  BY <1>4, <1>5, Assumptions DEF BundleOK
<1>8. FrameOK(NoBundle)
  BY <1>4, <1>5, <1>7 DEF FrameOK, Covered
<1>9. Waiting /\ Undone
  BY <1>4, <1>6 DEF Waiting, Undone
<1> QED
  BY <1>3, <1>6, <1>8, <1>9 DEF IInv

LEMMA EntryPointStepKeeps ==
    ASSUME IInv, EntryPointStep
    PROVE  IInv'
<1>1. CASE \E ops \in Ops : HandleOps(ops)
  BY <1>1, HandleOpsKeeps
<1>2. CASE ValidatePaymasterUserOp
  BY <1>2, ValidateKeeps
<1>3. CASE \E success \in BOOLEAN : CallReturns(success)
  BY <1>3, CallReturnsKeeps
<1>4. CASE /\ bundle.phase \in {"postOp", "postOpReverted"}
           /\ \E gasCost \in GasCosts : PostOp(gasCost)
  <2>1. bundle.phase \in Executing
    BY <1>4 DEF Executing
  <2> QED
    BY <1>4, <2>1, PostOpKeeps
<1>5. CASE InnerReverts
  BY <1>5, InnerRevertsKeeps
<1>6. CASE In("settle") /\ Settled(chain)
  BY <1>6, InnerReturnsKeeps
<1>7. CASE BundleReverts
  BY <1>7, BundleRevertsKeeps
<1> QED
  BY <1>1, <1>2, <1>3, <1>4, <1>5, <1>6, <1>7 DEF EntryPointStep

LEMMA StutterKeeps ==
    ASSUME IInv, UNCHANGED vars
    PROVE  IInv'
  BY DEF IInv, Waiting, Undone, vars

LEMMA NextOK == IInv /\ [Next]_vars => IInv'
  BY UserStepKeeps, EntryPointStepKeeps, StutterKeeps DEF Next

LEMMA Invariant == Spec => []IInv
<1> QED
  BY InitOK, NextOK, PTL DEF Spec

\* Whatever bundles are undone, and at whatever time the ownership is handed on,
\* nobody but the owner may withdraw the paymaster's tokens.
THEOREM OwnerOnly == Spec => []OnlyOwnerWithdraws
<1>1. IInv => OnlyOwnerWithdraws
  BY DEF IInv, ChainOK, OnlyOwnerWithdraws
<1> QED
  BY <1>1, Invariant, PTL

\* An operation that is alone in its bundle, and not free, cannot escape its
\* charge by spending the tokens that its validation saw.
THEOREM TokensSuffice ==
    ASSUME MaxOps = 1, 0 \notin MaxCosts
    PROVE  Spec => []TokensCover
<1>1. IInv => TokensCover
  <2> SUFFICES ASSUME IInv, In("postOpReverted"), NEW gasCost \in GasCosts
               PROVE  CanCharge(gasCost)
    BY DEF TokensCover
  <2>1. bundle.phase = "postOpReverted" /\ bundle.phase \in Executing
    BY DEF In, Executing
  <2>2. /\ Context = bundle.contexts[1] /\ Context \in Account
        /\ bundle.ops[1].maxCost # 0 /\ bundle.ops[1].maxCost \in Nat
        /\ Charge(gasCost) \in Nat
        /\ Charge(gasCost) <= TokenValueOfEth(bundle.ops[1].maxCost)
    BY <2>1, ChargeType, Assumptions
  <2>3. chain.tokens[Context] >= TokenValueOfEth(bundle.ops[1].maxCost)
    BY <2>1, <2>2 DEF IInv, FrameOK, Covered, Undone
  <2>4. chain.tokens[Context] \in Nat
    BY <2>2, ChainType, Assumptions DEF IInv, ChainOK
  <2>5. TokenValueOfEth(bundle.ops[1].maxCost) \in Nat
    BY <2>2, ValueMonotone
  <2> QED
    BY <2>2, <2>3, <2>4, <2>5 DEF CanCharge
<1> QED
  BY <1>1, Invariant, PTL

=============================================================================
