----------------------- MODULE DepositPaymasterProofs -----------------------
(***************************************************************************)
(* What DepositPaymaster guarantees for any accounts, tokens, rates and    *)
(* bundles.                                                                *)
(***************************************************************************)
EXTENDS DepositPaymaster, RecursionTheorems, SequenceTheorems

-----------------------------------------------------------------------------
(***************************************************************************)
(* The inductive invariant.                                                *)
(***************************************************************************)

Chain ==
    [tokens: [Holder -> Nat], oracle: BOOLEAN, balances: [User -> Nat],
     unlockBlock: [User -> Nat], charged: [User -> Nat], owed: [User -> Int]]

Promise == [account: Account, maxTokenCost: Nat, maxCost: MaxCosts, charged: Nat]

Executing == {"call", "postOp", "settle", "postOpReverted"}

BundleRecord ==
    [phase: {"idle", "validate"} \cup Executing, ops: Seq(Op), contexts: Seq(Promise),
     saved: Seq(Chain)]

Deposits(c) == SumFunctionOnSet(c.balances, User)

ChainOK(c) == c \in Chain /\ Deposits(c) <= c.tokens[Paymaster]

BundleOK(b) ==
    /\ b \in BundleRecord
    /\ b.phase = "idle" => Len(b.ops) = 0 /\ Len(b.contexts) = 0 /\ Len(b.saved) = 0
    /\ b.phase = "validate" => Len(b.contexts) < Len(b.ops) /\ Len(b.saved) = 1
    /\ b.phase \in Executing =>
          Len(b.contexts) = Len(b.ops) /\ Len(b.ops) # 0 /\ Len(b.saved) = 2
    /\ \A k \in 1..Len(b.saved) : ChainOK(b.saved[k])

\* The bundles in progress, the outermost first; below them the first one is idle.
Depth == Len(outer) + 1

Frame(k) == IF k \in 1..Len(outer) THEN outer[k] ELSE bundle

Stack ==
    /\ outer \in Seq(BundleRecord)
    /\ \A k \in 1..Depth : BundleOK(Frame(k)) /\ (Frame(k).phase = "idle" <=> k = 1)

\* On chain c the deposit of each account that was validated is enough for its
\* operation, but for what was charged since, and cannot be withdrawn before
\* the next block.
Covers(c, contexts, now) ==
    \A i \in 1..Len(contexts) :
        /\ c.unlockBlock[contexts[i].account] \in {0, now}
        /\ c.balances[contexts[i].account] + c.charged[contexts[i].account]
              >= contexts[i].maxTokenCost + contexts[i].charged

\* So it is on the chains, from the given one on, that this bundle may go back to.
Saves(b, first, contexts, now) ==
    \A s \in first..Len(b.saved) : Covers(b.saved[s], contexts, now)

\* A bundle that is undone leaves what it found to the bundles around it, and an
\* inner call that is undone what it found to its own bundle as well.
Covered ==
    \A k \in 1..Depth :
        /\ Covers(chain, Frame(k).contexts, block)
        /\ Saves(Frame(k), 2, Frame(k).contexts, block)
        /\ \A j \in 1..(k - 1) : Saves(Frame(k), 1, Frame(j).contexts, block)

IInv ==
    /\ block \in Nat
    /\ ChainOK(chain)
    /\ Stack
    /\ Covered

-----------------------------------------------------------------------------
(***************************************************************************)
(* Numbers, finite sets and records.                                       *)
(***************************************************************************)

LEMMA Assumptions ==
    /\ Owner \notin Account /\ Paymaster \notin User /\ Owner \in User /\ Paymaster \in Holder
    /\ User \subseteq Holder /\ Account \subseteq User
    /\ MaxCosts \subseteq Nat /\ Rates \subseteq Nat /\ PostCost \in Nat
    /\ InitialTokens \in [Holder -> Nat]
    /\ IsFiniteSet(User)
<1>1. IsFiniteSet(Account)
  BY DepositPaymasterConstants
<1>2. IsFiniteSet(Account \cup {Owner})
  BY <1>1, FS_AddElement
<1> QED
  BY <1>2, DepositPaymasterConstants DEF User, Holder

\* A share of t is not more than t.
LEMMA Share ==
    ASSUME NEW t \in Nat, NEW m \in Nat \ {0}, NEW c \in 0..m
    PROVE  (c * t) \div m \in 0..t
<1> DEFINE p == c * t
           q == p \div m
<1>1. p \in Nat /\ p <= m * t
  <2>1. m - c \in Nat /\ (m - c) * t \in Nat /\ m * t = c * t + (m - c) * t /\ c * t \in Nat
    OBVIOUS
  <2> QED
    BY <2>1
<1> HIDE DEF p
<1>2. q \in Nat /\ m * q <= p
  BY <1>1
<1> HIDE DEF q
<1>3. ASSUME q > t PROVE FALSE
  <2>1. q - t - 1 \in Nat /\ m * (q - t - 1) \in Nat
    BY <1>2, <1>3
  <2>2. m * q = m * t + m + m * (q - t - 1)
    BY <1>2, <2>1
  <2>3. m * t \in Nat /\ m * q \in Nat
    BY <1>2
  <2> QED
    BY <1>1, <1>2, <2>1, <2>2, <2>3
<1> QED
  BY <1>2, <1>3 DEF p, q

LEMMA ChainType ==
    ASSUME NEW c \in Chain
    PROVE  /\ c.tokens \in [Holder -> Nat] /\ c.oracle \in BOOLEAN
           /\ c.balances \in [User -> Nat] /\ c.unlockBlock \in [User -> Nat]
           /\ c.charged \in [User -> Nat] /\ c.owed \in [User -> Int]
           /\ Deposits(c) \in Nat
           /\ \A a \in User : c.balances[a] <= Deposits(c)
<1>1. /\ c.tokens \in [Holder -> Nat] /\ c.oracle \in BOOLEAN
      /\ c.balances \in [User -> Nat] /\ c.unlockBlock \in [User -> Nat]
      /\ c.charged \in [User -> Nat] /\ c.owed \in [User -> Int]
  BY DEF Chain
<1> DEFINE b == c.balances
<1>2. \A a \in User : b[a] \in Nat /\ b[a] \in Int
  BY <1>1
<1> HIDE DEF b
<1>3. SumFunctionOnSet(b, User) \in Nat
  BY <1>2, Assumptions, SumInt
<1>4. \A a \in User : b[a] <= SumFunctionOnSet(b, User)
  BY <1>2, Assumptions, SumBounds
<1> QED
  BY <1>1, <1>3, <1>4 DEF Deposits, b

\* Tokens that are transferred are neither made nor lost.
LEMMA TransferType ==
    ASSUME NEW tokens \in [Holder -> Nat], NEW from \in Holder, NEW to \in Holder,
           NEW amount \in Nat, amount <= tokens[from]
    PROVE  /\ Transferred(tokens, from, to, amount) \in [Holder -> Nat]
           /\ from # Paymaster =>
                 Transferred(tokens, from, to, amount)[Paymaster]
                   = tokens[Paymaster] + (IF to = Paymaster THEN amount ELSE 0)
           /\ Transferred(tokens, from, to, amount)[Paymaster] >= tokens[Paymaster] - amount
<1> DEFINE less == [tokens EXCEPT ![from] = tokens[from] - amount]
           after == [less EXCEPT ![to] = less[to] + amount]
<1>1. Transferred(tokens, from, to, amount) = after
  BY DEF Transferred
<1>2. tokens[from] - amount \in Nat
  OBVIOUS
<1>3. /\ less \in [Holder -> Nat] /\ less[from] = tokens[from] - amount
      /\ \A h \in Holder \ {from} : less[h] = tokens[h]
  BY <1>2
<1> HIDE DEF less
<1>4. less[to] + amount \in Nat
  BY <1>3
<1>5. /\ after \in [Holder -> Nat] /\ after[to] = less[to] + amount
      /\ \A h \in Holder \ {to} : after[h] = less[h]
  BY <1>3, <1>4
<1> HIDE DEF after
<1>6. tokens[Paymaster] \in Nat /\ tokens[from] \in Nat /\ Paymaster \in Holder
  BY Assumptions
<1>7. CASE to = Paymaster
  <2>1. CASE from = Paymaster
    BY <1>1, <1>3, <1>5, <1>6, <1>7, <2>1
  <2>2. CASE from # Paymaster
    BY <1>1, <1>3, <1>5, <1>6, <1>7, <2>2
  <2> QED
    BY <2>1, <2>2
<1>8. CASE to # Paymaster
  <2>1. CASE from = Paymaster
    BY <1>1, <1>3, <1>5, <1>6, <1>8, <2>1
  <2>2. CASE from # Paymaster
    BY <1>1, <1>3, <1>5, <1>6, <1>8, <2>2
  <2> QED
    BY <2>1, <2>2
<1> QED
  BY <1>1, <1>5, <1>7, <1>8

\* One deposit changes.
LEMMA DepositChange ==
    ASSUME NEW b \in [User -> Nat], NEW a \in User, NEW v \in Nat
    PROVE  /\ [b EXCEPT ![a] = v] \in [User -> Nat]
           /\ SumFunctionOnSet([b EXCEPT ![a] = v], User) = SumFunctionOnSet(b, User) + v - b[a]
           /\ SumFunctionOnSet(b, User) \in Nat
<1> DEFINE after == [b EXCEPT ![a] = v]
<1>1. /\ after \in [User -> Nat] /\ after[a] = v
      /\ \A u \in User \ {a} : after[u] = b[u]
  OBVIOUS
<1> HIDE DEF after
<1>2. \A u \in User : b[u] \in Int /\ after[u] \in Int /\ b[u] \in Nat
  BY <1>1
<1>3. SumFunctionOnSet(after, User) = SumFunctionOnSet(b, User) + after[a] - b[a]
  BY <1>1, <1>2, Assumptions, SumChange
<1>4. SumFunctionOnSet(b, User) \in Nat
  BY <1>2, Assumptions, SumInt
<1> QED
  BY <1>1, <1>3, <1>4 DEF after

LEMMA BundleType ==
    ASSUME NEW b, BundleOK(b)
    PROVE  /\ b \in BundleRecord
           /\ b.phase \in {"idle", "validate"} \cup Executing
           /\ b.ops \in Seq(Op) /\ b.contexts \in Seq(Promise) /\ b.saved \in Seq(Chain)
           /\ Len(b.ops) \in Nat /\ Len(b.contexts) \in Nat /\ Len(b.saved) \in Nat
           /\ DOMAIN b.saved = 1..Len(b.saved)
<1>1. b \in BundleRecord
  BY DEF BundleOK
<1>2. b.ops \in Seq(Op) /\ b.contexts \in Seq(Promise) /\ b.saved \in Seq(Chain)
  BY <1>1 DEF BundleRecord
<1> QED
  BY <1>1, <1>2 DEF BundleRecord

-----------------------------------------------------------------------------
(***************************************************************************)
(* Steps of the users.  None touches a deposit that is locked, or that was *)
(* unlocked in the current block.                                          *)
(***************************************************************************)

\* What a step leaves to accounts that were validated: deposits, with what was
\* charged, and locks.
Spares(before, after, now) ==
    \A a \in Account :
        before.unlockBlock[a] \in {0, now} =>
            /\ after.unlockBlock[a] \in {0, now}
            /\ after.balances[a] + after.charged[a] >= before.balances[a] + before.charged[a]

LEMMA SparesCovers ==
    ASSUME NEW before \in Chain, NEW after \in Chain, NEW contexts \in Seq(Promise), NEW now,
           Spares(before, after, now), Covers(before, contexts, now)
    PROVE  Covers(after, contexts, now)
<1> SUFFICES ASSUME NEW i \in 1..Len(contexts)
             PROVE  /\ after.unlockBlock[contexts[i].account] \in {0, now}
                    /\ after.balances[contexts[i].account] + after.charged[contexts[i].account]
                         >= contexts[i].maxTokenCost + contexts[i].charged
  BY DEF Covers
<1>1. contexts[i] \in Promise
  OBVIOUS
<1>2. /\ contexts[i].account \in Account /\ contexts[i].maxTokenCost \in Nat
      /\ contexts[i].charged \in Nat
  BY <1>1 DEF Promise
<1> DEFINE a == contexts[i].account
<1>3. /\ before.unlockBlock[a] \in {0, now}
      /\ before.balances[a] + before.charged[a] >= contexts[i].maxTokenCost + contexts[i].charged
  BY DEF Covers
<1> HIDE DEF a
<1>4. a \in Account /\ a \in User
  BY <1>2, Assumptions DEF a
<1>5. /\ after.unlockBlock[a] \in {0, now}
      /\ after.balances[a] + after.charged[a] >= before.balances[a] + before.charged[a]
  BY <1>3, <1>4 DEF Spares
<1>6. /\ before.balances[a] \in Nat /\ after.balances[a] \in Nat
      /\ before.charged[a] \in Nat /\ after.charged[a] \in Nat
  BY <1>4, ChainType
<1> QED
  BY <1>2, <1>3, <1>5, <1>6, SMTT(30) DEF a

\* The innermost bundle and those around it.
LEMMA Frames ==
    ASSUME IInv
    PROVE  /\ Len(outer) \in Nat /\ outer \in Seq(BundleRecord)
           /\ Depth = Len(outer) + 1 /\ Depth \in 1..Depth /\ Frame(Depth) = bundle
           /\ \A k \in 1..Len(outer) : k \in 1..Depth /\ k # Depth /\ Frame(k) = outer[k]
           /\ \A k \in 1..Depth : k = Depth \/ k \in 1..Len(outer)
           /\ BundleOK(bundle) /\ (bundle.phase = "idle" <=> Len(outer) = 0)
           /\ \A k \in 1..Len(outer) : BundleOK(outer[k]) /\ (outer[k].phase = "idle" <=> k = 1)
<1>1. outer \in Seq(BundleRecord) /\ Len(outer) \in Nat
  BY DEF IInv, Stack
<1>2. /\ Depth = Len(outer) + 1 /\ Depth \in 1..Depth /\ Depth \notin 1..Len(outer)
      /\ \A k \in 1..Len(outer) : k \in 1..Depth /\ k # Depth
      /\ \A k \in 1..Depth : k = Depth \/ k \in 1..Len(outer)
      /\ Depth = 1 <=> Len(outer) = 0
  BY <1>1 DEF Depth
<1>3. Frame(Depth) = bundle /\ \A k \in 1..Len(outer) : Frame(k) = outer[k]
  BY <1>2 DEF Frame
<1>4. \A k \in 1..Depth : BundleOK(Frame(k)) /\ (Frame(k).phase = "idle" <=> k = 1)
  BY DEF IInv, Stack
<1> HIDE DEF Depth
<1> QED
  BY <1>1, <1>2, <1>3, <1>4

LEMMA CoveredNow ==
    ASSUME IInv
    PROVE  /\ Covers(chain, bundle.contexts, block)
           /\ Saves(bundle, 2, bundle.contexts, block)
           /\ \A k \in 1..Len(outer) :
                 /\ Covers(chain, outer[k].contexts, block)
                 /\ Saves(bundle, 1, outer[k].contexts, block)
<1>1. Covered
  BY DEF IInv
<1>2. \A k \in 1..Len(outer) : k \in 1..(Depth - 1)
  BY Frames
<1> QED
  BY <1>1, <1>2, Frames DEF Covered

\* A step of the innermost bundle, or of the code it calls.
LEMMA TopKeeps ==
    ASSUME IInv, UNCHANGED <<outer, block>>, ChainOK(chain'), BundleOK(bundle'),
           bundle'.phase = "idle" <=> bundle.phase = "idle",
           Covers(chain', bundle'.contexts, block),
           Saves(bundle', 2, bundle'.contexts, block),
           \A k \in 1..Len(outer) :
               /\ Covers(chain', outer[k].contexts, block)
               /\ Saves(bundle', 1, outer[k].contexts, block)
    PROVE  IInv'
<1>1. outer' = outer /\ block' = block /\ Depth' = Depth /\ block \in Nat
  BY DEF Depth, IInv
<1>2. \A k \in 1..Len(outer) : Frame(k)' = outer[k]
  BY <1>1 DEF Frame
<1>3. \A k \in {Depth} : Frame(k)' = bundle'
  <2>1. Depth \notin 1..Len(outer)
    BY Frames
  <2> QED
    BY <1>1, <2>1 DEF Frame
<1>4. Stack'
  <2>1. bundle'.phase = "idle" <=> Depth = 1
    BY Frames
  <2>2. ASSUME NEW k \in 1..Depth
        PROVE  BundleOK(Frame(k)') /\ (Frame(k)'.phase = "idle" <=> k = 1)
    <3>1. CASE k \in {Depth}
      BY <1>3, <2>1, <3>1
    <3>2. CASE k \in 1..Len(outer)
      BY <1>2, <3>2, Frames
    <3> QED
      BY <3>1, <3>2, Frames
  <2> QED
    BY <1>1, <2>2, Frames DEF Stack
<1>5. Covered'
  <2>1. ASSUME NEW k \in 1..Len(outer)
        PROVE  /\ Covers(chain', outer[k].contexts, block)
               /\ Saves(outer[k], 2, outer[k].contexts, block)
               /\ \A j \in 1..(k - 1) : Saves(outer[k], 1, Frame(j)'.contexts, block)
    <3>1. \A j \in 1..(k - 1) : j \in 1..Len(outer)
      BY Frames
    <3>2. \A j \in 1..(k - 1) : Saves(Frame(k), 1, Frame(j).contexts, block)
      BY Frames DEF IInv, Covered
    <3>3. Saves(Frame(k), 2, Frame(k).contexts, block)
      BY Frames DEF IInv, Covered
    <3> QED
      BY <1>2, <3>1, <3>2, <3>3, Frames
  <2>2. \A j \in 1..(Depth - 1) : j \in 1..Len(outer)
    BY Frames
  <2>3. ASSUME NEW k \in 1..Depth
        PROVE  /\ Covers(chain', Frame(k)'.contexts, block)
               /\ Saves(Frame(k)', 2, Frame(k)'.contexts, block)
               /\ \A j \in 1..(k - 1) : Saves(Frame(k)', 1, Frame(j)'.contexts, block)
    <3>1. CASE k \in {Depth}
      <4>1. \A j \in 1..(k - 1) : j \in 1..Len(outer)
        BY <2>2, <3>1
      <4> QED
        BY <1>2, <1>3, <3>1, <4>1
    <3>2. CASE k \in 1..Len(outer)
      BY <1>2, <2>1, <3>2
    <3> QED
      BY <3>1, <3>2, Frames
  <2> QED
    BY <1>1, <2>3 DEF Covered
<1> QED
  BY <1>1, <1>4, <1>5 DEF IInv

\* What spares the deposits leaves them covered, in all bundles.
LEMMA SparesAll ==
    ASSUME IInv, NEW after \in Chain, Spares(chain, after, block)
    PROVE  /\ Covers(after, bundle.contexts, block)
           /\ \A k \in 1..Len(outer) : Covers(after, outer[k].contexts, block)
<1>1. chain \in Chain
  BY DEF IInv, ChainOK
<1>2. /\ bundle.contexts \in Seq(Promise)
      /\ \A k \in 1..Len(outer) : outer[k].contexts \in Seq(Promise)
  BY Frames, BundleType
<1> QED
  BY <1>1, <1>2, CoveredNow, SparesCovers

LEMMA OutsideKeeps ==
    ASSUME IInv, NEW after, ChainOK(after), Outside(after), Spares(chain, after, block)
    PROVE  IInv'
<1>1. chain' = after /\ UNCHANGED <<bundle, outer, block>>
  BY DEF Outside, OutsideStep
<1>2. after \in Chain
  BY DEF ChainOK
<1> QED
  BY <1>1, <1>2, Frames, CoveredNow, SparesAll, TopKeeps

LEMMA AddTokenKeeps ==
    ASSUME IInv, NEW a \in User, AddToken(a)
    PROVE  IInv'
<1> DEFINE after == [chain EXCEPT !.oracle = TRUE]
<1>1. chain \in Chain /\ Deposits(chain) <= chain.tokens[Paymaster]
  BY DEF IInv, ChainOK
<1>2. Outside(after)
  BY DEF AddToken
<1>3. /\ after \in Chain /\ after.tokens = chain.tokens /\ after.balances = chain.balances
      /\ after.unlockBlock = chain.unlockBlock /\ after.charged = chain.charged
  BY <1>1 DEF Chain
<1> HIDE DEF after
<1>4. ChainOK(after)
  BY <1>1, <1>3 DEF ChainOK, Deposits
<1>5. Spares(chain, after, block)
  BY <1>1, <1>3, ChainType, Assumptions DEF Spares
<1> QED
  BY <1>2, <1>4, <1>5, OutsideKeeps

\* unlockTokenDeposit and lockTokenDeposit.
LEMMA LockingKeeps ==
    ASSUME IInv, NEW a \in User, NEW now \in {0, block},
           Outside([chain EXCEPT !.unlockBlock[a] = now])
    PROVE  IInv'
<1> DEFINE f == [chain.unlockBlock EXCEPT ![a] = now]
           after == [chain EXCEPT !.unlockBlock = f]
<1>1. chain \in Chain /\ Deposits(chain) <= chain.tokens[Paymaster] /\ block \in Nat
  BY DEF IInv, ChainOK
<1>2. /\ f \in [User -> Nat] /\ f[a] = now
      /\ \A u \in User \ {a} : f[u] = chain.unlockBlock[u]
  BY <1>1, ChainType
<1>3. Outside(after)
  OBVIOUS
<1> HIDE DEF f
<1>4. /\ after \in Chain /\ after.tokens = chain.tokens /\ after.balances = chain.balances
      /\ after.unlockBlock = f /\ after.charged = chain.charged
  BY <1>1, <1>2 DEF Chain
<1> HIDE DEF after
<1>5. ChainOK(after)
  BY <1>1, <1>4 DEF ChainOK, Deposits
<1>6. Spares(chain, after, block)
  BY <1>1, <1>2, <1>4, ChainType, Assumptions DEF Spares
<1> QED
  BY <1>3, <1>5, <1>6, OutsideKeeps

LEMMA TransferKeeps ==
    ASSUME IInv, NEW a \in User, NEW target \in Holder, NEW amount \in 0..chain.tokens[a],
           Transfer(a, target, amount)
    PROVE  IInv'
<1> DEFINE t == Transferred(chain.tokens, a, target, amount)
           after == [chain EXCEPT !.tokens = t]
<1>1. /\ chain \in Chain /\ Deposits(chain) <= chain.tokens[Paymaster]
      /\ chain.tokens \in [Holder -> Nat] /\ Deposits(chain) \in Nat
  BY ChainType DEF IInv, ChainOK
<1>2. a \in Holder /\ a # Paymaster /\ amount \in Nat /\ amount <= chain.tokens[a]
  BY Assumptions
<1>3. /\ t \in [Holder -> Nat]
      /\ t[Paymaster] = chain.tokens[Paymaster] + (IF target = Paymaster THEN amount ELSE 0)
  BY <1>1, <1>2, TransferType
<1>4. Outside(after)
  BY DEF Transfer
<1> HIDE DEF t
<1>5. /\ after \in Chain /\ after.tokens = t /\ after.balances = chain.balances
      /\ after.unlockBlock = chain.unlockBlock /\ after.charged = chain.charged
  BY <1>1, <1>3 DEF Chain
<1> HIDE DEF after
<1>6. ChainOK(after)
  <2>1. chain.tokens[Paymaster] \in Nat /\ chain.tokens[Paymaster] <= t[Paymaster]
    BY <1>1, <1>2, <1>3, Assumptions
  <2> QED
    BY <1>1, <1>3, <1>5, <2>1, Assumptions DEF ChainOK, Deposits
<1>7. Spares(chain, after, block)
  BY <1>1, <1>5, ChainType, Assumptions DEF Spares
<1> QED
  BY <1>4, <1>6, <1>7, OutsideKeeps

LEMMA AddDepositForKeeps ==
    ASSUME IInv, NEW a \in User, NEW account \in User, NEW amount \in 0..chain.tokens[a],
           AddDepositFor(a, account, amount)
    PROVE  IInv'
<1> DEFINE t == Transferred(chain.tokens, a, Paymaster, amount)
           v == chain.balances[account] + amount
           b == [chain.balances EXCEPT ![account] = v]
           w == IF a = account THEN 0 ELSE chain.unlockBlock[a]
           u == [chain.unlockBlock EXCEPT ![a] = w]
           after == [chain EXCEPT !.tokens = t, !.balances = b, !.unlockBlock = u]
<1>1. /\ chain \in Chain /\ Deposits(chain) <= chain.tokens[Paymaster]
      /\ chain.tokens \in [Holder -> Nat] /\ chain.balances \in [User -> Nat]
      /\ chain.unlockBlock \in [User -> Nat] /\ Deposits(chain) \in Nat
  BY ChainType DEF IInv, ChainOK
<1>2. /\ a \in Holder /\ a # Paymaster /\ amount \in Nat /\ amount <= chain.tokens[a]
      /\ Paymaster \in Holder /\ chain.balances[account] \in Nat /\ chain.unlockBlock[a] \in Nat
  BY <1>1, Assumptions
<1>3. /\ t \in [Holder -> Nat] /\ t[Paymaster] = chain.tokens[Paymaster] + amount
  BY <1>1, <1>2, TransferType
<1>4. v \in Nat /\ v = chain.balances[account] + amount
  BY <1>2
<1>5. Outside(after)
  <2>1. after = [chain EXCEPT !.tokens = Transferred(@, a, Paymaster, amount),
                              !.balances[account] = @ + amount,
                              !.unlockBlock[a] = IF a = account THEN 0 ELSE @]
    <3> HIDE DEF t
    <3> QED
      BY <1>1 DEF Chain, t
  <2> QED
    BY <2>1 DEF AddDepositFor
<1> HIDE DEF t, v
<1>6. /\ b \in [User -> Nat] /\ b[account] = v
      /\ \A x \in User \ {account} : b[x] = chain.balances[x]
      /\ SumFunctionOnSet(b, User) = Deposits(chain) + v - chain.balances[account]
  BY <1>1, <1>4, DepositChange DEF Deposits
<1>7. /\ u \in [User -> Nat] /\ u[a] \in {0, chain.unlockBlock[a]}
      /\ \A x \in User \ {a} : u[x] = chain.unlockBlock[x]
  BY <1>1, <1>2
<1> HIDE DEF b, u
<1>8. /\ after \in Chain /\ after.tokens = t /\ after.balances = b /\ after.unlockBlock = u
      /\ after.charged = chain.charged
  BY <1>1, <1>3, <1>6, <1>7 DEF Chain
<1> HIDE DEF after
<1>9. ChainOK(after)
  <2>1. Deposits(after) = Deposits(chain) + amount
    BY <1>1, <1>2, <1>4, <1>6, <1>8 DEF Deposits
  <2>2. chain.tokens[Paymaster] \in Nat
    BY <1>1, <1>2
  <2> QED
    BY <1>1, <1>2, <1>3, <1>8, <2>1, <2>2 DEF ChainOK
<1>10. Spares(chain, after, block)
  <2> SUFFICES ASSUME NEW x \in Account, chain.unlockBlock[x] \in {0, block}
               PROVE  /\ u[x] \in {0, block}
                      /\ b[x] + chain.charged[x] >= chain.balances[x] + chain.charged[x]
    BY <1>8 DEF Spares
  <2>1. x \in User /\ chain.balances[x] \in Nat /\ chain.charged[x] \in Nat /\ b[x] \in Nat
    BY <1>1, <1>6, ChainType, Assumptions
  <2>2. b[x] >= chain.balances[x]
    BY <1>2, <1>4, <1>6, <2>1
  <2> QED
    BY <1>7, <2>1, <2>2
<1> QED
  BY <1>5, <1>9, <1>10, OutsideKeeps

LEMMA WithdrawTokensToKeeps ==
    ASSUME IInv, NEW a \in User, NEW target \in Holder,
           NEW amount \in 0..chain.tokens[Paymaster], WithdrawTokensTo(a, target, amount)
    PROVE  IInv'
<1> DEFINE t == Transferred(chain.tokens, Paymaster, target, amount)
           v == chain.balances[a] - amount
           b == [chain.balances EXCEPT ![a] = v]
           after == [chain EXCEPT !.tokens = t, !.balances = b, !.unlockBlock = chain.unlockBlock]
<1>1. /\ chain \in Chain /\ Deposits(chain) <= chain.tokens[Paymaster]
      /\ chain.tokens \in [Holder -> Nat] /\ chain.balances \in [User -> Nat]
      /\ chain.unlockBlock \in [User -> Nat] /\ Deposits(chain) \in Nat
  BY ChainType DEF IInv, ChainOK
<1>2. /\ amount \in Nat /\ amount <= chain.tokens[Paymaster] /\ Paymaster \in Holder
      /\ chain.balances[a] \in Nat /\ amount <= chain.balances[a]
      /\ Unlocked(a)
  BY <1>1, Assumptions DEF WithdrawTokensTo
<1>3. t \in [Holder -> Nat] /\ t[Paymaster] >= chain.tokens[Paymaster] - amount
  BY <1>1, <1>2, TransferType
<1>4. v \in Nat /\ v = chain.balances[a] - amount
  BY <1>2
<1>5. Outside(after)
  <2>1. after = [chain EXCEPT !.balances[a] = @ - amount,
                              !.tokens = Transferred(@, Paymaster, target, amount)]
    BY <1>1 DEF Chain
  <2> QED
    BY <2>1 DEF WithdrawTokensTo
<1> HIDE DEF t, v
<1>6. /\ b \in [User -> Nat] /\ b[a] = v
      /\ \A x \in User \ {a} : b[x] = chain.balances[x]
      /\ SumFunctionOnSet(b, User) = Deposits(chain) + v - chain.balances[a]
  BY <1>1, <1>4, DepositChange DEF Deposits
<1> HIDE DEF b
<1>7. /\ after \in Chain /\ after.tokens = t /\ after.balances = b
      /\ after.unlockBlock = chain.unlockBlock /\ after.charged = chain.charged
  BY <1>1, <1>3, <1>6 DEF Chain
<1> HIDE DEF after
<1>8. ChainOK(after)
  <2>1. Deposits(after) = Deposits(chain) - amount
    BY <1>1, <1>2, <1>4, <1>6, <1>7 DEF Deposits
  <2>2. chain.tokens[Paymaster] \in Nat /\ t[Paymaster] \in Nat
    BY <1>1, <1>2, <1>3
  <2> QED
    BY <1>1, <1>2, <1>3, <1>7, <2>1, <2>2 DEF ChainOK
<1>9. Spares(chain, after, block)
  <2> SUFFICES ASSUME NEW x \in Account, chain.unlockBlock[x] \in {0, block}
               PROVE  b[x] + chain.charged[x] >= chain.balances[x] + chain.charged[x]
    BY <1>7 DEF Spares
  <2>1. /\ x \in User /\ chain.balances[x] \in Nat /\ block \in Nat
        /\ chain.unlockBlock[x] \in Nat /\ chain.charged[x] \in Nat
    BY <1>1, ChainType, Assumptions DEF IInv
  <2>2. x # a
    BY <1>2, <2>1 DEF Unlocked
  <2> QED
    BY <1>6, <2>1, <2>2
<1> QED
  BY <1>5, <1>8, <1>9, OutsideKeeps

-----------------------------------------------------------------------------
(***************************************************************************)
(* Steps of EntryPoint.                                                    *)
(***************************************************************************)

LEMMA OpsType ==
    ASSUME NEW ops \in Ops
    PROVE  ops \in Seq(Op) /\ Len(ops) \in Nat \ {0}
<1>1. PICK n \in 1..MaxOps : ops \in [1..n -> Op]
  BY DEF Ops
<1>2. n \in Nat \ {0}
  BY <1>1
<1> QED
  BY <1>1, <1>2

\* The code that calls handleOps waits for it.
LEMMA HandleOpsKeeps ==
    ASSUME IInv, NEW ops \in Ops, HandleOps(ops), UNCHANGED block
    PROVE  IInv'
<1> DEFINE saved == <<chain>>
           b == [NoBundle EXCEPT !.phase = "validate", !.ops = ops, !.saved = saved]
<1>1. /\ chain' = chain /\ block' = block /\ block \in Nat
      /\ outer' = Append(outer, bundle) /\ bundle' = b
  BY DEF HandleOps, IInv
<1>2. ChainOK(chain) /\ chain \in Chain /\ bundle \in BundleRecord
  BY Frames, BundleType DEF IInv, ChainOK
<1>3. saved \in Seq(Chain) /\ Len(saved) = 1 /\ saved[1] = chain
  BY <1>2
<1> HIDE DEF saved
<1>4. ops \in Seq(Op) /\ Len(ops) \in Nat \ {0}
  BY OpsType
<1>5. /\ b \in BundleRecord /\ b.phase = "validate" /\ b.ops = ops
      /\ b.contexts = <<>> /\ b.saved = saved
  <2>1. <<>> \in Seq(Promise)
    OBVIOUS
  <2> QED
    BY <1>3, <1>4, <2>1 DEF NoBundle, BundleRecord
<1> HIDE DEF b
<1>6. BundleOK(b)
  <2>1. \A s \in 1..Len(saved) : s = 1
    BY <1>3
  <2>2. b.phase # "idle" /\ b.phase \notin Executing
    BY <1>5 DEF Executing
  <2>3. Len(b.contexts) < Len(b.ops) /\ Len(b.saved) = 1
    BY <1>3, <1>4, <1>5
  <2> QED
    BY <1>2, <1>3, <1>5, <2>1, <2>2, <2>3 DEF BundleOK
<1>7. /\ outer' \in Seq(BundleRecord) /\ Depth' = Depth + 1 /\ Len(outer') = Depth
      /\ \A k \in 1..Depth : outer'[k] = Frame(k)
  <2>1. outer \in Seq(BundleRecord) /\ Len(outer) \in Nat
    BY Frames
  <2>2. outer' \in Seq(BundleRecord) /\ Len(outer') = Len(outer) + 1
    BY <1>1, <1>2, <2>1
  <2>3. \A k \in 1..Len(outer) : outer'[k] = outer[k]
    BY <1>1, <1>2, <2>1
  <2>4. outer'[Len(outer) + 1] = bundle
    BY <1>1, <1>2, <2>1
  <2> QED
    BY <2>1, <2>2, <2>3, <2>4, Frames DEF Depth
<1>8. Depth \in Nat /\ Depth >= 1
  BY Frames
<1>9. /\ \A k \in 1..Depth : Frame(k)' = Frame(k)
      /\ \A k \in {Depth + 1} : Frame(k)' = b
  <2>1. Depth + 1 \notin 1..Len(outer')
    BY <1>7, <1>8
  <2>2. \A k \in 1..Depth : k \in 1..Len(outer')
    BY <1>7
  <2> QED
    BY <1>1, <1>7, <2>1, <2>2 DEF Frame
<1>10. \A k \in 1..(Depth + 1) : k \in 1..Depth \/ (k \in {Depth + 1} /\ k # 1)
  BY <1>8
<1>11. Stack'
  <2>1. \A k \in 1..Depth : BundleOK(Frame(k)) /\ (Frame(k).phase = "idle" <=> k = 1)
    BY DEF IInv, Stack
  <2>2. b.phase # "idle"
    BY <1>5
  <2>3. ASSUME NEW k \in 1..(Depth + 1)
        PROVE  BundleOK(Frame(k)') /\ (Frame(k)'.phase = "idle" <=> k = 1)
    BY <1>6, <1>9, <1>10, <2>1, <2>2
  <2> QED
    BY <1>7, <2>3 DEF Stack
<1>12. Covered'
  <2>1. \A c : Covers(c, b.contexts, block)
    BY <1>5 DEF Covers
  <2>2. \A k \in 1..Depth : Covers(chain, Frame(k).contexts, block)
    BY DEF IInv, Covered
  <2>3. /\ Saves(b, 2, b.contexts, block)
        /\ \A k \in 1..Depth : Saves(b, 1, Frame(k).contexts, block)
    <3>1. Len(b.saved) = 1 /\ b.saved[1] = chain
      BY <1>3, <1>5
    <3>2. (\A m \in 2..1 : FALSE) /\ (\A m \in 1..1 : m = 1)
      OBVIOUS
    <3> QED
      BY <2>2, <3>1, <3>2 DEF Saves
  <2>4. ASSUME NEW k \in 1..Depth
        PROVE  /\ Covers(chain, Frame(k)'.contexts, block)
               /\ Saves(Frame(k)', 2, Frame(k)'.contexts, block)
               /\ \A m \in 1..(k - 1) : Saves(Frame(k)', 1, Frame(m)'.contexts, block)
    <3>1. \A m \in 1..(k - 1) : m \in 1..Depth
      BY <1>8
    <3>2. /\ Covers(chain, Frame(k).contexts, block)
          /\ Saves(Frame(k), 2, Frame(k).contexts, block)
          /\ \A m \in 1..(k - 1) : Saves(Frame(k), 1, Frame(m).contexts, block)
      BY DEF IInv, Covered
    <3> QED
      BY <1>9, <3>1, <3>2
  <2>5. \A m \in 1..((Depth + 1) - 1) : m \in 1..Depth
    BY <1>8
  <2>6. ASSUME NEW k \in 1..(Depth + 1)
        PROVE  /\ Covers(chain, Frame(k)'.contexts, block)
               /\ Saves(Frame(k)', 2, Frame(k)'.contexts, block)
               /\ \A m \in 1..(k - 1) : Saves(Frame(k)', 1, Frame(m)'.contexts, block)
    <3>1. CASE k \in 1..Depth
      BY <2>4, <3>1
    <3>2. CASE k \in {Depth + 1}
      BY <1>9, <2>1, <2>3, <2>5, <3>2
    <3> QED
      BY <1>10, <3>1, <3>2
  <2> QED
    BY <1>1, <1>7, <2>6 DEF Covered
<1> QED
  BY <1>1, <1>2, <1>11, <1>12 DEF IInv

\* A bundle is over: the one around it goes on, on a chain that covers it.
LEMMA LeaveKeeps ==
    ASSUME IInv, bundle.phase # "idle", Leave, ChainOK(chain'), UNCHANGED block,
           \A k \in 1..Len(outer) : Covers(chain', outer[k].contexts, block)
    PROVE  IInv'
<1> DEFINE n == Len(outer)
<1>1. n \in Nat \ {0} /\ outer \in Seq(BundleRecord) /\ Depth = n + 1
  BY Frames
<1>2. bundle' = outer[n] /\ outer' = SubSeq(outer, 1, n - 1) /\ block' = block /\ block \in Nat
  BY DEF Leave, IInv
<1>3. /\ outer' \in Seq(BundleRecord) /\ Len(outer') = n - 1
      /\ \A k \in 1..(n - 1) : outer'[k] = outer[k]
  <2> DEFINE m == n - 1
             front == SubSeq(outer, 1, m)
  <2>1. m \in Nat /\ \A k \in 1..m : k \in 1..n
    BY <1>1
  <2>2. 1 \in Int /\ m \in Int /\ \A k \in 1..m : outer[k] \in BundleRecord
    BY <1>1, <2>1, ElementOfSeq
  <2>3. /\ front \in Seq(BundleRecord)
        /\ Len(front) = IF 1 <= m THEN m - 1 + 1 ELSE 0
        /\ \A k \in 1..(m - 1 + 1) : front[k] = outer[1 + k - 1]
    <3> HIDE DEF m
    <3> QED
      BY <2>2, SubSeqProperties
  <2> HIDE DEF m, front
  <2>4. Len(front) = m /\ \A k \in 1..m : k \in 1..(m - 1 + 1) /\ 1 + k - 1 = k
    BY <2>1, <2>3
  <2>5. \A k \in 1..m : front[k] = outer[k]
    BY <2>3, <2>4
  <2> QED
    BY <1>2, <2>3, <2>4, <2>5 DEF front, m
<1> HIDE DEF n
<1>4. Depth' = n
  BY <1>1, <1>3 DEF Depth
<1>5. \A k \in 1..n : Frame(k)' = Frame(k) /\ Frame(k) = outer[k] /\ k \in 1..Depth
  <2>1. \A k \in 1..n : k \in 1..(n - 1) \/ (k = n /\ k \notin 1..(n - 1))
    BY <1>1
  <2> QED
    BY <1>2, <1>3, <2>1, Frames DEF Frame, n
<1>6. Stack'
  BY <1>3, <1>4, <1>5 DEF IInv, Stack
<1>7. Covered'
  <2>1. ASSUME NEW k \in 1..n
        PROVE  /\ Covers(chain', Frame(k)'.contexts, block)
               /\ Saves(Frame(k)', 2, Frame(k)'.contexts, block)
               /\ \A m \in 1..(k - 1) : Saves(Frame(k)', 1, Frame(m)'.contexts, block)
    <3>1. \A m \in 1..(k - 1) : m \in 1..n
      BY <1>1
    <3>2. /\ Saves(Frame(k), 2, Frame(k).contexts, block)
          /\ \A m \in 1..(k - 1) : Saves(Frame(k), 1, Frame(m).contexts, block)
      BY <1>5 DEF IInv, Covered
    <3>3. Covers(chain', outer[k].contexts, block)
      BY DEF n
    <3> QED
      BY <1>5, <3>1, <3>2, <3>3
  <2> QED
    BY <1>2, <1>4, <2>1 DEF Covered
<1> QED
  BY <1>2, <1>6, <1>7 DEF IInv

LEMMA BundleRevertsKeeps ==
    ASSUME IInv, BundleReverts, UNCHANGED block
    PROVE  IInv'
<1>1. bundle.phase # "idle" /\ chain' = bundle.saved[1] /\ Leave
  BY DEF BundleReverts, In
<1>2. BundleOK(bundle)
  BY Frames
<1>3. 1 \in 1..Len(bundle.saved)
  BY <1>1, <1>2, BundleType DEF BundleOK
<1>4. ChainOK(bundle.saved[1])
  BY <1>2, <1>3 DEF BundleOK
<1>5. \A k \in 1..Len(outer) : Covers(bundle.saved[1], outer[k].contexts, block)
  BY <1>3, CoveredNow DEF Saves
<1> QED
  BY <1>1, <1>4, <1>5, LeaveKeeps

LEMMA ValidateKeeps ==
    ASSUME IInv, NEW rate \in Rates, ValidatePaymasterUserOp(rate), UNCHANGED block
    PROVE  IInv'
<1> DEFINE op == Validating
           a == op.account
           t == op.maxCost * rate
           context == [account |-> a, maxTokenCost |-> t, maxCost |-> op.maxCost,
                       charged |-> chain.charged[a]]
           after == [chain EXCEPT !.owed[a] = @ + t]
           n == Len(bundle.contexts)
           contexts == Append(bundle.contexts, context)
           last == Len(contexts) = Len(bundle.ops)
           phase == IF last THEN "call" ELSE "validate"
           saved == IF last THEN Append(bundle.saved, after) ELSE bundle.saved
<1>1. /\ bundle.phase = "validate" /\ chain' = after /\ outer' = outer /\ block' = block
      /\ bundle' = [bundle EXCEPT !.contexts = contexts, !.phase = phase, !.saved = saved]
      /\ chain.unlockBlock[a] = 0 /\ chain.balances[a] >= t
  BY DEF ValidatePaymasterUserOp, Validated, In
<1>2. BundleOK(bundle) /\ ChainOK(chain) /\ chain \in Chain
  BY Frames DEF IInv, ChainOK
<1>3. /\ bundle \in BundleRecord /\ bundle.contexts \in Seq(Promise) /\ bundle.ops \in Seq(Op)
      /\ bundle.saved \in Seq(Chain) /\ n \in Nat /\ Len(bundle.ops) \in Nat
      /\ n < Len(bundle.ops) /\ Len(bundle.saved) = 1 /\ ChainOK(bundle.saved[1])
  BY <1>1, <1>2, BundleType DEF BundleOK
<1>4. op \in Op
  BY <1>3 DEF Validating
<1>5. a \in Account /\ a \in User /\ op.maxCost \in MaxCosts /\ t \in Nat
  <2>1. op.account \in Account /\ op.maxCost \in MaxCosts
    BY <1>4 DEF Op
  <2>2. op.maxCost \in Nat /\ rate \in Nat
    BY <2>1, Assumptions
  <2> HIDE DEF op
  <2> QED
    BY <2>1, <2>2, Assumptions
<1> HIDE DEF op, a, t
<1>6. /\ after \in Chain /\ after.tokens = chain.tokens /\ after.balances = chain.balances
      /\ after.unlockBlock = chain.unlockBlock /\ after.charged = chain.charged
  <2> DEFINE o == [chain.owed EXCEPT ![a] = chain.owed[a] + t]
  <2>1. o \in [User -> Int]
    BY <1>2, <1>5, ChainType
  <2>2. after = [chain EXCEPT !.owed = o]
    BY <1>2 DEF Chain
  <2> HIDE DEF o, after
  <2> QED
    BY <1>2, <2>1, <2>2 DEF Chain
<1> HIDE DEF after
<1>7. /\ context \in Promise /\ context.account = a /\ context.maxTokenCost = t
      /\ context.charged = chain.charged[a] /\ chain.charged[a] \in Nat
      /\ chain.balances[a] \in Nat
  BY <1>2, <1>5, ChainType DEF Promise
<1> HIDE DEF context
<1>8. /\ contexts \in Seq(Promise) /\ Len(contexts) = n + 1 /\ contexts[n + 1] = context
      /\ \A i \in 1..n : contexts[i] = bundle.contexts[i]
  BY <1>3, <1>7
<1> HIDE DEF contexts
<1>9. /\ saved \in Seq(Chain)
      /\ last => Len(saved) = 2 /\ saved[1] = bundle.saved[1] /\ saved[2] = after
      /\ ~last => Len(saved) = 1 /\ saved[1] = bundle.saved[1]
  <2> HIDE DEF last
  <2>1. CASE last
    <3>1. saved = Append(bundle.saved, after)
      BY <2>1
    <3> HIDE DEF saved
    <3> QED
      BY <1>3, <1>6, <2>1, <3>1, SMTT(30)
  <2>2. CASE ~last
    BY <1>3, <2>2
  <2> QED
    BY <2>1, <2>2
<1>10. phase \in {"call", "validate"} /\ (phase = "call" <=> last)
  OBVIOUS
<1>11. last <=> n + 1 = Len(bundle.ops)
  BY <1>8
<1> HIDE DEF saved, phase, last
<1>12. /\ bundle' \in BundleRecord
       /\ bundle'.phase = phase /\ bundle'.ops = bundle.ops
       /\ bundle'.contexts = contexts /\ bundle'.saved = saved
  BY <1>1, <1>3, <1>8, <1>9, <1>10 DEF BundleRecord, Executing
<1>13. ChainOK(after)
  BY <1>2, <1>6 DEF ChainOK, Deposits
<1>14. ASSUME NEW k \in 1..Len(saved) PROVE k = 1 \/ (last /\ k = 2)
  <2>1. CASE last
    <3>1. Len(saved) = 2
      BY <1>9, <2>1
    <3> QED
      BY <2>1, <3>1
  <2>2. CASE ~last
    <3>1. Len(saved) = 1
      BY <1>9, <2>2
    <3> QED
      BY <3>1
  <2> QED
    BY <2>1, <2>2
<1>15. BundleOK(bundle')
  <2>1. \A k \in 1..Len(saved) : ChainOK(saved[k])
    BY <1>3, <1>9, <1>13, <1>14
  <2>2. ~last => n + 1 < Len(bundle.ops)
    BY <1>3, <1>11
  <2>3. bundle'.phase # "idle" /\ (bundle'.phase = "validate" => ~last)
    BY <1>10, <1>12
  <2>4. bundle'.phase \in Executing => last /\ Len(bundle.ops) # 0
    BY <1>3, <1>10, <1>12 DEF Executing
  <2> QED
    BY <1>3, <1>8, <1>9, <1>11, <1>12, <2>1, <2>2, <2>3, <2>4 DEF BundleOK
<1>16. Spares(chain, after, block)
  <2>1. \A x \in Account : x \in User /\ chain.balances[x] \in Nat /\ chain.charged[x] \in Nat
    BY <1>2, ChainType, Assumptions
  <2> QED
    BY <1>6, <2>1 DEF Spares
<1>17. Covers(after, contexts, block)
  <2>1. Covers(after, bundle.contexts, block)
    BY <1>6, <1>16, SparesAll
  <2>2. /\ after.unlockBlock[a] \in {0, block}
        /\ after.balances[a] + after.charged[a] >= context.maxTokenCost + context.charged
    BY <1>1, <1>5, <1>6, <1>7
  <2>3. \A i \in 1..(n + 1) : i = n + 1 \/ i \in 1..n
    BY <1>3
  <2> QED
    BY <1>7, <1>8, <2>1, <2>2, <2>3 DEF Covers, n
<1>18. Saves(bundle', 2, contexts, block)
  <2> SUFFICES ASSUME NEW k \in 2..Len(saved) PROVE Covers(saved[k], contexts, block)
    BY <1>12 DEF Saves
  <2>1. last /\ k = 2
    BY <1>9, <1>14
  <2> QED
    BY <1>9, <1>17, <2>1
<1>19. ASSUME NEW k \in 1..Len(outer)
       PROVE  Covers(after, outer[k].contexts, block) /\ Saves(bundle', 1, outer[k].contexts, block)
  <2>1. Covers(after, outer[k].contexts, block)
    BY <1>6, <1>16, SparesAll
  <2>2. Covers(bundle.saved[1], outer[k].contexts, block)
    BY <1>3, CoveredNow DEF Saves
  <2> QED
    BY <1>9, <1>12, <1>14, <2>1, <2>2 DEF Saves
<1>20. bundle'.phase # "idle" /\ bundle.phase # "idle"
  BY <1>1, <1>10, <1>12
<1> QED
  BY <1>1, <1>12, <1>13, <1>15, <1>17, <1>18, <1>19, <1>20, TopKeeps

\* A call of the operation in progress ended, or failed.
LEMMA PhaseKeeps ==
    ASSUME IInv, bundle.phase \in Executing, NEW phase \in Executing,
           bundle' = [bundle EXCEPT !.phase = phase], UNCHANGED <<outer, block>>,
           ChainOK(chain'), Covers(chain', bundle.contexts, block),
           \A k \in 1..Len(outer) : Covers(chain', outer[k].contexts, block)
    PROVE  IInv'
<1>1. BundleOK(bundle)
  BY Frames
<1>2. bundle \in BundleRecord
  BY <1>1 DEF BundleOK
<1>3. /\ bundle' \in BundleRecord
      /\ bundle'.phase = phase /\ bundle'.ops = bundle.ops
      /\ bundle'.contexts = bundle.contexts /\ bundle'.saved = bundle.saved
  BY <1>2 DEF BundleRecord
<1>4. BundleOK(bundle') /\ bundle'.phase # "idle" /\ bundle.phase # "idle"
  BY <1>1, <1>3 DEF BundleOK, Executing
<1>5. /\ Saves(bundle', 2, bundle'.contexts, block)
      /\ \A k \in 1..Len(outer) : Saves(bundle', 1, outer[k].contexts, block)
  BY <1>3, CoveredNow DEF Saves
<1> QED
  BY <1>3, <1>4, <1>5, TopKeeps

\* What the inner call did may be undone.
LEMMA UndoneKeeps ==
    ASSUME IInv, bundle.phase \in Executing, NEW phase \in Executing,
           bundle' = [bundle EXCEPT !.phase = phase], UNCHANGED <<outer, block>>,
           chain' \in {chain, bundle.saved[2]}
    PROVE  IInv'
<1>1. BundleOK(bundle) /\ ChainOK(chain)
  BY Frames DEF IInv
<1>2. Len(bundle.saved) = 2 /\ 2 \in 1..2 /\ 2 \in 2..2
  BY <1>1 DEF BundleOK
<1>3. ChainOK(bundle.saved[2])
  BY <1>1, <1>2 DEF BundleOK
<1>4. /\ Covers(bundle.saved[2], bundle.contexts, block)
      /\ \A k \in 1..Len(outer) : Covers(bundle.saved[2], outer[k].contexts, block)
  BY <1>2, CoveredNow DEF Saves
<1> QED
  BY <1>1, <1>3, <1>4, CoveredNow, PhaseKeeps

LEMMA CallReturnsKeeps ==
    ASSUME IInv, NEW success \in BOOLEAN, CallReturns(success), UNCHANGED block
    PROVE  IInv'
<1>1. /\ bundle.phase = "call" /\ chain' \in {chain, bundle.saved[2]}
      /\ bundle' = [bundle EXCEPT !.phase = "postOp"] /\ outer' = outer
  BY DEF CallReturns, In
<1>2. bundle.phase \in Executing /\ "postOp" \in Executing
  BY <1>1 DEF Executing
<1> QED
  BY <1>1, <1>2, UndoneKeeps

LEMMA InnerRevertsKeeps ==
    ASSUME IInv, InnerReverts, UNCHANGED block
    PROVE  IInv'
<1>1. /\ chain' \in {chain, bundle.saved[2]} /\ outer' = outer
      /\ bundle' = [bundle EXCEPT !.phase = "postOpReverted"]
  BY DEF InnerReverts
<1>2. bundle.phase \in Executing /\ "postOpReverted" \in Executing
  BY DEF InnerReverts, Inside, Executing
<1> QED
  BY <1>1, <1>2, UndoneKeeps

\* What is left of a sequence after its first element.
LEMMA TailType ==
    ASSUME NEW S, NEW s \in Seq(S), Len(s) # 0
    PROVE  /\ Head(s) = s[1] /\ s[1] \in S
           /\ Tail(s) \in Seq(S) /\ Len(Tail(s)) = Len(s) - 1 /\ Len(s) - 1 \in Nat
           /\ \A i \in 1..Len(Tail(s)) : i + 1 \in 1..Len(s) /\ Tail(s)[i] = s[i + 1]
<1>1. s # <<>>
  OBVIOUS
<1>2. Tail(s) \in Seq(S) /\ Len(Tail(s)) = Len(s) - 1
  BY <1>1
<1>3. \A i \in 1..Len(Tail(s)) : i + 1 \in 1..Len(s) /\ Tail(s)[i] = s[i + 1]
  BY <1>1, <1>2
<1> QED
  BY <1>1, <1>2, <1>3

LEMMA SecondReplaced ==
    ASSUME NEW S, NEW s \in Seq(S), Len(s) = 2, NEW e \in S
    PROVE  /\ [s EXCEPT ![2] = e] \in Seq(S) /\ Len([s EXCEPT ![2] = e]) = 2
           /\ [s EXCEPT ![2] = e][1] = s[1] /\ [s EXCEPT ![2] = e][2] = e
<1> DEFINE t == [s EXCEPT ![2] = e]
           n == Len(s)
<1>1. n \in Nat /\ s \in [1..n -> S] /\ n = 2
  BY LenProperties
<1> HIDE DEF n
<1>2. t \in [1..n -> S] /\ t[1] = s[1] /\ t[2] = e
  BY <1>1
<1> HIDE DEF t
<1>3. n \in Nat
  BY <1>1
<1>4. t \in [1..n -> S]
  BY <1>2
<1>5. t \in Seq(S) /\ DOMAIN t = 1..n
  BY <1>3, <1>4
<1>6. Len(t) = n
  BY <1>3, <1>5
<1> QED
  BY <1>1, <1>2, <1>5, <1>6 DEF t

LEMMA CoversTail ==
    ASSUME NEW c, NEW contexts \in Seq(Promise), Len(contexts) # 0, NEW now,
           Covers(c, contexts, now)
    PROVE  Covers(c, Tail(contexts), now)
<1>1. \A i \in 1..Len(Tail(contexts)) :
          i + 1 \in 1..Len(contexts) /\ Tail(contexts)[i] = contexts[i + 1]
  BY TailType
<1> QED
  BY <1>1 DEF Covers

LEMMA EndedOK ==
    ASSUME NEW after, ChainOK(after)
    PROVE  ChainOK(Ended(after)) /\ Ended(after).balances = after.balances
<1>1. Zero \in [User -> Nat] /\ Zero \in [User -> Int]
  BY DEF Zero
<1>2. after \in Chain
  BY DEF ChainOK
<1> DEFINE e == [after EXCEPT !.charged = Zero, !.owed = Zero]
<1>3. e \in Chain /\ e.tokens = after.tokens /\ e.balances = after.balances
  BY <1>1, <1>2 DEF Chain
<1>4. Ended(after) \in {e, after}
  BY DEF Ended
<1> HIDE DEF e
<1>5. ChainOK(e)
  BY <1>3 DEF ChainOK, Deposits
<1> QED
  BY <1>3, <1>4, <1>5

\* An operation was settled, on a chain that still covers those that follow.
LEMMA SettledKeeps ==
    ASSUME IInv, bundle.phase \in Executing, NEW after, ChainOK(after),
           Spares(chain, after, block), Settled(Ended(after)), UNCHANGED block
    PROVE  IInv'
<1> DEFINE ops == Tail(bundle.ops)
           contexts == Tail(bundle.contexts)
           saved == [bundle.saved EXCEPT ![2] = after]
<1>1. BundleOK(bundle) /\ after \in Chain /\ ChainOK(Ended(after)) /\ chain' = Ended(after)
  BY Frames, EndedOK DEF ChainOK, Settled
<1>2. /\ bundle \in BundleRecord /\ bundle.contexts \in Seq(Promise) /\ bundle.ops \in Seq(Op)
      /\ bundle.saved \in Seq(Chain)
      /\ Len(bundle.contexts) = Len(bundle.ops) /\ Len(bundle.ops) # 0 /\ Len(bundle.saved) = 2
      /\ Len(bundle.ops) \in Nat
  BY <1>1, BundleType DEF BundleOK
<1>3. /\ Covers(after, bundle.contexts, block)
      /\ \A k \in 1..Len(outer) : Covers(after, outer[k].contexts, block)
  BY <1>1, SparesAll
<1>4. bundle.phase # "idle"
  BY DEF Executing
<1>5. CASE Len(bundle.ops) = 1
  <2>1. Leave
    BY <1>5 DEF Settled, LastSettles
  <2>2. ASSUME NEW k \in 1..Len(outer) PROVE Covers(Ended(after), outer[k].contexts, block)
    <3>1. CASE Outermost
      <4>1. Len(outer) = 1 /\ k = 1
        BY <3>1 DEF Outermost
      <4>2. Len(outer[k].contexts) = 0
        BY <4>1, Frames DEF BundleOK
      <4> QED
        BY <4>2 DEF Covers
    <3>2. CASE ~Outermost
      BY <1>3, <3>2 DEF Ended
    <3> QED
      BY <3>1, <3>2
  <2> QED
    BY <1>1, <1>4, <2>1, <2>2, LeaveKeeps
<1>6. CASE Len(bundle.ops) # 1
  <2>1. Ended(after) = after
    BY <1>6 DEF Ended, LastSettles
  <2>2. /\ ops \in Seq(Op) /\ Len(ops) = Len(bundle.ops) - 1
        /\ contexts \in Seq(Promise) /\ Len(contexts) = Len(bundle.ops) - 1
    BY <1>2, TailType
  <2>3. /\ saved \in Seq(Chain) /\ Len(saved) = 2
        /\ saved[1] = bundle.saved[1] /\ saved[2] = after
    BY <1>1, <1>2, SecondReplaced
  <2>4. /\ chain' = after /\ outer' = outer
        /\ bundle' = [bundle EXCEPT !.phase = "call", !.ops = ops, !.contexts = contexts,
                                    !.saved = saved]
    BY <1>1, <1>2, <1>6, <2>1 DEF Settled, LastSettles, BundleRecord
  <2>5. Covers(after, contexts, block)
    BY <1>2, <1>3, CoversTail
  <2> HIDE DEF ops, contexts, saved
  <2>6. /\ bundle' \in BundleRecord /\ bundle'.phase = "call" /\ bundle'.ops = ops
        /\ bundle'.contexts = contexts /\ bundle'.saved = saved
    BY <1>2, <2>2, <2>3, <2>4 DEF BundleRecord, Executing
  <2>7. \A k \in 1..Len(saved) : k = 1 \/ k = 2
    BY <2>3
  <2>8. BundleOK(bundle')
    <3>1. ChainOK(bundle.saved[1])
      BY <1>1, <1>2 DEF BundleOK
    <3>2. \A k \in 1..Len(saved) : ChainOK(saved[k])
      BY <2>3, <2>7, <3>1
    <3>3. Len(ops) = Len(contexts) /\ Len(ops) # 0
      BY <1>2, <1>6, <2>2
    <3> QED
      BY <2>3, <2>6, <3>2, <3>3 DEF BundleOK
  <2>9. Saves(bundle', 2, contexts, block)
    <3>1. \A k \in 2..Len(saved) : k = 2
      BY <2>3
    <3> QED
      BY <2>3, <2>5, <2>6, <3>1 DEF Saves
  <2>10. \A k \in 1..Len(outer) : Saves(bundle', 1, outer[k].contexts, block)
    <3>1. \A k \in 1..Len(outer) : Covers(bundle.saved[1], outer[k].contexts, block)
      BY <1>2, CoveredNow DEF Saves
    <3> QED
      BY <1>3, <2>3, <2>6, <2>7, <3>1 DEF Saves
  <2>11. bundle'.phase # "idle"
    BY <2>6
  <2> QED
    BY <1>3, <1>4, <2>4, <2>5, <2>6, <2>8, <2>9, <2>10, <2>11, TopKeeps
<1> QED
  BY <1>5, <1>6

\* The inner call returned.
LEMMA InnerReturnsKeeps ==
    ASSUME IInv, In("settle"), Settled(Ended(chain)), UNCHANGED block
    PROVE  IInv'
<1>1. bundle.phase \in Executing
  BY DEF In, Executing
<1>2. ChainOK(chain) /\ chain \in Chain
  BY DEF IInv, ChainOK
<1>3. \A x \in Account : x \in User /\ chain.balances[x] \in Nat /\ chain.charged[x] \in Nat
  BY <1>2, ChainType, Assumptions
<1>4. Spares(chain, chain, block)
  BY <1>3 DEF Spares
<1> QED
  BY <1>1, <1>2, <1>4, SettledKeeps

\* What a postOp charges is at most what validation agreed to.
LEMMA CostBounded ==
    ASSUME IInv, bundle.phase \in Executing, NEW gasCost \in GasCosts(Context),
           Context.maxCost # 0
    PROVE  /\ Context \in Promise /\ Context = bundle.contexts[1]
           /\ Context.account \in Account /\ Context.maxTokenCost \in Nat
           /\ ActualTokenCost(Context, gasCost) \in 0..Context.maxTokenCost
<1>1. BundleOK(bundle)
  BY Frames
<1>2. bundle.contexts \in Seq(Promise) /\ Len(bundle.contexts) # 0
  BY <1>1, BundleType DEF BundleOK
<1>3. Context \in Promise /\ Context = bundle.contexts[1]
  BY <1>2, TailType DEF Context
<1> DEFINE m == Context.maxCost
           t == Context.maxTokenCost
           c == gasCost + PostCost
<1>4. Context.account \in Account /\ t \in Nat /\ m \in Nat \ {0}
  BY <1>3, Assumptions DEF Promise
<1>5. gasCost \in 0..m - PostCost
  BY DEF GasCosts
<1> HIDE DEF m, t
<1>6. c \in 0..m
  BY <1>4, <1>5, Assumptions
<1> HIDE DEF c
<1>7. (c * t) \div m \in 0..t
  BY <1>4, <1>6, Share
<1> QED
  BY <1>3, <1>4, <1>7 DEF ActualTokenCost, c, t, m

LEMMA PostOpKeeps ==
    ASSUME IInv, bundle.phase \in Executing, NEW gasCost \in GasCosts(Context),
           PostOp(gasCost), UNCHANGED block
    PROVE  IInv'
<1> DEFINE a == Context.account
           cost == ActualTokenCost(Context, gasCost)
           t == Transferred(chain.tokens, a, Paymaster, cost)
           v == chain.balances[Owner] + cost
           b == [chain.balances EXCEPT ![Owner] = v]
           o == [chain.owed EXCEPT ![a] = chain.owed[a] - cost]
           after == [chain EXCEPT !.tokens = t, !.balances = b, !.owed = o]
<1>1. /\ chain \in Chain /\ Deposits(chain) <= chain.tokens[Paymaster]
      /\ chain.tokens \in [Holder -> Nat] /\ chain.balances \in [User -> Nat]
      /\ Deposits(chain) \in Nat
  BY ChainType DEF IInv, ChainOK
<1>2. Context.maxCost # 0 /\ chain.tokens[a] >= cost
  BY DEF PostOp, AccountPays
<1>3. a \in Account /\ cost \in Nat
  BY <1>2, CostBounded
<1>4. a \in Holder /\ a # Paymaster /\ Paymaster \in Holder /\ Owner \in User /\ a # Owner
  BY <1>3, Assumptions
<1>5. /\ chain' = after /\ UNCHANGED outer
      /\ bundle' = [bundle EXCEPT !.phase = "settle"]
  <2>1. [chain EXCEPT !.tokens = Transferred(@, a, Paymaster, cost),
                      !.balances = CreditOwner(@, cost), !.owed[a] = @ - cost] = after
    BY <1>1 DEF CreditOwner, Chain
  <2> QED
    BY <2>1 DEF PostOp, PostOpReturns
<1> HIDE DEF a, cost
<1>6. t \in [Holder -> Nat] /\ t[Paymaster] = chain.tokens[Paymaster] + cost
  BY <1>1, <1>2, <1>3, <1>4, TransferType
<1>7. v \in Nat /\ v = chain.balances[Owner] + cost /\ chain.balances[Owner] \in Nat
  BY <1>1, <1>3, <1>4
<1> HIDE DEF t, v
<1>8. /\ b \in [User -> Nat] /\ b[Owner] = v
      /\ \A x \in User \ {Owner} : b[x] = chain.balances[x]
      /\ SumFunctionOnSet(b, User) = Deposits(chain) + v - chain.balances[Owner]
  BY <1>1, <1>4, <1>7, DepositChange DEF Deposits
<1>9. o \in [User -> Int]
  <2>1. chain.owed \in [User -> Int] /\ a \in User
    BY <1>1, <1>3, ChainType, Assumptions
  <2>2. chain.owed[a] - cost \in Int
    BY <1>3, <2>1
  <2> QED
    BY <2>1, <2>2
<1> HIDE DEF b, o
<1>10. /\ after \in Chain /\ after.tokens = t /\ after.balances = b
      /\ after.unlockBlock = chain.unlockBlock /\ after.charged = chain.charged
  BY <1>1, <1>6, <1>8, <1>9 DEF Chain
<1> HIDE DEF after
<1>11. ChainOK(after)
  <2>1. Deposits(after) = Deposits(chain) + cost
    BY <1>1, <1>3, <1>7, <1>8, <1>10 DEF Deposits
  <2>2. chain.tokens[Paymaster] \in Nat
    BY <1>1, <1>4
  <2> QED
    BY <1>1, <1>3, <1>6, <1>10, <2>1, <2>2 DEF ChainOK
<1>12. Spares(chain, after, block)
  <2> SUFFICES ASSUME NEW x \in Account
               PROVE  b[x] + chain.charged[x] >= chain.balances[x] + chain.charged[x]
    BY <1>10 DEF Spares
  <2>1. x \in User /\ x # Owner /\ chain.balances[x] \in Nat /\ chain.charged[x] \in Nat
    BY <1>1, ChainType, Assumptions
  <2> QED
    BY <1>8, <2>1
<1>13. "settle" \in Executing
  BY DEF Executing
<1> QED
  BY <1>5, <1>10, <1>11, <1>12, <1>13, SparesAll, PhaseKeeps

LEMMA PostOpRevertedKeeps ==
    ASSUME IInv, bundle.phase \in Executing, NEW gasCost \in GasCosts(Context),
           PostOpReverted(gasCost), UNCHANGED block
    PROVE  IInv'
<1> DEFINE a == Context.account
           cost == ActualTokenCost(Context, gasCost)
           rest == chain.balances[a] - cost
           less == [chain.balances EXCEPT ![a] = rest]
           v == less[Owner] + cost
           b == [less EXCEPT ![Owner] = v]
           g == chain.charged[a] + cost
           h == [chain.charged EXCEPT ![a] = g]
           o == [chain.owed EXCEPT ![a] = chain.owed[a] - cost]
           after == [chain EXCEPT !.balances = b, !.charged = h, !.owed = o]
<1>1. /\ chain \in Chain /\ Deposits(chain) <= chain.tokens[Paymaster]
      /\ chain.balances \in [User -> Nat] /\ Deposits(chain) \in Nat
  BY ChainType DEF IInv, ChainOK
<1>2. Context.maxCost # 0 /\ chain.balances[a] >= cost
  BY DEF PostOpReverted, DepositPays
<1>3. a \in Account /\ cost \in Nat /\ Context = bundle.contexts[1]
  BY <1>2, CostBounded
<1>4. a \in User /\ Owner \in User /\ a # Owner
  BY <1>3, Assumptions
<1>5. Settled(Ended(after))
  <2>1. [chain EXCEPT !.balances = CreditOwner(less, cost), !.charged[a] = @ + cost,
                      !.owed[a] = @ - cost] = after
    BY <1>1 DEF CreditOwner, Chain
  <2> QED
    BY <2>1 DEF PostOpReverted
<1> HIDE DEF cost
<1>6. rest \in Nat /\ rest = chain.balances[a] - cost /\ chain.balances[a] \in Nat
  BY <1>1, <1>2, <1>3, <1>4
<1> HIDE DEF rest
<1>7. /\ less \in [User -> Nat] /\ less[a] = rest
      /\ \A x \in User \ {a} : less[x] = chain.balances[x]
      /\ SumFunctionOnSet(less, User) = Deposits(chain) + rest - chain.balances[a]
      /\ SumFunctionOnSet(less, User) \in Nat
  <2> HIDE DEF a
  <2>1. /\ less \in [User -> Nat]
        /\ SumFunctionOnSet(less, User) = Deposits(chain) + rest - chain.balances[a]
    BY <1>1, <1>4, <1>6, DepositChange DEF Deposits
  <2>2. SumFunctionOnSet(less, User) \in Nat
    BY <2>1, <1>4, <1>6, DepositChange
  <2> QED
    BY <1>1, <1>4, <1>6, <2>1, <2>2
<1> HIDE DEF less
<1>8. v \in Nat /\ v = less[Owner] + cost /\ less[Owner] \in Nat
  BY <1>3, <1>4, <1>7
<1> HIDE DEF v
<1>9. /\ b \in [User -> Nat] /\ b[Owner] = v
      /\ \A x \in User \ {Owner} : b[x] = less[x]
      /\ SumFunctionOnSet(b, User) = SumFunctionOnSet(less, User) + v - less[Owner]
  BY <1>4, <1>7, <1>8, DepositChange, ZenonT(30)
<1>10. /\ h \in [User -> Nat] /\ h[a] = chain.charged[a] + cost /\ chain.charged[a] \in Nat
       /\ \A x \in User \ {a} : h[x] = chain.charged[x]
       /\ o \in [User -> Int]
  <2> HIDE DEF a
  <2>1. /\ chain.charged \in [User -> Nat] /\ chain.charged[a] \in Nat
        /\ chain.owed \in [User -> Int] /\ chain.owed[a] - cost \in Int
    BY <1>1, <1>3, <1>4, ChainType
  <2>2. g \in Nat /\ g = chain.charged[a] + cost
    BY <1>3, <2>1
  <2> HIDE DEF g
  <2> QED
    BY <1>4, <2>1, <2>2
<1> HIDE DEF b, h, o
<1>11. /\ after \in Chain /\ after.tokens = chain.tokens /\ after.balances = b
       /\ after.unlockBlock = chain.unlockBlock /\ after.charged = h
  BY <1>1, <1>9, <1>10 DEF Chain
<1> HIDE DEF after
<1>12. ChainOK(after)
  <2>1. Deposits(after) = Deposits(chain)
    <3>1. Deposits(after) = SumFunctionOnSet(b, User)
      BY <1>11 DEF Deposits
    <3>2. SumFunctionOnSet(b, User) = Deposits(chain)
      <4>1. SumFunctionOnSet(b, User) = SumFunctionOnSet(less, User) + v - less[Owner]
        BY <1>9
      <4>2. SumFunctionOnSet(less, User) = Deposits(chain) + rest - chain.balances[a]
        BY <1>7
      <4> QED
        BY <1>1, <1>3, <1>6, <1>8, <4>1, <4>2
    <3> QED
      BY <3>1, <3>2
  <2> QED
    BY <1>1, <1>11, <2>1 DEF ChainOK
<1>13. Spares(chain, after, block)
  <2> SUFFICES ASSUME NEW x \in Account
               PROVE  b[x] + h[x] >= chain.balances[x] + chain.charged[x]
    BY <1>11 DEF Spares
  <2>1. x \in User /\ x # Owner /\ chain.balances[x] \in Nat /\ chain.charged[x] \in Nat
    BY <1>1, ChainType, Assumptions
  <2>2. b[x] = less[x]
    BY <1>9, <2>1
  <2> HIDE DEF a
  <2>3. CASE x = a
    BY <1>3, <1>6, <1>7, <1>10, <2>2, <2>3
  <2>4. CASE x # a
    BY <1>7, <1>10, <2>1, <2>2, <2>4
  <2> QED
    BY <2>3, <2>4
<1> QED
  BY <1>5, <1>12, <1>13, SettledKeeps

\* The block number only moves between two bundles.
LEMMA NextBlockKeeps ==
    ASSUME IInv, NextBlock
    PROVE  IInv'
<1>1. BundleOK(bundle) /\ ChainOK(chain) /\ block \in Nat /\ bundle.phase = "idle"
  BY Frames DEF IInv, NextBlock, In
<1>2. block' = block + 1 /\ chain' = chain /\ bundle' = bundle /\ outer' = outer
  BY DEF NextBlock
<1>3. Len(bundle.contexts) = 0 /\ Len(bundle.saved) = 0 /\ Len(outer) = 0
  BY <1>1, Frames DEF BundleOK
<1>4. Depth' = Depth /\ \A k \in 1..Depth : Frame(k)' = Frame(k) /\ Frame(k) = bundle
  BY <1>2, <1>3, Frames DEF Depth, Frame
<1>5. Stack'
  BY <1>2, <1>4 DEF Stack, IInv
<1>6. Covered'
  <2>1. /\ \A c, now : Covers(c, bundle.contexts, now)
        /\ \A contexts, now : Saves(bundle, 1, contexts, now) /\ Saves(bundle, 2, contexts, now)
    BY <1>3 DEF Covers, Saves
  <2>2. \A k \in 1..Depth : \A j \in 1..(k - 1) : FALSE
    BY <1>3, Frames
  <2> QED
    BY <1>4, <2>1, <2>2 DEF Covered
<1> QED
  BY <1>1, <1>2, <1>5, <1>6 DEF IInv

LEMMA StutterKeeps ==
    ASSUME IInv, UNCHANGED vars
    PROVE  IInv'
BY DEF IInv, Stack, Covered, Depth, Frame, vars

-----------------------------------------------------------------------------
(***************************************************************************)
(* The invariant is inductive.                                             *)
(***************************************************************************)

LEMMA SumZero ==
    ASSUME NEW S, IsFiniteSet(S), NEW f, \A x \in S : f[x] = 0
    PROVE  SumFunctionOnSet(f, S) = 0
<1> DEFINE sum == SumFunctionOnSet(f, S)
<1>1. \A x \in S : f[x] \in Int /\ f[x] = f[x] + f[x]
  OBVIOUS
<1>2. sum = sum + sum
  BY <1>1, SumPlus
<1>3. sum \in Int
  BY <1>1, SumInt
<1> HIDE DEF sum
<1>4. sum = 0
  BY <1>2, <1>3
<1> QED
  BY <1>4 DEF sum

LEMMA InitOK == Init => IInv
<1> SUFFICES ASSUME Init PROVE IInv
  OBVIOUS
<1> DEFINE unlockBlock == [a \in User |-> IF a = Owner THEN 1 ELSE 0]
<1>1. chain = [tokens |-> InitialTokens, oracle |-> FALSE, balances |-> Zero,
               unlockBlock |-> unlockBlock, charged |-> Zero, owed |-> Zero]
  BY DEF Init
<1>2. /\ Zero \in [User -> Nat] /\ Zero \in [User -> Int]
      /\ unlockBlock \in [User -> Nat] /\ \A a \in User : Zero[a] = 0
  BY DEF Zero
<1> HIDE DEF unlockBlock
<1>3. InitialTokens \in [Holder -> Nat] /\ Paymaster \in Holder /\ IsFiniteSet(User)
  BY Assumptions
<1>4. chain \in Chain /\ chain.tokens = InitialTokens /\ chain.balances = Zero
  BY <1>1, <1>2, <1>3 DEF Chain
<1>5. Deposits(chain) = 0
  BY <1>2, <1>3, <1>4, SumZero DEF Deposits
<1>6. ChainOK(chain)
  BY <1>3, <1>4, <1>5 DEF ChainOK
<1>7. /\ NoBundle \in BundleRecord /\ NoBundle.phase = "idle"
      /\ Len(NoBundle.ops) = 0 /\ Len(NoBundle.contexts) = 0 /\ Len(NoBundle.saved) = 0
  BY DEF NoBundle, BundleRecord
<1>8. bundle = NoBundle /\ outer = <<>> /\ block \in Nat
  BY DEF Init, NoTransaction
<1>9. BundleOK(NoBundle)
  BY <1>7 DEF BundleOK, Executing
<1>10. Depth = 1 /\ outer \in Seq(BundleRecord) /\ \A k \in 1..Depth : k = 1 /\ Frame(k) = NoBundle
  BY <1>8 DEF Depth, Frame
<1>11. Stack
  BY <1>7, <1>9, <1>10 DEF Stack
<1>12. Covered
  <2>1. /\ Covers(chain, NoBundle.contexts, block)
        /\ Saves(NoBundle, 2, NoBundle.contexts, block)
    BY <1>7 DEF Covers, Saves
  <2>2. \A k \in 1..Depth : \A j \in 1..(k - 1) : FALSE
    BY <1>10
  <2> QED
    BY <1>10, <2>1, <2>2 DEF Covered
<1> QED
  BY <1>6, <1>8, <1>11, <1>12 DEF IInv

LEMMA UserStepKeeps ==
    ASSUME IInv, NEW a \in User, UserStep(a)
    PROVE  IInv'
<1>1. block \in Nat
  BY DEF IInv
<1>2. CASE UnlockTokenDeposit(a)
  BY <1>2, LockingKeeps DEF UnlockTokenDeposit
<1>3. CASE LockTokenDeposit(a)
  BY <1>3, LockingKeeps DEF LockTokenDeposit
<1>4. CASE AddToken(a)
  BY <1>4, AddTokenKeeps
<1>5. CASE \E amount \in 0..chain.tokens[a], target \in Holder : Transfer(a, target, amount)
  BY <1>5, TransferKeeps
<1>6. CASE \E amount \in 0..chain.tokens[a], account \in User : AddDepositFor(a, account, amount)
  BY <1>6, AddDepositForKeeps
<1>7. CASE \E amount \in 0..chain.tokens[Paymaster], target \in Holder :
              WithdrawTokensTo(a, target, amount)
  BY <1>7, WithdrawTokensToKeeps
<1> QED
  BY <1>2, <1>3, <1>4, <1>5, <1>6, <1>7 DEF UserStep

LEMMA EntryPointStepKeeps ==
    ASSUME IInv, EntryPointStep
    PROVE  IInv'
<1>1. UNCHANGED block
  BY DEF EntryPointStep
<1>2. CASE \E ops \in Ops : HandleOps(ops)
  BY <1>1, <1>2, HandleOpsKeeps
<1>3. CASE \E rate \in Rates : ValidatePaymasterUserOp(rate)
  BY <1>1, <1>3, ValidateKeeps
<1>4. CASE \E success \in BOOLEAN : CallReturns(success)
  BY <1>1, <1>4, CallReturnsKeeps
<1>5. CASE In("postOp") /\ \E gasCost \in GasCosts(Context) : PostOp(gasCost)
  <2>1. bundle.phase \in Executing
    BY <1>5 DEF In, Executing
  <2> QED
    BY <1>1, <1>5, <2>1, PostOpKeeps
<1>6. CASE InnerReverts
  BY <1>1, <1>6, InnerRevertsKeeps
<1>7. CASE In("postOpReverted") /\ \E gasCost \in GasCosts(Context) : PostOpReverted(gasCost)
  <2>1. bundle.phase \in Executing
    BY <1>7 DEF In, Executing
  <2> QED
    BY <1>1, <1>7, <2>1, PostOpRevertedKeeps
<1>8. CASE In("settle") /\ Settled(Ended(chain))
  BY <1>1, <1>8, InnerReturnsKeeps
<1>9. CASE BundleReverts
  BY <1>1, <1>9, BundleRevertsKeeps
<1> QED
  BY <1>2, <1>3, <1>4, <1>5, <1>6, <1>7, <1>8, <1>9 DEF EntryPointStep, Settles

LEMMA NextOK == IInv /\ [Next]_vars => IInv'
BY UserStepKeeps, EntryPointStepKeeps, NextBlockKeeps, StutterKeeps DEF Next

\* Tokens, deposits, locks and the bundle in progress stay in order; so does
\* every chain that a revert may go back to.
THEOREM Invariant == Spec => []IInv
<1> QED
  BY InitOK, NextOK, PTL DEF Spec

LEMMA IInvDepositsBacked ==
    ASSUME IInv
    PROVE  DepositsBacked
<1>1. chain \in Chain /\ Deposits(chain) <= chain.tokens[Paymaster]
  BY DEF IInv, ChainOK
<1>2. DOMAIN chain.balances = User
  BY <1>1, ChainType
<1>3. SumFunction(chain.balances) = Deposits(chain)
  BY <1>2 DEF SumFunction, Deposits
<1> QED
  BY <1>1, <1>3 DEF DepositsBacked

\* Unless an operation pays nothing for gas: then maxCost is 0, and so is the
\* cost of the postOp, and DepositPaymaster.sol:157 divides by zero.
LEMMA IInvDepositCovers ==
    ASSUME IInv, PostCost # 0 \/ 0 \notin MaxCosts
    PROVE  DepositCovers
<1> SUFFICES ASSUME In("postOpReverted"), NEW gasCost \in GasCosts(Context)
             PROVE  /\ Context.maxCost # 0
                    /\ ActualTokenCost(Context, gasCost) <= chain.balances[Context.account]
                           + (chain.charged[Context.account] - Context.charged)
  BY DEF DepositCovers
<1>1. bundle.phase \in Executing
  BY DEF In, Executing
<1>2. BundleOK(bundle) /\ chain \in Chain /\ Covers(chain, bundle.contexts, block)
  BY Frames, CoveredNow DEF IInv, ChainOK
<1>3. bundle.contexts \in Seq(Promise) /\ Len(bundle.contexts) \in Nat \ {0}
  BY <1>1, <1>2, BundleType DEF BundleOK
<1>4. Context = bundle.contexts[1] /\ Context \in Promise
  BY <1>3, TailType DEF Context
<1>5. Context.maxCost # 0
  <2>1. Context.maxCost \in MaxCosts /\ PostCost \in Nat
    BY <1>4, Assumptions DEF Promise
  <2> QED
    BY <2>1 DEF GasCosts
<1>6. /\ ActualTokenCost(Context, gasCost) \in 0..Context.maxTokenCost
      /\ Context.maxTokenCost \in Nat /\ Context.account \in Account /\ Context.charged \in Nat
  BY <1>1, <1>4, <1>5, CostBounded DEF Promise
<1>7. chain.balances[Context.account] + chain.charged[Context.account]
         >= Context.maxTokenCost + Context.charged
  BY <1>2, <1>3, <1>4 DEF Covers
<1>8. chain.balances[Context.account] \in Nat /\ chain.charged[Context.account] \in Nat
  BY <1>2, <1>6, ChainType, Assumptions
<1> DEFINE cost == ActualTokenCost(Context, gasCost)
<1>9. cost \in Nat /\ cost <= Context.maxTokenCost
  BY <1>6
<1> HIDE DEF cost
<1>10. cost <= chain.balances[Context.account]
                   + (chain.charged[Context.account] - Context.charged)
  BY <1>6, <1>7, <1>8, <1>9
<1> QED
  BY <1>5, <1>10 DEF cost

\* The paymaster holds the tokens of all deposits, however accounts, owner and
\* EntryPoint interleave, and after every revert.
THEOREM Backed == Spec => []DepositsBacked
<1> QED
  BY Invariant, IInvDepositsBacked, PTL

\* Whatever users and bundles inside of bundles do, all that a second postOp may
\* miss of the deposit it was promised is what was charged since for operations
\* of the same account, if gas has a price.
THEOREM DepositSuffices ==
    ASSUME PostCost # 0 \/ 0 \notin MaxCosts
    PROVE  Spec => []DepositCovers
<1>1. IInv => DepositCovers
  BY IInvDepositCovers
<1> QED
  BY <1>1, Invariant, PTL

-----------------------------------------------------------------------------
(***************************************************************************)
(* Which steps make a deposit smaller.                                     *)
(***************************************************************************)

Less(a) == chain'.balances[a] < chain.balances[a]

LEMMA OutsideLocks ==
    ASSUME IInv, NEW u \in User, UserStep(u), NEW a \in Account, Less(a)
    PROVE  chain.unlockBlock[a] \notin {0, block}
<1>1. /\ chain \in Chain /\ chain.balances \in [User -> Nat] /\ chain.unlockBlock \in [User -> Nat]
      /\ block \in Nat /\ a \in User
  BY ChainType, Assumptions DEF IInv, ChainOK
<1>2. chain.balances[a] \in Nat /\ chain'.balances[a] # chain.balances[a]
  BY <1>1 DEF Less
<1>3. CASE \/ UnlockTokenDeposit(u) \/ LockTokenDeposit(u) \/ AddToken(u)
           \/ \E amount \in 0..chain.tokens[u], target \in Holder : Transfer(u, target, amount)
  <2>1. chain'.balances = chain.balances
    BY <1>1, <1>3
    DEF UnlockTokenDeposit, LockTokenDeposit, AddToken, Transfer, Outside, OutsideStep, Chain
  <2> QED
    BY <1>2, <2>1
<1>4. ASSUME NEW amount \in 0..chain.tokens[u], NEW account \in User,
             AddDepositFor(u, account, amount)
      PROVE  FALSE
  <2>1. chain'.balances = [chain.balances EXCEPT ![account] = chain.balances[account] + amount]
    BY <1>1, <1>4 DEF AddDepositFor, Outside, OutsideStep, Chain
  <2>2. chain.tokens[u] \in Nat
    BY <1>1, ChainType, Assumptions
  <2>3. amount \in Nat /\ chain.balances[account] \in Nat
    BY <1>1, <2>2
  <2>4. chain'.balances[a] >= chain.balances[a]
    BY <1>1, <1>2, <2>1, <2>3
  <2> QED
    BY <1>1, <1>2, <2>1, <2>3, <2>4 DEF Less
<1>5. ASSUME NEW amount \in 0..chain.tokens[Paymaster], NEW target \in Holder,
             WithdrawTokensTo(u, target, amount)
      PROVE  chain.unlockBlock[a] \notin {0, block}
  <2>1. chain'.balances = [chain.balances EXCEPT ![u] = chain.balances[u] - amount]
    BY <1>1, <1>5 DEF WithdrawTokensTo, Outside, OutsideStep, Chain
  <2>2. a = u
    BY <1>1, <1>2, <2>1
  <2> QED
    BY <1>1, <1>5, <2>2 DEF WithdrawTokensTo, Unlocked
<1> QED
  BY <1>3, <1>4, <1>5 DEF UserStep

LEMMA PostOpLocks ==
    ASSUME IInv, bundle.phase \in Executing, NEW gasCost \in GasCosts(Context), PostOp(gasCost),
           NEW a \in Account
    PROVE  ~Less(a)
<1>1. chain \in Chain /\ chain.balances \in [User -> Nat] /\ a \in User /\ a # Owner
  BY ChainType, Assumptions DEF IInv, ChainOK
<1> DEFINE v == chain.balances[Owner] + ActualTokenCost(Context, gasCost)
<1>2. chain'.balances = [chain.balances EXCEPT ![Owner] = v]
  BY <1>1 DEF PostOp, PostOpReturns, CreditOwner, Chain
<1> HIDE DEF v
<1>3. chain'.balances[a] = chain.balances[a] /\ chain.balances[a] \in Nat
  BY <1>1, <1>2
<1> QED
  BY <1>3 DEF Less

LEMMA PostOpRevertedLocks ==
    ASSUME IInv, bundle.phase \in Executing, NEW gasCost \in GasCosts(Context),
           PostOpReverted(gasCost), NEW a \in Account, Less(a)
    PROVE  /\ Context.account = a
           /\ chain.balances[a] - chain'.balances[a] <= Context.maxTokenCost
<1> DEFINE cost == ActualTokenCost(Context, gasCost)
           less == [chain.balances EXCEPT ![Context.account] = @ - cost]
<1>1. /\ chain \in Chain /\ chain.balances \in [User -> Nat] /\ a \in User /\ a # Owner
      /\ chain.balances[a] \in Nat
  BY ChainType, Assumptions DEF IInv, ChainOK
<1>2. Context.maxCost # 0
  BY DEF PostOpReverted, DepositPays
<1>3. /\ cost \in 0..Context.maxTokenCost /\ Context.account \in Account
      /\ Context.maxTokenCost \in Nat
  BY <1>2, CostBounded
<1>4. chain'.balances = [less EXCEPT ![Owner] = less[Owner] + cost]
  <2> DEFINE after == [chain EXCEPT !.balances = CreditOwner(less, cost),
                                    !.charged[Context.account] = @ + cost,
                                    !.owed[Context.account] = @ - cost]
  <2>1. chain' = Ended(after)
    BY DEF PostOpReverted, Settled
  <2>2. after.balances = CreditOwner(less, cost)
    BY <1>1 DEF Chain
  <2>3. Ended(after).balances = after.balances
    <3>1. DOMAIN after = DOMAIN chain /\ "balances" \in DOMAIN chain
      BY <1>1 DEF Chain
    <3> HIDE DEF after
    <3> QED
      BY <3>1 DEF Ended
  <2> QED
    BY <2>1, <2>2, <2>3 DEF CreditOwner
<1> HIDE DEF cost
<1>5. /\ DOMAIN less = User
      /\ less[a] = IF Context.account = a THEN chain.balances[a] - cost ELSE chain.balances[a]
  BY <1>1
<1> HIDE DEF less
<1>6. chain'.balances[a] = less[a]
  BY <1>1, <1>4, <1>5
<1>7. Context.account = a
  BY <1>1, <1>5, <1>6 DEF Less
<1> QED
  BY <1>1, <1>3, <1>5, <1>6, <1>7

\* Locks hold: a deposit gets smaller when its account, unlocked in an earlier
\* block, withdraws, when its operation is charged what was agreed to at most,
\* or when a revert undoes the deposit.
THEOREM LocksHold == Spec => LockHolds
<1> DEFINE Step ==
      \A a \in Account : chain'.balances[a] < chain.balances[a] =>
          \/ chain.unlockBlock[a] \notin {0, block}
          \/ /\ In("postOpReverted") /\ Context.account = a
             /\ chain.balances[a] - chain'.balances[a] <= Context.maxTokenCost
          \/ \E k \in DOMAIN bundle.saved : chain' = bundle.saved[k]
<1>1. IInv /\ [Next]_vars => [Step]_vars
  <2> SUFFICES ASSUME IInv, Next, NEW a \in Account, Less(a),
                      \A k \in DOMAIN bundle.saved : chain' # bundle.saved[k]
               PROVE  \/ chain.unlockBlock[a] \notin {0, block}
                      \/ /\ In("postOpReverted") /\ Context.account = a
                         /\ chain.balances[a] - chain'.balances[a] <= Context.maxTokenCost
    BY DEF Less
  <2>1. BundleOK(bundle) /\ ChainOK(chain) /\ chain \in Chain
    BY Frames DEF IInv, ChainOK
  <2>2. chain' # chain /\ chain'.balances # chain.balances
    <3>1. chain.balances[a] \in Nat
      BY <2>1, ChainType, Assumptions
    <3> QED
      BY <3>1 DEF Less
  <2>3. /\ bundle.phase # "idle" => 1 \in DOMAIN bundle.saved
        /\ bundle.phase \in Executing => 2 \in DOMAIN bundle.saved
    <3>1. bundle.phase # "idle" => Len(bundle.saved) \in {1, 2}
      BY <2>1, BundleType DEF BundleOK
    <3>2. bundle.phase \in Executing => Len(bundle.saved) = 2
      BY <2>1 DEF BundleOK
    <3>3. DOMAIN bundle.saved = 1..Len(bundle.saved)
      BY <2>1, BundleType
    <3>4. 1 \in 1..1 /\ 1 \in 1..2 /\ 2 \in 1..2
      OBVIOUS
    <3>5. bundle.phase # "idle" => 1 \in 1..Len(bundle.saved)
      BY <3>1, <3>4
    <3>6. bundle.phase \in Executing => 2 \in 1..Len(bundle.saved)
      BY <3>2, <3>4
    <3> QED
      BY <3>3, <3>5, <3>6
  <2>4. CASE \E u \in User : UserStep(u)
    BY <2>4, OutsideLocks
  <2>5. CASE NextBlock
    BY <2>2, <2>5 DEF NextBlock
  <2>6. CASE EntryPointStep
    <3>1. /\ \A ops \in Ops : ~HandleOps(ops)
          /\ \A rate \in Rates : ~ValidatePaymasterUserOp(rate)
          /\ ~(In("settle") /\ Settled(Ended(chain)))
      <4>1. \A ops \in Ops : ~HandleOps(ops)
        BY <2>2 DEF HandleOps
      <4>2. ASSUME NEW rate \in Rates, ValidatePaymasterUserOp(rate) PROVE FALSE
        <5>1. \A u, v : [chain EXCEPT !.owed[u] = v].balances = chain.balances
          BY <2>1 DEF Chain
        <5> QED
          BY <2>2, <4>2, <5>1 DEF ValidatePaymasterUserOp, Validated
      <4>3. ~Settled(Ended(chain))
        BY <2>1, <2>2, EndedOK DEF Settled
      <4> QED
        BY <4>1, <4>2, <4>3
    <3>2. ~InnerReverts /\ \A success \in BOOLEAN : ~CallReturns(success)
      BY <2>2, <2>3 DEF InnerReverts, Inside, CallReturns, In, Executing
    <3>3. ~BundleReverts
      BY <2>3 DEF BundleReverts, In
    <3>4. ~(In("postOp") /\ \E gasCost \in GasCosts(Context) : PostOp(gasCost))
      BY PostOpLocks DEF In, Executing
    <3>5. PICK gasCost \in GasCosts(Context) : In("postOpReverted") /\ PostOpReverted(gasCost)
      BY <2>6, <3>1, <3>2, <3>3, <3>4 DEF EntryPointStep, Settles
    <3>6. bundle.phase \in Executing
      BY <3>5 DEF In, Executing
    <3> QED
      BY <3>5, <3>6, PostOpRevertedLocks
  <2> QED
    BY <2>4, <2>5, <2>6 DEF Next
<1>2. Spec => [][Step]_vars
  BY <1>1, Invariant, PTL DEF Spec
<1> QED
  BY <1>2 DEF LockHolds

=============================================================================
