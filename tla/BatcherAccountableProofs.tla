---------------------- MODULE BatcherAccountableProofs ----------------------
(***************************************************************************)
(* What BatcherAccountable guarantees for any users, transactions, batches *)
(* and promises, and what an owner who keeps its promises can do.          *)
(***************************************************************************)
EXTENDS DisputeProtocol, TLAPS

(***************************************************************************)
(* The inductive invariant.  The owner's deposit is part of the contract's *)
(* ether, which bounds it; and a dispute that was resolved is closed, so   *)
(* that there is nothing to claim.                                         *)
(***************************************************************************)
ResolvedClosed == \A u \in User : history[u].resolved => disputes[u].timestamp = 0

IInv ==
    /\ TypeOK
    /\ depositFunds <= balance
    /\ PaidOncePerDispute
    /\ ResolvedClosed

\* The constructor funds the deposit from what it was sent.
LEMMA InitOK == Init => IInv
<1> SUFFICES ASSUME Init PROVE IInv
  OBVIOUS
<1>1. TypeOK
  <2>1. NoBatch \in Seq(Tx \cup {NoTx})
    BY DEF NoBatch
  <2>2. Ether \in 0..MaxBalance
    BY BatcherConstants DEF Ether
  <2>3. now \in 1..MaxTime /\ 0 \in 0..now
    BY BatcherConstants DEF Init
  <2>4. disputes \in [User -> [nonceId: Nat, txData: Tx \cup {NoTx}, timestamp: 0..now]]
    BY <2>3 DEF Init, NoDispute
  <2>5. history \in [User -> [opened: Nat, paid: Nat, resolved: BOOLEAN]]
    BY DEF Init
  <2> QED  BY <2>1, <2>2, <2>3, <2>4, <2>5 DEF Init, TypeOK
<1>2. depositFunds <= balance
  BY DEF Init, Ether
<1>3. PaidOncePerDispute /\ ResolvedClosed
  BY DEF Init, PaidOncePerDispute, ResolvedClosed, NoDispute
<1> QED  BY <1>1, <1>2, <1>3 DEF IInv

\* fund adds to the deposit what it adds to the balance.
LEMMA FundOK == IInv /\ Fund => IInv'
<1> SUFFICES ASSUME IInv, Fund PROVE IInv'
  OBVIOUS
<1>1. TypeOK'
  <2>1. balance' \in 0..MaxBalance /\ depositFunds' \in 0..MaxBalance
    BY BatcherConstants DEF IInv, TypeOK, Fund, Ether
  <2> QED  BY <2>1 DEF IInv, TypeOK, Fund
<1>2. depositFunds' <= balance'
  BY DEF IInv, TypeOK, Fund, Ether
<1>3. PaidOncePerDispute' /\ ResolvedClosed'
  BY DEF IInv, Fund, PaidOncePerDispute, ResolvedClosed
<1> QED  BY <1>1, <1>2, <1>3 DEF IInv

\* Relaying a batch leaves the funds and the disputes alone.
LEMMA ExecuteTransactionsOK ==
    ASSUME IInv, NEW txArray \in Batch, NEW id \in BatchId, ExecuteTransactions(txArray, id)
    PROVE  IInv'
<1>1. TypeOK'
  <2>1. txArray \in Seq(Tx \cup {NoTx})
    <3>1. txArray \in Seq(Tx)
      BY BatcherConstants
    <3> QED  BY <3>1
  <2> QED  BY <2>1 DEF IInv, TypeOK, ExecuteTransactions
<1>2. PaidOncePerDispute' /\ ResolvedClosed' /\ depositFunds' <= balance'
  BY DEF IInv, ExecuteTransactions, PaidOncePerDispute, ResolvedClosed
<1> QED  BY <1>1, <1>2 DEF IInv

\* Opening a dispute counts it and takes the user's deposit.
LEMMA OpenDisputeOK ==
    ASSUME IInv, NEW u \in User, NEW p \in promises, OpenDispute(u, p)
    PROVE  IInv'
<1> DEFINE dispute == [nonceId |-> p.nonceId, txData |-> p.txData, timestamp |-> now]
           entry == [history[u] EXCEPT !.opened = @ + 1, !.resolved = FALSE]
<1>1. p \in [txData: Tx, nonceId: Nat, batchId: BatchId, commitTimestamp: Nat]
  BY BatcherConstants DEF IInv, TypeOK
<1>2. now \in Nat /\ now > 0
  BY BatcherConstants DEF IInv, TypeOK
<1>3. /\ dispute \in [nonceId: Nat, txData: Tx \cup {NoTx}, timestamp: 0..now]
      /\ dispute.timestamp = now
  BY <1>1, <1>2
<1>4. history[u] \in [opened: Nat, paid: Nat, resolved: BOOLEAN]
  BY DEF IInv, TypeOK
<1>5. /\ entry \in [opened: Nat, paid: Nat, resolved: BOOLEAN]
      /\ entry.opened = history[u].opened + 1 /\ entry.paid = history[u].paid
      /\ entry.resolved = FALSE
  <2> DEFINE old == history[u]
             more == old.opened + 1
  <2>1. old \in [opened: Nat, paid: Nat, resolved: BOOLEAN] /\ more \in Nat
    BY <1>4
  <2>2. entry = [old EXCEPT !.opened = more, !.resolved = FALSE]
    OBVIOUS
  <2> HIDE DEF old, more, entry
  <2>3. /\ entry \in [opened: Nat, paid: Nat, resolved: BOOLEAN]
        /\ entry.opened = more /\ entry.paid = old.paid /\ entry.resolved = FALSE
    BY <2>1, <2>2
  <2> QED  BY <2>3 DEF old, more
<1>6. /\ disputes' = [disputes EXCEPT ![u] = dispute]
      /\ history' = [history EXCEPT ![u] = entry]
      /\ balance' = balance + 1 /\ balance + 1 <= MaxBalance
      /\ UNCHANGED <<depositFunds, batchHashes, now, promises>>
  BY DEF OpenDispute
<1> HIDE DEF dispute, entry
<1>7. TypeOK'
  BY <1>3, <1>5, <1>6 DEF IInv, TypeOK
<1>8. depositFunds' <= balance'
  BY <1>6 DEF IInv, TypeOK
<1>9. PaidOncePerDispute'
  <2> SUFFICES ASSUME NEW v \in User
               PROVE  history'[v].paid + (IF disputes'[v].timestamp # 0 THEN 1 ELSE 0)
                        <= history'[v].opened
    BY DEF PaidOncePerDispute
  <2>1. history[v].paid + (IF disputes[v].timestamp # 0 THEN 1 ELSE 0) <= history[v].opened
    BY DEF IInv, PaidOncePerDispute
  <2>2. history[v].paid \in Nat /\ history[v].opened \in Nat
    BY DEF IInv, TypeOK
  <2>3. CASE v = u
    BY <1>2, <1>3, <1>5, <1>6, <2>1, <2>2, <2>3 DEF IInv, TypeOK
  <2>4. CASE v # u
    BY <1>6, <2>1, <2>4 DEF IInv, TypeOK
  <2> QED  BY <2>3, <2>4
<1>10. ResolvedClosed'
  BY <1>5, <1>6 DEF IInv, TypeOK, ResolvedClosed
<1> QED  BY <1>7, <1>8, <1>9, <1>10 DEF IInv

\* A resolved dispute is closed and records that it was resolved.
LEMMA ResolveDisputeOK ==
    ASSUME IInv, NEW txDataArray, NEW u \in User, ResolveDispute(txDataArray, u)
    PROVE  IInv'
<1> DEFINE entry == [history[u] EXCEPT !.resolved = TRUE]
<1>1. history[u] \in [opened: Nat, paid: Nat, resolved: BOOLEAN]
  BY DEF IInv, TypeOK
<1>2. /\ entry \in [opened: Nat, paid: Nat, resolved: BOOLEAN]
      /\ entry.opened = history[u].opened /\ entry.paid = history[u].paid
  BY <1>1
<1>3. /\ disputes' = [disputes EXCEPT ![u] = NoDispute]
      /\ history' = [history EXCEPT ![u] = entry]
      /\ UNCHANGED <<balance, depositFunds, batchHashes, now, promises>>
  BY DEF ResolveDispute
<1>4. /\ NoDispute \in [nonceId: Nat, txData: Tx \cup {NoTx}, timestamp: 0..now]
      /\ NoDispute.timestamp = 0
  BY BatcherConstants DEF NoDispute, IInv, TypeOK
<1> HIDE DEF entry
<1>5. TypeOK'
  BY <1>2, <1>3, <1>4 DEF IInv, TypeOK
<1>6. depositFunds' <= balance'
  BY <1>3 DEF IInv
<1>7. PaidOncePerDispute'
  <2> SUFFICES ASSUME NEW v \in User
               PROVE  history'[v].paid + (IF disputes'[v].timestamp # 0 THEN 1 ELSE 0)
                        <= history'[v].opened
    BY DEF PaidOncePerDispute
  <2>1. history[v].paid + (IF disputes[v].timestamp # 0 THEN 1 ELSE 0) <= history[v].opened
    BY DEF IInv, PaidOncePerDispute
  <2>2. history[v].paid \in Nat /\ history[v].opened \in Nat
    BY DEF IInv, TypeOK
  <2>3. CASE v = u
    BY <1>2, <1>3, <1>4, <2>1, <2>2, <2>3 DEF IInv, TypeOK
  <2>4. CASE v # u
    BY <1>3, <2>1, <2>4 DEF IInv, TypeOK
  <2> QED  BY <2>3, <2>4
<1>8. ResolvedClosed'
  BY <1>3, <1>4 DEF IInv, TypeOK, ResolvedClosed
<1> QED  BY <1>5, <1>6, <1>7, <1>8 DEF IInv

\* A claim closes the dispute it pays, within depositFunds.
LEMMA ClaimDisputeCompensationOK ==
    ASSUME IInv, NEW u \in User, ClaimDisputeCompensation(u)
    PROVE  IInv'
<1> DEFINE entry == [history[u] EXCEPT !.paid = @ + 1]
<1>1. history[u] \in [opened: Nat, paid: Nat, resolved: BOOLEAN]
  BY DEF IInv, TypeOK
<1>2. /\ entry \in [opened: Nat, paid: Nat, resolved: BOOLEAN]
      /\ entry.opened = history[u].opened /\ entry.paid = history[u].paid + 1
      /\ entry.resolved = history[u].resolved
  BY <1>1
<1>3. /\ disputes[u].timestamp # 0
      /\ balance >= Ether /\ depositFunds >= Ether
      /\ balance' = balance - Ether /\ depositFunds' = depositFunds - Ether
      /\ disputes' = [disputes EXCEPT ![u] = NoDispute]
      /\ history' = [history EXCEPT ![u] = entry]
      /\ UNCHANGED <<batchHashes, now, promises>>
  BY DEF ClaimDisputeCompensation, Due, Payable
<1>4. /\ NoDispute \in [nonceId: Nat, txData: Tx \cup {NoTx}, timestamp: 0..now]
      /\ NoDispute.timestamp = 0
  BY BatcherConstants DEF NoDispute, IInv, TypeOK
<1> HIDE DEF entry
<1>5. TypeOK'
  <2>1. balance' \in 0..MaxBalance /\ depositFunds' \in 0..MaxBalance
    BY <1>3, BatcherConstants DEF IInv, TypeOK, Ether
  <2> QED  BY <1>2, <1>3, <1>4, <2>1 DEF IInv, TypeOK
<1>6. depositFunds' <= balance'
  BY <1>3 DEF IInv, TypeOK, Ether
<1>7. PaidOncePerDispute'
  <2> SUFFICES ASSUME NEW v \in User
               PROVE  history'[v].paid + (IF disputes'[v].timestamp # 0 THEN 1 ELSE 0)
                        <= history'[v].opened
    BY DEF PaidOncePerDispute
  <2>1. history[v].paid + (IF disputes[v].timestamp # 0 THEN 1 ELSE 0) <= history[v].opened
    BY DEF IInv, PaidOncePerDispute
  <2>2. history[v].paid \in Nat /\ history[v].opened \in Nat
    BY DEF IInv, TypeOK
  <2>3. CASE v = u
    BY <1>2, <1>3, <1>4, <2>1, <2>2, <2>3 DEF IInv, TypeOK
  <2>4. CASE v # u
    BY <1>3, <2>1, <2>4 DEF IInv, TypeOK
  <2> QED  BY <2>3, <2>4
<1>8. ResolvedClosed'
  BY <1>2, <1>3, <1>4 DEF IInv, TypeOK, ResolvedClosed
<1> QED  BY <1>5, <1>6, <1>7, <1>8 DEF IInv

\* A promise changes nothing on the chain.
LEMMA SignPromiseOK ==
    ASSUME IInv, NEW p \in Promise, SignPromise(p)
    PROVE  IInv'
<1>1. TypeOK'
  BY DEF IInv, TypeOK, SignPromise, contract
<1> QED  BY <1>1 DEF IInv, SignPromise, contract, PaidOncePerDispute, ResolvedClosed

\* Time changes nothing but itself.
LEMMA TickOK == IInv /\ Tick => IInv'
<1> SUFFICES ASSUME IInv, Tick PROVE IInv'
  OBVIOUS
<1>1. now' \in 1..MaxTime /\ \A t \in 0..now : t \in 0..now'
  BY BatcherConstants DEF IInv, TypeOK, Tick
<1>2. TypeOK'
  BY <1>1 DEF IInv, TypeOK, Tick, contract
<1> QED  BY <1>2 DEF IInv, Tick, contract, PaidOncePerDispute, ResolvedClosed

\* Every step keeps the inductive invariant.
LEMMA NextOK == IInv /\ [Next]_vars => IInv'
<1> SUFFICES ASSUME IInv, [Next]_vars PROVE IInv'
  OBVIOUS
<1>1. ASSUME UNCHANGED vars PROVE IInv'
  BY <1>1 DEF vars, IInv, TypeOK, PaidOncePerDispute, ResolvedClosed
<1>2. ASSUME NEW p \in Promise \ promises, SignPromise(p) PROVE IInv'
  BY <1>2, SignPromiseOK
<1>3. ASSUME NEW u \in User, NEW txDataArray \in Batch, ResolveDispute(txDataArray, u)
      PROVE  IInv'
  BY <1>3, ResolveDisputeOK
<1>4. ASSUME DisputeStep PROVE IInv'
  BY <1>4, OpenDisputeOK, ClaimDisputeCompensationOK DEF DisputeStep
<1>5. ASSUME NEW txArray \in Batch, NEW id \in BatchId, ExecuteTransactions(txArray, id)
      PROVE  IInv'
  BY <1>5, ExecuteTransactionsOK
<1> QED  BY <1>1, <1>2, <1>3, <1>4, <1>5, FundOK, TickOK DEF Next

\* The inductive invariant holds in every reachable state: the batcher's books
\* are typed, claims are counted against disputes, and resolved ones are closed.
THEOREM Invariant == Spec => []IInv
<1> QED  BY InitOK, NextOK, PTL DEF Spec

\* All amounts stay in their range: a claim never takes depositFunds below
\* zero, nor more ether than there is.
THEOREM Typed == Spec => []TypeOK
<1>1. IInv => TypeOK
  BY DEF IInv
<1> QED  BY <1>1, Invariant, PTL

\* No user is paid more often than it opened disputes.
THEOREM OnePayment == Spec => []PaidOncePerDispute
<1>1. IInv => PaidOncePerDispute
  BY DEF IInv
<1> QED  BY <1>1, Invariant, PTL

\* Once the owner resolved a dispute, it is not paid.
THEOREM ResolutionFinal == Spec => ResolvedNeverPaid
<1> DEFINE Step == \A u \in User : history'[u].paid > history[u].paid => ~history[u].resolved
<1>1. IInv /\ [Next]_vars => [Step]_vars
  <2> SUFFICES ASSUME IInv, Next, NEW u \in User, history'[u].paid > history[u].paid
               PROVE  ~history[u].resolved
    OBVIOUS
  <2>1. history \in [User -> [opened: Nat, paid: Nat, resolved: BOOLEAN]]
    BY DEF IInv, TypeOK
  <2>2. ASSUME history' = history PROVE FALSE
    BY <2>1, <2>2
  <2>3. ASSUME NEW v \in User, NEW p \in promises, OpenDispute(v, p) PROVE FALSE
    BY <2>1, <2>3 DEF OpenDispute
  <2>4. ASSUME NEW v \in User, NEW txDataArray \in Batch, ResolveDispute(txDataArray, v)
        PROVE  FALSE
    BY <2>1, <2>4 DEF ResolveDispute
  <2>5. ASSUME NEW v \in User, ClaimDisputeCompensation(v)
        PROVE  ~history[u].resolved
    <3>1. u = v
      BY <2>1, <2>5 DEF ClaimDisputeCompensation
    <3>2. disputes[v].timestamp # 0
      BY <2>5 DEF ClaimDisputeCompensation, Due
    <3> QED  BY <3>1, <3>2 DEF IInv, ResolvedClosed
  <2> QED
    BY <2>2, <2>3, <2>4, <2>5
    DEF Next, DisputeStep, Fund, ExecuteTransactions, SignPromise, Tick
<1>2. Spec => [][Step]_vars
  BY <1>1, Invariant, PTL DEF Spec
<1> QED  BY <1>2 DEF ResolvedNeverPaid

-----------------------------------------------------------------------------
(***************************************************************************)
(* The owner who keeps its promises.  It relays each batch under the next  *)
(* number, so that no hash is ever overwritten.                            *)
(***************************************************************************)

HashesStand ==
    /\ promises \subseteq Promise
    /\ DOMAIN batchHashes = Number
    /\ batch \in Seq(Tx)
    /\ relayed \in Seq(Seq(Tx))
    /\ Len(relayed) <= MaxBatches
    /\ batch # <<>> => Len(relayed) < MaxBatches
    /\ \A k \in 1..Len(relayed) : batchHashes[k - 1] = relayed[k]

LEMMA HashesInit == ProtocolConstants /\ ProtocolInit => HashesStand
BY DEF ProtocolConstants, ProtocolInit, Init, HashesStand

\* A batch goes where none was.
LEMMA RelayOK ==
    ASSUME ProtocolConstants, HashesStand, Relay
    PROVE  HashesStand'
<1> DEFINE n == Len(relayed)
<1>1. /\ batch \in Seq(Tx) /\ relayed \in Seq(Seq(Tx)) /\ n \in Nat /\ n < MaxBatches
      /\ promises \subseteq Promise /\ DOMAIN batchHashes = Number
      /\ \A k \in 1..n : batchHashes[k - 1] = relayed[k]
  BY DEF Relay, HashesStand
<1>2. /\ relayed' = Append(relayed, batch) /\ batch' = <<>> /\ promises' = promises
      /\ batchHashes' = [batchHashes EXCEPT ![n] = batch]
  BY DEF Relay, ExecuteTransactions
<1>3. n \in Number /\ MaxBatches \in Nat
  BY <1>1 DEF ProtocolConstants, Number
<1>4. /\ relayed' \in Seq(Seq(Tx)) /\ Len(relayed') = n + 1 /\ relayed'[n + 1] = batch
      /\ \A k \in 1..n : relayed'[k] = relayed[k]
  <2> DEFINE S == Seq(Tx)
  <2>1. relayed \in Seq(S) /\ batch \in S
    BY <1>1
  <2> HIDE DEF S
  <2>2. /\ relayed' \in Seq(S) /\ Len(relayed') = n + 1 /\ relayed'[n + 1] = batch
        /\ \A k \in 1..n : relayed'[k] = relayed[k]
    BY <1>2, <2>1
  <2> QED
    BY <2>2 DEF S
<1> HIDE DEF n
<1>5. /\ DOMAIN batchHashes' = Number /\ batchHashes'[n] = batch
      /\ \A id \in Number \ {n} : batchHashes'[id] = batchHashes[id]
  BY <1>1, <1>2, <1>3
<1>6. ASSUME NEW k \in 1..(n + 1)
      PROVE  batchHashes'[k - 1] = relayed'[k]
  <2>1. CASE k = n + 1
    BY <1>1, <1>4, <1>5, <2>1
  <2>2. CASE k # n + 1
    <3>1. k \in 1..n /\ k - 1 # n /\ k - 1 \in 0..MaxBatches - 1
      BY <1>1, <1>3, <2>2
    <3>2. k - 1 \in Number
      BY <3>1 DEF ProtocolConstants, Number
    <3> QED
      BY <1>1, <1>4, <1>5, <3>1, <3>2
  <2> QED
    BY <2>1, <2>2
<1>7. batch' \in Seq(Tx) /\ n + 1 <= MaxBatches /\ promises' \subseteq Promise
  BY <1>1, <1>2, <1>3
<1> QED
  BY <1>2, <1>4, <1>5, <1>6, <1>7 DEF HashesStand

LEMMA HashesNext ==
    ProtocolConstants /\ HashesStand /\ [ProtocolNext]_protocolVars => HashesStand'
<1> SUFFICES ASSUME ProtocolConstants, HashesStand, [ProtocolNext]_protocolVars PROVE HashesStand'
  OBVIOUS
<1>1. ASSUME UNCHANGED <<promises, batchHashes, batch, relayed>>
      PROVE  HashesStand'
  BY <1>1 DEF HashesStand
<1>2. ASSUME NEW tx \in Tx, Accept(tx)
      PROVE  HashesStand'
  <2>1. /\ batch' = Append(batch, tx) /\ relayed' = relayed /\ Len(relayed) < MaxBatches
        /\ batchHashes' = batchHashes /\ promises' \subseteq Promise
    BY <1>2 DEF Accept, SignPromise, contract, HashesStand
  <2>2. batch' \in Seq(Tx)
    BY <2>1 DEF HashesStand
  <2> QED
    BY <2>1, <2>2 DEF HashesStand
<1>3. CASE Relay
  BY <1>3, RelayOK
<1>4. CASE TickInTime
  BY <1>1, <1>4 DEF TickInTime, Tick, contract
<1>5. CASE Dispute
  BY <1>1, <1>5 DEF Dispute, DisputeStep, OpenDispute, ClaimDisputeCompensation
<1>6. ASSUME NEW u \in User, Resolve(u)
      PROVE  HashesStand'
  BY <1>1, <1>6 DEF Resolve, ResolveDispute
<1>7. CASE UNCHANGED protocolVars
  BY <1>1, <1>7 DEF protocolVars, vars
<1> QED
  BY <1>2, <1>3, <1>4, <1>5, <1>6, <1>7 DEF ProtocolNext

LEMMA HashesResolve == HashesStand => KeptOnDiagonalResolvable
<1> SUFFICES ASSUME HashesStand, NEW u \in User, NEW p \in Disputed(u),
                    p.batchId = p.nonceId, Kept(p)
             PROVE  \E k \in DOMAIN relayed : Resolves(relayed[k], u)
  BY DEF KeptOnDiagonalResolvable
<1> DEFINE k == p.batchId + 1
<1>1. /\ p \in promises /\ p.txData = disputes[u].txData /\ p.nonceId = disputes[u].nonceId
  BY DEF Disputed
<1>2. p.batchId \in Nat
  BY <1>1, BatcherConstants DEF HashesStand
<1>3. /\ p.batchId < Len(relayed) /\ p.nonceId < Len(relayed[k])
      /\ relayed[k][p.nonceId + 1] = p.txData
  BY DEF Kept
<1>4. relayed \in Seq(Seq(Tx)) /\ \A j \in 1..Len(relayed) : batchHashes[j - 1] = relayed[j]
  BY DEF HashesStand
<1>5. k \in 1..Len(relayed) /\ k - 1 = p.batchId /\ DOMAIN relayed = 1..Len(relayed)
  BY <1>2, <1>3, <1>4
<1> HIDE DEF k
<1>6. batchHashes[p.batchId] = relayed[k]
  BY <1>4, <1>5
<1>7. Resolves(relayed[k], u)
  BY <1>1, <1>3, <1>6 DEF Resolves
<1> QED
  BY <1>5, <1>7

\* The hash of a relayed batch stays, so that the owner can close any dispute
\* of a promise kept at a position that is its batch's number, however many
\* batches follow and whatever users dispute.
THEOREM DiagonalResolvable ==
    ASSUME ProtocolConstants
    PROVE  ProtocolSpec => []KeptOnDiagonalResolvable
<1>1. ProtocolInit => HashesStand
  BY HashesInit
<1>2. HashesStand /\ [ProtocolNext]_protocolVars => HashesStand'
  BY HashesNext
<1> QED
  BY <1>1, <1>2, HashesResolve, PTL DEF ProtocolSpec

=============================================================================
