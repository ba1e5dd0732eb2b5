------------------------- MODULE BatcherAccountable -------------------------
(***************************************************************************)
(* The accountable batcher (contracts/ICSOC/BatcherAccountable.sol).  Its  *)
(* owner promises users, with a signature, that a transaction will stand   *)
(* at a position of a batch; the contract executes batches and stores      *)
(* their hashes; a user whose transaction is missing opens a dispute with  *)
(* the promise, which the owner must resolve within a day by showing the   *)
(* batch, or the user is paid from the owner's deposit.                    *)
(*                                                                         *)
(* Ether is counted in halves of an ether.  A hash is modelled by what was *)
(* hashed, and a signature by its being among the promises.                *)
(***************************************************************************)
EXTENDS Integers, Sequences

CONSTANTS
    User,        \* addresses that open disputes
    Tx,          \* transaction data
    NoTx,        \* the empty bytes
    Batch,       \* the transaction arrays that are tried, sequences of Tx
    BatchId,     \* the batch nonces that are tried, natural numbers
    Promise,     \* the promises that the owner may sign
    Day,         \* 1 days, in ticks of the clock
    MaxTime,     \* bound on block.timestamp
    MaxBalance   \* bound on the contract's ether

ASSUME BatcherConstants ==
    /\ NoTx \notin Tx
    /\ Batch \subseteq Seq(Tx)
    /\ BatchId \subseteq Nat
    /\ Promise \subseteq [txData: Tx, nonceId: Nat, batchId: BatchId, commitTimestamp: Nat]
    /\ Day \in Nat \ {0}
    /\ MaxTime \in Nat \ {0}
    /\ MaxBalance \in Nat /\ MaxBalance >= 2  \* what the constructor is paid

VARIABLES
    balance,       \* the contract's ether
    depositFunds,  \* the part of it that the owner put up
    batchHashes,   \* the hash of each batch executed
    disputes,      \* the open dispute of each user
    now,           \* block.timestamp
    promises,      \* the promises that the owner has signed
    history        \* of each user: disputes opened, disputes paid, and whether
                   \* the owner resolved the one opened last

contract == <<balance, depositFunds, batchHashes, disputes>>
vars == <<balance, depositFunds, batchHashes, disputes, now, promises, history>>

Ether == 2

NoBatch == <<NoTx>>  \* the zero hash, which no array has

NoDispute == [nonceId |-> 0, txData |-> NoTx, timestamp |-> 0]

\* The keys of the batchHashes mapping that can be looked up.
Number == BatchId \cup {p.nonceId : p \in Promise}

\* The constructor.
Init ==
    /\ balance = Ether
    /\ depositFunds = Ether
    /\ batchHashes = [id \in Number |-> NoBatch]
    /\ disputes = [u \in User |-> NoDispute]
    /\ now = 1
    /\ promises = {}
    /\ history = [u \in User |-> [opened |-> 0, paid |-> 0, resolved |-> FALSE]]

Fund ==
    /\ balance + Ether <= MaxBalance
    /\ balance' = balance + Ether
    /\ depositFunds' = depositFunds + Ether
    /\ UNCHANGED <<batchHashes, disputes, now, promises, history>>

\* Anyone may relay a batch, also under a nonce that was used before.
ExecuteTransactions(txArray, batchNonce) ==
    /\ balance >= Ether
    /\ batchHashes' = [batchHashes EXCEPT ![batchNonce] = txArray]
    /\ UNCHANGED <<balance, depositFunds, disputes, now, promises, history>>

\* With a deposit of half an ether; it replaces the user's open dispute.
OpenDispute(u, p) ==
    /\ balance + 1 <= MaxBalance
    /\ now >= p.commitTimestamp
    /\ p \in promises
    /\ balance' = balance + 1
    /\ disputes' = [disputes EXCEPT ![u] =
                      [nonceId |-> p.nonceId, txData |-> p.txData, timestamp |-> now]]
    /\ history' = [history EXCEPT ![u].opened = @ + 1, ![u].resolved = FALSE]
    /\ UNCHANGED <<depositFunds, batchHashes, now, promises>>

\* txDataArray shows the disputed transaction at its position, and is the
\* batch whose hash is stored under that same number.
Resolves(txDataArray, u) ==
    LET nonceId == disputes[u].nonceId
    IN  /\ nonceId < Len(txDataArray)
        /\ txDataArray[nonceId + 1] = disputes[u].txData
        /\ batchHashes[nonceId] = txDataArray

\* Mutant: the dispute is not deleted.
ResolveDisputeKeeping(txDataArray, u) ==
    /\ Resolves(txDataArray, u)
    /\ history' = [history EXCEPT ![u].resolved = TRUE]
    /\ UNCHANGED <<balance, depositFunds, batchHashes, disputes, now, promises>>

\* By the owner.
ResolveDispute(txDataArray, u) ==
    /\ Resolves(txDataArray, u)
    /\ disputes' = [disputes EXCEPT ![u] = NoDispute]
    /\ history' = [history EXCEPT ![u].resolved = TRUE]
    /\ UNCHANGED <<balance, depositFunds, batchHashes, now, promises>>

Due(u) ==
    /\ disputes[u].timestamp # 0
    /\ now >= disputes[u].timestamp + Day

\* Mutant: the subtraction is unchecked.
PayableUnchecked == balance >= Ether

\* The transfer needs the ether, the subtraction is checked.
Payable == balance >= Ether /\ depositFunds >= Ether

\* Mutant: the dispute is not deleted.
ClaimKeepingDispute(u) ==
    /\ Due(u)
    /\ Payable
    /\ balance' = balance - Ether
    /\ depositFunds' = depositFunds - Ether
    /\ history' = [history EXCEPT ![u].paid = @ + 1]
    /\ UNCHANGED <<batchHashes, disputes, now, promises>>

ClaimDisputeCompensation(u) ==
    /\ Due(u)
    /\ Payable
    /\ balance' = balance - Ether
    /\ depositFunds' = depositFunds - Ether
    /\ disputes' = [disputes EXCEPT ![u] = NoDispute]
    /\ history' = [history EXCEPT ![u].paid = @ + 1]
    /\ UNCHANGED <<batchHashes, now, promises>>

\* The owner signs a promise, off the chain.
SignPromise(p) ==
    /\ promises' = promises \cup {p}
    /\ UNCHANGED <<contract, now, history>>

Tick ==
    /\ now < MaxTime
    /\ now' = now + 1
    /\ UNCHANGED <<contract, promises, history>>

DisputeStep ==
    \E u \in User :
        \/ \E p \in promises : OpenDispute(u, p)
        \/ ClaimDisputeCompensation(u)

Next ==
    \/ Fund
    \/ \E txArray \in Batch, id \in BatchId : ExecuteTransactions(txArray, id)
    \/ DisputeStep
    \/ \E u \in User, txDataArray \in Batch : ResolveDispute(txDataArray, u)
    \/ \E p \in Promise \ promises : SignPromise(p)
    \/ Tick

Spec == Init /\ [][Next]_vars

-----------------------------------------------------------------------------
\* Amounts stay in their range, although two of them are subtracted from, and
\* no dispute is dated in the future.
TypeOK ==
    /\ balance \in 0..MaxBalance
    /\ depositFunds \in 0..MaxBalance
    /\ batchHashes \in [Number -> Seq(Tx \cup {NoTx})]
    /\ disputes \in [User -> [nonceId: Nat, txData: Tx \cup {NoTx}, timestamp: 0..now]]
    /\ now \in 1..MaxTime
    /\ promises \subseteq Promise
    /\ history \in [User -> [opened: Nat, paid: Nat, resolved: BOOLEAN]]

\* A user is paid at most once for each deposit made to open a dispute, also
\* when disputes are replaced, resolved and reopened.
PaidOncePerDispute ==
    \A u \in User :
        history[u].paid + (IF disputes[u].timestamp # 0 THEN 1 ELSE 0) <= history[u].opened

\* A dispute that the owner resolved is never paid.
ResolvedNeverPaid ==
    [][\A u \in User : history'[u].paid > history[u].paid => ~history[u].resolved]_vars

=============================================================================
