-------------------------- MODULE DisputeProtocol ---------------------------
(***************************************************************************)
(* The batcher with an owner who keeps every promise: each transaction it  *)
(* accepts gets the next position of the current batch, and each batch is  *)
(* relayed, under the next batch nonce, before its promises are due        *)
(* (test/ICSOC/Accountable/accountable.test.ts; UMLs/system.wsd and        *)
(* UMLs/async.wsd).  Users may dispute any promise all the same.           *)
(***************************************************************************)
EXTENDS BatcherAccountable

CONSTANTS
    CommitDelay,  \* a promise is due this long after it was made
    MaxBatches    \* bound on the number of batches

ProtocolConstants ==
    /\ CommitDelay \in Nat \ {0}
    /\ MaxBatches \in Nat
    /\ 0 .. MaxBatches - 1 \subseteq BatchId

VARIABLES
    batch,    \* the transactions accepted since the last batch was relayed
    relayed   \* the batches relayed, in order: the next one has nonce Len(relayed)

protocolVars == <<vars, batch, relayed>>

ProtocolInit ==
    /\ Init
    /\ batch = <<>>
    /\ relayed = <<>>

\* The owner signs the position that the transaction gets.
Accept(tx) ==
    LET promise == [txData |-> tx, nonceId |-> Len(batch), batchId |-> Len(relayed),
                    commitTimestamp |-> now + CommitDelay]
    IN  /\ Len(relayed) < MaxBatches
        /\ promise \in Promise
        /\ SignPromise(promise)
        /\ batch' = Append(batch, tx)
        /\ UNCHANGED relayed

Relay ==
    /\ batch # <<>>
    /\ ExecuteTransactions(batch, Len(relayed))
    /\ relayed' = Append(relayed, batch)
    /\ batch' = <<>>

\* Time does not reach the due time of a promise that is not kept yet.
TickInTime ==
    /\ \A p \in promises : p.batchId = Len(relayed) => now + 1 < p.commitTimestamp
    /\ Tick
    /\ UNCHANGED <<batch, relayed>>

Resolve(u) ==
    /\ \E k \in DOMAIN relayed : ResolveDispute(relayed[k], u)
    /\ UNCHANGED <<batch, relayed>>

Dispute ==
    /\ DisputeStep
    /\ UNCHANGED <<batch, relayed>>

ProtocolNext ==
    \/ \E tx \in Tx : Accept(tx)
    \/ Relay
    \/ TickInTime
    \/ Dispute
    \/ \E u \in User : Resolve(u)

ProtocolSpec == ProtocolInit /\ [][ProtocolNext]_protocolVars

-----------------------------------------------------------------------------
\* The promise was kept: its transaction stands where it was promised.
Kept(p) ==
    /\ p.batchId < Len(relayed)
    /\ p.nonceId < Len(relayed[p.batchId + 1])
    /\ relayed[p.batchId + 1][p.nonceId + 1] = p.txData

Disputed(u) ==
    {p \in promises : /\ disputes[u].timestamp # 0
                      /\ p.txData = disputes[u].txData
                      /\ p.nonceId = disputes[u].nonceId}

\* dispute.wsd:20-31: the owner can close a dispute of any promise it kept, by
\* showing the batch of the number that was promised.
KeptResolvable ==
    \A u \in User : \A p \in Disputed(u) :
        Kept(p) => \E k \in DOMAIN relayed : Resolves(relayed[k], u)

\* What is left of that: it can if the position in the batch, whose hash the
\* contract looks at instead, is the number of the batch too.
KeptOnDiagonalResolvable ==
    \A u \in User : \A p \in Disputed(u) :
        p.batchId = p.nonceId /\ Kept(p) => \E k \in DOMAIN relayed : Resolves(relayed[k], u)

=============================================================================
