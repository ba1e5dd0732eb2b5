------------------------------- MODULE Outbox -------------------------------
(***************************************************************************)
(* What the queues of src/AASigner.ts promise, without how: the requests   *)
(* of an account leave in the order they were made and once, in bundles    *)
(* that hold at most one request of each account (the NOTE at lines        *)
(* 113-114), and a bundle leaves only when the one before is over, of      *)
(* whichever queue that was.  It says nothing of when a bundle leaves, nor *)
(* of what becomes of it.                                                  *)
(***************************************************************************)
EXTENDS Integers, Sequences

CONSTANTS
    Queue,       \* the queues of the program
    Account,     \* the accounts that requests are sent from
    MaxRequests  \* bound on the requests of an account

VARIABLES
    made,    \* how many requests each account made: they are numbered
    queue,   \* the requests that wait, by queue and account
    handed,  \* the requests that left, by queue and account
    bundle,  \* the bundle that left last: a set of requests
    sending  \* and whether it is still on its way

outbox == <<made, queue, handed, bundle, sending>>

Request == [sender: Account, id: 1 .. MaxRequests]

OutboxInit ==
    /\ made = [a \in Account |-> 0]
    /\ queue = [q \in Queue |-> [a \in Account |-> <<>>]]
    /\ handed = [q \in Queue |-> [a \in Account |-> <<>>]]
    /\ bundle = {}
    /\ sending = FALSE

\* Account a makes its next request, through q.
Make(q, a) ==
    /\ made[a] < MaxRequests
    /\ made' = [made EXCEPT ![a] = @ + 1]
    /\ queue' = [queue EXCEPT ![q][a] = Append(@, made[a] + 1)]
    /\ UNCHANGED <<handed, bundle, sending>>

\* The first requests of some accounts leave q together.
Leave(q, accounts) ==
    /\ ~sending
    /\ accounts # {}
    /\ \A a \in accounts : queue[q][a] # <<>>
    /\ sending' = TRUE
    /\ bundle' = {[sender |-> a, id |-> Head(queue[q][a])] : a \in accounts}
    /\ queue' = [queue EXCEPT ![q] = [a \in Account |->
                    IF a \in accounts THEN Tail(@[a]) ELSE @[a]]]
    /\ handed' = [handed EXCEPT ![q] = [a \in Account |->
                    IF a \in accounts THEN Append(@[a], Head(queue[q][a])) ELSE @[a]]]
    /\ UNCHANGED made

Over ==
    /\ sending
    /\ sending' = FALSE
    /\ UNCHANGED <<made, queue, handed, bundle>>

OutboxNext ==
    \/ \E q \in Queue, a \in Account : Make(q, a)
    \/ \E q \in Queue, accounts \in SUBSET Account : Leave(q, accounts)
    \/ Over

OutboxSpec == OutboxInit /\ [][OutboxNext]_outbox

=============================================================================
