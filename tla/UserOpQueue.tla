---------------------------- MODULE UserOpQueue ----------------------------
(***************************************************************************)
(* queueUserOpSender and sendQueuedUserOps of src/AASigner.ts (72-159): a  *)
(* way to send user operations that collects them in a queue, from which a *)
(* timer makes bundles.                                                    *)
(*                                                                         *)
(* The program is one thread: what stands between two awaits is one step.  *)
(* The timer fires also while an earlier push is in progress, and every    *)
(* queue has a timer of its own; only the variable `sending' of the module *)
(* keeps them apart.  A push that fails rejects its promise.  setInterval  *)
(* has nobody to handle that, which may end the process.                   *)
(*                                                                         *)
(* The order of the operations in a bundle is left out.                    *)
(***************************************************************************)
EXTENDS Integers, Sequences, FiniteSets

CONSTANTS
    Queue, Account, MaxRequests,  \* see Outbox
    IDLE_TIME,
    BUNDLE_SIZE_IMMEDIATE,
    NaN  \* a number that is none

ASSUME QueueConstants ==
    /\ MaxRequests \in Nat
    /\ IDLE_TIME \in Nat
    /\ BUNDLE_SIZE_IMMEDIATE \in Nat
    /\ NaN \notin Int
    /\ IsFiniteSet(Account)

VARIABLES
    made,       \* how many requests each account made: they are numbered
    queue,      \* queue[q][a]: the numbers of the requests of a that wait in q
    handed,     \* handed[q][a]: of those that were taken from q
    queueSize,
    idle,       \* the time since lastQueueUpdate, counted up to IDLE_TIME
    timer,      \* _cancelInterval is set
    sending,
    pushes,     \* the calls of sendQueuedUserOps that await something
    bundle,     \* the bundle taken last
    alive       \* the process did not end

queueVars == <<made, queue, handed, queueSize, idle, timer, sending, pushes, bundle, alive>>

Request == [sender: Account, id: 1 .. MaxRequests]

Push == [queue: Queue, ops: SUBSET Request, pc: {"getAddress", "handleOps", "wait"}]

-----------------------------------------------------------------------------
(***************************************************************************)
(* Numbers of JavaScript.  queueSize is not initialised: it is undefined,  *)
(* then NaN for ever, and neither is less than anything.                   *)
(***************************************************************************)
Plus(x, n) == IF x \in Int THEN x + n ELSE NaN

Less(x, n) == x \in Int /\ x < n

-----------------------------------------------------------------------------
\* A queue that counts from the start.
InitCounted ==
    /\ made = [a \in Account |-> 0]
    /\ queue = [q \in Queue |-> [a \in Account |-> <<>>]]
    /\ handed = [q \in Queue |-> [a \in Account |-> <<>>]]
    /\ queueSize = [q \in Queue |-> 0]
    /\ idle = [q \in Queue |-> IDLE_TIME]
    /\ timer = [q \in Queue |-> TRUE]
    /\ sending = FALSE
    /\ pushes = {}
    /\ bundle = {}
    /\ alive = TRUE

QueueInit ==
    /\ made = [a \in Account |-> 0]
    /\ queue = [q \in Queue |-> [a \in Account |-> <<>>]]
    /\ handed = [q \in Queue |-> [a \in Account |-> <<>>]]
    /\ queueSize = [q \in Queue |-> NaN]
    /\ idle = [q \in Queue |-> IDLE_TIME]
    /\ timer = [q \in Queue |-> TRUE]
    /\ sending = FALSE
    /\ pushes = {}
    /\ bundle = {}
    /\ alive = TRUE

\* The SendUserOp itself: account a makes its next request.
SendUserOp(q, a) ==
    /\ alive
    /\ made[a] < MaxRequests
    /\ made' = [made EXCEPT ![a] = @ + 1]
    /\ queue' = [queue EXCEPT ![q][a] = Append(@, made[a] + 1)]
    /\ idle' = [idle EXCEPT ![q] = 0]
    /\ queueSize' = [queueSize EXCEPT ![q] = Plus(@, 1)]
    /\ UNCHANGED <<handed, timer, sending, pushes, bundle, alive>>

SetInterval(q) ==
    /\ alive
    /\ timer' = [timer EXCEPT ![q] = TRUE]
    /\ UNCHANGED <<made, queue, handed, queueSize, idle, sending, pushes, bundle, alive>>

CancelInterval(q) ==
    /\ alive
    /\ timer' = [timer EXCEPT ![q] = FALSE]
    /\ UNCHANGED <<made, queue, handed, queueSize, idle, sending, pushes, bundle, alive>>

\* The condition at line 133.
Waits(q) == Less(queueSize[q], BUNDLE_SIZE_IMMEDIATE) \/ idle[q] < IDLE_TIME

\* Mutant: it is not asked whether shift found something.
NonEmptyUnasked(q) == Account

NonEmpty(q) == {a \in Account : queue[q][a] # <<>>}

\* Array.shift, which returns undefined when there is nothing.
Undefined == 0  \* the number of no request

\* Mutant: Array.pop.
Pop(s) == [op |-> s[Len(s)], rest |-> SubSeq(s, 1, Len(s) - 1)]

Shift(s) ==
    IF s = <<>> THEN [op |-> Undefined, rest |-> s]
    ELSE [op |-> Head(s), rest |-> Tail(s)]

Whenever == TRUE

NoneSending == ~sending

\* sendQueuedUserOps up to its first await, by the timer or by a call of push.
\* When it returns before that, it leaves everything as it was.
StartPush(q) ==
    LET ops == {[sender |-> a, id |-> Shift(queue[q][a]).op] : a \in NonEmpty(q)}
    IN  /\ alive
        /\ NoneSending
        /\ ~Waits(q)
        /\ ops # {}
        /\ sending' = TRUE
        /\ bundle' = ops
        /\ pushes' = pushes \cup {[queue |-> q, ops |-> ops, pc |-> "getAddress"]}
        /\ queue' = [queue EXCEPT ![q] = [a \in Account |->
                        IF a \in NonEmpty(q) THEN Shift(@[a]).rest ELSE @[a]]]
        /\ handed' = [handed EXCEPT ![q] = [a \in Account |->
                        IF a \in NonEmpty(q) THEN Append(@[a], Shift(queue[q][a]).op) ELSE @[a]]]
        /\ queueSize' = [queueSize EXCEPT ![q] = Plus(@, -Cardinality(NonEmpty(q)))]
        /\ UNCHANGED <<made, idle, timer, alive>>

\* An await of a push ends well, and the next one begins.
Proceed(p, pc) ==
    /\ alive
    /\ pushes' = (pushes \ {p}) \cup {[p EXCEPT !.pc = pc]}
    /\ UNCHANGED <<made, queue, handed, queueSize, idle, timer, sending, bundle, alive>>

GotAddress(p) == p.pc = "getAddress" /\ Proceed(p, "handleOps")

Submitted(p) == p.pc = "handleOps" /\ Proceed(p, "wait")

\* A failure puts the operations back.
EndPushRetry(p) ==
    /\ pushes' = pushes \ {p}
    /\ sending' = FALSE
    /\ queue' = [queue EXCEPT ![p.queue] = [a \in Account |->
                    IF \E op \in p.ops : op.sender = a
                    THEN <<(CHOOSE op \in p.ops : op.sender = a).id>> \o @[a] ELSE @[a]]]
    /\ UNCHANGED <<made, handed, queueSize, idle, timer, bundle>>

\* The finally clause, after the receipt or after a failure of any await.  The
\* operations were taken from the queue already, and do not go back.
EndPush(p) ==
    /\ pushes' = pushes \ {p}
    /\ sending' = FALSE
    /\ UNCHANGED <<made, queue, handed, queueSize, idle, timer, bundle>>

Mined(p) ==
    /\ alive
    /\ p.pc = "wait"
    /\ EndPush(p)
    /\ UNCHANGED alive

Fails(p) ==
    /\ alive
    /\ EndPush(p)
    /\ alive' \in BOOLEAN

Age(q) ==
    /\ idle[q] < IDLE_TIME
    /\ idle' = [idle EXCEPT ![q] = @ + 1]
    /\ UNCHANGED <<made, queue, handed, queueSize, timer, sending, pushes, bundle, alive>>

PushStep(p) == GotAddress(p) \/ Submitted(p) \/ Mined(p) \/ Fails(p)

QueueNext ==
    \/ \E q \in Queue, a \in Account : SendUserOp(q, a)
    \/ \E q \in Queue : SetInterval(q) \/ CancelInterval(q) \/ StartPush(q) \/ Age(q)
    \/ \E p \in pushes : PushStep(p)

QueueSpec == QueueInit /\ [][QueueNext]_queueVars

(***************************************************************************)
(* A running timer fires; the node answers, and mines or refuses a bundle; *)
(* time passes.                                                            *)
(***************************************************************************)
QueueFairness ==
    /\ \A q \in Queue : WF_queueVars(timer[q] /\ StartPush(q)) /\ WF_queueVars(Age(q))
    /\ WF_queueVars(\E p \in pushes : PushStep(p))

FairQueueSpec == QueueSpec /\ QueueFairness

-----------------------------------------------------------------------------
\* What is taken from the queues are requests; shift never brings undefined into
\* a bundle.
TypeOK ==
    /\ made \in [Account -> 0 .. MaxRequests]
    /\ queue \in [Queue -> [Account -> Seq(1 .. MaxRequests)]]
    /\ handed \in [Queue -> [Account -> Seq(1 .. MaxRequests)]]
    /\ queueSize \in [Queue -> Int \cup {NaN}]
    /\ idle \in [Queue -> 0 .. IDLE_TIME]
    /\ timer \in [Queue -> BOOLEAN]
    /\ sending \in BOOLEAN
    /\ pushes \subseteq Push
    /\ bundle \subseteq Request
    /\ alive \in BOOLEAN

\* What left q and what waits there, of one account.
Trace(q, a) == handed[q][a] \o queue[q][a]

\* The requests of an account leave a queue in the order they were made, and
\* none twice, whichever bundles fail (lines 139-145: an operation is shifted
\* out before it is sent, and is not put back).
InOrderOnce ==
    \A q \in Queue, a \in Account :
        \A j \in DOMAIN Trace(q, a) : \A i \in 1 .. j - 1 : Trace(q, a)[i] < Trace(q, a)[j]

\* No two bundles are on their way together, of one queue or of two, although
\* timers fire while a push awaits the node; and after a failure the next
\* bundle is not held up (lines 127-131 and the finally clause).
OneBundleAtATime ==
    /\ Cardinality(pushes) <= 1
    /\ sending <=> pushes # {}

\* A request does not stay in a queue whose timer runs, however few there are
\* ("after that much time with no new TX, send whatever you can", line 120).
QueuedIsSent ==
    \A q \in Queue, a \in Account, n \in 1 .. MaxRequests :
        n \in {queue[q][a][i] : i \in DOMAIN queue[q][a]}
            ~> \/ n \notin {queue[q][a][i] : i \in DOMAIN queue[q][a]}
               \/ ~timer[q]
               \/ ~alive

\* Line 123: "when reaching this theshold, don't wait anymore and send a bundle".
Waiting(q) == Cardinality(UNION {{a} \X DOMAIN queue[q][a] : a \in Account})

ThresholdSends ==
    \A q \in Queue : Waiting(q) >= BUNDLE_SIZE_IMMEDIATE => ~Waits(q)

\* The queues implement the outbox.  There, a bundle is on its way while a push
\* awaits something, whatever the flag of the module says.
O == INSTANCE Outbox WITH
        made <- made, queue <- queue, handed <- handed, bundle <- bundle,
        sending <- pushes # {}

Outbox == O!OutboxSpec

=============================================================================
