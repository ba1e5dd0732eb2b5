------------------------------ MODULE AASigner ------------------------------
(***************************************************************************)
(* class AASigner of src/AASigner.ts: an ethers signer whose transactions  *)
(* are user operations of an account.  It is used from one thread, but     *)
(* every method awaits the node several times, and calls overlap there:    *)
(* what stands between two awaits is one step.  The module shows one       *)
(* signer, several calls of sendTransaction, a call of                     *)
(* connectAccountAddress, the listeners that wait for results, and two     *)
(* ways of sending, rpcUserOpSender and localUserOpSender.  getAddress,    *)
(* getAccount and isPhantom are calls that end after syncAccount.          *)
(*                                                                         *)
(* The address that the signer computes itself stays without code: its     *)
(* proxy is created with an implementation at address zero (line 243),     *)
(* which the constructor of ERC1967Proxy refuses.                          *)
(***************************************************************************)
EXTENDS UserOp, FiniteSets

CONSTANTS
    Call,            \* the calls of the signer's methods
    Tx,              \* Tx[c]: the transactions that c may be given
    Counterfactual,  \* what _deploymentAddress returns
    Existing,        \* the account that the signer may be connected to
    Deployed,        \* the accounts that have code
    Owner,           \* the underlying signer
    EntryPoint, ChainId, Index,
    MaxBlock         \* bound on the blocks

\* The initCode: a call of the Create2Factory that creates the account.
InitCode == <<"deploy", Counterfactual>>

ASSUME SignerConstants ==
    /\ MaxBlock \in Nat
    /\ Index \in Nat
    /\ Counterfactual # Existing
    /\ Deployed \subseteq {Existing}
    /\ Null \notin Int \cup {Counterfactual, Existing, NoBytes, AddressZero, InitCode}
    /\ \A c \in Call : \A tx \in Tx[c] : tx.nonce \in Nat \cup {Null}

VARIABLES
    account,    \* _account
    isPhantom,  \* _isPhantom
    connect,    \* the call of connectAccountAddress
    call,       \* the other calls
    local,      \* operations are sent by localUserOpSender, or by RPC
    block,      \* the last block
    nonces,     \* the nonces of the accounts
    mempool,    \* the operations that were sent and are not decided yet
    log         \* the UserOperationEvents

signer == <<account, isPhantom, connect>>
chain == <<block, nonces, mempool, log>>
vars == <<signer, call, local, chain>>

Address == {Counterfactual, Existing}

HashOf(op) == GetUserOpHash(op, EntryPoint, ChainId)

-----------------------------------------------------------------------------
(***************************************************************************)
(* A call.  `told' are the events that it has got from the subscription;   *)
(* `heard' are the running invocations of the listener.  `alone' is        *)
(* history: the call had the signer for itself, with no operation on its   *)
(* way when it began.                                                      *)
(***************************************************************************)
NewCall ==
    [pc |-> "idle", tx |-> Null, asked |-> Null, phantom |-> FALSE, op |-> Null,
     since |-> Null, listening |-> FALSE, polled |-> FALSE, told |-> {}, heard |-> {},
     result |-> "pending", alone |-> FALSE]

Over == {"idle", "returned", "thrown"}

Init ==
    /\ account = Null
    /\ isPhantom = TRUE
    /\ connect = [pc |-> "idle", alone |-> FALSE]
    /\ call = [c \in Call |-> NewCall]
    /\ local \in BOOLEAN
    /\ block = 0
    /\ nonces = [a \in Address |-> 0]
    /\ mempool = {}
    /\ log = {}

\* A call goes on with syncAccount from line 360: whether there is code is
\* asked for as long as there is none.
CheckPhantom(r, address) ==
    IF isPhantom THEN [r EXCEPT !.pc = "code", !.asked = address] ELSE [r EXCEPT !.pc = "synced"]

\* Mutant of SyncAccount: it does not look whether there is an account.
SyncAnew(r) == [r EXCEPT !.pc = "address"]

SyncAccount(r) ==
    IF account = Null THEN [r EXCEPT !.pc = "address"] ELSE CheckPhantom(r, account)

Quiet ==
    /\ \A c \in Call : call[c].pc \in Over
    /\ connect.pc # "getCode"
    /\ mempool = {}

\* A call of sendTransaction begins; that of the others is not alone any more.
SendTransaction(c, tx) ==
    /\ call[c].pc = "idle"
    /\ call' = [d \in Call |->
                 IF d = c THEN SyncAccount([NewCall EXCEPT !.tx = tx, !.alone = Quiet])
                 ELSE [call[d] EXCEPT !.alone = FALSE]]
    /\ connect' = [connect EXCEPT !.alone = @ /\ connect.pc # "getCode"]
    /\ UNCHANGED <<account, isPhantom, local, chain>>

-----------------------------------------------------------------------------
(***************************************************************************)
(* connectAccountAddress.  A call that finds an account throws at once.    *)
(***************************************************************************)
ConnectAccountAddress ==
    /\ connect.pc = "idle"
    /\ account = Null
    /\ connect' = [pc |-> "getCode", alone |-> \A c \in Call : call[c].pc \in Over]
    /\ call' = [c \in Call |-> [call[c] EXCEPT !.alone = FALSE]]
    /\ UNCHANGED <<account, isPhantom, local, chain>>

Connected ==
    /\ connect.pc = "getCode"
    /\ Existing \in Deployed
    /\ account' = Existing
    /\ isPhantom' = FALSE
    /\ connect' = [connect EXCEPT !.pc = "done"]
    /\ UNCHANGED <<call, local, chain>>

ConnectThrows ==
    /\ connect.pc = "getCode"
    /\ connect' = [connect EXCEPT !.pc = "thrown"]
    /\ UNCHANGED <<account, isPhantom, call, local, chain>>

-----------------------------------------------------------------------------
GotDeploymentAddress(c) ==
    /\ call[c].pc = "address"
    /\ account' = Counterfactual
    /\ call' = [call EXCEPT ![c] = CheckPhantom(@, Counterfactual)]
    /\ UNCHANGED <<isPhantom, connect, local, chain>>

GotCode(c) ==
    /\ call[c].pc = "code"
    /\ isPhantom' = (call[c].asked \notin Deployed)
    /\ call' = [call EXCEPT ![c].asked = Null, ![c].pc = "synced"]
    /\ UNCHANGED <<account, connect, local, chain>>

Sync(c) == GotDeploymentAddress(c) \/ GotCode(c)

-----------------------------------------------------------------------------
(***************************************************************************)
(* _createUserOperation.                                                   *)
(***************************************************************************)
\* Lines 381-390: whether to create the account is decided here ...
Decide(c) ==
    /\ call[c].pc = "synced"
    /\ call' = [call EXCEPT ![c].phantom = isPhantom, ![c].pc = "populate"]
    /\ UNCHANGED <<signer, local, chain>>

\* Mutant of Partial: the index is always the nonce.
PartialIndexed(tx, phantom, sender) ==
    [sender |-> sender,
     initCode |-> IF phantom THEN InitCode ELSE Null,
     nonce |-> Index,
     callData |-> tx.data,
     callGasLimit |-> tx.gasLimit,
     maxPriorityFeePerGas |-> Given(tx.gasPrice, tx.maxPriorityFeePerGas),
     maxFeePerGas |-> Given(tx.gasPrice, tx.maxFeePerGas),
     verificationGasLimit |-> Null,
     preVerificationGas |-> Null,
     paymasterAndData |-> Null,
     signature |-> Null]

\* ... and the operation that fillAndSign is given takes the sender from here.
Partial(tx, phantom, sender) ==
    [sender |-> sender,
     initCode |-> IF phantom THEN InitCode ELSE Null,
     nonce |-> IF phantom THEN Index ELSE tx.nonce,
     callData |-> tx.data,
     callGasLimit |-> tx.gasLimit,
     maxPriorityFeePerGas |-> Given(tx.gasPrice, tx.maxPriorityFeePerGas),
     maxFeePerGas |-> Given(tx.gasPrice, tx.maxFeePerGas),
     verificationGasLimit |-> Null,
     preVerificationGas |-> Null,
     paymasterAndData |-> Null,
     signature |-> Null]

Populated(c) ==
    /\ call[c].pc = "populate"
    /\ LET op == Partial(call[c].tx, call[c].phantom, account)
       IN  call' = [call EXCEPT ![c].op = op,
                                ![c].phantom = FALSE,
                                ![c].pc = IF op.initCode # Null THEN "initCode"
                                          ELSE IF op.nonce = Null THEN "nonce" ELSE "rest"]
    /\ UNCHANGED <<signer, local, chain>>

\* The node estimates the call of the Create2Factory.  That creates nothing
\* and reverts; but when the factory is not there, the call succeeds.
EstimatedInitCode(c) ==
    /\ call[c].pc = "initCode"
    /\ call' = [call EXCEPT ![c].op = FillInitCode(@, Counterfactual, 0), ![c].pc = "rest"]
    /\ UNCHANGED <<signer, local, chain>>

GotNonce(c) ==
    /\ call[c].pc = "nonce"
    /\ call[c].op.sender \in Deployed
    /\ call' = [call EXCEPT ![c].op = FillNonce(@, nonces[call[c].op.sender]), ![c].pc = "rest"]
    /\ UNCHANGED <<signer, local, chain>>

\* Mutant of Filled: signed before the rest is filled in.
SignedFirst(c) ==
    /\ call[c].pc = "rest"
    /\ call' = [call EXCEPT ![c].op = FillRest(SignUserOp(@, Owner, EntryPoint, ChainId), 1, 1),
                            ![c].listening = TRUE,
                            ![c].pc = "send"]
    /\ UNCHANGED <<signer, local, chain>>

\* The estimate, the base fee, the signature; and then userEventResponse, which
\* asks for the block number without waiting for the answer, and subscribes.
Filled(c) ==
    /\ call[c].pc = "rest"
    /\ call' = [call EXCEPT ![c].op = SignUserOp(FillRest(@, 1, 1), Owner, EntryPoint, ChainId),
                            ![c].listening = TRUE,
                            ![c].pc = "send"]
    /\ UNCHANGED <<signer, local, chain>>

\* Nobody has the response of a call that threw.  Its listener stays, but has
\* no effect any more.
Throw(c) == call' = [call EXCEPT ![c] = [NewCall EXCEPT !.pc = "thrown"]]

\* The node refuses what is asked of an account that is not there.
Reverts(c) ==
    /\ \/ call[c].pc = "initCode"
       \/ call[c].pc = "nonce" /\ call[c].op.sender \notin Deployed
    /\ Throw(c)
    /\ UNCHANGED <<signer, local, chain>>

CreateUserOperation(c) ==
    Decide(c) \/ Populated(c) \/ EstimatedInitCode(c) \/ GotNonce(c) \/ Filled(c) \/ Reverts(c)

-----------------------------------------------------------------------------
(***************************************************************************)
(* sendUserOp.                                                             *)
(***************************************************************************)
Sent(c) == [by |-> c, op |-> call[c].op]

Submit(c) ==
    /\ call[c].pc = "send"
    /\ mempool' = mempool \cup {Sent(c)}
    /\ call' = [call EXCEPT ![c].pc = "answer"]
    /\ UNCHANGED <<signer, local, block, nonces, log>>

\* localUserOpSender waits for the receipt of its transaction, which is a
\* failure if handleOps reverted; rpcUserOpSender for what the bundler says.
Answer(c) ==
    /\ call[c].pc = "answer"
    /\ local => Sent(c) \notin mempool
    /\ IF local /\ ~\E e \in log : e.by = c THEN Throw(c) ELSE call' = [call EXCEPT ![c].pc = "returned"]
    /\ UNCHANGED <<signer, local, chain>>

Send(c) == Submit(c) \/ Answer(c)

\* The node does not answer, or the bundler refuses.
NodeFails(c) ==
    /\ call[c].pc \notin Over
    /\ Throw(c)
    /\ UNCHANGED <<signer, local, chain>>

-----------------------------------------------------------------------------
(***************************************************************************)
(* The listener of userEventResponse.  An invocation that waits for the    *)
(* block number is one that begins when that is known.                     *)
(***************************************************************************)
Registered(c) == call[c].listening \/ call[c].result # "pending"

GotBlockNumber(c) ==
    /\ Registered(c)
    /\ call[c].since = Null
    /\ call' = [call EXCEPT ![c].since = block]
    /\ UNCHANGED <<signer, local, chain>>

\* Mutant of Ignored: the hash is not compared.
IgnoredOld(c, e) == e.block <= call[c].since

Ignored(c, e) == e.block <= call[c].since \/ e.hash # HashOf(call[c].op)

\* The invocations that go on to wait for a receipt.
Invoke(events) == {[event |-> e, pc |-> "receipt"] : e \in events}

Deliver(c, e) ==
    /\ call[c].listening
    /\ call[c].since # Null
    /\ e \notin call[c].told
    /\ ~Ignored(c, e)
    /\ call' = [call EXCEPT ![c].told = @ \cup {e}, ![c].heard = @ \cup Invoke({e})]
    /\ UNCHANGED <<signer, local, chain>>

\* The one-shot timer of line 323.
Poll(c) ==
    /\ Registered(c)
    /\ call[c].since # Null
    /\ ~call[c].polled
    /\ LET query == {e \in log : e.hash = HashOf(call[c].op) /\ ~Ignored(c, e)}
       IN  call' = [call EXCEPT ![c].polled = TRUE, ![c].heard = @ \cup Invoke(query)]
    /\ UNCHANGED <<signer, local, chain>>

\* A promise that is settled stays as it is, whatever else is on its way to
\* the listener.
Settle(c, result) ==
    call' = [call EXCEPT ![c].result = result, ![c].listening = FALSE,
                         ![c].told = {}, ![c].heard = {}, ![c].polled = TRUE]

GotReceipt(c, i) ==
    /\ i.pc = "receipt"
    /\ IF i.event.success
       THEN Settle(c, "resolved")
       ELSE call' = [call EXCEPT ![c].heard = (@ \ {i}) \cup {[i EXCEPT !.pc = "reason"]}]

RevertReasons(topic) == {e \in log : ~e.success /\ e.hash = topic}

\* Mutant of GotReason: it returns whether there is a reason or not.
GotReasonReturns(c, i) ==
    /\ i.pc = "reason"
    /\ IF RevertReasons(call[c].op.sender) # {}
       THEN Settle(c, "rejected")
       ELSE call' = [call EXCEPT ![c].heard = @ \ {i}]

\* The first topic of UserOperationRevertReason is the hash; it is asked for
\* with the sender (line 304).
GotReason(c, i) ==
    /\ i.pc = "reason"
    /\ IF RevertReasons(call[c].op.sender) # {}
       THEN Settle(c, "rejected")
       ELSE Settle(c, "resolved failed")

Hears(c) ==
    /\ \E i \in call[c].heard : GotReceipt(c, i) \/ GotReason(c, i)
    /\ UNCHANGED <<signer, local, chain>>

-----------------------------------------------------------------------------
(***************************************************************************)
(* The bundler and the EntryPoint.                                         *)
(***************************************************************************)
Valid(op) ==
    /\ op.initCode = NoBytes
    /\ op.sender \in Deployed
    /\ op.nonce = nonces[op.sender]

Execute(m) ==
    /\ Valid(m.op)
    /\ block < MaxBlock
    /\ block' = block + 1
    /\ nonces' = [nonces EXCEPT ![m.op.sender] = @ + 1]
    /\ mempool' = mempool \ {m}
    /\ \E success \in BOOLEAN :
        log' = log \cup {[by |-> m.by, hash |-> HashOf(m.op), block |-> block + 1, success |-> success]}
    /\ UNCHANGED <<signer, call, local>>

Drop(m) ==
    /\ mempool' = mempool \ {m}
    /\ UNCHANGED <<signer, call, local, block, nonces, log>>

Decided == \E m \in mempool : Execute(m) \/ Drop(m)

-----------------------------------------------------------------------------
CallStep(c) == Sync(c) \/ CreateUserOperation(c) \/ Send(c)

ListenerStep(c) == GotBlockNumber(c) \/ Poll(c) \/ Hears(c) \/ \E e \in log : Deliver(c, e)

Next ==
    \/ \E c \in Call : \E tx \in Tx[c] : SendTransaction(c, tx)
    \/ ConnectAccountAddress \/ Connected \/ ConnectThrows
    \/ \E c \in Call : CallStep(c) \/ NodeFails(c) \/ ListenerStep(c)
    \/ Decided

Spec == Init /\ [][Next]_vars

(***************************************************************************)
(* The node answers, the subscription and the timer call the listener, and *)
(* the bundler includes or drops what it accepted.                         *)
(***************************************************************************)
Fairness ==
    /\ \A c \in Call : WF_vars(CallStep(c)) /\ WF_vars(ListenerStep(c))
    /\ WF_vars(Decided)

FairSpec == Spec /\ Fairness

-----------------------------------------------------------------------------
\* What a response reports happened: an operation with the hash of its own
\* was executed, after it began to listen, and with that result (lines
\* 279-315), whichever events come, how often, and in what order.
ReportsTruth ==
    \A c \in Call : call[c].result # "pending" =>
        \E e \in log : /\ e.hash = HashOf(call[c].op)
                       /\ e.block > call[c].since
                       /\ e.success <=> call[c].result = "resolved"

\* What is sent is complete, and its signature is on all of it (fillAndSign).
SignedAsSent ==
    \A m \in mempool :
        /\ \A f \in Field \ {"signature"} : m.op[f] # Null
        /\ m.op.signature = SignMessage(Owner, HashOf(m.op))

\* A call that has the signer for itself, and leaves the nonce to it, sends an
\* operation that the EntryPoint can execute, or one that creates the very
\* account it is for: what it found out about the account while it was filled
\* in still fits together (lines 379-407).
AloneIsValid ==
    \A c \in Call :
        call[c].alone /\ Sent(c) \in mempool /\ call[c].tx.nonce = Null =>
            \/ Valid(call[c].op)
            \/ call[c].op.initCode = InitCode /\ call[c].op.sender = Counterfactual

\* When nothing else went on during connectAccountAddress, the signer stays
\* with that account, and does not try to create it (lines 222-231, 355, 363).
StaysConnected ==
    connect.pc = "done" /\ connect.alone => account = Existing /\ ~isPhantom

\* An operation executed in a block after the one that the listener goes by
\* settles the response, although the timer fires once, and the subscription
\* tells of every event once (lines 272-329).  Nobody has the response of a
\* call that threw.
Noticed ==
    \A c \in Call :
        (call[c].since # Null /\ \E e \in log : e.hash = HashOf(call[c].op) /\ e.block > call[c].since)
            ~> (call[c].result # "pending" \/ call[c].pc = "thrown")

=============================================================================
