--------------------------- MODULE AASignerProofs ---------------------------
(***************************************************************************)
(* What src/AASigner.ts guarantees: first the signer, for any number of    *)
(* calls, transactions and blocks; then the queues that it may send        *)
(* through, for any number of them, of accounts and of requests, and that  *)
(* they implement the outbox.                                              *)
(***************************************************************************)
EXTENDS AASigner, UserOpQueue, SequenceTheorems, FiniteSetTheorems, TLAPS

(***************************************************************************)
(* The inductive invariant of the signer.                                  *)
(***************************************************************************)
\* An operation that fillAndSign returned.
Signed(op) ==
    /\ \A f \in Field \ {"signature"} : op[f] # Null
    /\ op.signature = SignMessage(Owner, HashOf(op))

\* Where a call is before it has an operation to listen for.
Before == {"idle", "address", "code", "synced", "populate", "initCode", "nonce", "rest"}

\* An event that is the call's own, and new to it.
Own(r, e) == e.hash = HashOf(r.op) /\ e.block > r.since

\* What holds of one call, given the events that there are.  A listener that
\* knows its block hears only of its own operation, and one that asks for a
\* reason does so of an operation that failed.
CallOK(r, events) ==
    /\ DOMAIN r = DOMAIN NewCall
    /\ \A i \in r.heard : DOMAIN i = {"event", "pc"}
    /\ r.pc = "send" => Signed(r.op)
    /\ r.pc \in Before => ~r.listening /\ r.result = "pending" /\ r.since = Null
    /\ r.since \in Nat \cup {Null}
    /\ r.since = Null => r.heard = {} /\ r.result = "pending"
    /\ \A i \in r.heard : /\ i.event \in events
                          /\ Own(r, i.event)
                          /\ i.pc = "reason" => ~i.event.success
    /\ r.result # "pending" =>
        \E e \in events : Own(r, e) /\ (e.success <=> r.result = "resolved")

CallsOK ==
    /\ DOMAIN call = Call
    /\ \A c \in Call : CallOK(call[c], log)

ChainOK ==
    /\ block \in Nat
    /\ \A e \in log : e.block \in Nat
    /\ \A m \in mempool : Signed(m.op)

\* As long as a connection was not disturbed, nobody else sets the account.
ConnectOK ==
    /\ DOMAIN connect = {"pc", "alone"}
    /\ connect.alone /\ connect.pc = "getCode" => \A c \in Call : call[c].pc \in Over
    /\ connect.alone /\ connect.pc = "done" =>
        /\ account = Existing
        /\ ~isPhantom
        /\ \A c \in Call : call[c].pc \notin {"address", "code"}

IInv == CallsOK /\ ChainOK /\ ConnectOK

-----------------------------------------------------------------------------
\* The hash does not depend on the signature.
LEMMA HashWithoutSignature ==
    ASSUME NEW op, DOMAIN op = Field, NEW s
    PROVE  HashOf([op EXCEPT !.signature = s]) = HashOf(op)
<1>1. PackUserOp([op EXCEPT !.signature = s], TRUE) = PackUserOp(op, TRUE)
  BY DEF PackUserOp, Field
<1> QED  BY <1>1 DEF HashOf, GetUserOpHash

\* What comes out of fillUserOp and the signature has all fields.
LEMMA FilledIsSigned ==
    ASSUME NEW op, NEW estimate, NEW baseFee
    PROVE  Signed(SignUserOp(FillRest(op, estimate, baseFee), Owner, EntryPoint, ChainId))
<1> DEFINE filled == FillRest(op, estimate, baseFee)
           signed == SignUserOp(filled, Owner, EntryPoint, ChainId)
<1>1. DOMAIN filled = Field /\ \A f \in Field : filled[f] # Null
  <2> DEFINE partial == FillFees(FillCallGas(op, estimate), baseFee)
  <2>1. filled = [f \in Field |-> Given(partial[f], DefaultsForUserOp[f])]
    BY DEF FillRest, FillUserOpDefaults
  <2>2. \A f \in Field : DefaultsForUserOp[f] # Null
    BY SignerConstants DEF DefaultsForUserOp, Field
  <2> QED  BY <2>1, <2>2 DEF Given
<1>2. signed = [filled EXCEPT !.signature = SignMessage(Owner, HashOf(filled))]
  BY DEF SignUserOp, HashOf
<1>3. HashOf(signed) = HashOf(filled)
  BY <1>1, <1>2, HashWithoutSignature
<1>4. signed.signature = SignMessage(Owner, HashOf(filled))
  BY <1>1, <1>2 DEF Field
<1>5. \A f \in Field \ {"signature"} : signed[f] # Null
  BY <1>1, <1>2
<1> QED  BY <1>3, <1>4, <1>5 DEF Signed

\* More events do not make a call wrong.
LEMMA MoreEvents ==
    ASSUME NEW r, NEW events, NEW more, events \subseteq more, CallOK(r, events)
    PROVE  CallOK(r, more)
BY DEF CallOK

-----------------------------------------------------------------------------
\* Nothing has begun.
LEMMA Initially == Init => IInv
<1> SUFFICES ASSUME Init PROVE IInv
  OBVIOUS
<1>1. CallsOK
  BY DEF Init, CallsOK, CallOK, NewCall, Before
<1>2. ChainOK
  BY DEF Init, ChainOK
<1>3. ConnectOK
  BY DEF Init, ConnectOK
<1> QED  BY <1>1, <1>2, <1>3 DEF IInv

-----------------------------------------------------------------------------
\* A step of one call.  It may end up over only if it was not, or was over
\* before, and it looks for code only if it did before.
LEMMA OneCall ==
    ASSUME IInv, NEW c \in Call, UNCHANGED <<account, isPhantom, connect, block, log>>,
           DOMAIN call' = Call, \A d \in Call \ {c} : call'[d] = call[d],
           CallOK(call'[c], log),
           call[c].pc \in Over => call'[c].pc \in Over,
           call'[c].pc \in {"address", "code"} => call[c].pc \in {"address", "code"},
           \A m \in mempool' : Signed(m.op)
    PROVE  IInv'
<1>1. CallsOK'
  BY DEF IInv, CallsOK, CallOK, Own
<1>2. ChainOK'
  BY DEF IInv, ChainOK, Signed, HashOf, GetUserOpHash, Keccak, PackUserOp, SignMessage
<1>3. ConnectOK'
  BY DEF IInv, ConnectOK
<1> QED  BY <1>1, <1>2, <1>3 DEF IInv

\* syncAccount.
LEMMA SyncStep ==
    ASSUME IInv, NEW c \in Call, Sync(c)
    PROVE  IInv'
<1>1. CASE GotDeploymentAddress(c)
  <2>1. ~(connect.alone /\ connect.pc = "done") /\ ~(connect.alone /\ connect.pc = "getCode")
    BY <1>1 DEF GotDeploymentAddress, IInv, ConnectOK, Over
  <2>2. CallOK(call[c], log) /\ call[c].pc \in Before
    BY <1>1 DEF GotDeploymentAddress, IInv, CallsOK, Before
  <2>3. CallOK(call'[c], log)
    BY <1>1, <2>2 DEF GotDeploymentAddress, CheckPhantom, IInv, CallsOK, CallOK, Own, NewCall, Before
  <2>4. CallsOK'
    BY <1>1, <2>3 DEF GotDeploymentAddress, IInv, CallsOK, chain
  <2>5. ChainOK' /\ ConnectOK'
    BY <1>1, <2>1 DEF GotDeploymentAddress, IInv, ChainOK, ConnectOK, chain, Signed, HashOf,
                      GetUserOpHash, Keccak, PackUserOp, SignMessage
  <2> QED  BY <2>4, <2>5 DEF IInv
<1>2. CASE GotCode(c)
  <2>1. ~(connect.alone /\ connect.pc = "done") /\ ~(connect.alone /\ connect.pc = "getCode")
    BY <1>2 DEF GotCode, IInv, ConnectOK, Over
  <2>2. CallOK(call[c], log) /\ call[c].pc \in Before
    BY <1>2 DEF GotCode, IInv, CallsOK, Before
  <2>3. CallOK(call'[c], log)
    BY <1>2, <2>2 DEF GotCode, IInv, CallsOK, CallOK, Own, NewCall, Before
  <2>4. CallsOK'
    BY <1>2, <2>3 DEF GotCode, IInv, CallsOK, chain
  <2>5. ChainOK' /\ ConnectOK'
    BY <1>2, <2>1 DEF GotCode, IInv, ChainOK, ConnectOK, chain, Signed, HashOf,
                      GetUserOpHash, Keccak, PackUserOp, SignMessage
  <2> QED  BY <2>4, <2>5 DEF IInv
<1> QED  BY <1>1, <1>2 DEF Sync

\* A call that throws is over, and has no response.
LEMMA ThrowStep ==
    ASSUME IInv, NEW c \in Call, call[c].pc \notin Over, Throw(c), UNCHANGED <<signer, local, chain>>
    PROVE  IInv'
<1>1. CallOK(call'[c], log)
  BY DEF Throw, IInv, CallsOK, CallOK, NewCall, Before
<1> QED  BY <1>1, OneCall DEF Throw, IInv, CallsOK, ChainOK, signer, chain, NewCall, Over

\* _createUserOperation.  Only its last step leaves Before, with an operation
\* that is filled in and signed.
LEMMA CreateStep ==
    ASSUME IInv, NEW c \in Call, CreateUserOperation(c)
    PROVE  IInv'
<1>0. CallOK(call[c], log) /\ DOMAIN call[c] = DOMAIN NewCall
  BY DEF IInv, CallsOK, CallOK
<1>a. DOMAIN call = Call /\ \A m \in mempool : Signed(m.op)
  BY DEF IInv, CallsOK, ChainOK
<1>1. CASE Decide(c)
  <2>1. CallOK(call'[c], log)
    BY <1>0, <1>a, <1>1 DEF Decide, CallOK, Before, NewCall
  <2> QED  BY <1>0, <1>a, <1>1, <2>1, OneCall DEF Decide, signer, chain, Over, NewCall
<1>2. CASE Populated(c)
  <2>1. CallOK(call'[c], log) /\ call'[c].pc \in {"initCode", "nonce", "rest"}
    BY <1>0, <1>a, <1>2 DEF Populated, CallOK, Before, NewCall
  <2> QED  BY <1>0, <1>a, <1>2, <2>1, OneCall DEF Populated, signer, chain, Over, NewCall
<1>3. CASE EstimatedInitCode(c)
  <2>1. CallOK(call'[c], log)
    BY <1>0, <1>a, <1>3 DEF EstimatedInitCode, CallOK, Before, NewCall
  <2> QED  BY <1>0, <1>a, <1>3, <2>1, OneCall DEF EstimatedInitCode, signer, chain, Over, NewCall
<1>4. CASE GotNonce(c)
  <2>1. CallOK(call'[c], log)
    BY <1>0, <1>a, <1>4 DEF GotNonce, CallOK, Before, NewCall
  <2> QED  BY <1>0, <1>a, <1>4, <2>1, OneCall DEF GotNonce, signer, chain, Over, NewCall
<1>5. CASE Filled(c)
  <2> DEFINE op == SignUserOp(FillRest(call[c].op, 1, 1), Owner, EntryPoint, ChainId)
  <2>1. Signed(op)
    BY FilledIsSigned
  <2> HIDE DEF op
  <2>2. call[c].pc = "rest" /\ call' = [call EXCEPT ![c].op = op, ![c].listening = TRUE, ![c].pc = "send"]
    BY <1>5 DEF Filled, op
  <2>3. /\ DOMAIN call'[c] = DOMAIN call[c]
        /\ call'[c].op = op /\ call'[c].pc = "send"
        /\ call'[c].since = call[c].since /\ call'[c].heard = call[c].heard /\ call'[c].result = call[c].result
    BY <1>0, <1>a, <2>2 DEF NewCall
  <2>4. CallOK(call'[c], log)
    BY <1>0, <2>1, <2>2, <2>3 DEF CallOK, Before
  <2>5. DOMAIN call' = Call /\ \A d \in Call \ {c} : call'[d] = call[d]
    BY <1>a, <2>2
  <2>6. call[c].pc \notin Over /\ call'[c].pc \notin {"address", "code"}
    BY <2>2, <2>3 DEF Over
  <2>7. UNCHANGED <<account, isPhantom, connect, block, mempool, log>>
    BY <1>5 DEF Filled, signer, chain
  <2> QED  BY <1>a, <2>4, <2>5, <2>6, <2>7, OneCall
<1>6. CASE Reverts(c)
  BY <1>6, ThrowStep DEF Reverts, Over
<1> QED  BY <1>1, <1>2, <1>3, <1>4, <1>5, <1>6 DEF CreateUserOperation

\* sendUserOp.
LEMMA SendStep ==
    ASSUME IInv, NEW c \in Call, Send(c)
    PROVE  IInv'
<1>0. CallOK(call[c], log) /\ DOMAIN call[c] = DOMAIN NewCall
  BY DEF IInv, CallsOK, CallOK
<1>a. DOMAIN call = Call /\ \A m \in mempool : Signed(m.op)
  BY DEF IInv, CallsOK, ChainOK
<1>1. CASE Submit(c)
  <2>1. CallOK(call'[c], log)
    BY <1>0, <1>a, <1>1 DEF Submit, CallOK, Own, Before, NewCall
  <2>2. \A m \in mempool' : Signed(m.op)
    BY <1>0, <1>a, <1>1 DEF Submit, Sent, CallOK
  <2> QED  BY <1>0, <1>a, <1>1, <2>1, <2>2, OneCall DEF Submit, signer, Over, NewCall
<1>2. CASE Answer(c)
  <2>1. CASE Throw(c)
    BY <1>2, <2>1, ThrowStep DEF Answer, Over
  <2>2. CASE call' = [call EXCEPT ![c].pc = "returned"]
    <3>1. CallOK(call'[c], log)
      BY <1>0, <1>a, <1>2, <2>2 DEF Answer, CallOK, Own, Before, NewCall
    <3> QED  BY <1>0, <1>a, <1>2, <2>2, <3>1, OneCall DEF Answer, signer, chain, Over, NewCall
  <2> QED  BY <1>2, <2>1, <2>2 DEF Answer
<1> QED  BY <1>1, <1>2 DEF Send

\* The listener.  Who waits for a receipt or for a reason was told of an event
\* of its own, and settles with what that event says.
LEMMA ListenerStepOK ==
    ASSUME IInv, NEW c \in Call, ListenerStep(c)
    PROVE  IInv'
<1>0. CallOK(call[c], log) /\ \A e \in log : e.block \in Nat
  BY DEF IInv, CallsOK, ChainOK
<1>a. UNCHANGED <<signer, local, chain>>
  BY DEF ListenerStep, GotBlockNumber, Poll, Hears, Deliver
<1> SUFFICES CallOK(call'[c], log) /\ call'[c].pc = call[c].pc
                /\ DOMAIN call' = Call /\ \A d \in Call \ {c} : call'[d] = call[d]
  BY <1>a, OneCall DEF signer, chain, IInv, ChainOK
<1> USE DEF IInv, CallsOK
<1>1. CASE GotBlockNumber(c)
  BY <1>0, <1>1 DEF GotBlockNumber, Registered, ChainOK, CallOK, Own, Before, NewCall
<1>2. CASE Poll(c)
  BY <1>0, <1>2, SignerConstants DEF Poll, Registered, Ignored, Invoke, CallOK, Own, Before, NewCall
<1>3. ASSUME NEW e \in log, Deliver(c, e) PROVE CallOK(call'[c], log) /\ call'[c].pc = call[c].pc
                /\ DOMAIN call' = Call /\ \A d \in Call \ {c} : call'[d] = call[d]
  BY <1>0, <1>3, SignerConstants DEF Deliver, Ignored, Invoke, CallOK, Own, Before, NewCall
<1>4. ASSUME NEW i \in call[c].heard, GotReceipt(c, i) \/ GotReason(c, i)
      PROVE  CallOK(call'[c], log) /\ call'[c].pc = call[c].pc
                /\ DOMAIN call' = Call /\ \A d \in Call \ {c} : call'[d] = call[d]
  <2>1. CASE GotReceipt(c, i)
    BY <1>0, <1>4, <2>1 DEF GotReceipt, Settle, CallOK, Own, Before, NewCall
  <2>2. CASE GotReason(c, i)
    <3>1. PICK result \in {"rejected", "resolved failed"} : Settle(c, result)
      BY <2>2 DEF GotReason
    <3>2. i.event \in log /\ Own(call[c], i.event) /\ ~i.event.success
      BY <1>0, <1>4, <2>2 DEF GotReason, CallOK
    <3>3. call[c].pc \notin Before /\ call[c].since # Null
      BY <1>0, <1>4 DEF CallOK
    <3>4. Own(call'[c], i.event) /\ call'[c].result = result
      BY <1>0, <3>1, <3>2 DEF Settle, Own, CallOK, NewCall
    <3>5. CallOK(call'[c], log)
      BY <1>0, <3>1, <3>2, <3>3, <3>4 DEF Settle, CallOK, NewCall, Before
    <3> QED  BY <1>0, <3>1, <3>5 DEF Settle, CallOK, NewCall
  <2> QED  BY <1>4, <2>1, <2>2
<1> QED  BY <1>1, <1>2, <1>3, <1>4 DEF ListenerStep, Hears

\* A call of sendTransaction begins, and takes the signer from the others.
LEMMA SendTransactionStep ==
    ASSUME IInv, NEW c \in Call, NEW tx \in Tx[c], SendTransaction(c, tx)
    PROVE  IInv'
<1>1. CallsOK'
  <2>1. CallOK(call'[c], log)
    BY DEF SendTransaction, SyncAccount, CheckPhantom, IInv, CallsOK, CallOK, Before, NewCall
  <2>2. ASSUME NEW d \in Call \ {c} PROVE CallOK(call'[d], log)
    <3>1. CallOK(call[d], log)
      BY DEF IInv, CallsOK
    <3>2. call'[d] = [call[d] EXCEPT !.alone = FALSE]
      BY DEF SendTransaction
    <3> QED  BY <3>1, <3>2 DEF CallOK, Own, Before, NewCall
  <2> QED  BY <2>1, <2>2 DEF SendTransaction, CallsOK, chain
<1>2. ChainOK'
  BY DEF SendTransaction, IInv, ChainOK, chain, Signed, HashOf, GetUserOpHash, Keccak, PackUserOp, SignMessage
<1>3. ConnectOK'
  <2>1. connect'.alone => connect.alone /\ connect.pc # "getCode"
    BY DEF SendTransaction, IInv, ConnectOK
  <2>2. connect'.pc = connect.pc /\ DOMAIN connect' = {"pc", "alone"}
    BY DEF SendTransaction, IInv, ConnectOK
  <2>3. ASSUME connect.alone, connect.pc = "done"
        PROVE  \A d \in Call : call'[d].pc \notin {"address", "code"}
    <3>1. account = Existing /\ ~isPhantom /\ account # Null
      BY <2>3, SignerConstants DEF IInv, ConnectOK
    <3>2. call'[c].pc = "synced"
      BY <3>1 DEF SendTransaction, SyncAccount, CheckPhantom, IInv, CallsOK, CallOK, NewCall
    <3>3. \A d \in Call \ {c} : call'[d].pc = call[d].pc
      BY DEF SendTransaction, IInv, CallsOK, CallOK, NewCall
    <3> QED  BY <2>3, <3>2, <3>3 DEF IInv, ConnectOK
  <2> QED  BY <2>1, <2>2, <2>3 DEF SendTransaction, IInv, ConnectOK
<1> QED  BY <1>1, <1>2, <1>3 DEF IInv

\* connectAccountAddress.
LEMMA ConnectStep ==
    ASSUME IInv, ConnectAccountAddress \/ Connected \/ ConnectThrows
    PROVE  IInv'
<1>1. CASE ConnectAccountAddress
  <2>1. ASSUME NEW d \in Call PROVE CallOK(call'[d], log) /\ call'[d].pc = call[d].pc
    <3>1. CallOK(call[d], log)
      BY DEF IInv, CallsOK
    <3>2. call'[d] = [call[d] EXCEPT !.alone = FALSE]
      BY <1>1 DEF ConnectAccountAddress
    <3> QED  BY <3>1, <3>2 DEF CallOK, Own, Before, NewCall
  <2>2. CallsOK'
    BY <1>1, <2>1 DEF ConnectAccountAddress, CallsOK, chain
  <2>3. ChainOK'
    BY <1>1 DEF ConnectAccountAddress, IInv, ChainOK, chain, Signed, HashOf, GetUserOpHash,
                Keccak, PackUserOp, SignMessage
  <2>4. ConnectOK'
    BY <1>1, <2>1 DEF ConnectAccountAddress, ConnectOK
  <2> QED  BY <2>2, <2>3, <2>4 DEF IInv
<1>2. CASE Connected \/ ConnectThrows
  <2>1. CallsOK' /\ ChainOK'
    BY <1>2 DEF Connected, ConnectThrows, IInv, CallsOK, ChainOK, chain, Signed, HashOf, GetUserOpHash,
                Keccak, PackUserOp, SignMessage
  <2>2. ConnectOK'
    BY <1>2 DEF Connected, ConnectThrows, IInv, ConnectOK, Over
  <2> QED  BY <2>1, <2>2 DEF IInv
<1> QED  BY <1>1, <1>2

\* The bundler only takes operations away, and adds events.
LEMMA DecidedStep ==
    ASSUME IInv, Decided
    PROVE  IInv'
<1>1. block \in Nat /\ \A e \in log : e.block \in Nat
  BY DEF IInv, ChainOK
<1>2. PICK m \in mempool : Execute(m) \/ Drop(m)
  BY DEF Decided
<1>3. UNCHANGED <<signer, call>> /\ log \subseteq log' /\ mempool' \subseteq mempool
  BY <1>2 DEF Execute, Drop
<1>4. block' \in Nat /\ \A e \in log' : e.block \in Nat
  BY <1>1, <1>2 DEF Execute, Drop
<1>5. CallsOK'
  BY <1>3, MoreEvents DEF IInv, CallsOK
<1>6. ChainOK'
  BY <1>3, <1>4 DEF IInv, ChainOK, Signed, HashOf, GetUserOpHash, Keccak, PackUserOp, SignMessage
<1>7. ConnectOK'
  BY <1>3 DEF IInv, ConnectOK, signer
<1> QED  BY <1>5, <1>6, <1>7 DEF IInv

LEMMA Preserved == IInv /\ [Next]_vars => IInv'
<1>1. ASSUME IInv, UNCHANGED vars PROVE IInv'
  <2>1. CallsOK' /\ ConnectOK'
    BY <1>1 DEF vars, signer, chain, IInv, CallsOK, ConnectOK
  <2>2. ChainOK'
    BY <1>1 DEF vars, chain, IInv, ChainOK, Signed, HashOf, GetUserOpHash, Keccak, PackUserOp, SignMessage
  <2> QED  BY <2>1, <2>2 DEF IInv
<1>2. ASSUME IInv, NEW c \in Call, CallStep(c) \/ NodeFails(c) \/ ListenerStep(c) PROVE IInv'
  BY <1>2, SyncStep, CreateStep, SendStep, ThrowStep, ListenerStepOK DEF CallStep, NodeFails
<1> QED  BY <1>1, <1>2, SendTransactionStep, ConnectStep, DecidedStep DEF Next

LEMMA Invariant == Spec => []IInv
BY Initially, Preserved, PTL DEF Spec

-----------------------------------------------------------------------------
\* Every operation that is sent has all its fields, and the owner's signature
\* is on all of them, however the calls interleave.
THEOREM AllSigned == Spec => []SignedAsSent
<1>1. IInv => SignedAsSent
  BY DEF IInv, ChainOK, Signed, SignedAsSent
<1> QED  BY <1>1, Invariant, PTL

\* A response never reports what did not happen: for any number of calls,
\* events and blocks, in any order.
THEOREM Truthful == Spec => []ReportsTruth
<1>1. IInv => ReportsTruth
  BY DEF IInv, CallsOK, CallOK, Own, ReportsTruth
<1> QED  BY <1>1, Invariant, PTL

\* An undisturbed connectAccountAddress is for good, whatever is sent later.
THEOREM ConnectedForGood == Spec => []StaysConnected
<1>1. IInv => StaysConnected
  BY DEF IInv, ConnectOK, StaysConnected
<1> QED  BY <1>1, Invariant, PTL

-----------------------------------------------------------------------------
(***************************************************************************)
(* A call that has the signer for itself.  Its steps find the signer as    *)
(* the step before left it, and nothing it sent is decided meanwhile.      *)
(***************************************************************************)
Creates(op) == op.initCode = InitCode /\ op.sender = Counterfactual

Exists(op) == op.sender \in Deployed /\ op.nonce = nonces[op.sender]

\* Between two of its steps, what call c knows is true, and only its own
\* operation is on its way.
Fits(c) ==
    /\ mempool \subseteq {Sent(c)}
    /\ mempool # {} => call[c].pc \in {"answer", "returned"}
    /\ call[c].pc = "code" => account # Null /\ call[c].asked = account
    /\ call[c].pc = "synced" => account # Null /\ (isPhantom => account = Counterfactual)
    /\ call[c].pc = "populate" => account # Null /\ (call[c].phantom => account = Counterfactual)
    /\ call[c].pc \in {"initCode", "nonce", "rest"} => DOMAIN call[c].op = Field
    /\ call[c].pc = "initCode" => Creates(call[c].op)
    /\ call[c].pc = "nonce" =>
          call[c].op.initCode = Null /\ call[c].op.nonce = Null /\ call[c].op.sender \in Address
    /\ call[c].pc = "rest" /\ call[c].tx.nonce = Null =>
          Creates(call[c].op) \/ (call[c].op.initCode = Null /\ Exists(call[c].op))
    /\ (call[c].pc = "send" \/ Sent(c) \in mempool) /\ call[c].tx.nonce = Null =>
          Creates(call[c].op) \/ Valid(call[c].op)

Solo(c) == connect.pc # "getCode" /\ \A d \in Call \ {c} : call[d].pc \in Over

SignerOK ==
    /\ account \in {Null, Counterfactual, Existing}
    /\ account = Existing => Existing \in Deployed
    /\ nonces \in [Address -> Nat]

AloneInv ==
    /\ SignerOK
    /\ \A c \in Call : call[c].alone => Solo(c) /\ Fits(c)

LEMMA AloneInitially == Init => AloneInv
BY SignerConstants DEF Init, AloneInv, SignerOK, NewCall, Address

\* A step of one call leaves what the others know: who is alone sees no step
\* but its own, and those of listeners.
LEMMA OneCallAlone ==
    ASSUME IInv, AloneInv, NEW c \in Call, UNCHANGED connect, SignerOK',
           DOMAIN call' = Call, \A d \in Call \ {c} : call'[d] = call[d],
           \/ call[c].pc \notin Over
           \/ call'[c].pc = call[c].pc /\ UNCHANGED <<account, isPhantom, nonces, mempool>>,
           call'[c].alone => call[c].alone,
           call[c].alone /\ call'[c].alone => Fits(c)'
    PROVE  AloneInv'
<1> SUFFICES ASSUME NEW d \in Call, call'[d].alone PROVE Solo(d)' /\ Fits(d)'
  BY DEF AloneInv
<1>1. CASE d = c
  BY <1>1 DEF AloneInv, Solo
<1>2. CASE d # c
  <2>1. call'[d] = call[d] /\ Solo(d) /\ Fits(d) /\ call[c].pc \in Over
    BY <1>2 DEF AloneInv, Solo
  <2>2. call'[c].pc = call[c].pc /\ UNCHANGED <<account, isPhantom, nonces, mempool>>
    BY <2>1
  <2>3. Solo(d)'
    BY <1>2, <2>1, <2>2 DEF Solo
  <2>4. Fits(d)'
    BY <2>1, <2>2 DEF Fits, Sent, Creates, Exists, Valid
  <2> QED  BY <2>3, <2>4
<1> QED  BY <1>1, <1>2

\* What filling in the rest and signing leave as it was.
LEMMA FilledKeeps ==
    ASSUME NEW op, DOMAIN op = Field, NEW f \in {"sender", "nonce", "initCode"}
    PROVE  SignUserOp(FillRest(op, 1, 1), Owner, EntryPoint, ChainId)[f]
             = Given(op[f], DefaultsForUserOp[f])
<1> DEFINE gas == FillCallGas(op, 1)
           fees == FillFees(gas, 1)
           filled == FillRest(op, 1, 1)
<1>1. DOMAIN gas = Field /\ gas[f] = op[f]
  BY DEF FillCallGas, Field
<1>2. DOMAIN fees = Field /\ fees[f] = gas[f]
  <2> HIDE DEF gas
  <2> QED  BY <1>1 DEF FillFees, Field
<1>3. filled = [g \in Field |-> Given(fees[g], DefaultsForUserOp[g])]
  BY DEF FillRest, FillUserOpDefaults
<1>4. f \in Field /\ f # "signature"
  BY DEF Field
<1> HIDE DEF gas, fees
<1>5. DOMAIN filled = Field /\ filled[f] = Given(op[f], DefaultsForUserOp[f])
  BY <1>1, <1>2, <1>3, <1>4
<1> HIDE DEF filled
<1>6. SignUserOp(filled, Owner, EntryPoint, ChainId)[f] = filled[f]
  BY <1>4, <1>5 DEF SignUserOp
<1> QED  BY <1>5, <1>6 DEF filled

LEMMA SyncAlone ==
    ASSUME IInv, AloneInv, NEW c \in Call, Sync(c)
    PROVE  AloneInv'
<1>1. DOMAIN call = Call /\ DOMAIN call[c] = DOMAIN NewCall
  BY DEF IInv, CallsOK, CallOK
<1>2. SignerOK /\ (call[c].alone => Fits(c))
  BY DEF AloneInv
<1>3. CASE GotDeploymentAddress(c)
  <2> DEFINE r == CheckPhantom(call[c], Counterfactual)
  <2>1. /\ call[c].pc = "address" /\ account' = Counterfactual
        /\ call' = [call EXCEPT ![c] = r]
        /\ UNCHANGED <<isPhantom, connect, nonces, mempool>>
    BY <1>3 DEF GotDeploymentAddress, chain
  <2>2. /\ r.alone = call[c].alone /\ r.op = call[c].op
        /\ \/ isPhantom /\ r.pc = "code" /\ r.asked = Counterfactual
           \/ ~isPhantom /\ r.pc = "synced"
    BY <1>1 DEF CheckPhantom, NewCall
  <2> HIDE DEF r
  <2>3. call'[c] = r /\ DOMAIN call' = Call /\ \A d \in Call \ {c} : call'[d] = call[d]
    BY <1>1, <2>1
  <2>4. SignerOK'
    BY <1>2, <2>1, SignerConstants DEF SignerOK
  <2>5. ASSUME call[c].alone PROVE Fits(c)'
    <3>1. mempool = {}
      BY <1>2, <2>1, <2>5 DEF Fits
    <3> QED  BY <2>1, <2>2, <2>3, <3>1, SignerConstants DEF Fits
  <2>6. call[c].pc \notin Over
    BY <2>1 DEF Over
  <2> QED  BY <2>1, <2>2, <2>3, <2>4, <2>5, <2>6, OneCallAlone
<1>4. CASE GotCode(c)
  <2>1. /\ call[c].pc = "code" /\ isPhantom' = (call[c].asked \notin Deployed)
        /\ call' = [call EXCEPT ![c].asked = Null, ![c].pc = "synced"]
        /\ UNCHANGED <<account, connect, nonces, mempool>>
    BY <1>4 DEF GotCode, chain
  <2>2. /\ DOMAIN call' = Call /\ \A d \in Call \ {c} : call'[d] = call[d]
        /\ call'[c].pc = "synced" /\ call'[c].alone = call[c].alone
    BY <1>1, <2>1 DEF NewCall
  <2>3. SignerOK'
    BY <1>2, <2>1 DEF SignerOK
  <2>4. ASSUME call[c].alone PROVE Fits(c)'
    <3>1. mempool = {} /\ account # Null /\ call[c].asked = account
      BY <1>2, <2>1, <2>4 DEF Fits
    <3>2. isPhantom' => account = Counterfactual
      BY <1>2, <2>1, <3>1 DEF SignerOK
    <3> QED  BY <2>1, <2>2, <3>1, <3>2 DEF Fits
  <2>5. call[c].pc \notin Over
    BY <2>1 DEF Over
  <2> QED  BY <2>1, <2>2, <2>3, <2>4, <2>5, OneCallAlone
<1> QED  BY <1>3, <1>4 DEF Sync

\* Who throws is not alone any more.
LEMMA ThrowAlone ==
    ASSUME IInv, AloneInv, NEW c \in Call, call[c].pc \notin Over, Throw(c),
           UNCHANGED <<signer, local, chain>>
    PROVE  AloneInv'
<1>1. DOMAIN call = Call
  BY DEF IInv, CallsOK
<1>2. /\ DOMAIN call' = Call /\ \A d \in Call \ {c} : call'[d] = call[d]
      /\ ~call'[c].alone
  BY <1>1 DEF Throw, NewCall
<1>3. SignerOK' /\ UNCHANGED connect
  BY DEF AloneInv, SignerOK, signer, chain
<1> QED  BY <1>2, <1>3, OneCallAlone

\* _createUserOperation.
LEMMA CreateAlone ==
    ASSUME IInv, AloneInv, NEW c \in Call, CreateUserOperation(c)
    PROVE  AloneInv'
<1>1. DOMAIN call = Call /\ DOMAIN call[c] = DOMAIN NewCall
  BY DEF IInv, CallsOK, CallOK
<1>2. SignerOK /\ (call[c].alone => Fits(c))
  BY DEF AloneInv
<1>3. UNCHANGED <<signer, local, chain>>
  BY DEF CreateUserOperation, Decide, Populated, EstimatedInitCode, GotNonce, Filled, Reverts
<1>4. SignerOK' /\ UNCHANGED <<account, isPhantom, connect, nonces, mempool>>
  BY <1>2, <1>3 DEF SignerOK, signer, chain
<1>5. ASSUME NEW r, call' = [call EXCEPT ![c] = r], call[c].pc \notin Over,
             r.alone = call[c].alone, call[c].alone => Fits(c)'
      PROVE  AloneInv'
  <2>1. call'[c] = r /\ DOMAIN call' = Call /\ \A d \in Call \ {c} : call'[d] = call[d]
    BY <1>1, <1>5
  <2> QED  BY <1>4, <1>5, <2>1, OneCallAlone
<1>6. CASE Decide(c)
  <2> DEFINE r == [call[c] EXCEPT !.phantom = isPhantom, !.pc = "populate"]
  <2>1. call[c].pc = "synced" /\ call' = [call EXCEPT ![c] = r]
    BY <1>6 DEF Decide
  <2>2. r.alone = call[c].alone /\ r.phantom = isPhantom /\ r.pc = "populate"
    BY <1>1 DEF NewCall
  <2> HIDE DEF r
  <2>3. ASSUME call[c].alone PROVE Fits(c)'
    <3>1. mempool = {} /\ account # Null /\ (isPhantom => account = Counterfactual)
      BY <1>2, <2>1, <2>3 DEF Fits
    <3>2. call'[c] = r
      BY <1>1, <2>1
    <3> QED  BY <1>4, <2>2, <3>1, <3>2 DEF Fits
  <2> QED  BY <1>5, <2>1, <2>2, <2>3 DEF Over
<1>7. CASE Populated(c)
  <2> DEFINE op == Partial(call[c].tx, call[c].phantom, account)
             pc == IF op.initCode # Null THEN "initCode"
                   ELSE IF op.nonce = Null THEN "nonce" ELSE "rest"
             r == [call[c] EXCEPT !.op = op, !.phantom = FALSE, !.pc = pc]
  <2>1. call[c].pc = "populate" /\ call' = [call EXCEPT ![c] = r]
    BY <1>7 DEF Populated
  <2>2. /\ DOMAIN op = Field /\ op.sender = account
        /\ op.initCode = IF call[c].phantom THEN InitCode ELSE Null
        /\ op.nonce = IF call[c].phantom THEN Index ELSE call[c].tx.nonce
    BY DEF Partial, Field
  <2> HIDE DEF op
  <2>3. /\ pc = "initCode" => op.initCode # Null
        /\ pc = "nonce" => op.initCode = Null /\ op.nonce = Null
        /\ pc = "rest" => op.initCode = Null /\ op.nonce # Null
        /\ pc \in {"initCode", "nonce", "rest"}
    OBVIOUS
  <2> HIDE DEF pc
  <2>4. r.alone = call[c].alone /\ r.op = op /\ r.pc = pc /\ r.tx = call[c].tx
    BY <1>1 DEF NewCall
  <2> HIDE DEF r
  <2>5. ASSUME call[c].alone PROVE Fits(c)'
    <3>1. mempool = {} /\ account # Null /\ (call[c].phantom => account = Counterfactual)
      BY <1>2, <2>1, <2>5 DEF Fits
    <3>2. call'[c] = r
      BY <1>1, <2>1
    <3>3. pc = "initCode" => Creates(op)
      BY <2>2, <2>3, <3>1 DEF Creates
    <3>4. pc = "nonce" => op.sender \in Address
      BY <1>2, <2>2, <3>1 DEF SignerOK, Address
    <3>5. pc = "rest" => call[c].tx.nonce # Null
      BY <2>2, <2>3, SignerConstants
    <3> QED  BY <1>4, <2>2, <2>3, <2>4, <3>1, <3>2, <3>3, <3>4, <3>5 DEF Fits
  <2> QED  BY <1>5, <2>1, <2>4, <2>5 DEF Over
<1>8. CASE EstimatedInitCode(c)
  <2> DEFINE op == FillInitCode(call[c].op, Counterfactual, 0)
             r == [call[c] EXCEPT !.op = op, !.pc = "rest"]
  <2>1. call[c].pc = "initCode" /\ call' = [call EXCEPT ![c] = r]
    BY <1>8 DEF EstimatedInitCode
  <2>2. r.alone = call[c].alone /\ r.op = op /\ r.pc = "rest"
    BY <1>1 DEF NewCall
  <2>3. call'[c] = r
    BY <1>1, <2>1
  <2>4. ASSUME call[c].alone PROVE Fits(c)'
    <3>1. mempool = {} /\ DOMAIN call[c].op = Field /\ Creates(call[c].op)
      BY <1>2, <2>1, <2>4 DEF Fits
    <3>2. DOMAIN op = Field /\ op.initCode = InitCode /\ op.sender = Counterfactual
      BY <3>1, SignerConstants DEF FillInitCode, Given, Creates, Field
    <3> HIDE DEF op, r
    <3> QED  BY <1>4, <2>2, <2>3, <3>1, <3>2 DEF Fits, Creates
  <2> HIDE DEF r
  <2> QED  BY <1>5, <2>1, <2>2, <2>4 DEF Over
<1>9. CASE GotNonce(c)
  <2> DEFINE op == FillNonce(call[c].op, nonces[call[c].op.sender])
             r == [call[c] EXCEPT !.op = op, !.pc = "rest"]
  <2>1. /\ call[c].pc = "nonce" /\ call' = [call EXCEPT ![c] = r]
        /\ call[c].op.sender \in Deployed
    BY <1>9 DEF GotNonce
  <2>2. r.alone = call[c].alone /\ r.op = op /\ r.pc = "rest"
    BY <1>1 DEF NewCall
  <2>3. call'[c] = r
    BY <1>1, <2>1
  <2>4. ASSUME call[c].alone PROVE Fits(c)'
    <3>1. /\ mempool = {} /\ DOMAIN call[c].op = Field
          /\ call[c].op.initCode = Null /\ call[c].op.nonce = Null
      BY <1>2, <2>1, <2>4 DEF Fits
    <3>2. /\ DOMAIN op = Field /\ op.initCode = Null /\ op.sender = call[c].op.sender
          /\ op.nonce = nonces[call[c].op.sender]
      BY <3>1 DEF FillNonce, Given, Field
    <3> HIDE DEF op, r
    <3> QED  BY <1>4, <2>1, <2>2, <2>3, <3>1, <3>2 DEF Fits, Exists
  <2> HIDE DEF r
  <2> QED  BY <1>5, <2>1, <2>2, <2>4 DEF Over
<1>10. CASE Filled(c)
  <2> DEFINE old == call[c].op
             op == SignUserOp(FillRest(old, 1, 1), Owner, EntryPoint, ChainId)
             r == [call[c] EXCEPT !.op = op, !.listening = TRUE, !.pc = "send"]
  <2>1. call[c].pc = "rest" /\ call' = [call EXCEPT ![c] = r]
    BY <1>10 DEF Filled
  <2> HIDE DEF op
  <2>2. r.alone = call[c].alone /\ r.op = op /\ r.pc = "send" /\ r.tx = call[c].tx
    BY <1>1 DEF NewCall
  <2>3. call'[c] = r
    BY <1>1, <2>1
  <2> HIDE DEF r
  <2>4. ASSUME call[c].alone PROVE Fits(c)'
    <3>1. /\ mempool = {} /\ DOMAIN old = Field
          /\ call[c].tx.nonce = Null => Creates(old) \/ (old.initCode = Null /\ Exists(old))
      BY <1>2, <2>1, <2>4 DEF Fits
    <3>2. /\ op.sender = Given(old.sender, AddressZero)
          /\ op.nonce = Given(old.nonce, 0)
          /\ op.initCode = Given(old.initCode, NoBytes)
      <4> HIDE DEF old
      <4>1. \A f \in {"sender", "nonce", "initCode"} : op[f] = Given(old[f], DefaultsForUserOp[f])
        BY <3>1, FilledKeeps DEF op
      <4> QED  BY <4>1 DEF DefaultsForUserOp
    <3> HIDE DEF old
    <3>3. ASSUME Creates(old) PROVE Creates(op)
      BY <3>2, <3>3, SignerConstants DEF Creates, Given
    <3>4. ASSUME old.initCode = Null, Exists(old) PROVE Valid(op)
      <4>1. old.sender = Existing /\ old.nonce = nonces[Existing] /\ Existing \in Address
        BY <3>4, SignerConstants DEF Exists, Address
      <4>2. nonces[Existing] \in Nat
        BY <1>2, <4>1 DEF SignerOK
      <4>3. old.sender # Null /\ old.nonce # Null
        BY <4>1, <4>2, SignerConstants
      <4> QED  BY <3>2, <3>4, <4>3 DEF Valid, Exists, Given
    <3>5. call[c].tx.nonce = Null => Creates(op) \/ Valid(op)
      BY <3>1, <3>3, <3>4
    <3> QED  BY <1>4, <2>2, <2>3, <3>1, <3>5 DEF Fits, Creates, Valid
  <2> QED  BY <1>5, <2>1, <2>2, <2>4 DEF Over
<1>11. CASE Reverts(c)
  BY <1>11, ThrowAlone DEF Reverts, Over
<1> QED  BY <1>6, <1>7, <1>8, <1>9, <1>10, <1>11 DEF CreateUserOperation

\* sendUserOp.  What is on its way is then the call's own operation.
LEMMA SendAlone ==
    ASSUME IInv, AloneInv, NEW c \in Call, Send(c)
    PROVE  AloneInv'
<1>1. DOMAIN call = Call /\ DOMAIN call[c] = DOMAIN NewCall
  BY DEF IInv, CallsOK, CallOK
<1>2. SignerOK /\ (call[c].alone => Fits(c))
  BY DEF AloneInv
<1>3. CASE Submit(c)
  <2>1. /\ call[c].pc = "send" /\ call' = [call EXCEPT ![c].pc = "answer"]
        /\ mempool' = mempool \cup {Sent(c)}
        /\ UNCHANGED <<account, isPhantom, connect, nonces>>
    BY <1>3 DEF Submit, signer
  <2>2. /\ DOMAIN call' = Call /\ \A d \in Call \ {c} : call'[d] = call[d]
        /\ call'[c].pc = "answer" /\ call'[c].alone = call[c].alone
        /\ call'[c].op = call[c].op /\ call'[c].tx = call[c].tx
    BY <1>1, <2>1 DEF NewCall
  <2>3. SignerOK'
    BY <1>2, <2>1 DEF SignerOK
  <2>4. ASSUME call[c].alone PROVE Fits(c)'
    <3>1. /\ mempool = {}
          /\ call[c].tx.nonce = Null => Creates(call[c].op) \/ Valid(call[c].op)
      BY <1>2, <2>1, <2>4 DEF Fits
    <3>2. mempool' = {Sent(c)} /\ Sent(c)' = Sent(c)
      BY <2>1, <2>2, <3>1 DEF Sent
    <3> QED  BY <2>1, <2>2, <3>1, <3>2 DEF Fits, Creates, Valid
  <2>5. call[c].pc \notin Over
    BY <2>1 DEF Over
  <2> QED  BY <2>1, <2>2, <2>3, <2>4, <2>5, OneCallAlone
<1>4. CASE Answer(c)
  <2>1. CASE Throw(c)
    BY <1>4, <2>1, ThrowAlone DEF Answer, Over
  <2>2. CASE call' = [call EXCEPT ![c].pc = "returned"]
    <3>1. /\ call[c].pc = "answer"
          /\ UNCHANGED <<account, isPhantom, connect, nonces, mempool>>
      BY <1>4 DEF Answer, signer, chain
    <3>2. /\ DOMAIN call' = Call /\ \A d \in Call \ {c} : call'[d] = call[d]
          /\ call'[c].pc = "returned" /\ call'[c].alone = call[c].alone
          /\ call'[c].op = call[c].op /\ call'[c].tx = call[c].tx
      BY <1>1, <2>2 DEF NewCall
    <3>3. SignerOK' /\ call[c].pc \notin Over
      BY <1>2, <3>1 DEF SignerOK, Over
    <3>4. ASSUME call[c].alone PROVE Fits(c)'
      BY <1>2, <3>1, <3>2, <3>4 DEF Fits, Sent, Creates, Valid
    <3> QED  BY <3>1, <3>2, <3>3, <3>4, OneCallAlone
  <2> QED  BY <1>4, <2>1, <2>2 DEF Answer
<1> QED  BY <1>3, <1>4 DEF Send

\* A listener changes nothing of what its call, or any other, knows.
LEMMA ListenerAlone ==
    ASSUME IInv, AloneInv, NEW c \in Call, ListenerStep(c)
    PROVE  AloneInv'
<1> DEFINE Kept == /\ DOMAIN call' = Call /\ \A d \in Call \ {c} : call'[d] = call[d]
                   /\ call'[c].pc = call[c].pc /\ call'[c].alone = call[c].alone
                   /\ call'[c].op = call[c].op /\ call'[c].tx = call[c].tx
                   /\ call'[c].asked = call[c].asked /\ call'[c].phantom = call[c].phantom
<1>1. DOMAIN call = Call /\ DOMAIN call[c] = DOMAIN NewCall
  BY DEF IInv, CallsOK, CallOK
<1>2. UNCHANGED <<account, isPhantom, connect, nonces, mempool>>
  BY DEF ListenerStep, GotBlockNumber, Poll, Hears, Deliver, signer, chain
<1>3. Kept
  <2>1. CASE GotBlockNumber(c)
    BY <1>1, <2>1 DEF GotBlockNumber, NewCall
  <2>2. CASE Poll(c)
    BY <1>1, <2>2 DEF Poll, NewCall
  <2>3. ASSUME NEW e \in log, Deliver(c, e) PROVE Kept
    BY <1>1, <2>3 DEF Deliver, NewCall
  <2>4. ASSUME NEW result, Settle(c, result) PROVE Kept
    BY <1>1, <2>4 DEF Settle, NewCall
  <2>5. ASSUME NEW i \in call[c].heard, GotReceipt(c, i) PROVE Kept
    <3>1. CASE i.event.success
      BY <2>4, <2>5, <3>1 DEF GotReceipt
    <3>2. CASE ~i.event.success
      BY <1>1, <2>5, <3>2 DEF GotReceipt, NewCall
    <3> QED  BY <3>1, <3>2
  <2>6. ASSUME NEW i \in call[c].heard, GotReason(c, i) PROVE Kept
    BY <2>4, <2>6 DEF GotReason
  <2> HIDE DEF Kept
  <2> QED  BY <2>1, <2>2, <2>3, <2>5, <2>6 DEF ListenerStep, Hears
<1>4. SignerOK'
  BY <1>2 DEF AloneInv, SignerOK
<1>5. call[c].alone => Fits(c)'
  BY <1>2, <1>3 DEF AloneInv, Fits, Sent, Creates, Exists, Valid
<1> QED  BY <1>2, <1>3, <1>4, <1>5, OneCallAlone

\* A call that begins is alone when all is quiet, and nobody else is then.
LEMMA SendTransactionAlone ==
    ASSUME IInv, AloneInv, NEW c \in Call, NEW tx \in Tx[c], SendTransaction(c, tx)
    PROVE  AloneInv'
<1> DEFINE r == SyncAccount([NewCall EXCEPT !.tx = tx, !.alone = Quiet])
<1>1. DOMAIN call = Call /\ \A d \in Call : DOMAIN call[d] = DOMAIN NewCall
  BY DEF IInv, CallsOK, CallOK
<1>2. /\ call'[c] = r
      /\ \A d \in Call \ {c} : call'[d] = [call[d] EXCEPT !.alone = FALSE]
      /\ UNCHANGED <<account, isPhantom, nonces, mempool>>
  BY DEF SendTransaction, chain
<1>3. connect'.pc = connect.pc
  BY DEF SendTransaction, IInv, ConnectOK
<1>4. SignerOK'
  BY <1>2 DEF AloneInv, SignerOK
<1>5. /\ r.alone = Quiet
      /\ \/ account = Null /\ r.pc = "address"
         \/ account # Null /\ isPhantom /\ r.pc = "code" /\ r.asked = account
         \/ account # Null /\ ~isPhantom /\ r.pc = "synced"
  BY DEF SyncAccount, CheckPhantom, NewCall
<1> HIDE DEF r
<1>6. ASSUME NEW d \in Call, call'[d].alone PROVE d = c
  BY <1>1, <1>2, <1>6, ZenonT(30) DEF NewCall
<1>7. ASSUME Quiet PROVE Solo(c)' /\ Fits(c)'
  <2>1. mempool = {} /\ connect.pc # "getCode" /\ \A d \in Call : call[d].pc \in Over
    BY <1>7 DEF Quiet
  <2>2. Solo(c)'
    BY <1>1, <1>2, <1>3, <2>1 DEF Solo, NewCall
  <2>3. Fits(c)'
    BY <1>2, <1>5, <2>1 DEF Fits
  <2> QED  BY <2>2, <2>3
<1> QED  BY <1>2, <1>4, <1>5, <1>6, <1>7 DEF AloneInv

\* While an account is connected, nobody is alone.
LEMMA ConnectAlone ==
    ASSUME IInv, AloneInv, ConnectAccountAddress \/ Connected \/ ConnectThrows
    PROVE  AloneInv'
<1>1. \A d \in Call : DOMAIN call[d] = DOMAIN NewCall
  BY DEF IInv, CallsOK, CallOK
<1>2. SignerOK'
  BY SignerConstants DEF ConnectAccountAddress, Connected, ConnectThrows, AloneInv, SignerOK, chain
<1>3. \A d \in Call : ~call'[d].alone
  <2>1. CASE ConnectAccountAddress
    BY <1>1, <2>1 DEF ConnectAccountAddress, NewCall
  <2>2. CASE connect.pc = "getCode" /\ UNCHANGED call
    BY <2>2 DEF AloneInv, Solo
  <2> QED  BY <2>1, <2>2 DEF Connected, ConnectThrows
<1> QED  BY <1>2, <1>3 DEF AloneInv

\* What is decided while a call is alone is its own operation: nothing is on
\* its way any more.
LEMMA DecidedAlone ==
    ASSUME IInv, AloneInv, Decided
    PROVE  AloneInv'
<1>1. PICK m \in mempool : Execute(m) \/ Drop(m)
  BY DEF Decided
<1>2. UNCHANGED <<account, isPhantom, connect, call>> /\ mempool' = mempool \ {m}
  BY <1>1 DEF Execute, Drop, signer
<1>3. SignerOK'
  <2>1. nonces' \in [Address -> Nat]
    BY <1>1 DEF Execute, Drop, AloneInv, SignerOK
  <2> QED  BY <1>2, <2>1 DEF AloneInv, SignerOK
<1>4. ASSUME NEW c \in Call, call'[c].alone PROVE Solo(c)' /\ Fits(c)'
  <2>1. Solo(c) /\ Fits(c)
    BY <1>2, <1>4 DEF AloneInv
  <2>2. mempool = {Sent(c)} /\ call[c].pc \in {"answer", "returned"}
    BY <1>1, <2>1 DEF Fits
  <2>3. mempool' = {}
    BY <1>1, <1>2, <2>2
  <2> QED  BY <1>2, <2>1, <2>2, <2>3 DEF Solo, Fits
<1> QED  BY <1>3, <1>4 DEF AloneInv

\* One step of Next at a time.
LEMMA AlonePreserved == IInv /\ AloneInv /\ [Next]_vars => AloneInv'
<1> SUFFICES ASSUME IInv, AloneInv, [Next]_vars PROVE AloneInv'
  OBVIOUS
<1>1. CASE UNCHANGED vars
  BY <1>1 DEF vars, signer, chain, AloneInv, SignerOK, Solo, Fits, Sent, Creates, Exists, Valid
<1>2. ASSUME NEW c \in Call, CallStep(c) \/ NodeFails(c) \/ ListenerStep(c) PROVE AloneInv'
  BY <1>2, SyncAlone, CreateAlone, SendAlone, ThrowAlone, ListenerAlone DEF CallStep, NodeFails
<1> QED  BY <1>1, <1>2, SendTransactionAlone, ConnectAlone, DecidedAlone DEF Next

\* A call that has the signer for itself, and leaves the nonce to it, sends an
\* operation that the EntryPoint can execute, or one that creates the account
\* it is for (lines 379-407): whatever other calls did to the signer before,
\* and whatever comes of connections that fail.
THEOREM AloneValid == Spec => []AloneIsValid
<1>1. Init => IInv /\ AloneInv
  BY Initially, AloneInitially
<1>2. IInv /\ AloneInv /\ [Next]_vars => IInv' /\ AloneInv'
  BY Preserved, AlonePreserved
<1>3. AloneInv => AloneIsValid
  BY DEF AloneInv, AloneIsValid, Fits, Creates
<1> QED  BY <1>1, <1>2, <1>3, PTL DEF Spec

-----------------------------------------------------------------------------
(***************************************************************************)
(* The queues.  The inductive invariant: at most one push is in progress,  *)
(* and exactly while `sending' is set; and no request in a queue is newer  *)
(* than the last one that its account made, so that the next one comes     *)
(* after it.                                                               *)
(***************************************************************************)
Alone ==
    /\ \A p, r \in pushes : p = r
    /\ sending <=> pushes # {}

Old == \A q \in Queue, a \in Account : \A i \in DOMAIN Trace(q, a) : Trace(q, a)[i] <= made[a]

QueueIInv == TypeOK /\ Alone /\ Old /\ InOrderOnce

-----------------------------------------------------------------------------
\* Shifting a request out of a queue leaves the trace as it was.
LEMMA ShiftKeepsTrace ==
    ASSUME NEW S, NEW h \in Seq(S), NEW s \in Seq(S), s # <<>>
    PROVE  /\ Shift(s).op \in S
           /\ Shift(s).rest \in Seq(S)
           /\ Append(h, Shift(s).op) \in Seq(S)
           /\ Append(h, Shift(s).op) \o Shift(s).rest = h \o s
<1>1. Head(s) \in S /\ Tail(s) \in Seq(S)
  BY HeadTailProperties
<1>2. Append(h, Head(s)) \in Seq(S)
  BY <1>1, AppendProperties
<1>3. Append(h, Head(s)) = h \o <<Head(s)>>
  BY <1>1, AppendIsConcat
<1>4. <<Head(s)>> \in Seq(S)
  BY <1>1
<1>5. <<Head(s)>> \o Tail(s) = s
  BY <1>1
<1>6. (h \o <<Head(s)>>) \o Tail(s) = h \o (<<Head(s)>> \o Tail(s))
  BY <1>1, <1>4, ConcatAssociative
<1> QED  BY <1>1, <1>2, <1>3, <1>5, <1>6 DEF Shift

\* A request appended to a queue stands at the end of the trace.
LEMMA AppendToTrace ==
    ASSUME NEW S, NEW h \in Seq(S), NEW s \in Seq(S), NEW n \in S
    PROVE  h \o Append(s, n) = Append(h \o s, n)
<1>1. Append(s, n) = s \o <<n>> /\ <<n>> \in Seq(S) /\ h \o s \in Seq(S)
  BY AppendIsConcat, ConcatProperties
<1>2. Append(h \o s, n) = (h \o s) \o <<n>>
  BY <1>1, AppendIsConcat
<1> QED  BY <1>1, <1>2, ConcatAssociative

\* A trace is a sequence of request numbers.
LEMMA TraceType ==
    ASSUME TypeOK, NEW q \in Queue, NEW a \in Account
    PROVE  Trace(q, a) \in Seq(1 .. MaxRequests)
BY ConcatProperties DEF TypeOK, Trace

-----------------------------------------------------------------------------
\* In the beginning nothing was requested.
LEMMA InitOK == QueueInit => QueueIInv
<1> SUFFICES ASSUME QueueInit PROVE QueueIInv
  OBVIOUS
<1>1. TypeOK
  <2>1. /\ made \in [Account -> 0 .. MaxRequests]
        /\ idle \in [Queue -> 0 .. IDLE_TIME]
    BY QueueConstants DEF QueueInit
  <2>2. <<>> \in Seq(1 .. MaxRequests)
    OBVIOUS
  <2> QED  BY <2>1, <2>2 DEF QueueInit, TypeOK
<1>2. Alone
  BY DEF QueueInit, Alone
<1>3. ASSUME NEW q \in Queue, NEW a \in Account PROVE Trace(q, a) = <<>>
  BY DEF QueueInit, Trace
<1>4. Old /\ InOrderOnce
  BY <1>3 DEF Old, InOrderOnce
<1> QED  BY <1>1, <1>2, <1>4 DEF QueueIInv

\* The queues and what left them, if none of that changes.
LEMMA TracesKept ==
    ASSUME QueueIInv, UNCHANGED <<made, queue, handed>>
    PROVE  Old' /\ InOrderOnce'
<1>1. ASSUME NEW q \in Queue, NEW a \in Account PROVE Trace(q, a)' = Trace(q, a)
  BY DEF Trace
<1> QED  BY <1>1 DEF QueueIInv, Old, InOrderOnce

LEMMA SendUserOpOK ==
    ASSUME QueueIInv, NEW q \in Queue, NEW a \in Account, SendUserOp(q, a)
    PROVE  QueueIInv'
<1>1. made[a] + 1 \in 1 .. MaxRequests /\ made[a] \in Nat
  BY QueueConstants DEF QueueIInv, TypeOK, SendUserOp
<1>2. made' \in [Account -> 0 .. MaxRequests]
  BY <1>1 DEF QueueIInv, TypeOK, SendUserOp
<1>3. queue' \in [Queue -> [Account -> Seq(1 .. MaxRequests)]]
  BY <1>1, AppendProperties DEF QueueIInv, TypeOK, SendUserOp
<1>4. queueSize' \in [Queue -> Int \cup {NaN}]
  BY DEF QueueIInv, TypeOK, SendUserOp, Plus
<1>5. TypeOK'
  BY <1>2, <1>3, <1>4, QueueConstants DEF QueueIInv, TypeOK, SendUserOp
<1>6. Alone'
  BY DEF QueueIInv, Alone, SendUserOp
<1>7. Trace(q, a)' = Append(Trace(q, a), made[a] + 1)
  <2>1. queue'[q][a] = Append(queue[q][a], made[a] + 1) /\ handed' = handed
    BY DEF QueueIInv, TypeOK, SendUserOp
  <2>2. queue[q][a] \in Seq(1 .. MaxRequests) /\ handed[q][a] \in Seq(1 .. MaxRequests)
    BY DEF QueueIInv, TypeOK
  <2>3. handed[q][a] \o Append(queue[q][a], made[a] + 1)
            = Append(handed[q][a] \o queue[q][a], made[a] + 1)
    <3> DEFINE S == 1 .. MaxRequests
               h == handed[q][a]
               s == queue[q][a]
               n == made[a] + 1
    <3>1. h \in Seq(S) /\ s \in Seq(S) /\ n \in S
      BY <1>1, <2>2
    <3> HIDE DEF S, h, s, n
    <3>2. h \o Append(s, n) = Append(h \o s, n)
      BY <3>1, AppendToTrace
    <3> QED  BY <3>2 DEF h, s, n
  <2> QED  BY <2>1, <2>3 DEF Trace
<1>8. ASSUME NEW r \in Queue, NEW b \in Account, r # q \/ b # a
      PROVE  Trace(r, b)' = Trace(r, b)
  <2>1. queue'[r][b] = queue[r][b] /\ handed' = handed
    BY <1>8 DEF QueueIInv, TypeOK, SendUserOp
  <2> QED  BY <2>1 DEF Trace
<1>9. made'[a] = made[a] + 1 /\ \A b \in Account : made[b] <= made'[b]
  BY <1>1 DEF QueueIInv, TypeOK, SendUserOp
<1>10. ASSUME NEW r \in Queue, NEW b \in Account, NEW j \in DOMAIN Trace(r, b)'
       PROVE  /\ Trace(r, b)'[j] <= made'[b]
              /\ \A i \in 1 .. j - 1 : Trace(r, b)'[i] < Trace(r, b)'[j]
  <2> DEFINE t == Trace(r, b)
  <2>1. t \in Seq(1 .. MaxRequests) /\ made[b] \in Int /\ made'[b] \in Int
    <3>1. Trace(r, b) \in Seq(1 .. MaxRequests)
      BY TraceType DEF QueueIInv
    <3>2. made \in [Account -> 0 .. MaxRequests] /\ made' \in [Account -> 0 .. MaxRequests]
      BY <1>2 DEF QueueIInv, TypeOK
    <3>3. made[b] \in 0 .. MaxRequests /\ made'[b] \in 0 .. MaxRequests
      BY <3>2
    <3> QED  BY <3>1, <3>3
  <2>0. DOMAIN t = 1 .. Len(t) /\ \A k \in 1 .. Len(t) : t[k] \in Int
    <3> HIDE DEF t
    <3>1. DOMAIN t = 1 .. Len(t)
      BY <2>1, LenProperties
    <3>2. \A k \in 1 .. Len(t) : t[k] \in 1 .. MaxRequests
      BY <2>1, ElementOfSeq
    <3> QED  BY <3>1, <3>2
  <2>2. /\ \A k \in 1 .. Len(t) : t[k] \in Int /\ t[k] <= made[b]
        /\ \A k \in 1 .. Len(t) : \A i \in 1 .. k - 1 : t[i] < t[k]
    <3>1. /\ \A k \in DOMAIN t : t[k] <= made[b]
          /\ \A k \in DOMAIN t : \A i \in 1 .. k - 1 : t[i] < t[k]
      BY DEF QueueIInv, Old, InOrderOnce
    <3> QED  BY <3>1, <2>0
  <2>3. CASE r # q \/ b # a
    <3>1. Trace(r, b)' = t
      BY <2>3, <1>8
    <3>2. j \in 1 .. Len(t)
      BY <3>1, <2>0
    <3> QED  BY <3>1, <3>2, <2>1, <2>2, <1>9
  <2>4. CASE r = q /\ b = a
    <3>1. Trace(r, b)' = Append(t, made[a] + 1)
      BY <2>4, <1>7
    <3>2. /\ Len(Append(t, made[a] + 1)) = Len(t) + 1
          /\ \A i \in 1 .. Len(t) : Append(t, made[a] + 1)[i] = t[i]
          /\ Append(t, made[a] + 1)[Len(t) + 1] = made[a] + 1
      BY <1>1, <2>1, AppendProperties
    <3>3. j \in 1 .. Len(t) + 1 /\ Len(t) \in Nat
      BY <3>1, <3>2, <2>1, <1>1, <1>10, AppendProperties, LenProperties
    <3> HIDE DEF t
    <3>4. CASE j = Len(t) + 1
      BY <3>1, <3>2, <3>4, <2>2, <2>4, <1>1, <1>9, <3>3
    <3>5. CASE j \in 1 .. Len(t)
      BY <3>1, <3>2, <3>5, <2>1, <2>2, <2>4, <1>9, <3>3
    <3> QED  BY <3>3, <3>4, <3>5
  <2> QED  BY <2>3, <2>4
<1>11. Old' /\ InOrderOnce'
  BY <1>10 DEF Old, InOrderOnce
<1> QED  BY <1>5, <1>6, <1>11 DEF QueueIInv

LEMMA StartPushOK ==
    ASSUME QueueIInv, NEW q \in Queue, StartPush(q)
    PROVE  QueueIInv'
<1> DEFINE ops == {[sender |-> a, id |-> Shift(queue[q][a]).op] : a \in NonEmpty(q)}
           push == [queue |-> q, ops |-> ops, pc |-> "getAddress"]
<1>1. ASSUME NEW a \in NonEmpty(q)
      PROVE  /\ Shift(queue[q][a]).op \in 1 .. MaxRequests
             /\ Shift(queue[q][a]).rest \in Seq(1 .. MaxRequests)
             /\ Append(handed[q][a], Shift(queue[q][a]).op) \in Seq(1 .. MaxRequests)
             /\ Append(handed[q][a], Shift(queue[q][a]).op) \o Shift(queue[q][a]).rest = Trace(q, a)
  <2>1. queue[q][a] \in Seq(1 .. MaxRequests) /\ queue[q][a] # <<>> /\ handed[q][a] \in Seq(1 .. MaxRequests)
    BY <1>1 DEF QueueIInv, TypeOK, NonEmpty
  <2> QED  BY <2>1, ShiftKeepsTrace, ZenonT(30) DEF Trace
<1>2. ops \subseteq Request
  <2>1. ASSUME NEW a \in NonEmpty(q)
        PROVE  [sender |-> a, id |-> Shift(queue[q][a]).op] \in Request
    BY <1>1, <2>1 DEF Request, NonEmpty
  <2> QED  BY <2>1
<1>3. Cardinality(NonEmpty(q)) \in Nat
  BY QueueConstants, FS_Subset, FS_CardinalityType DEF NonEmpty
<1>4. queueSize' \in [Queue -> Int \cup {NaN}]
  BY <1>3 DEF QueueIInv, TypeOK, StartPush, Plus
<1>5. queue' \in [Queue -> [Account -> Seq(1 .. MaxRequests)]]
  BY <1>1 DEF QueueIInv, TypeOK, StartPush
<1>6. handed' \in [Queue -> [Account -> Seq(1 .. MaxRequests)]]
  BY <1>1 DEF QueueIInv, TypeOK, StartPush
<1>7. pushes' = pushes \cup {push} /\ bundle' = ops /\ sending' = TRUE
  BY DEF StartPush
<1>8. push \in Push
  BY <1>2 DEF Push
<1>9. TypeOK'
  BY <1>2, <1>4, <1>5, <1>6, <1>7, <1>8 DEF QueueIInv, TypeOK, StartPush
<1>10. pushes = {}
  BY DEF QueueIInv, Alone, StartPush, NoneSending
<1>11. Alone'
  BY <1>7, <1>10 DEF Alone
<1>12. ASSUME NEW r \in Queue, NEW a \in Account PROVE Trace(r, a)' = Trace(r, a)
  <2>1. CASE r = q /\ a \in NonEmpty(q)
    <3>1. /\ queue'[q][a] = Shift(queue[q][a]).rest
          /\ handed'[q][a] = Append(handed[q][a], Shift(queue[q][a]).op)
      BY <2>1 DEF QueueIInv, TypeOK, StartPush
    <3> QED  BY <2>1, <3>1, <1>1 DEF Trace
  <2>2. CASE r # q \/ a \notin NonEmpty(q)
    <3>1. queue'[r][a] = queue[r][a] /\ handed'[r][a] = handed[r][a]
      BY <2>2 DEF QueueIInv, TypeOK, StartPush
    <3> QED  BY <3>1 DEF Trace
  <2> QED  BY <2>1, <2>2
<1>13. Old' /\ InOrderOnce'
  BY <1>12 DEF QueueIInv, Old, InOrderOnce, StartPush
<1> QED  BY <1>9, <1>11, <1>13 DEF QueueIInv

LEMMA PushStepOK ==
    ASSUME QueueIInv, NEW p \in pushes, PushStep(p)
    PROVE  QueueIInv'
<1>1. UNCHANGED <<made, queue, handed>>
  BY DEF PushStep, GotAddress, Submitted, Mined, Fails, Proceed, EndPush
<1>2. Old' /\ InOrderOnce'
  BY <1>1, TracesKept
<1>3. pushes = {p} /\ sending
  BY DEF QueueIInv, Alone
<1>4. CASE GotAddress(p) \/ Submitted(p)
  <2>1. PICK pc \in {"handleOps", "wait"} : Proceed(p, pc)
    BY <1>4 DEF GotAddress, Submitted
  <2>2. [p EXCEPT !.pc = pc] \in Push
    BY <2>1 DEF QueueIInv, TypeOK, Push
  <2>3. pushes' = {[p EXCEPT !.pc = pc]}
    BY <1>3, <2>1 DEF Proceed
  <2>4. TypeOK'
    BY <2>1, <2>2, <2>3 DEF QueueIInv, TypeOK, Proceed
  <2>5. Alone'
    BY <1>3, <2>1, <2>3 DEF Alone, Proceed
  <2> QED  BY <1>2, <2>4, <2>5 DEF QueueIInv
<1>5. CASE Mined(p) \/ Fails(p)
  <2>1. EndPush(p) /\ alive' \in BOOLEAN
    BY <1>5 DEF QueueIInv, TypeOK, Mined, Fails
  <2>2. TypeOK'
    BY <2>1 DEF QueueIInv, TypeOK, EndPush
  <2>3. Alone'
    BY <1>3, <2>1 DEF Alone, EndPush
  <2> QED  BY <1>2, <2>2, <2>3 DEF QueueIInv
<1> QED  BY <1>4, <1>5 DEF PushStep

\* The timers, and time.
LEMMA TimerOK ==
    ASSUME QueueIInv, NEW q \in Queue, SetInterval(q) \/ CancelInterval(q) \/ Age(q)
    PROVE  QueueIInv'
<1>1. UNCHANGED <<made, queue, handed>> /\ Alone'
  BY DEF QueueIInv, Alone, SetInterval, CancelInterval, Age
<1>2. CASE SetInterval(q) \/ CancelInterval(q)
  <2>1. TypeOK'
    BY <1>2 DEF QueueIInv, TypeOK, SetInterval, CancelInterval
  <2> QED  BY <1>1, <2>1, TracesKept DEF QueueIInv
<1>3. CASE Age(q)
  <2>1. TypeOK'
    BY <1>3, QueueConstants DEF QueueIInv, TypeOK, Age
  <2> QED  BY <1>1, <2>1, TracesKept DEF QueueIInv
<1> QED  BY <1>2, <1>3

LEMMA NextOK == QueueIInv /\ [QueueNext]_queueVars => QueueIInv'
<1> SUFFICES ASSUME QueueIInv, [QueueNext]_queueVars PROVE QueueIInv'
  OBVIOUS
<1>1. ASSUME NEW q \in Queue, NEW a \in Account, SendUserOp(q, a) PROVE QueueIInv'
  BY <1>1, SendUserOpOK
<1>2. ASSUME NEW q \in Queue, SetInterval(q) \/ CancelInterval(q) \/ Age(q) PROVE QueueIInv'
  BY <1>2, TimerOK
<1>3. ASSUME NEW q \in Queue, StartPush(q) PROVE QueueIInv'
  BY <1>3, StartPushOK
<1>4. ASSUME NEW p \in pushes, PushStep(p) PROVE QueueIInv'
  BY <1>4, PushStepOK
<1>5. ASSUME UNCHANGED queueVars PROVE QueueIInv'
  <2>1. TypeOK' /\ Alone'
    BY <1>5 DEF QueueIInv, TypeOK, Alone, queueVars
  <2> QED  BY <1>5, <2>1, TracesKept DEF QueueIInv, queueVars
<1> QED  BY <1>1, <1>2, <1>3, <1>4, <1>5 DEF QueueNext

\* The invariant holds throughout.
THEOREM QueueInvariant == QueueSpec => []QueueIInv
BY InitOK, NextOK, PTL DEF QueueSpec

\* The types of the queues' state.
THEOREM Typed == QueueSpec => []TypeOK
<1>1. QueueIInv => TypeOK
  BY DEF QueueIInv
<1> QED  BY QueueInvariant, <1>1, PTL

\* The requests of an account leave a queue in the order they were made, and
\* none twice: a request is shifted out before it is sent.
THEOREM Ordered == QueueSpec => []InOrderOnce
<1>1. QueueIInv => InOrderOnce
  BY DEF QueueIInv
<1> QED  BY QueueInvariant, <1>1, PTL

\* `sending' keeps the pushes of all queues apart.
THEOREM OneAtATime == QueueSpec => []OneBundleAtATime
<1>1. QueueIInv => OneBundleAtATime
  <2> SUFFICES ASSUME QueueIInv PROVE OneBundleAtATime
    OBVIOUS
  <2>1. CASE pushes = {}
    BY <2>1, FS_EmptySet DEF QueueIInv, Alone, OneBundleAtATime
  <2>2. CASE pushes # {}
    <3>1. PICK p \in pushes : pushes = {p}
      BY <2>2 DEF QueueIInv, Alone
    <3>2. Cardinality(pushes) = 1
      BY <3>1, FS_Singleton
    <3> QED  BY <2>2, <3>2 DEF QueueIInv, Alone, OneBundleAtATime
  <2> QED  BY <2>1, <2>2
<1> QED  BY QueueInvariant, <1>1, PTL

-----------------------------------------------------------------------------
\* A queue starts as an empty outbox.
LEMMA InitMaps == QueueInit => O!OutboxInit
BY DEF QueueInit, O!OutboxInit

\* Every step of a queue is a step of the outbox, or none.
LEMMA StepMaps == QueueIInv /\ [QueueNext]_queueVars => [O!OutboxNext]_O!outbox
<1> SUFFICES ASSUME QueueIInv, [QueueNext]_queueVars PROVE [O!OutboxNext]_O!outbox
  OBVIOUS
<1>1. ASSUME NEW q \in Queue, NEW a \in Account, SendUserOp(q, a) PROVE O!OutboxNext
  <2>1. O!Make(q, a)
    BY <1>1 DEF SendUserOp, O!Make
  <2> QED  BY <2>1 DEF O!OutboxNext
<1>2. ASSUME NEW q \in Queue, StartPush(q) PROVE O!OutboxNext
  <2>1. NonEmpty(q) # {} /\ NonEmpty(q) \in SUBSET Account
    BY <1>2 DEF StartPush, NonEmpty
  <2>2. O!Leave(q, NonEmpty(q))
    <3>1. /\ pushes = {} /\ pushes' # {} /\ made' = made
          /\ \A a \in NonEmpty(q) : queue[q][a] # <<>>
      BY <1>2 DEF StartPush, NoneSending, NonEmpty, QueueIInv, Alone
    <3>2. bundle' = {[sender |-> a, id |-> Head(queue[q][a])] : a \in NonEmpty(q)}
      BY <1>2 DEF StartPush, Shift, NonEmpty
    <3>3. queue' = [queue EXCEPT ![q] = [a \in Account |->
                        IF a \in NonEmpty(q) THEN Tail(@[a]) ELSE @[a]]]
      BY <1>2 DEF StartPush, Shift, NonEmpty
    <3>4. handed' = [handed EXCEPT ![q] = [a \in Account |->
                        IF a \in NonEmpty(q) THEN Append(@[a], Head(queue[q][a])) ELSE @[a]]]
      BY <1>2 DEF StartPush, Shift, NonEmpty
    <3> QED  BY <2>1, <3>1, <3>2, <3>3, <3>4 DEF O!Leave
  <2> QED  BY <2>1, <2>2 DEF O!OutboxNext
<1>3. ASSUME NEW p \in pushes, Mined(p) \/ Fails(p) PROVE O!OutboxNext
  <2>1. EndPush(p) /\ pushes # {} /\ pushes \ {p} = {}
    BY <1>3 DEF QueueIInv, Alone, Mined, Fails
  <2> QED  BY <2>1 DEF EndPush, O!Over, O!OutboxNext
<1>4. ASSUME NEW p \in pushes, GotAddress(p) \/ Submitted(p) PROVE UNCHANGED O!outbox
  <2>1. /\ UNCHANGED <<made, queue, handed, bundle>>
        /\ pushes # {} /\ pushes' # {}
    BY <1>4 DEF GotAddress, Submitted, Proceed
  <2> QED  BY <2>1 DEF O!outbox
<1>5. ASSUME NEW q \in Queue, SetInterval(q) \/ CancelInterval(q) \/ Age(q)
      PROVE  UNCHANGED O!outbox
  BY <1>5 DEF SetInterval, CancelInterval, Age, O!outbox
<1>6. ASSUME UNCHANGED queueVars PROVE UNCHANGED O!outbox
  BY <1>6 DEF queueVars, O!outbox
<1> QED  BY <1>1, <1>2, <1>3, <1>4, <1>5, <1>6 DEF QueueNext, PushStep

\* The queues implement the outbox.
THEOREM Implements == QueueSpec => Outbox
<1>1. QueueIInv /\ [QueueNext]_queueVars => [O!OutboxNext]_O!outbox
  BY StepMaps
<1> QED  BY QueueInvariant, InitMaps, <1>1, PTL DEF QueueSpec, Outbox, O!OutboxSpec

=============================================================================
