----------------------------- MODULE EntryPoint -----------------------------
(***************************************************************************)
(* The EntryPoint contract (contracts/core/EntryPoint.sol): it validates a *)
(* bundle of user operations, charges whoever pays for each, executes each *)
(* and sends the fees to the bundler's beneficiary.                        *)
(*                                                                         *)
(* The contract calls out eight times: to the factory of a new account, to *)
(* the account and the paymaster for their consent, to the account for its *)
(* operation, to the paymaster once or twice afterwards, to the            *)
(* beneficiary, and to the receiver of a withdrawal.  It has no reentrancy *)
(* guard: the code it called may enter any public function.  A bundle in   *)
(* progress is a frame of the call stack of StakeManager, and its pc is    *)
(* either one of those calls, and then outside code has control, or a step *)
(* of the contract.  A revert of the bundle restores the ledger its frame  *)
(* saved; a revert of innerHandleOp restores the ledger saved in `inner'.  *)
(***************************************************************************)
EXTENDS Integers, Sequences, FiniteSets, FiniteSetsExt, SequencesExt

CONSTANTS
    NumAddr, Amounts, Delays, EthSupply, MaxUint112, MaxTime, MaxDepth, CallBudget,
    MaxUint120,     \* type(uint120).max, the largest gas value of an operation
    BaseFee,        \* block.basefee
    Contracts,      \* the addresses that have code before the first transaction
    Batches,        \* the arguments of handleOps that are tried
    Beneficiaries,  \* the beneficiaries that are tried, address(0) or not
    Groups,         \* the arguments of handleAggregatedOps that are tried
    Verdicts,       \* the validationData that accounts and paymasters return
    GasUse          \* gas that a call or the code around it may use

VARIABLES
    ledger, frames, now, budget  \* see StakeManager

SM == INSTANCE StakeManager

vars == <<ledger, frames, now, budget>>

Address == SM!Address

Nobody == 0  \* address(0)

(***************************************************************************)
(* A UserOperation, without the fields that no property tells apart: the   *)
(* nonce (checked by the account), the signature (in the verdict), and the *)
(* contents of initCode and callData, of which only the presence matters.  *)
(***************************************************************************)
UserOperation ==
    [sender: Address, paymaster: Address \cup {Nobody}, initCode: BOOLEAN, callData: BOOLEAN,
     callGasLimit: Nat, verificationGasLimit: Nat, preVerificationGas: Nat,
     maxFeePerGas: Nat, maxPriorityFeePerGas: Nat]

(***************************************************************************)
(* An aggregator of validationData is NoAggregator for address(0),         *)
(* SigFailed for address(1), SIG_VALIDATION_FAILED, or the name of one.    *)
(* A validationData of 0 parses as Valid.                                  *)
(***************************************************************************)
NoAggregator == "none"
SigFailed == "failed"

Valid == [aggregator |-> NoAggregator, validAfter |-> 0, validUntil |-> MaxTime]

ASSUME EntryPointConstants ==
    /\ {NumAddr, MaxTime} \subseteq Nat \ {0}
    /\ {MaxUint112, MaxDepth, CallBudget, EthSupply} \subseteq Nat
    /\ Amounts \subseteq Nat
    /\ Delays \subseteq Nat
    /\ MaxUint120 \in Nat
    /\ BaseFee \in Nat
    /\ Contracts \subseteq Address
    /\ Batches \subseteq Seq(UserOperation)
    /\ Beneficiaries \subseteq Address \cup {Nobody}
    /\ Groups \subseteq Seq([aggregator: STRING, userOps: Seq(UserOperation)])
    /\ Verdicts \subseteq [aggregator: STRING, validAfter: Nat, validUntil: Nat]
    /\ GasUse \subseteq Nat

-----------------------------------------------------------------------------
(***************************************************************************)
(* Pure functions of an operation.                                         *)
(***************************************************************************)

GasValuesFit(op) ==
    \A v \in {op.callGasLimit, op.verificationGasLimit, op.preVerificationGas,
              op.maxFeePerGas, op.maxPriorityFeePerGas} : v <= MaxUint120

\* Who pays for the operation, and who gets the refund.
Payer(op) == IF op.paymaster = Nobody THEN op.sender ELSE op.paymaster

RequiredPrefund(op) ==
    LET mul == IF op.paymaster # Nobody THEN 3 ELSE 1
    IN  (op.callGasLimit + op.verificationGasLimit * mul + op.preVerificationGas)
            * op.maxFeePerGas

UserOpGasPrice(op) ==
    IF op.maxFeePerGas = op.maxPriorityFeePerGas
    THEN op.maxFeePerGas
    ELSE Min({op.maxFeePerGas, op.maxPriorityFeePerGas + BaseFee})

InTimeRange(data) == data.validAfter <= now /\ now <= data.validUntil

Authorized(accountData, paymasterData, expectedAggregator) ==
    /\ accountData.aggregator = expectedAggregator
    /\ InTimeRange(accountData)
    /\ paymasterData.aggregator = NoAggregator
    /\ InTimeRange(paymasterData)

-----------------------------------------------------------------------------
(***************************************************************************)
(* The frame of a bundle in progress.  ops are its operations in order,    *)
(* each with the aggregator its group names and with the index that a      *)
(* failure of its validationData is reported at.  infos are the UserOpInfo *)
(* of the operations validated so far, done is how many are settled.       *)
(***************************************************************************)
CallOuts == {"create", "account", "paymaster", "call", "postOp", "postOpReverted", "compensate"}

NewBundle(ops, beneficiary) ==
    [kind |-> "bundle", saved |-> ledger, ops |-> ops, beneficiary |-> beneficiary,
     pc |-> "validate", infos |-> <<>>, done |-> 0, collected |-> 0,
     accountData |-> Valid, gas |-> 0, inner |-> ledger, mode |-> "opSucceeded"]

Bundle == SM!Innermost

InBundle(pc) ==
    /\ frames # <<>>
    /\ Bundle.kind = "bundle"
    /\ Bundle.pc = pc

\* Outside code has control: between transactions, or during a call out.
OutsideRuns ==
    frames # <<>> /\ Bundle.kind = "bundle" => Bundle.pc \in CallOuts

\* The innermost bundle goes on as f with the ledger l.
Goto(l, f) ==
    /\ ledger' = l
    /\ frames' = [frames EXCEPT ![Len(frames)] = f]
    /\ UNCHANGED <<now, budget>>

\* The innermost bundle is reverted, by a FailedOp or otherwise.
Revert == SM!Leave(Bundle.saved)

\* The operation being validated, and the one being executed.
Validating == Len(Bundle.infos) + 1
Executing == Bundle.done + 1

-----------------------------------------------------------------------------
(***************************************************************************)
(* Entering the contract.                                                  *)
(***************************************************************************)

Enter(ops, beneficiary) ==
    /\ OutsideRuns
    /\ SM!Entered
    /\ Len(frames) < MaxDepth
    /\ frames' = Append(frames, NewBundle(ops, beneficiary))
    /\ UNCHANGED <<ledger, now>>

HandleOps(ops, beneficiary) ==
    Enter([i \in DOMAIN ops |-> [op |-> ops[i], aggregator |-> NoAggregator]], beneficiary)

\* Every aggregator accepts its group, in a static call: no group's signature
\* marks an error.
HandleAggregatedOps(groups, beneficiary) ==
    /\ \A g \in DOMAIN groups : groups[g].aggregator # SigFailed
    /\ Enter(FlattenSeq([g \in DOMAIN groups |->
                [i \in DOMAIN groups[g].userOps |->
                    [op |-> groups[g].userOps[i], aggregator |-> groups[g].aggregator]]]),
             beneficiary)

\* The public functions inherited from StakeManager.
StakeManagerCall ==
    /\ OutsideRuns
    /\ SM!StakeManagerCall

\* A contract is created at a: by the factory that was called or by anyone.
Deploy(a) ==
    /\ OutsideRuns
    /\ SM!Entered
    /\ a \notin ledger.deployed
    /\ SM!Finish([ledger EXCEPT !.deployed = @ \cup {a}])

-----------------------------------------------------------------------------
(***************************************************************************)
(* The validation loop.                                                    *)
(***************************************************************************)

\* The head of the loop: the next operation's account is created or asked.
Validate ==
    /\ InBundle("validate")
    /\ Validating <= Len(Bundle.ops)
    /\ LET op == Bundle.ops[Validating].op
           constructed == op.sender \in ledger.deployed
       IN  \/ ~GasValuesFit(op) /\ Revert
           \/ GasValuesFit(op) /\ op.initCode = constructed /\ Revert
           \/ /\ GasValuesFit(op)
              /\ op.initCode # constructed
              /\ Goto(ledger, [Bundle EXCEPT !.pc = IF op.initCode THEN "create" ELSE "account"])

\* senderCreator returns sender1, or Nobody if the factory failed.
CreateSenderReturns(sender1) ==
    /\ InBundle("create")
    /\ LET sender == Bundle.ops[Validating].op.sender
       IN  IF sender1 = sender /\ sender1 \in ledger.deployed
           THEN Goto(ledger, [Bundle EXCEPT !.pc = "account"])
           ELSE Revert

DecrementDeposit(l, a, amount) == [l EXCEPT !.deposits[a].deposit = @ - amount]

\* Account and paymaster agreed: their verdicts are checked, and the operation
\* is ready to be executed.
FinishValidation(l, accountData, paymasterData, context, gas) ==
    LET entry == Bundle.ops[Validating]
        info == [prefund |-> RequiredPrefund(entry.op), context |-> context,
                 preOpGas |-> gas + entry.op.preVerificationGas]
    IN  IF gas > entry.op.verificationGasLimit THEN Revert
        ELSE IF Authorized(accountData, paymasterData, entry.aggregator)
        THEN Goto(l, [Bundle EXCEPT !.pc = "validate", !.infos = Append(@, info),
                                    !.accountData = Valid, !.gas = 0])
        ELSE Revert

\* Mutant: the deposit is read before the account is called.
AccountReturnsStale(data, gas) ==
    /\ InBundle("account")
    /\ LET op == Bundle.ops[Validating].op
           prefund == RequiredPrefund(op)
           deposit == Bundle.saved.deposits[Payer(op)].deposit
       IN  \/ prefund > deposit /\ Revert
           \/ /\ prefund <= deposit
              /\ op.paymaster = Nobody
              /\ FinishValidation([ledger EXCEPT !.deposits[op.sender].deposit = deposit - prefund],
                                  data, Valid, FALSE, gas)
           \/ /\ prefund <= deposit
              /\ op.paymaster # Nobody
              /\ Goto(DecrementDeposit(ledger, op.paymaster, prefund),
                      [Bundle EXCEPT !.pc = "paymaster", !.accountData = data, !.gas = gas])

\* validateUserOp returns.  The deposit that pays is read only now, after
\* whatever the account did; a paymaster is charged before it is asked.
AccountReturns(data, gas) ==
    /\ InBundle("account")
    /\ LET op == Bundle.ops[Validating].op
           prefund == RequiredPrefund(op)
           enough == prefund <= ledger.deposits[Payer(op)].deposit
           charged == DecrementDeposit(ledger, Payer(op), prefund)
       IN  \/ /\ op.paymaster = Nobody
              /\ IF enough
                 THEN FinishValidation(charged, data, Valid, FALSE, gas)
                 ELSE Revert
           \/ /\ op.paymaster # Nobody
              /\ IF gas < op.verificationGasLimit /\ enough /\ op.paymaster \in ledger.deployed
                 THEN Goto(charged, [Bundle EXCEPT !.pc = "paymaster",
                                                   !.accountData = data, !.gas = gas])
                 ELSE Revert

PaymasterReturns(context, data, gas) ==
    /\ InBundle("paymaster")
    /\ FinishValidation(ledger, Bundle.accountData, data, context, Bundle.gas + gas)

\* validateUserOp or validatePaymasterUserOp reverts, or runs out of gas.
ValidationFails ==
    /\ InBundle("account") \/ InBundle("paymaster")
    /\ Revert

-----------------------------------------------------------------------------
(***************************************************************************)
(* The execution loop.  Until its operation is settled, everything since   *)
(* `inner' was saved belongs to innerHandleOp, unless mode is              *)
(* postOpReverted.  The ledger logs in effects what was executed: a revert *)
(* undoes the log together with the effect.                                *)
(***************************************************************************)

Record(l, what) ==
    [l EXCEPT !.effects = @ \cup {[depth |-> Len(frames), op |-> Executing, what |-> what]}]

\* Mutant: an operation is executed as soon as it is validated.
ExecuteEarly ==
    /\ InBundle("validate")
    /\ Executing <= Len(Bundle.infos)
    /\ LET info == Bundle.infos[Executing]
           inner == [Bundle EXCEPT !.inner = ledger, !.gas = info.preOpGas]
       IN  Goto(ledger,
                [inner EXCEPT !.pc = IF Bundle.ops[Executing].op.callData THEN "call"
                                     ELSE IF info.context THEN "postOp" ELSE "settle"])

\* The head of the loop: innerHandleOp is called for the next operation, and
\* it makes the account's call if there is one.
Execute ==
    /\ InBundle("validate")
    /\ Validating > Len(Bundle.ops)
    /\ Executing <= Len(Bundle.ops)
    /\ LET info == Bundle.infos[Executing]
           inner == [Bundle EXCEPT !.inner = ledger, !.gas = info.preOpGas]
       IN  Goto(ledger,
                [inner EXCEPT !.pc = IF Bundle.ops[Executing].op.callData THEN "call"
                                     ELSE IF info.context THEN "postOp" ELSE "settle"])

\* innerHandleOp finds too little gas for the operation: INNER_OUT_OF_GAS.
OutOfGas ==
    /\ InBundle("validate")
    /\ Validating > Len(Bundle.ops)
    /\ Executing <= Len(Bundle.ops)
    /\ Revert

\* The account's call returns; a failure reverts the call and nothing else.
CallReturns(success, gas) ==
    /\ InBundle("call")
    /\ Goto(IF success THEN Record(ledger, "call") ELSE Bundle.inner,
            [Bundle EXCEPT !.mode = IF success THEN "opSucceeded" ELSE "opReverted",
                           !.gas = @ + gas,
                           !.pc = IF Bundle.infos[Executing].context THEN "postOp" ELSE "settle"])

\* Mutant: innerHandleOp is not a call of its own: its failure undoes nothing.
InnerRevertsKeepingCall(gas) ==
    Goto(ledger,
         [Bundle EXCEPT !.mode = "postOpReverted", !.gas = @ + gas,
                        !.pc = IF Bundle.infos[Executing].context THEN "postOpReverted"
                               ELSE "settle"])

\* Mutant: an operation that innerHandleOp reverted is tried again, and what it
\* used is forgotten.
InnerRevertsRetrying(gas) ==
    Goto(Bundle.inner, [Bundle EXCEPT !.pc = "call", !.gas = 0])

\* innerHandleOp reverted and _executeUserOp catches it: the operation is
\* undone and postOp is tried outside.
InnerReverts(gas) ==
    Goto(Bundle.inner,
         [Bundle EXCEPT !.mode = "postOpReverted", !.gas = @ + gas,
                        !.pc = IF Bundle.infos[Executing].context THEN "postOpReverted"
                               ELSE "settle"])

\* postOp returns to innerHandleOp, or reverts it with its own revert data.
\* _executeUserOp copies 32 bytes of that data: if there are fewer, the copy
\* itself halts handleOps.  The marker of Execute reverts the bundle too.
PostOpReturns(outcome, gas) ==
    /\ InBundle("postOp")
    /\ \/ outcome = "ok" /\ Goto(Record(ledger, "postOp"),
                                 [Bundle EXCEPT !.gas = @ + gas, !.pc = "settle"])
       \/ outcome = "reverted" /\ InnerReverts(gas)
       \/ outcome = "revertedWithoutData" /\ Revert
       \/ outcome = "outOfGasMarker" /\ Revert

\* The second postOp must not fail.
PostOpRevertedReturns(success, gas) ==
    /\ InBundle("postOpReverted")
    /\ IF success
       THEN Goto(Record(ledger, "postOpReverted"),
                 [Bundle EXCEPT !.gas = @ + gas, !.pc = "settle"])
       ELSE Revert

\* Mutant: the account gets the refund of what its paymaster paid.
RefundSender(l, op, amount) == SM!IncrementDeposit(l, op.sender, amount)

Refund(l, op, amount) == SM!IncrementDeposit(l, Payer(op), amount)

\* The end of _handlePostOp: the payer gets back what was not used.
Settle ==
    /\ InBundle("settle")
    /\ LET op == Bundle.ops[Executing].op
           prefund == Bundle.infos[Executing].prefund
           cost == Bundle.gas * UserOpGasPrice(op)
           refund == prefund - cost
           fits == SM!CanIncrementDeposit(ledger, Payer(op), refund)
       IN  \/ /\ cost <= prefund
              /\ fits
              /\ Goto([Refund(ledger, op, refund) EXCEPT !.claim[Payer(op)] = @ - cost],
                      [Bundle EXCEPT !.pc = "validate", !.done = @ + 1, !.collected = @ + cost,
                                     !.gas = 0, !.inner = Bundle.saved, !.mode = "opSucceeded"])
           \/ /\ cost > prefund \/ ~fits
              /\ Bundle.mode # "postOpReverted"
              /\ InnerReverts(0)
           \/ /\ cost > prefund \/ ~fits
              /\ Bundle.mode = "postOpReverted"
              /\ Revert

\* _compensate: the fees of the whole bundle are sent to the beneficiary.
Compensate ==
    /\ InBundle("validate")
    /\ Validating > Len(Bundle.ops)
    /\ Executing > Len(Bundle.ops)
    /\ IF Bundle.beneficiary = Nobody
       THEN Revert
       ELSE Goto([ledger EXCEPT !.balance = @ - Bundle.collected],
                 [Bundle EXCEPT !.pc = "compensate"])

CompensateReturns(success) ==
    /\ InBundle("compensate")
    /\ IF success
       THEN SM!Leave([ledger EXCEPT !.effects = {e \in @ : e.depth < Len(frames)}])
       ELSE Revert

-----------------------------------------------------------------------------
Init ==
    /\ ledger = [deposits   |-> [a \in Address |-> SM!NoDeposit],
                 balance    |-> 0,
                 claim      |-> [a \in Address |-> 0],
                 committed  |-> [a \in Address |-> 0],
                 unlockedAt |-> [a \in Address |-> 0],
                 deployed   |-> Contracts,
                 effects    |-> {}]
    /\ frames = <<>>
    /\ now = 1
    /\ budget = CallBudget

\* What outside code may call.
OutsideCall ==
    \/ StakeManagerCall
    \/ \E a \in Address : Deploy(a)
    \/ \E b \in Beneficiaries :
        \/ \E ops \in Batches : HandleOps(ops, b)
        \/ \E groups \in Groups : HandleAggregatedOps(groups, b)

\* How the code that was called by the contract may return.
OutsideReturn ==
    \/ \E a \in Address \cup {Nobody} : CreateSenderReturns(a)
    \/ ValidationFails
    \/ \E success \in BOOLEAN :
        \/ SM!SendReturns(success)
        \/ CompensateReturns(success)
    \/ \E gas \in GasUse :
        \/ \E data \in Verdicts :
            \/ AccountReturns(data, gas)
            \/ \E context \in BOOLEAN : PaymasterReturns(context, data, gas)
        \/ \E success \in BOOLEAN :
            \/ CallReturns(success, gas)
            \/ PostOpRevertedReturns(success, gas)
        \/ \E outcome \in {"ok", "reverted", "revertedWithoutData", "outOfGasMarker"} :
            PostOpReturns(outcome, gas)

ContractStep == Validate \/ Execute \/ OutOfGas \/ Settle \/ Compensate

Next == OutsideCall \/ OutsideReturn \/ ContractStep \/ SM!Tick

Spec == Init /\ [][Next]_vars

\* Gas is finite: what was called returns, and the contract goes on.
FairSpec == Spec /\ WF_vars(OutsideReturn \/ ContractStep)

-----------------------------------------------------------------------------
(***************************************************************************)
(* What makes bundles correct.                                             *)
(***************************************************************************)

Ledger ==
    [deposits: [Address -> SM!DepositInfo], balance: Nat, claim: [Address -> Nat],
     committed: [Address -> Nat], unlockedAt: [Address -> Nat], deployed: SUBSET Address,
     effects: SUBSET [depth: 1..MaxDepth, op: Nat, what: CallOuts]]

BundleOK(f) ==
    /\ f.pc \in CallOuts \cup {"validate", "settle"}
    /\ f.mode \in {"opSucceeded", "opReverted", "postOpReverted"}
    /\ f.inner \in Ledger
    /\ f.done <= Len(f.infos)
    /\ Len(f.infos) <= Len(f.ops)
    /\ f.done > 0 => Len(f.infos) = Len(f.ops)

\* The ledger and the call stack are well formed; no operation is executed
\* while another of its bundle is still to be validated.
TypeOK ==
    /\ ledger \in Ledger
    /\ Len(frames) <= MaxDepth
    /\ \A k \in DOMAIN frames :
        /\ frames[k].saved \in Ledger
        /\ frames[k].kind = "bundle" => BundleOK(frames[k])
    /\ now \in 1..MaxTime
    /\ budget \in 0..CallBudget

Bundles == {k \in DOMAIN frames : frames[k].kind = "bundle"}

\* The prefunds that a frame took from a and has not settled.
HeldBy(f, a) ==
    LET charged == Len(f.infos) + (IF f.pc = "paymaster" THEN 1 ELSE 0)
        prefunds == [i \in DOMAIN f.ops |->
                       IF Payer(f.ops[i].op) = a THEN RequiredPrefund(f.ops[i].op) ELSE 0]
    IN  IF f.kind = "bundle" THEN SumFunctionOnSet(prefunds, f.done + 1 .. charged) ELSE 0

Held(a) == SumFunction([k \in DOMAIN frames |-> HeldBy(frames[k], a)])

\* The fees that a frame collected and has not sent to its beneficiary.
FeesOf(f) == IF f.kind = "bundle" /\ f.pc # "compensate" THEN f.collected ELSE 0

Fees == SumFunction([k \in DOMAIN frames |-> FeesOf(frames[k])])

\* Whatever the called code does, the contract's ether is the sum of all
\* deposits and stakes, of the prefunds held and of the fees collected by the
\* bundles in progress: nothing can be paid out twice, and nothing is lost.
Solvent ==
    ledger.balance = SumFunction([a \in Address |-> SM!Owed(ledger)[a] + Held(a)]) + Fees

\* An address has on the books, or in held prefunds, what it paid in less what
\* it took out and less the cost of the operations it agreed to pay for.
ClaimsBacked ==
    \A a \in Address : ledger.claim[a] = SM!Owed(ledger)[a] + Held(a)

\* postOp is guaranteed: of a settled operation whose paymaster asked for it
\* exactly one postOp stands, and if it is the second one, the account's call
\* does not stand.  Nobody else gets a postOp.
PaymasterHonoured ==
    \A k \in Bundles : \A i \in 1..frames[k].done :
        LET stands(what) == [depth |-> k, op |-> i, what |-> what] \in ledger.effects
        IN  IF frames[k].infos[i].context
            THEN /\ stands("postOp") # stands("postOpReverted")
                 /\ stands("postOpReverted") => ~stands("call")
            ELSE ~stands("postOp") /\ ~stands("postOpReverted")

\* Every transaction ends: no bundle gets stuck.
TransactionsEnd == frames # <<>> ~> frames = <<>>

=============================================================================
