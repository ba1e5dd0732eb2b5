-------------------------- MODULE DepositPaymaster --------------------------
(***************************************************************************)
(* contracts/samples/DepositPaymaster.sol with one token.  An account      *)
(* deposits tokens, and keeps them locked; the paymaster sponsors its      *)
(* operations, takes the cost from the account's own tokens in the first   *)
(* postOp, and from its deposit in the second one.  Whoever has control    *)
(* while accounts validate and execute may do as it likes with tokens,     *)
(* locks and deposits, and may send more bundles.                          *)
(***************************************************************************)
EXTENDS SponsoredBundle, Functions, FiniteSets

CONSTANTS
    Owner,         \* the paymaster's owner
    Paymaster,     \* the paymaster's own address
    InitialTokens, \* each address's tokens
    Rates,         \* tokens for an ether, as the oracle may say
    PostCost,      \* COST_OF_POST * gasPrice of an operation
    MaxBlock       \* bound on the block number

VARIABLES
    block          \* block.number

vars == <<chain, bundle, outer, budget, block>>

Holder == Account \cup {Owner, Paymaster}
User == Account \cup {Owner}

ASSUME DepositPaymasterConstants ==
    /\ Owner \notin Account /\ Paymaster \notin User
    /\ MaxCosts \subseteq Nat /\ Rates \subseteq Nat /\ PostCost \in Nat
    /\ InitialTokens \in [Holder -> Nat]
    /\ {MaxOps, MaxBlock, MaxDepth, CallBudget} \subseteq Nat /\ OnePerSender \in BOOLEAN
    /\ IsFiniteSet(Account)

(***************************************************************************)
(* The chain: tokens belong to the token, the rest to the paymaster.  All   *)
(* users approved transfers by the paymaster: what fails without that need *)
(* not be called, or is an inner call that reverts for another reason.     *)
(* The last two are no part of the code, and begin anew with each          *)
(* transaction: charged is what was taken from an account's deposit, owed  *)
(* what its operations agreed to pay minus what it paid for them.          *)
(***************************************************************************)
Zero == [a \in User |-> 0]

Init ==
    /\ chain = [tokens |-> InitialTokens, oracle |-> FALSE, balances |-> Zero,
                unlockBlock |-> [a \in User |-> IF a = Owner THEN 1 ELSE 0],
                charged |-> Zero, owed |-> Zero]
    /\ NoTransaction
    /\ block = 1

\* The ERC-20 token's ledger after a transfer.
Transferred(tokens, from, to, amount) ==
    LET less == [tokens EXCEPT ![from] = @ - amount]
    IN  [less EXCEPT ![to] = @ + amount]

-----------------------------------------------------------------------------
(***************************************************************************)
(* What the users of the paymaster do.                                     *)
(***************************************************************************)
Outside(after) == OutsideStep(after) /\ UNCHANGED block

Transfer(a, target, amount) ==
    /\ chain.tokens[a] >= amount
    /\ Outside([chain EXCEPT !.tokens = Transferred(@, a, target, amount)])

AddToken(a) ==
    /\ a = Owner
    /\ ~chain.oracle
    /\ Outside([chain EXCEPT !.oracle = TRUE])

AddDepositFor(a, account, amount) ==
    /\ chain.tokens[a] >= amount
    /\ chain.oracle
    /\ Outside([chain EXCEPT
           !.tokens = Transferred(@, a, Paymaster, amount),
           !.balances[account] = @ + amount,
           !.unlockBlock[a] = IF a = account THEN 0 ELSE @])

UnlockTokenDeposit(a) == Outside([chain EXCEPT !.unlockBlock[a] = block])

LockTokenDeposit(a) == Outside([chain EXCEPT !.unlockBlock[a] = 0])

\* Mutant: the block of the unlocking is late enough.
UnlockedAt(a) == chain.unlockBlock[a] # 0 /\ block >= chain.unlockBlock[a]

Unlocked(a) == chain.unlockBlock[a] # 0 /\ block > chain.unlockBlock[a]

\* Mutant: the lock is not looked at.
WithdrawTokensToLocked(a, target, amount) ==
    /\ chain.balances[a] >= amount
    /\ Outside([chain EXCEPT
           !.balances[a] = @ - amount,
           !.tokens = Transferred(@, Paymaster, target, amount)])

WithdrawTokensTo(a, target, amount) ==
    /\ Unlocked(a)
    /\ chain.balances[a] >= amount
    /\ Outside([chain EXCEPT
           !.balances[a] = @ - amount,
           !.tokens = Transferred(@, Paymaster, target, amount)])

-----------------------------------------------------------------------------
(***************************************************************************)
(* What EntryPoint calls.                                                  *)
(***************************************************************************)
ValidatePaymasterUserOp(rate) ==
    LET op == Validating
        maxTokenCost == op.maxCost * rate
    IN  /\ In("validate")
        /\ chain.oracle
        /\ chain.unlockBlock[op.account] = 0
        /\ chain.balances[op.account] >= maxTokenCost
        /\ Validated([account |-> op.account, maxTokenCost |-> maxTokenCost,
                      maxCost |-> op.maxCost, charged |-> chain.charged[op.account]],
                     [chain EXCEPT !.owed[op.account] = @ + maxTokenCost])

\* The gas an operation used when its postOp is called, with the postOp, costs
\* at most what was agreed to: its limits say so, and verificationGasLimit
\* exceeds COST_OF_POST.
GasCosts(context) == 0 .. context.maxCost - PostCost

ActualTokenCost(context, gasCost) ==
    ((gasCost + PostCost) * context.maxTokenCost) \div context.maxCost

\* Each postOp divides by maxCost, and reverts if that is zero.
AccountPays(context, gasCost) ==
    /\ context.maxCost # 0
    /\ chain.tokens[context.account] >= ActualTokenCost(context, gasCost)

DepositPays(context, gasCost) ==
    /\ context.maxCost # 0
    /\ chain.balances[context.account] >= ActualTokenCost(context, gasCost)

CreditOwner(balances, cost) == [balances EXCEPT ![Owner] = @ + cost]

\* mode is opSucceeded or opReverted.
PostOp(gasCost) ==
    LET cost == ActualTokenCost(Context, gasCost)
    IN  /\ AccountPays(Context, gasCost)
        /\ PostOpReturns([chain EXCEPT
               !.tokens = Transferred(@, Context.account, Paymaster, cost),
               !.balances = CreditOwner(@, cost),
               !.owed[Context.account] = @ - cost])

Ended(after) ==
    IF Outermost /\ LastSettles THEN [after EXCEPT !.charged = Zero, !.owed = Zero] ELSE after

\* Mutant: the deposit pays without being reduced.
PostOpRevertedFree(gasCost) ==
    LET cost == ActualTokenCost(Context, gasCost)
    IN  /\ In("postOpReverted")
        /\ DepositPays(Context, gasCost)
        /\ Settled(Ended([chain EXCEPT !.balances = CreditOwner(@, cost)]))

\* mode is postOpReverted.
PostOpReverted(gasCost) ==
    LET cost == ActualTokenCost(Context, gasCost)
        less == [chain.balances EXCEPT ![Context.account] = @ - cost]
    IN  /\ In("postOpReverted")
        /\ DepositPays(Context, gasCost)
        /\ Settled(Ended([chain EXCEPT
               !.balances = CreditOwner(less, cost),
               !.charged[Context.account] = @ + cost,
               !.owed[Context.account] = @ - cost]))

-----------------------------------------------------------------------------
UserStep(a) ==
    \/ AddToken(a)
    \/ UnlockTokenDeposit(a)
    \/ LockTokenDeposit(a)
    \/ \E amount \in 0 .. chain.tokens[a] :
          \/ \E target \in Holder : Transfer(a, target, amount)
          \/ \E account \in User : AddDepositFor(a, account, amount)
    \/ \E amount \in 0 .. chain.tokens[Paymaster], target \in Holder :
          WithdrawTokensTo(a, target, amount)

Settles ==
    \/ In("settle") /\ Settled(Ended(chain))
    \/ In("postOpReverted") /\ \E gasCost \in GasCosts(Context) : PostOpReverted(gasCost)

EntryPointStep ==
    /\ \/ \E ops \in Ops : HandleOps(ops)
       \/ \E rate \in Rates : ValidatePaymasterUserOp(rate)
       \/ \E success \in BOOLEAN : CallReturns(success)
       \/ In("postOp") /\ \E gasCost \in GasCosts(Context) : PostOp(gasCost)
       \/ InnerReverts
       \/ Settles
       \/ BundleReverts
    /\ UNCHANGED block

NextBlock ==
    /\ In("idle")
    /\ block < MaxBlock
    /\ block' = block + 1
    /\ UNCHANGED <<chain, bundle, outer, budget>>

Next ==
    \/ \E a \in User : UserStep(a)
    \/ EntryPointStep
    \/ NextBlock

Spec == Init /\ [][Next]_vars

-----------------------------------------------------------------------------
\* The paymaster holds the tokens of all deposits, its owner's earnings
\* included, also between the two postOps.
DepositsBacked == SumFunction(chain.balances) <= chain.tokens[Paymaster]

\* An operation is charged once, and no more than it agreed to, however often
\* its inner call and the calls around it are undone: DepositPaymaster.sol:157-165
\* and EntryPoint.sol:58-80.
PaidAsAgreed == \A a \in User : chain.owed[a] >= 0

\* DepositPaymaster.sol:148-151: if the first postOp cannot take the cost from
\* the account's tokens, the second one takes it from the deposit.  What may
\* miss there was taken since the validation for other operations of the same
\* account, in this bundle or in one inside of its calls; nothing that accounts
\* did with their locks and deposits makes it too small.
DepositCovers ==
    In("postOpReverted") =>
        \A gasCost \in GasCosts(Context) :
            /\ Context.maxCost # 0
            /\ ActualTokenCost(Context, gasCost) <= chain.balances[Context.account]
                   + (chain.charged[Context.account] - Context.charged)

\* "In this mode, we use the deposit to pay (which we validated to be large
\* enough)": DepositPaymaster.sol:151.
ValidatedDepositPays ==
    In("postOpReverted") => \A gasCost \in GasCosts(Context) : DepositPays(Context, gasCost)

\* A deposit gets smaller in only two ways: its account, whose lock was opened
\* in an earlier block, withdraws, or its own operation is charged, by no more
\* than was agreed to.  (Undoing a call may undo a deposit.)
LockHolds ==
    [][\A a \in Account : chain'.balances[a] < chain.balances[a] =>
          \/ chain.unlockBlock[a] \notin {0, block}
          \/ /\ In("postOpReverted") /\ Context.account = a
             /\ chain.balances[a] - chain'.balances[a] <= Context.maxTokenCost
          \/ \E k \in DOMAIN bundle.saved : chain' = bundle.saved[k]]_vars

=============================================================================
