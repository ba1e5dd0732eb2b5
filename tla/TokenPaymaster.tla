--------------------------- MODULE TokenPaymaster ---------------------------
(***************************************************************************)
(* contracts/samples/TokenPaymaster.sol: a paymaster that is itself the    *)
(* token it charges in.  It looks at the account's balance in validation,  *)
(* and takes the cost from that balance in postOp, after the operation may *)
(* have spent it.  Whoever owns the paymaster may withdraw its tokens.     *)
(***************************************************************************)
EXTENDS SponsoredBundle, Functions

CONSTANTS
    Admin,         \* who may own the paymaster; the first owner is one of them
    Paymaster,     \* the paymaster's own address
    NoOwner,       \* address(0)
    Rate,          \* wei for a token: 100
    CostOfPost,    \* COST_OF_POST
    MaxTokens      \* bound on the tokens that are minted

vars == <<chain, bundle, outer, budget>>

User == Account \cup Admin
Holder == User \cup {Paymaster}

ASSUME TokenPaymasterConstants ==
    /\ Paymaster \notin User /\ NoOwner \notin Holder
    /\ MaxCosts \subseteq Nat /\ Rate \in Nat \ {0} /\ CostOfPost \in Nat
    /\ {MaxTokens, MaxOps, MaxDepth, CallBudget} \subseteq Nat /\ OnePerSender \in BOOLEAN

\* allowed: who may take any amount of the paymaster's tokens.
Init ==
    /\ \E owner \in Admin :
          chain = [tokens |-> [a \in Holder |-> IF a = Paymaster THEN 1 ELSE 0],
                   allowed |-> {owner}, owner |-> owner]
    /\ NoTransaction

\* The ERC-20 ledger after a transfer.
Transferred(tokens, from, to, amount) ==
    LET less == [tokens EXCEPT ![from] = @ - amount]
    IN  [less EXCEPT ![to] = @ + amount]

-----------------------------------------------------------------------------
Transfer(a, target, amount) ==
    /\ chain.tokens[a] >= amount
    /\ OutsideStep([chain EXCEPT !.tokens = Transferred(@, a, target, amount)])

\* transferFrom(paymaster, target, amount)
Withdraw(a, target, amount) ==
    /\ a \in chain.allowed
    /\ chain.tokens[Paymaster] >= amount
    /\ OutsideStep([chain EXCEPT !.tokens = Transferred(@, Paymaster, target, amount)])

MintTokens(a, recipient, amount) ==
    /\ a = chain.owner
    /\ SumFunction(chain.tokens) + amount <= MaxTokens
    /\ OutsideStep([chain EXCEPT !.tokens[recipient] = @ + amount])

\* Mutant: the old owner's allowance stays.
TransferOwnershipKeeping(a, newOwner) ==
    /\ a = chain.owner
    /\ OutsideStep([chain EXCEPT !.owner = newOwner, !.allowed = @ \cup {newOwner}])

TransferOwnership(a, newOwner) ==
    /\ a = chain.owner
    /\ OutsideStep([chain EXCEPT !.owner = newOwner, !.allowed = (@ \ {a}) \cup {newOwner}])

\* Inherited from Ownable, and not overridden.
RenounceOwnership(a) ==
    /\ a = chain.owner
    /\ OutsideStep([chain EXCEPT !.owner = NoOwner])

-----------------------------------------------------------------------------
TokenValueOfEth(valueEth) == valueEth \div Rate

ValidatePaymasterUserOp ==
    /\ In("validate")
    /\ chain.tokens[Validating.account] >= TokenValueOfEth(Validating.maxCost)
    /\ Validated(Validating.account, chain)

\* What the gas used so far may have cost.  verificationGasLimit, of which
\* three are in the prefund, exceeds COST_OF_POST: at a price of a wei or more
\* this leaves as much.  At a price of zero nothing costs anything.
GasCosts ==
    LET maxCost == Head(bundle.ops).maxCost
    IN  IF maxCost = 0 THEN {0} ELSE 0 .. maxCost - CostOfPost

Charge(gasCost) == TokenValueOfEth(gasCost + CostOfPost)

CanCharge(gasCost) == chain.tokens[Context] >= Charge(gasCost)

Charged(gasCost) ==
    [chain EXCEPT !.tokens = Transferred(@, Context, Paymaster, Charge(gasCost))]

\* In every mode.
PostOp(gasCost) ==
    /\ CanCharge(gasCost)
    /\ \/ PostOpReturns(Charged(gasCost))
       \/ In("postOpReverted") /\ Settled(Charged(gasCost))

UserStep(a) ==
    \/ \E amount \in 1 .. MaxTokens, target \in Holder :
          \/ Transfer(a, target, amount)
          \/ Withdraw(a, target, amount)
          \/ MintTokens(a, target, amount)
    \/ \E newOwner \in Admin : TransferOwnership(a, newOwner)
    \/ RenounceOwnership(a)

EntryPointStep ==
    \/ \E ops \in Ops : HandleOps(ops)
    \/ ValidatePaymasterUserOp
    \/ \E success \in BOOLEAN : CallReturns(success)
    \/ bundle.phase \in {"postOp", "postOpReverted"} /\ \E gasCost \in GasCosts : PostOp(gasCost)
    \/ InnerReverts
    \/ In("settle") /\ Settled(chain)
    \/ BundleReverts

Next == (\E a \in User : UserStep(a)) \/ EntryPointStep

Spec == Init /\ [][Next]_vars

-----------------------------------------------------------------------------
\* TokenPaymaster.sol:101-103 and 110: if an operation spends the tokens it was to
\* be charged, it is reverted, and the second postOp finds them again.  (In a
\* bundle of several operations another one may have taken them, as
\* TokenPaymaster.sol:14-17 says.)
TokensCover ==
    In("postOpReverted") => \A gasCost \in GasCosts : CanCharge(gasCost)

\* TokenPaymaster.sol:50: "when changing owner, the old owner's withdrawal
\* rights are revoked", whatever bundles are undone meanwhile.
OnlyOwnerWithdraws == chain.owner # NoOwner => chain.allowed \subseteq {chain.owner}

=============================================================================
