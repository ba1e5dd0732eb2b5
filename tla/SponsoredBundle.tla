--------------------------- MODULE SponsoredBundle ---------------------------
(***************************************************************************)
(* EntryPoint as one paymaster sees it: a bundle of operations that it     *)
(* sponsors.  Its validation is called for each of them first; then each   *)
(* is executed and followed by a postOp, both of which are undone if the   *)
(* inner call reverts, and then a second postOp.  If that fails, or any    *)
(* validation does, the bundle is undone.  Code that validates or executes *)
(* may send a bundle of its own, inside of the one in progress.  The module *)
(* EntryPoint has the details; this one leaves open what the calls do to   *)
(* the chain, for the modules of the paymasters to say.                    *)
(***************************************************************************)
EXTENDS Integers, Sequences

CONSTANTS
    Account,       \* senders of operations
    MaxCosts,      \* the maxCost an operation may have
    MaxOps,        \* bound: operations in a bundle
    MaxDepth,      \* bound: bundles inside of one another
    CallBudget,    \* bound: calls and operations of others inside a bundle
    OnePerSender   \* whether bundlers include at most one operation per sender

VARIABLES
    chain,         \* what a revert undoes
    bundle,        \* the innermost bundle in progress
    outer,         \* the bundles in whose calls it runs, below them NoBundle
    budget         \* what others may still do

Op == [account: Account, maxCost: MaxCosts]

\* eip/EIPS/eip-4337.md:263 asks bundlers for one operation per sender.
Ops ==
    {ops \in UNION {[1 .. n -> Op] : n \in 1 .. MaxOps} :
        OnePerSender => \A i, j \in DOMAIN ops : ops[i].account = ops[j].account => i = j}

NoBundle == [phase |-> "idle", ops |-> <<>>, contexts |-> <<>>, saved |-> <<>>]

NoTransaction == bundle = NoBundle /\ outer = <<>> /\ budget = CallBudget

In(phase) == bundle.phase = phase

\* Code of accounts and others runs: between two transactions, as an account
\* validates, and as an operation is executed.  Then it has a budget.
OutsideRuns(cost) == In("idle") \/ (bundle.phase \in {"validate", "call"} /\ cost <= budget)

Spend(cost) == budget' = IF In("idle") THEN budget ELSE budget - cost

OutsideStep(after) ==
    /\ OutsideRuns(1)
    /\ chain' = after
    /\ Spend(1)
    /\ UNCHANGED <<bundle, outer>>

\* The first of the operations that were not settled yet.
Context == Head(bundle.contexts)

-----------------------------------------------------------------------------
\* Nothing keeps the called code from calling handleOps again.
HandleOps(ops) ==
    /\ OutsideRuns(Len(ops))
    /\ Len(outer) < MaxDepth
    /\ outer' = Append(outer, bundle)
    /\ bundle' = [NoBundle EXCEPT !.phase = "validate", !.ops = ops, !.saved = <<chain>>]
    /\ Spend(Len(ops))
    /\ UNCHANGED chain

\* handleOps returns or reverts: the code that called it goes on.
Outermost == Len(outer) = 1

Leave ==
    /\ bundle' = outer[Len(outer)]
    /\ outer' = SubSeq(outer, 1, Len(outer) - 1)
    /\ budget' = IF Outermost THEN CallBudget ELSE budget

\* The operation whose validation is next.
Validating == bundle.ops[Len(bundle.contexts) + 1]

\* validatePaymasterUserOp returned this context, and left the chain like this.
Validated(context, after) ==
    LET contexts == Append(bundle.contexts, context)
        last == Len(contexts) = Len(bundle.ops)
    IN  /\ In("validate")
        /\ bundle' = [bundle EXCEPT
               !.contexts = contexts,
               !.phase = IF last THEN "call" ELSE "validate",
               !.saved = IF last THEN Append(bundle.saved, after) ELSE bundle.saved]
        /\ chain' = after
        /\ UNCHANGED <<outer, budget>>

\* The account's call returned; if it failed, nothing of it is left.
CallReturns(success) ==
    /\ In("call")
    /\ chain' = IF success THEN chain ELSE bundle.saved[2]
    /\ bundle' = [bundle EXCEPT !.phase = "postOp"]
    /\ UNCHANGED <<outer, budget>>

\* The first postOp made the chain look like this; the inner call goes on.
PostOpReturns(after) ==
    /\ In("postOp")
    /\ chain' = after
    /\ bundle' = [bundle EXCEPT !.phase = "settle"]
    /\ UNCHANGED <<outer, budget>>

LastSettles == Len(bundle.ops) = 1

\* The inner call returned, or the second postOp did.  The next operation, if
\* there is one, is executed on the chain as it is now.
Settled(after) ==
    /\ bundle.phase \in {"settle", "postOpReverted"}
    /\ chain' = after
    /\ IF LastSettles THEN Leave
       ELSE /\ bundle' = [bundle EXCEPT !.phase = "call", !.ops = Tail(@),
                                        !.contexts = Tail(@), !.saved[2] = after]
            /\ UNCHANGED <<outer, budget>>

Inside == bundle.phase \in {"call", "postOp", "settle"}

\* Mutant: what the inner call did is not undone.
InnerRevertsKeeping ==
    /\ Inside
    /\ bundle' = [bundle EXCEPT !.phase = "postOpReverted"]
    /\ UNCHANGED <<chain, outer, budget>>

\* The inner call reverts: postOp failed, or it ran out of its gas or prefund.
InnerReverts ==
    /\ Inside
    /\ chain' = bundle.saved[2]
    /\ bundle' = [bundle EXCEPT !.phase = "postOpReverted"]
    /\ UNCHANGED <<outer, budget>>

\* A validation or a second postOp failed, or the call ran out of gas.
BundleReverts ==
    /\ ~In("idle")
    /\ chain' = bundle.saved[1]
    /\ Leave

=============================================================================
