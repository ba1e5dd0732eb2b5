---------------------------- MODULE MCEntryPoint ----------------------------
(***************************************************************************)
(* Small instances of EntryPoint.  Account 1 sends operations and 2 is a   *)
(* paymaster.  A gas unit costs one wei, so that an operation the account  *)
(* pays for itself needs a prefund of 2, and a sponsored one of 4.         *)
(***************************************************************************)
EXTENDS EntryPoint

Operation(paymaster, initCode, callGas) ==
    [sender |-> 1, paymaster |-> paymaster, initCode |-> initCode, callData |-> callGas > 0,
     callGasLimit |-> callGas, verificationGasLimit |-> 1, preVerificationGas |-> 0,
     maxFeePerGas |-> 1, maxPriorityFeePerGas |-> 1]

Paying == Operation(Nobody, FALSE, 1)
Sponsored == Operation(2, FALSE, 1)

\* It creates its account and does nothing else; BaseFee lowers its price.
Creating == [Operation(Nobody, TRUE, 0) EXCEPT !.preVerificationGas = 1,
                                               !.maxFeePerGas = 2]

\* Its gas does not fit.
Oversized == [Paying EXCEPT !.callGasLimit = MaxUint120 + 1]

Aggregated == [Valid EXCEPT !.aggregator = "agg"]

\* Not in its time range at first.
NotDue == [Valid EXCEPT !.validAfter = MaxTime]

Group(aggregator, userOps) == [aggregator |-> aggregator, userOps |-> userOps]

MCBatches == {<<Paying, Sponsored>>, <<Creating>>, <<Oversized>>}
MCGroups == {<<Group("agg", <<Creating>>), Group(NoAggregator, <<Paying>>)>>}
MCVerdicts == {Valid, Aggregated, NotDue}

=============================================================================
