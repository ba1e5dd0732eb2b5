----------------------------- MODULE MCAASigner -----------------------------
(***************************************************************************)
(* A small instance of AASigner: two calls, of a transaction that leaves   *)
(* everything to the signer or of one that sets its nonce, its gas limit   *)
(* and its price.                                                          *)
(***************************************************************************)
EXTENDS AASigner, TLC

CONSTANTS d1, d2  \* call data

Plain ==
    [data |-> d1, nonce |-> Null, gasLimit |-> Null, gasPrice |-> Null,
     maxPriorityFeePerGas |-> Null, maxFeePerGas |-> Null]

Detailed ==
    [data |-> d2, nonce |-> 0, gasLimit |-> 5, gasPrice |-> 2,
     maxPriorityFeePerGas |-> 1, maxFeePerGas |-> Null]

CONSTANTS c1, c2

MCTx == c1 :> {Plain} @@ c2 :> {Plain, Detailed}

=============================================================================
