------------------------------- MODULE UserOp -------------------------------
(***************************************************************************)
(* Filling, hashing and signing of user operations, as test/UserOp.ts and  *)
(* its copy ICSOCstuff/UserOp.ts do it.                                    *)
(*                                                                         *)
(* An operation is a record; Null is the value of a field that the caller  *)
(* left out, null or undefined.  A hash is what was hashed, and an ABI     *)
(* encoding is the record of the fields that it encodes.                   *)
(***************************************************************************)
EXTENDS Integers

CONSTANTS
    Null,
    AddressZero,
    NoBytes       \* '0x'

Field ==
    {"sender", "nonce", "initCode", "callData", "callGasLimit", "verificationGasLimit",
     "preVerificationGas", "maxFeePerGas", "maxPriorityFeePerGas", "paymasterAndData",
     "signature"}

\* The fields of type bytes.
Bytes == {"initCode", "callData", "paymasterAndData", "signature"}

Keccak(x) == <<"keccak256", x>>

-----------------------------------------------------------------------------
Encode(op, fields, forSignature) ==
    [f \in fields |-> IF forSignature /\ f \in Bytes THEN Keccak(op[f]) ELSE op[f]]

PackUserOp(op, forSignature) ==
    IF forSignature
    THEN [f \in Field \ {"signature"} |-> op[f]]
    ELSE Encode(op, Field, forSignature)

PackUserOp1(op) == Encode(op, Field \ {"signature"}, TRUE)

GetUserOpHash(op, entryPoint, chainId) ==
    Keccak(<<Keccak(PackUserOp(op, TRUE)), entryPoint, chainId>>)

SignMessage(signer, message) == <<signer, message>>

\* signUserOp, and the end of fillAndSign.
SignUserOp(op, signer, entryPoint, chainId) ==
    [op EXCEPT !.signature = SignMessage(signer, GetUserOpHash(op, entryPoint, chainId))]

-----------------------------------------------------------------------------
DefaultsForUserOp ==
    [sender |-> AddressZero,
     nonce |-> 0,
     initCode |-> NoBytes,
     callData |-> NoBytes,
     callGasLimit |-> 0,
     verificationGasLimit |-> 100000,
     preVerificationGas |-> 21000,
     maxFeePerGas |-> 0,
     maxPriorityFeePerGas |-> 10^9,
     paymasterAndData |-> NoBytes,
     signature |-> NoBytes]

Given(value, default) == IF value = Null THEN default ELSE value

FillUserOpDefaults(op) == [f \in Field |-> Given(op[f], DefaultsForUserOp[f])]

(***************************************************************************)
(* The parts of fillUserOp, between its questions to the node.  The answer *)
(* of the node is an argument.  The cost of the call data, which replaces  *)
(* a preVerificationGas of zero, is left out: no caller gives that.        *)
(***************************************************************************)
FillInitCode(op, sender, initEstimate) ==
    [op EXCEPT !.nonce = Given(@, 0),
               !.sender = Given(@, sender),
               !.verificationGasLimit = Given(@, DefaultsForUserOp.verificationGasLimit + initEstimate)]

FillNonce(op, nonce) == [op EXCEPT !.nonce = Given(@, nonce)]

FillCallGas(op, estimate) ==
    [op EXCEPT !.callGasLimit = IF op.callData = Null THEN @ ELSE Given(@, estimate)]

FillFees(op, baseFee) ==
    LET priority == Given(op.maxPriorityFeePerGas, DefaultsForUserOp.maxPriorityFeePerGas)
    IN  [op EXCEPT !.maxFeePerGas = Given(@, baseFee + priority),
                   !.maxPriorityFeePerGas = priority]

\* What fillUserOp does after its last question.
FillRest(op, estimate, baseFee) == FillUserOpDefaults(FillFees(FillCallGas(op, estimate), baseFee))

=============================================================================
