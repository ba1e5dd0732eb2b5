-------------------------- MODULE MCValidationData --------------------------
(***************************************************************************)
(* A small instance of ValidationData: all words of three addresses and    *)
(* four timestamps.                                                        *)
(***************************************************************************)
EXTENDS ValidationData

=============================================================================
