---------------------------- MODULE MCUserOpQueue ---------------------------
(***************************************************************************)
(* A small instance of UserOpQueue: two queues, and two accounts that send *)
(* through either.                                                         *)
(***************************************************************************)
EXTENDS UserOpQueue

=============================================================================
