-------------------------- MODULE MCTokenPaymaster --------------------------
(***************************************************************************)
(* Small instances of TokenPaymaster.                                      *)
(***************************************************************************)
EXTENDS TokenPaymaster

=============================================================================
