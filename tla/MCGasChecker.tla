---------------------------- MODULE MCGasChecker ----------------------------
(***************************************************************************)
(* A small instance of GasChecker: two files as in gascalc, the warmup and *)
(* the simple account, with counts up to two, and a program that deploys   *)
(* a contract meanwhile.                                                   *)
(***************************************************************************)
EXTENDS GasChecker

CONSTANTS warmup, simple, runner, other

TestRow(count, diff, added) == [count |-> count, diffLastGas |-> diff, added |-> added]

MCTest ==
    << [file |-> warmup, rows |-> <<TestRow(1, FALSE, FALSE)>>],
       [file |-> simple, rows |-> <<TestRow(1, FALSE, TRUE), TestRow(2, TRUE, TRUE)>>] >>

MCContract == {EntryPoint, AccountFactory}

=============================================================================
