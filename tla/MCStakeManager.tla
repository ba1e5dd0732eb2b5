--------------------------- MODULE MCStakeManager ---------------------------
(***************************************************************************)
(* A small instance of StakeManager: two addresses, three wei of which a   *)
(* uint112 holds two, two delays, time enough to unlock and withdraw, and  *)
(* withdrawals nested inside of withdrawals.                               *)
(***************************************************************************)
EXTENDS StakeManager

MCAmounts == 0..2
MCDelays == {1, 2}

=============================================================================
