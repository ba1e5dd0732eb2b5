------------------------- MODULE MCDepositPaymaster -------------------------
(***************************************************************************)
(* Small instances of DepositPaymaster: each account starts with the same  *)
(* number of tokens.                                                       *)
(***************************************************************************)
EXTENDS DepositPaymaster, TLC

CONSTANT TokensEach

MCInitialTokens == [a \in Holder |-> IF a \in Account THEN TokensEach ELSE 0]

AccountSymmetry == Permutations(Account)

=============================================================================
