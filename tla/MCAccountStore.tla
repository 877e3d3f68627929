--------------------------- MODULE MCAccountStore ---------------------------
(***************************************************************************)
(* The instances of AccountStore that TLC explores: a response that is     *)
(* overrun by the third account.                                           *)
(***************************************************************************)
EXTENDS AccountStore, TLC

Symmetry == Permutations(Thread)
=============================================================================
