-------------------------- MODULE MCPhantomDaemon --------------------------
(***************************************************************************)
(* The instances of PhantomDaemon that TLC explores: accounts are model    *)
(* values and interchangeable.                                             *)
(***************************************************************************)
EXTENDS PhantomDaemon, TLC

NodeSymmetry == Permutations(Node)
=============================================================================
