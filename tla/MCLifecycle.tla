---------------------------- MODULE MCLifecycle ----------------------------
(***************************************************************************)
(* The instance of Lifecycle that TLC explores: every program, and three   *)
(* inits, so that one can follow a cleanup that followed a second init.    *)
(***************************************************************************)
EXTENDS Lifecycle
=============================================================================
