----------------------------- MODULE MCNetLoop -----------------------------
(***************************************************************************)
(* The instances of NetLoop that TLC explores: connections are model       *)
(* values.  No symmetry: the runs check liveness.                          *)
(***************************************************************************)
EXTENDS NetLoop
=============================================================================
