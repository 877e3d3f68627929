---------------------------- MODULE MCTreeLocks ----------------------------
(***************************************************************************)
(* The instances of TreeLocks that TLC explores: threads and nodes are     *)
(* model values.  No symmetry: the runs check liveness.                    *)
(***************************************************************************)
EXTENDS TreeLocks
=============================================================================
