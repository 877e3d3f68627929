---------------------------- MODULE MCLegacyLoop ----------------------------
(***************************************************************************)
(* The instances of LegacyLoop that TLC explores: one slot, two            *)
(* descriptors and three connections, so that the table fills, a           *)
(* connection is lost to it and the descriptors run out; and two slots for *)
(* one client that stops the service of another.                           *)
(***************************************************************************)
EXTENDS LegacyLoop
=============================================================================
