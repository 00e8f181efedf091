---------------------------- MODULE MCPlaceholder -----------------------------
(* Instances of Placeholder for TLC. *)
EXTENDS Placeholder, TLC

CONSTANTS r1, r2, g1, v1, v2

==============================================================================
