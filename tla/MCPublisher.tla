----------------------------- MODULE MCPublisher -----------------------------
(* Two goroutines that share a publisher, for TLC. *)
EXTENDS Publisher

CONSTANTS g1, g2

==============================================================================
