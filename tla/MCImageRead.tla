----------------------------- MODULE MCImageRead ------------------------------
(* Instances of ImageRead for TLC. *)
EXTENDS ImageRead, ThumbnailRefinement, TLC

CONSTANTS a1, d1, w1, w2, t1, t2, r1

OneOwner == [a \in Avatar |-> "u1"]
OneActor == [d \in Deleter |-> "u1"]

ReplicasAndSizes == Permutations(Worker) \cup Permutations(Thumb)

==============================================================================
