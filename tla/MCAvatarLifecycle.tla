-------------------------- MODULE MCAvatarLifecycle --------------------------
(* Instances of AvatarLifecycle for TLC. *)
EXTENDS AvatarRefinement, TLC

CONSTANTS a1, a2, d1, d2, d3, w1, w2, t1, t2

\* Every avatar and every delete request belong to one user ...
OneOwner == [a \in Avatar |-> "u1"]
OneActor == [d \in Deleter |-> "u1"]
\* ... or the last request comes from somebody else.
TwoActors == [d \in Deleter |-> IF d = d2 THEN "u2" ELSE "u1"]

ConsumersAndRequests == Permutations(Worker) \cup Permutations(Deleter) \cup Permutations(Thumb)

==============================================================================
