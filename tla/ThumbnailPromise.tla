--------------------------- MODULE ThumbnailPromise ---------------------------
(***************************************************************************)
(* What a client that asks for a size may rely on: the thumbnails of an    *)
(* avatar that is shown as completed are all there, and stay there until   *)
(* a delete is acknowledged.  How the worker gets them there, and how      *)
(* often it tries, is left open.                                           *)
(***************************************************************************)
CONSTANTS Avatar, Thumb

VARIABLE gallery   \* the stored thumbnails of each avatar, and what it says of them

\* open: not shown as completed.  deleted: for good.
Shelf == [stage : {"open", "listed", "deleted"}, stored : SUBSET Thumb]

Init == gallery = [a \in Avatar |-> [stage |-> "open", stored |-> {}]]

Becomes(a, stage, stored) ==
    gallery' = [gallery EXCEPT ![a] = [stage |-> stage, stored |-> stored]]

\* Attempts store and roll back while nothing is listed yet, and late ones when
\* the avatar is gone, as the cleanup does.
Store(a, t) ==
    /\ gallery[a].stage # "listed"
    /\ Becomes(a, gallery[a].stage, gallery[a].stored \cup {t})

Remove(a, t) ==
    /\ gallery[a].stage # "listed"
    /\ Becomes(a, gallery[a].stage, gallery[a].stored \ {t})

\* Only a complete set is listed, once and for all.
List(a) ==
    /\ gallery[a].stage = "open"
    /\ gallery[a].stored = Thumb
    /\ Becomes(a, "listed", Thumb)

Delete(a) ==
    /\ gallery[a].stage # "deleted"
    /\ Becomes(a, "deleted", gallery[a].stored)

Step(a) ==
    \/ \E t \in Thumb : Store(a, t) \/ Remove(a, t)
    \/ List(a)
    \/ Delete(a)

Next == \E a \in Avatar : Step(a)

Spec == Init /\ [][Next]_gallery

===============================================================================
