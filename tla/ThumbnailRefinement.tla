-------------------------- MODULE ThumbnailRefinement --------------------------
(***************************************************************************)
(* AvatarLifecycle implements ThumbnailPromise where attempts at one       *)
(* upload do not overlap (NoOverlap): a row lists what its status says,    *)
(* and it is deleted for good once a delete request was acknowledged.      *)
(***************************************************************************)
EXTENDS AvatarLifecycle

Stage(a) ==
    CASE DeleteAcked(a) -> "deleted"
      [] ~DeleteAcked(a) /\ row[a].status = "completed" -> "listed"
      [] OTHER -> "open"

Gallery == [a \in Avatar |-> [stage |-> Stage(a), stored |-> s3[a] \cap Thumb]]

Thumbnails == INSTANCE ThumbnailPromise WITH gallery <- Gallery

\* What a completed row lists is complete when it is listed, and nobody writes
\* or removes it afterwards, neither a retry, a rollback nor a delete request
\* that takes its soft delete back, until a delete is acknowledged
\* (ProcessAvatarUpload, deleteAvatarWithPublish).
KeepsThumbnails == Thumbnails!Spec

===============================================================================
