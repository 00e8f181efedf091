--------------------------- MODULE AvatarRefinement ---------------------------
(***************************************************************************)
(* AvatarLifecycle implements AvatarPromise: the answer is what the upload *)
(* request says, an avatar is shown while its row is live, and it is gone  *)
(* when it is not and a delete request has been answered with success.     *)
(***************************************************************************)
EXTENDS AvatarLifecycle

Answer(a) ==
    CASE upload[a] = "acked" -> "acked"
      [] upload[a] \in {"failed", "aborted"} -> "failed"
      [] OTHER -> "open"

Shown(a) ==
    CASE Live(row[a]) -> "shown"
      [] ~Live(row[a]) /\ DeleteAcked(a) -> "gone"
      [] row[a].state = "absent" /\ ~DeleteAcked(a) -> "none"
      [] OTHER -> "hidden"

Stored(a) == Original \in s3[a]

OwnersView ==
    [a \in Avatar |-> [answer |-> Answer(a), shown |-> Shown(a), stored |-> Stored(a)]]

Promise == INSTANCE AvatarPromise WITH view <- OwnersView

\* Whatever fails, crashes, is delivered twice or rolls back, the owner of an
\* avatar sees what AvatarPromise allows: nothing acknowledged disappears
\* but by an acknowledged delete (AvatarService.Upload, deleteAvatarWithPublish,
\* ProcessAvatarUpload, ProcessAvatarDelete).
ImplementsPromise == Promise!Spec

-------------------------------------------------------------------------------
(* What the refinement needs beyond IInv.                                   *)

\* Once the row is inserted only the request's own rollback takes it away, and
\* only an acknowledged delete takes the original away.
KeptFromInsertOn ==
    \A a \in Avatar : upload[a] \in {"publish", "acked"} =>
        /\ row[a].state # "absent"
        /\ DeleteAcked(a) \/ Original \in s3[a]

===============================================================================
