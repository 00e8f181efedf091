------------------------------ MODULE AvatarRow ------------------------------
(***************************************************************************)
(* One row of the avatars table and the statements the repository runs on  *)
(* it (internal/repository/postgres/avatar.go), as operators from a row to *)
(* a row.  A statement whose WHERE clause matches nothing returns the row  *)
(* unchanged; the code turns that case into an error, and the predicate    *)
(* named after the statement ("...Matches") says when it does not.         *)
(*                                                                         *)
(* Dimensions, names and timestamps are left out: no decision reads them.  *)
(***************************************************************************)

CONSTANTS
    Thumb,      \* thumbnail objects of one avatar, one per label and format
    Original    \* the object holding the uploaded image

ASSUME KeyAssumption == Original \notin Thumb

\* The S3 keys that belong to one avatar.  Every key contains the avatar's
\* id, so two avatars never share one.
Key == Thumb \cup {Original}

Status == {"pending", "completed", "failed"}

\* state: no row, a row with deleted_at NULL, a row with deleted_at set.
\* thumbs: the keys stored in thumbnail_s3_keys.
Row == [state : {"absent", "live", "deleted"},
        status : Status,
        thumbs : {{}, Thumb}]

NoRow == [state |-> "absent", status |-> "pending", thumbs |-> {}]

Live(r) == r.state = "live"

-----------------------------------------------------------------------------

\* Mutant of Insert: the row starts with the status the API shows, not "pending".
InsertShownStatus == [state |-> "live", status |-> "processing", thumbs |-> {}]

Insert == [state |-> "live", status |-> "pending", thumbs |-> {}]

DeleteHard(r) == NoRow

\* Mutant of SoftDeleteMatches: the affected-row count is not looked at.
SoftDeleteUncounted(r) == r.state # "absent"

SoftDeleteMatches(r) == Live(r)

SoftDelete(r) == IF Live(r) THEN [r EXCEPT !.state = "deleted"] ELSE r

RestoreSoftDeleted(r) ==
    IF r.state = "deleted" THEN [r EXCEPT !.state = "live"] ELSE r

UpdateProcessingResult(r) ==
    IF Live(r) THEN [r EXCEPT !.thumbs = Thumb, !.status = "completed"] ELSE r

SetProcessingStatus(r, status) ==
    IF Live(r) THEN [r EXCEPT !.status = status] ELSE r

-----------------------------------------------------------------------------

\* Mutant of AllObjectKeys: the thumbnails are left out of the cleanup.
OnlyOriginalKey(r) == {Original}

\* The keys a delete event lists (models.Avatar.AllObjectKeys).
AllObjectKeys(r) == {Original} \cup r.thumbs

==============================================================================
