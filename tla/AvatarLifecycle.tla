--------------------------- MODULE AvatarLifecycle ---------------------------
(***************************************************************************)
(* The life of an avatar across the HTTP server, Postgres, S3, RabbitMQ    *)
(* and the worker.                                                         *)
(*                                                                         *)
(*  - an upload request stores the original, inserts the row and publishes *)
(*    an upload event (AvatarService.Upload), rolling back on an error;    *)
(*  - a delete request reads the row, soft-deletes it and publishes a      *)
(*    delete event (AvatarService.DeleteByID), restoring on an error;      *)
(*  - a worker replica consumes both queues, one event at a time from each *)
(*    (Qos 1), with manual acknowledgement, delayed retries and a DLQ.     *)
(*                                                                         *)
(* Every call to S3, Postgres or RabbitMQ is an action of its own, so all  *)
(* interleavings of requests and replicas are explored.                    *)
(***************************************************************************)
EXTENDS AvatarEvents

CONSTANTS
    Deleter,    \* delete requests, each for one avatar
    Worker,     \* worker replicas
    Owner,      \* the user of each avatar
    Actor,      \* the user of each delete request (X-User-ID)
    Broken,     \* avatars whose image imaging.Decode rejects
    FaultKinds, \* the faults that may happen
    MaxFaults   \* how many of them happen in one behaviour

ASSUME BrokenAssumption == Broken \subseteq Avatar

ASSUME MaxFaultsAssumption == MaxFaults \in Nat

VARIABLES
    row,        \* the avatars table
    s3,         \* the keys of each avatar that are in the bucket
    upload,     \* where the upload request of each avatar is
    deletion,   \* the delete requests: pc, target, and the row they have read
    mainQ,      \* events ready for delivery, in both main queues
    retryQ,     \* events waiting in a retry.N queue for their TTL
    dlq,        \* events in the dead-letter queues
    task,       \* what each consumer of each replica is doing
    conn,       \* the AMQP session of each replica
    faults      \* faults that have happened

serverVars == <<upload, deletion>>
queueVars  == <<mainQ, retryQ, dlq>>
workerVars == <<task, conn>>
vars == <<row, s3, upload, deletion, mainQ, retryQ, dlq, task, conn, faults>>

\* Each replica runs one consumeLoop per main queue.
Consumer == Op \X Worker

UploadPc == {"idle", "insert", "publish", "acked",
             "undoRow", "undoObject", "failed", "aborted"}

DeletePc == {"idle", "softDelete", "publish", "restore",
             "acked", "failed", "aborted"}

Deletion == [pc : DeletePc, av : Avatar, seen : Row]

TaskPc == {"idle", "load", "fetch", "thumbs", "undo",
           "sweep", "report", "ack", "nack"}

\* ev: the delivery.  keys: the uploadedKeys of an upload task, the keys still
\* to remove of a delete task.  err: a removal has failed.  dead: the context
\* of the handler has ended.
Task == [pc : TaskPc, ev : Event \cup {NoEvent}, keys : SUBSET Key,
         err : BOOLEAN, dead : BOOLEAN]

IdleTask == [pc |-> "idle", ev |-> NoEvent, keys |-> {},
             err |-> FALSE, dead |-> FALSE]

TypeOK ==
    /\ row \in [Avatar -> Row]
    /\ s3 \in [Avatar -> SUBSET Key]
    /\ upload \in [Avatar -> UploadPc]
    /\ deletion \in [Deleter -> Deletion]
    /\ mainQ \in [Event -> Nat]
    /\ retryQ \in [Event -> Nat]
    /\ dlq \in [Event -> Nat]
    /\ task \in [Consumer -> Task]
    /\ \A c \in Consumer : task[c].pc # "idle" =>
           task[c].ev \in Event /\ task[c].ev.op = c[1]
    /\ conn \in [Worker -> {"up", "lost"}]
    /\ faults \in 0 .. MaxFaults

Init ==
    /\ row = [a \in Avatar |-> NoRow]
    /\ s3 = [a \in Avatar |-> {}]
    /\ upload = [a \in Avatar |-> "idle"]
    /\ deletion \in [Deleter -> {[pc |-> "idle", av |-> a, seen |-> NoRow] :
                                    a \in Avatar}]
    /\ mainQ = EmptyQueue
    /\ retryQ = EmptyQueue
    /\ dlq = EmptyQueue
    /\ task = [c \in Consumer |-> IdleTask]
    /\ conn = [w \in Worker |-> "up"]
    /\ faults = 0

-----------------------------------------------------------------------------
(* Faults and the results of a call.                                       *)

Fault(kind) ==
    /\ kind \in FaultKinds
    /\ faults < MaxFaults
    /\ faults' = faults + 1

\* A call to Postgres or S3 succeeds, fails without an effect, or takes effect
\* although the caller gets an error (the answer is lost: "unsure").
Call(kind, result) ==
    \/ result = "ok" /\ UNCHANGED faults
    \/ result = "error" /\ Fault(kind)
    \/ result = "unsure" /\ Fault("unsure")

\* A read has no effect to be unsure of.
ReadResult == {"ok", "error"}
WriteResult == {"ok", "error", "unsure"}

\* The same for a call bound to the handler's context: it cannot succeed once
\* the context has ended.
TaskCall(c, kind, result) ==
    \/ ~task[c].dead /\ Call(kind, result)
    \/ task[c].dead /\ result = "error" /\ UNCHANGED faults
    \/ task[c].dead /\ result = "unsure" /\ Fault("unsure")

-----------------------------------------------------------------------------
(* The upload request.  Validation of the body rejects a request before it  *)
(* has any effect and is left out.                                         *)

UploadPut(a) ==
    /\ upload[a] = "idle"
    /\ \E r \in WriteResult :
         /\ Call("s3", r)
         /\ s3' = IF r = "error" THEN s3 ELSE [s3 EXCEPT ![a] = @ \cup {Original}]
         /\ upload' = [upload EXCEPT ![a] = IF r = "ok" THEN "insert" ELSE "failed"]
    /\ UNCHANGED <<row, deletion, queueVars, workerVars>>

UploadInsert(a) ==
    /\ upload[a] = "insert"
    /\ \E r \in WriteResult :
         /\ Call("db", r)
         /\ row' = IF r = "error" THEN row ELSE [row EXCEPT ![a] = Insert]
         /\ upload' = [upload EXCEPT ![a] = IF r = "ok" THEN "publish" ELSE "undoObject"]
    /\ UNCHANGED <<s3, deletion, queueVars, workerVars>>

\* PublishJSON uses no publisher confirms: nil only says that the frames were
\* written, so the event may still be lost with the connection.
UploadPublish(a) ==
    /\ upload[a] = "publish"
    /\ \/ /\ UNCHANGED faults
          /\ mainQ' = Put(mainQ, AvatarUploadEvent(a))
          /\ upload' = [upload EXCEPT ![a] = "acked"]
       \/ /\ Fault("lost")
          /\ upload' = [upload EXCEPT ![a] = "acked"]
          /\ UNCHANGED mainQ
       \/ /\ Fault("publish")
          /\ upload' = [upload EXCEPT ![a] = "undoRow"]
          /\ UNCHANGED mainQ
    /\ UNCHANGED <<row, s3, deletion, retryQ, dlq, workerVars>>

UploadUndoRow(a) ==
    /\ upload[a] = "undoRow"
    /\ \E r \in WriteResult :
         /\ Call("db", r)
         /\ row' = IF r = "error" THEN row ELSE [row EXCEPT ![a] = DeleteHard(@)]
    /\ upload' = [upload EXCEPT ![a] = "undoObject"]
    /\ UNCHANGED <<s3, deletion, queueVars, workerVars>>

UploadUndoObject(a) ==
    /\ upload[a] = "undoObject"
    /\ \E r \in WriteResult :
         /\ Call("s3", r)
         /\ s3' = IF r = "error" THEN s3 ELSE [s3 EXCEPT ![a] = @ \ {Original}]
    /\ upload' = [upload EXCEPT ![a] = "failed"]
    /\ UNCHANGED <<row, deletion, queueVars, workerVars>>

\* The replica dies, or the client goes away and the request's context ends:
\* none of the remaining calls, the rollback included, takes effect.
UploadAbort(a) ==
    /\ upload[a] \in {"insert", "publish", "undoRow", "undoObject"}
    /\ Fault("abort")
    /\ upload' = [upload EXCEPT ![a] = "aborted"]
    /\ UNCHANGED <<row, s3, deletion, queueVars, workerVars>>

-----------------------------------------------------------------------------
(* The delete request (DeleteByID; DeleteLatestForUser differs only in how  *)
(* it finds the row, among the live rows of its own user).                  *)

DeleteRead(d) ==
    /\ deletion[d].pc = "idle"
    /\ \E r \in ReadResult :
         /\ Call("db", r)
         /\ LET a == deletion[d].av
                allowed == Live(row[a]) /\ Owner[a] = Actor[d]
            IN  deletion' = [deletion EXCEPT ![d] =
                    [pc   |-> IF r = "ok" /\ allowed THEN "softDelete" ELSE "failed",
                     av   |-> a,
                     seen |-> IF r = "ok" /\ allowed THEN row[a] ELSE NoRow]]
    /\ UNCHANGED <<row, s3, upload, queueVars, workerVars>>

DeleteSoft(d) ==
    /\ deletion[d].pc = "softDelete"
    /\ \E r \in WriteResult :
         LET a == deletion[d].av IN
         /\ Call("db", r)
         /\ row' = IF r = "error" THEN row ELSE [row EXCEPT ![a] = SoftDelete(@)]
         /\ deletion' = [deletion EXCEPT ![d].pc =
                IF r = "ok" /\ SoftDeleteMatches(row[a]) THEN "publish" ELSE "failed"]
    /\ UNCHANGED <<s3, upload, queueVars, workerVars>>

\* The event lists the keys of the row as it was read before the soft delete.
DeletePublish(d) ==
    /\ deletion[d].pc = "publish"
    /\ \/ /\ UNCHANGED faults
          /\ mainQ' = Put(mainQ, AvatarDeleteEvent(deletion[d].av,
                                                   AllObjectKeys(deletion[d].seen)))
          /\ deletion' = [deletion EXCEPT ![d].pc = "acked"]
       \/ /\ Fault("lost")
          /\ deletion' = [deletion EXCEPT ![d].pc = "acked"]
          /\ UNCHANGED mainQ
       \/ /\ Fault("publish")
          /\ deletion' = [deletion EXCEPT ![d].pc = "restore"]
          /\ UNCHANGED mainQ
    /\ UNCHANGED <<row, s3, upload, retryQ, dlq, workerVars>>

DeleteRestore(d) ==
    /\ deletion[d].pc = "restore"
    /\ \E r \in WriteResult :
         /\ Call("db", r)
         /\ row' = IF r = "error" THEN row
                   ELSE [row EXCEPT ![deletion[d].av] = RestoreSoftDeleted(@)]
    /\ deletion' = [deletion EXCEPT ![d].pc = "failed"]
    /\ UNCHANGED <<s3, upload, queueVars, workerVars>>

DeleteAbort(d) ==
    /\ deletion[d].pc \in {"softDelete", "publish", "restore"}
    /\ Fault("abort")
    /\ deletion' = [deletion EXCEPT ![d].pc = "aborted"]
    /\ UNCHANGED <<row, s3, upload, queueVars, workerVars>>

-----------------------------------------------------------------------------
(* Deliveries.                                                             *)

\* Mutant of StartKeys: the rollback of an upload task covers the whole event.
StartKeysAll(e) == e.keys

\* The keys a handler starts from: nothing uploaded, or everything to remove.
StartKeys(e) == IF e.op = "delete" THEN e.keys ELSE {}

StartPc(e) == IF e.op = "delete" THEN "sweep" ELSE "load"

\* Qos(1): the broker hands a consumer the next event once it has settled the
\* previous one, and only while the session is up.
Receive(c) ==
    /\ task[c].pc = "idle"
    /\ conn[c[2]] = "up"
    /\ \E e \in Event :
         /\ e.op = c[1] /\ mainQ[e] > 0
         /\ mainQ' = Take(mainQ, e)
         /\ task' = [task EXCEPT ![c] =
                [pc |-> StartPc(e), ev |-> e, keys |-> StartKeys(e),
                 err |-> FALSE, dead |-> FALSE]]
    /\ UNCHANGED <<row, s3, serverVars, retryQ, dlq, conn, faults>>

\* The handler's context ends: the handle timeout, a shutdown, or the end of
\* the session, which the replica notices some time after the broker.
ContextEnds(c) ==
    /\ task[c].pc \notin {"idle", "ack", "nack"}
    /\ ~task[c].dead
    /\ \/ conn[c[2]] = "up" /\ Fault("cancel")
       \/ conn[c[2]] = "lost" /\ UNCHANGED faults
    /\ task' = [task EXCEPT ![c].dead = TRUE]
    /\ UNCHANGED <<row, s3, serverVars, queueVars, conn>>

-----------------------------------------------------------------------------
(* ProcessAvatarUpload.                                                    *)

\* Mutant of NeedsProcessing: a row marked failed counts as done.
NeedsProcessingOnce(r) == Live(r) /\ r.status = "pending"

NeedsProcessing(r) == Live(r) /\ r.status # "completed"

JobLoad(c) ==
    /\ task[c].pc = "load"
    /\ \E r \in ReadResult :
         /\ TaskCall(c, "db", r)
         /\ task' = [task EXCEPT ![c].pc =
                CASE r = "error" -> "report"
                  [] r = "ok" /\ NeedsProcessing(row[task[c].ev.av]) -> "fetch"
                  [] OTHER -> "ack"]
    /\ UNCHANGED <<row, s3, serverVars, queueVars, conn>>

JobFetch(c) ==
    /\ task[c].pc = "fetch"
    /\ \E r \in ReadResult :
         LET a == task[c].ev.av IN
         /\ TaskCall(c, "s3", r)
         /\ task' = [task EXCEPT ![c].pc =
                IF r = "ok" /\ Original \in s3[a] /\ a \notin Broken
                THEN "thumbs" ELSE "undo"]
    /\ UNCHANGED <<row, s3, serverVars, queueVars, conn>>

\* Thumbnail keys depend only on the avatar, the label and the format: every
\* attempt writes the same ones.
JobPutThumb(c) ==
    /\ task[c].pc = "thumbs"
    /\ \E t \in Thumb \ task[c].keys, r \in WriteResult :
         LET a == task[c].ev.av IN
         /\ TaskCall(c, "s3", r)
         /\ s3' = IF r = "error" THEN s3 ELSE [s3 EXCEPT ![a] = @ \cup {t}]
         /\ task' = IF r = "ok" THEN [task EXCEPT ![c].keys = @ \cup {t}]
                                ELSE [task EXCEPT ![c].pc = "undo"]
    /\ UNCHANGED <<row, serverVars, queueVars, conn>>

\* Mutant of AllUploaded: the row is updated after the first thumbnail.
SomeUploaded(keys) == keys # {}

AllUploaded(keys) == keys = Thumb

JobSave(c) ==
    /\ task[c].pc = "thumbs"
    /\ AllUploaded(task[c].keys)
    /\ \E r \in WriteResult :
         LET a == task[c].ev.av IN
         /\ TaskCall(c, "db", r)
         /\ row' = IF r = "error" THEN row
                   ELSE [row EXCEPT ![a] = UpdateProcessingResult(@)]
         /\ task' = [task EXCEPT ![c].pc =
                IF r = "ok" /\ Live(row[a]) THEN "ack" ELSE "undo"]
    /\ UNCHANGED <<s3, serverVars, queueVars, conn>>

\* The rollback runs under context.WithoutCancel; its errors are only logged.
JobUndo(c) ==
    /\ task[c].pc = "undo"
    /\ \E k \in task[c].keys, r \in WriteResult :
         LET a == task[c].ev.av IN
         /\ Call("s3", r)
         /\ s3' = IF r = "error" THEN s3 ELSE [s3 EXCEPT ![a] = @ \ {k}]
         /\ task' = [task EXCEPT ![c].keys = @ \ {k}]
    /\ UNCHANGED <<row, serverVars, queueVars, conn>>

JobMarkFailed(c) ==
    /\ task[c].pc = "undo"
    /\ task[c].keys = {}
    /\ \E r \in WriteResult :
         LET a == task[c].ev.av IN
         /\ Call("db", r)
         /\ row' = IF r = "error" THEN row
                   ELSE [row EXCEPT ![a] = SetProcessingStatus(@, "failed")]
    /\ task' = [task EXCEPT ![c].pc = "report"]
    /\ UNCHANGED <<s3, serverVars, queueVars, conn>>

-----------------------------------------------------------------------------
(* ProcessAvatarDelete: every key is tried, the errors are joined.          *)

Swept(t, k, result) ==
    [t EXCEPT !.keys = @ \ {k}, !.err = IF result = "ok" THEN @ ELSE TRUE]

SweepRemove(c) ==
    /\ task[c].pc = "sweep"
    /\ \E k \in task[c].keys, r \in WriteResult :
         LET a == task[c].ev.av IN
         /\ TaskCall(c, "s3", r)
         /\ s3' = IF r = "error" THEN s3 ELSE [s3 EXCEPT ![a] = @ \ {k}]
         /\ task' = [task EXCEPT ![c] = Swept(task[c], k, r)]
    /\ UNCHANGED <<row, serverVars, queueVars, conn>>

\* Mutant of SweepVerdict: the joined error is dropped.
SweepAlwaysAcks(err) == "ack"

SweepVerdict(err) == IF err THEN "report" ELSE "ack"

SweepDone(c) ==
    /\ task[c].pc = "sweep"
    /\ task[c].keys = {}
    /\ task' = [task EXCEPT ![c].pc = SweepVerdict(task[c].err)]
    /\ UNCHANGED <<row, s3, serverVars, queueVars, conn, faults>>

-----------------------------------------------------------------------------
(* After the handler: republish with the handler's context, then settle.   *)

CanPublish(c) == ~task[c].dead /\ conn[c[2]] = "up"

Republish(c) ==
    /\ task[c].pc = "report"
    /\ CanPublish(c)
    /\ LET e == task[c].ev IN
         IF RetriesExhausted(e)
         THEN dlq' = Put(dlq, e) /\ UNCHANGED retryQ
         ELSE retryQ' = Put(retryQ, NextAttempt(e)) /\ UNCHANGED dlq
    /\ task' = [task EXCEPT ![c].pc = "ack"]
    /\ UNCHANGED <<row, s3, serverVars, mainQ, conn, faults>>

RepublishFails(c) ==
    /\ task[c].pc = "report"
    /\ ~CanPublish(c)
    /\ task' = [task EXCEPT ![c].pc = "nack"]
    /\ UNCHANGED <<row, s3, serverVars, queueVars, conn, faults>>

\* Ack, or Nack with requeue=false on a queue without a dead-letter exchange:
\* either way the broker forgets the delivery, if the session is still up.
Settle(c) ==
    /\ task[c].pc \in {"ack", "nack"}
    /\ task' = [task EXCEPT ![c] = IdleTask]
    /\ UNCHANGED <<row, s3, serverVars, queueVars, conn, faults>>

RetryExpires(e) ==
    /\ retryQ[e] > 0
    /\ retryQ' = Take(retryQ, e)
    /\ mainQ' = Put(mainQ, e)
    /\ UNCHANGED <<row, s3, serverVars, dlq, workerVars, faults>>

-----------------------------------------------------------------------------
(* Sessions and replicas.                                                  *)

\* e is at one of the two consumers of w, and the broker knows it.
Unacked(w, e) ==
    /\ conn[w] = "up"
    /\ task[<<e.op, w>>].pc # "idle"
    /\ task[<<e.op, w>>].ev = e

\* Deliveries the broker has had no answer for go back to their queue.
Requeued(w) == [e \in Event |-> IF Unacked(w, e) THEN mainQ[e] + 1 ELSE mainQ[e]]

\* The broker loses the replica, whose handlers go on for a while.
Disconnect(w) ==
    /\ conn[w] = "up"
    /\ Fault("disconnect")
    /\ conn' = [conn EXCEPT ![w] = "lost"]
    /\ mainQ' = Requeued(w)
    /\ UNCHANGED <<row, s3, serverVars, retryQ, dlq, task>>

\* Run returns once both loops have ended; the process exits and is restarted.
Restart(w) ==
    /\ conn[w] = "lost"
    /\ \A op \in Op : task[<<op, w>>].pc = "idle"
    /\ conn' = [conn EXCEPT ![w] = "up"]
    /\ UNCHANGED <<row, s3, serverVars, queueVars, task, faults>>

\* The process dies in the middle of whatever it was doing, and is restarted.
Crash(w) ==
    /\ \E op \in Op : task[<<op, w>>].pc # "idle"
    /\ Fault("crash")
    /\ mainQ' = Requeued(w)
    /\ task' = [c \in Consumer |-> IF c[2] = w THEN IdleTask ELSE task[c]]
    /\ conn' = [conn EXCEPT ![w] = "up"]
    /\ UNCHANGED <<row, s3, serverVars, retryQ, dlq>>

-----------------------------------------------------------------------------

UploadStep(a) ==
    \/ UploadPut(a) \/ UploadInsert(a) \/ UploadPublish(a)
    \/ UploadUndoRow(a) \/ UploadUndoObject(a) \/ UploadAbort(a)

DeleteStep(d) ==
    \/ DeleteRead(d) \/ DeleteSoft(d) \/ DeletePublish(d)
    \/ DeleteRestore(d) \/ DeleteAbort(d)

JobStep(c) ==
    \/ JobLoad(c) \/ JobFetch(c) \/ JobPutThumb(c) \/ JobSave(c)
    \/ JobUndo(c) \/ JobMarkFailed(c)

SweepStep(c) == SweepRemove(c) \/ SweepDone(c)

\* What the consumer itself does.
ConsumerStep(c) ==
    \/ Receive(c) \/ JobStep(c) \/ SweepStep(c)
    \/ Republish(c) \/ RepublishFails(c) \/ Settle(c)

ReplicaStep(w) == Disconnect(w) \/ Restart(w) \/ Crash(w)

Next ==
    \/ \E a \in Avatar : UploadStep(a)
    \/ \E d \in Deleter : DeleteStep(d)
    \/ \E c \in Consumer : ConsumerStep(c) \/ ContextEnds(c)
    \/ \E e \in Event : RetryExpires(e)
    \/ \E w \in Worker : ReplicaStep(w)

Spec == Init /\ [][Next]_vars

\* Goroutines that can run do run, the broker delivers what is ready and
\* expires what waits, and a replica that lost its session is restarted.
\* Requests are under no obligation: a client may never send one.
Fairness ==
    /\ \A c \in Consumer : WF_vars(ConsumerStep(c))
    /\ \A e \in Event : WF_vars(RetryExpires(e))
    /\ \A w \in Worker : WF_vars(Restart(w))

FairSpec == Spec /\ Fairness

-----------------------------------------------------------------------------
(* Properties.                                                             *)

Acked(a) == upload[a] = "acked"

\* A delete request of a has been answered with success.
DeleteAcked(a) == \E d \in Deleter : deletion[d].av = a /\ deletion[d].pc = "acked"

\* d has soft-deleted its row and has not yet heard from the broker.
Open(d) == deletion[d].pc \in {"publish", "restore"}

\* The upload event of a is queued, or a consumer that the broker still knows
\* holds it.
UploadEventExists(a) ==
    \/ \E e \in Event :
          e.op = "upload" /\ e.av = a /\ mainQ[e] + retryQ[e] + dlq[e] > 0
    \/ \E w \in Worker :
          /\ conn[w] = "up"
          /\ task[<<"upload", w>>].pc \notin {"idle", "ack", "nack"}
          /\ task[<<"upload", w>>].ev.av = a

\* An avatar whose upload was acknowledged and that is not deleted has its
\* original in the bucket, whatever rolls back, fails, crashes or is delivered
\* twice: GET falls back to the original for every size (buildFromOriginal),
\* so this is what makes an avatar servable.
AckedAvatarServable ==
    \A a \in Avatar : Acked(a) /\ Live(row[a]) => Original \in s3[a]

\* Once a delete was acknowledged no rollback of another delete request, no
\* redelivered event and no late worker brings the avatar back, and no delete
\* event exists for an avatar that could still come back.
DeleteIsFinal ==
    /\ \A a \in Avatar : DeleteAcked(a) => ~Live(row[a])
    /\ \A e \in Event : e.op = "delete" /\ mainQ[e] + retryQ[e] + dlq[e] > 0
           => ~Live(row[e.av])

\* A row shown as completed lists thumbnails that are in the bucket
\* (tryStoredThumbnail serves them without looking at the original).
CompletedHasThumbs ==
    \A a \in Avatar :
        Live(row[a]) /\ row[a].status = "completed" => Thumb \subseteq s3[a]

\* An acknowledged avatar that is not processed yet still has its event: in a
\* queue, at a consumer, or in the DLQ where an operator can find it.
NoLostJob ==
    \A a \in Avatar :
        Acked(a) /\ Live(row[a]) /\ row[a].status # "completed"
            => UploadEventExists(a)

\* The same for a delete event.
DeleteEventExists(a) ==
    \/ \E e \in Event :
          e.op = "delete" /\ e.av = a /\ mainQ[e] + retryQ[e] + dlq[e] > 0
    \/ \E w \in Worker :
          /\ conn[w] = "up"
          /\ task[<<"delete", w>>].pc \notin {"idle", "ack", "nack"}
          /\ task[<<"delete", w>>].ev.av = a

\* After an acknowledged delete the original is gone, or the event that removes
\* it is still there: in a queue, at a consumer, or in the DLQ.  A sweep that
\* failed for one key, died, or was delivered twice is never taken for done
\* (ProcessAvatarDelete joins its errors, consumeLoop acks last).
NoLostCleanup ==
    \A a \in Avatar :
        DeleteAcked(a) /\ Original \in s3[a] => DeleteEventExists(a)

\* Nothing about a is queued or being handled.
Quiet(a) ==
    /\ \A e \in Event : e.av = a => mainQ[e] + retryQ[e] + dlq[e] = 0
    /\ \A c \in Consumer : task[c].pc # "idle" => task[c].ev.av # a

\* After an acknowledged delete, when its events have been handled, no object
\* of the avatar is left in the bucket.
DeleteLeavesNothing ==
    \A a \in Avatar : DeleteAcked(a) /\ Quiet(a) => s3[a] = {}

\* The same for a delete whose first read saw the thumbnails the row lists in
\* the end: the worker did not finish between the read and the soft delete.
FreshDeleteLeavesNothing ==
    \A d \in Deleter :
        LET a == deletion[d].av
            fresh == /\ deletion[d].pc = "acked"
                     /\ deletion[d].seen.thumbs = row[a].thumbs
        IN  fresh /\ Quiet(a) => s3[a] = {}

InDLQ(op, a) == \E e \in Event : e.op = op /\ e.av = a /\ dlq[e] > 0

\* Every acknowledged upload ends for good: processed, deleted, or dead-lettered
\* after its retries.
UploadSettles ==
    \A a \in Avatar :
        Acked(a) ~> [](\/ ~Live(row[a])
                       \/ row[a].status = "completed"
                       \/ InDLQ("upload", a))

\* Every acknowledged delete gets the original out of the bucket for good, or
\* its event into the DLQ.
CleanedUp(a) == Original \notin s3[a] \/ InDLQ("delete", a)

OriginalRemoved ==
    \A a \in Avatar : DeleteAcked(a) ~> []CleanedUp(a)

-----------------------------------------------------------------------------
(* The inductive invariant behind AckedAvatarServable and DeleteIsFinal.   *)

\* Before its row is inserted an avatar cannot be the target of a delete.
NoRowNoDelete ==
    \A a \in Avatar : upload[a] \in {"idle", "insert"} =>
        /\ row[a].state = "absent"
        /\ \A d \in Deleter : deletion[d].av = a =>
               deletion[d].pc \in {"idle", "failed"}

\* The row is live, or a delete request may still restore it.
MayBeLive(a) ==
    Live(row[a]) \/ \E d \in Deleter : deletion[d].av = a /\ Open(d)

\* The original is stored before the row, and stays while the row is live or
\* can become live again.
OriginalKept ==
    /\ \A a \in Avatar : upload[a] = "insert" => Original \in s3[a]
    /\ \A a \in Avatar : upload[a] \in {"publish", "acked"} /\ MayBeLive(a)
           => Original \in s3[a]

\* A request that may still restore a row is the only one that has got past the
\* soft delete of that row.
OneDeleteAtATime ==
    \A d \in Deleter : Open(d) \/ deletion[d].pc = "acked" =>
        /\ ~Live(row[deletion[d].av])
        /\ \A other \in Deleter :
               other # d /\ deletion[other].av = deletion[d].av => ~Open(other)

\* Every delete event, queued or delivered, was published by a request that
\* can no longer restore the row.
DeleteEventsAcked ==
    /\ \A e \in Event :
           e.op = "delete" /\ (mainQ[e] > 0 \/ retryQ[e] > 0 \/ dlq[e] > 0)
               => DeleteAcked(e.av)
    /\ \A c \in Consumer :
           c[1] = "delete" /\ task[c].pc # "idle" => DeleteAcked(task[c].ev.av)

\* Only a delete task sweeps, and what an upload task rolls back are thumbnails.
TasksKeepToTheirKeys ==
    \A c \in Consumer :
        /\ task[c].pc = "sweep" => c[1] = "delete"
        /\ task[c].pc \in {"load", "fetch", "thumbs", "undo"} =>
               c[1] = "upload" /\ task[c].keys \subseteq Thumb

IInv ==
    /\ NoRowNoDelete
    /\ OriginalKept
    /\ OneDeleteAtATime
    /\ DeleteEventsAcked
    /\ TasksKeepToTheirKeys

-----------------------------------------------------------------------------
(* The inductive invariant behind CompletedHasThumbs, where no crash, lost  *)
(* session or lost answer makes two attempts at one upload overlap.        *)

UploadEventsOf(a) == {e \in Event : e.op = "upload" /\ e.av = a}

\* Copies of e that a consumer may still get.
Ahead(e) == mainQ[e] + retryQ[e]

\* w handles the upload event of a, and has neither settled nor republished it.
Attempts(w, a) ==
    /\ task[<<"upload", w>>].pc \notin {"idle", "ack", "nack"}
    /\ task[<<"upload", w>>].ev.av = a

\* The upload event of an avatar is in one place: queued once, or at one worker.
OneAttempt ==
    \A a \in Avatar :
        /\ \A e \in UploadEventsOf(a) : Ahead(e) <= 1
        /\ \A e, f \in UploadEventsOf(a) : Ahead(e) > 0 /\ Ahead(f) > 0 => e = f
        /\ \A w \in Worker : Attempts(w, a) =>
               /\ \A e \in UploadEventsOf(a) : Ahead(e) = 0
               /\ \A v \in Worker : Attempts(v, a) => v = w

\* The worker hears of an avatar only after its upload was acknowledged.
NothingBeforeAck ==
    \A a \in Avatar : ~Acked(a) =>
        /\ \A e \in UploadEventsOf(a) : Ahead(e) = 0
        /\ \A w \in Worker : ~Attempts(w, a)
        /\ row[a].status # "completed"

\* An attempt that may still write or roll back is at a row that is not completed.
AttemptUnfinished ==
    \A w \in Worker :
        task[<<"upload", w>>].pc \in {"fetch", "thumbs", "undo"} =>
            row[task[<<"upload", w>>].ev.av].status # "completed"

\* What an attempt has uploaded stays, unless the avatar is deleted for good.
UploadedStay ==
    \A w \in Worker :
        LET t == task[<<"upload", w>>]
        IN  t.pc \in {"load", "fetch", "thumbs"} =>
                DeleteAcked(t.ev.av) \/ t.keys \subseteq s3[t.ev.av]

CompletedKeepsThumbs ==
    \A a \in Avatar :
        row[a].status = "completed" => DeleteAcked(a) \/ Thumb \subseteq s3[a]

JobInv ==
    /\ OneAttempt
    /\ NothingBeforeAck
    /\ AttemptUnfinished
    /\ UploadedStay
    /\ CompletedKeepsThumbs

\* The faults under which attempts at one upload follow each other.
NoOverlap == FaultKinds \cap {"crash", "disconnect", "unsure"} = {}

-----------------------------------------------------------------------------
(* The inductive invariant behind NoLostJob.                               *)

\* The faults under which every event arrives and no row is restored.
Delivered == FaultKinds \cap {"cancel", "disconnect", "lost", "publish"} = {}

Undisturbed ==
    /\ \A w \in Worker : conn[w] = "up"
    /\ \A c \in Consumer : ~task[c].dead
    /\ \A d \in Deleter : deletion[d].pc # "restore"

JobsKept == Undisturbed /\ NoLostJob

-----------------------------------------------------------------------------
(* The inductive invariant behind NoLostCleanup.                           *)

\* The faults under which every delete event arrives, and is not given up by
\* the consumer that the broker thinks has it.
DeletesDelivered == FaultKinds \cap {"cancel", "lost"} = {}

\* A handler's context ends only with its session.
DeadOnlyIfLost ==
    \A c \in Consumer : task[c].dead => conn[c[2]] = "lost" /\ task[c].pc # "idle"

\* A sweep is past the original only if that is gone, or it will report an error.
SweptIsGone ==
    \A w \in Worker :
        LET t == task[<<"delete", w>>]
        IN  t.pc = "sweep" => Original \in t.keys \/ t.err \/ Original \notin s3[t.ev.av]

CleanupKept == DeadOnlyIfLost /\ SweptIsGone /\ NoLostCleanup

-----------------------------------------------------------------------------
(* The inductive invariant behind FreshDeleteLeavesNothing.                *)

\* The faults under which, besides, every call to S3 does what it says and no
\* attempt ends without its rollback.
Tidy == FaultKinds \cap {"s3", "unsure", "lost", "cancel", "crash"} = {}

\* The upload event of a is on its way to a consumer, or at one.
Heard(a) ==
    \/ \E e \in Event :
          e.op = "upload" /\ e.av = a /\ (mainQ[e] > 0 \/ retryQ[e] > 0)
    \/ \E w \in Worker :
          task[<<"upload", w>>].pc # "idle" /\ task[<<"upload", w>>].ev.av = a

\* No worker has heard of an avatar before its upload is acknowledged.
EventsAfterAck ==
    \A a \in Avatar : ~Acked(a) => row[a].thumbs = {} /\ ~Heard(a)

\* An attempt has stored k and will list it or remove it.
InHand(a, k) ==
    \E w \in Worker :
        /\ task[<<"upload", w>>].pc \in {"thumbs", "undo"}
        /\ task[<<"upload", w>>].ev.av = a
        /\ k \in task[<<"upload", w>>].keys

ThumbsAccounted ==
    \A a \in Avatar : \A k \in s3[a] \cap Thumb : k \in row[a].thumbs \/ InHand(a, k)

\* An event lists k of avatar a for removal, or a sweep the broker knows of does.
ToRemove(a, k) ==
    \/ \E e \in Event : /\ e.op = "delete" /\ e.av = a /\ k \in e.keys
                        /\ mainQ[e] + retryQ[e] + dlq[e] > 0
    \/ \E w \in Worker : /\ conn[w] = "up"
                         /\ task[<<"delete", w>>].pc = "sweep"
                         /\ task[<<"delete", w>>].ev.av = a
                         /\ k \in task[<<"delete", w>>].keys

\* What an acknowledged delete has listed is gone, or somebody will remove it.
ListedIsRemoved ==
    \A d \in Deleter : deletion[d].pc = "acked" =>
        \A k \in AllObjectKeys(deletion[d].seen) \cap s3[deletion[d].av] :
            ToRemove(deletion[d].av, k) \/ InHand(deletion[d].av, k)

\* A sweep removes what its event lists, and fails only after its session.
SweepsSucceed ==
    \A w \in Worker :
        LET t == task[<<"delete", w>>]
        IN  /\ t.pc = "sweep" => t.keys \subseteq t.ev.keys
            /\ conn[w] = "up" => t.pc \in {"idle", "sweep", "ack"}
            /\ conn[w] = "up" /\ t.pc = "sweep" => ~t.err

TidyInv ==
    /\ DeadOnlyIfLost
    /\ EventsAfterAck
    /\ ThumbsAccounted
    /\ ListedIsRemoved
    /\ SweepsSucceed

==============================================================================
