----------------------- MODULE AvatarLifecycleProofs -----------------------
(***************************************************************************)
(* Theorems about AvatarLifecycle, for any number of avatars, requests,    *)
(* replicas, thumbnails and retries, and any number of faults of any kind. *)
(***************************************************************************)
EXTENDS AvatarLifecycle, TLAPS

-----------------------------------------------------------------------------
(* The operators the model is built from.                                  *)

\* Every statement of the repository takes a row to a row.
LEMMA RowStatements ==
    /\ NoRow \in Row
    /\ Insert \in Row
    /\ \A r \in Row :
        /\ DeleteHard(r) \in Row
        /\ SoftDelete(r) \in Row
        /\ RestoreSoftDeleted(r) \in Row
        /\ UpdateProcessingResult(r) \in Row
        /\ SetProcessingStatus(r, "failed") \in Row
  BY DEF NoRow, Insert, Row, Status, DeleteHard, SoftDelete, RestoreSoftDeleted,
         UpdateProcessingResult, SetProcessingStatus, Live

\* The events the server publishes are events, with a fresh retry count.
LEMMA PublishedEvents ==
    /\ \A a \in Avatar : AvatarUploadEvent(a) \in Event
    /\ \A a \in Avatar, r \in Row : AvatarDeleteEvent(a, AllObjectKeys(r)) \in Event
  <1>1. 0 \in 0 .. MaxRetry
    BY MaxRetryAssumption
  <1>2. \A r \in Row : AllObjectKeys(r) \in {{Original}, Key}
    BY DEF AllObjectKeys, Row, Key
  <1>3. QED
    BY <1>1, <1>2 DEF AvatarUploadEvent, AvatarDeleteEvent, Event, Op

\* A republished event is an event of the same kind, avatar and keys.
LEMMA RepublishedEvent ==
    ASSUME NEW e \in Event, ~RetriesExhausted(e)
    PROVE  /\ NextAttempt(e) \in Event
           /\ NextAttempt(e).op = e.op
           /\ NextAttempt(e).av = e.av
  BY MaxRetryAssumption DEF NextAttempt, Event, RetriesExhausted

\* Queues stay queues, and only the count of the event concerned changes.
LEMMA QueueOperators ==
    ASSUME NEW q \in [Event -> Nat], NEW e \in Event
    PROVE  /\ Put(q, e) \in [Event -> Nat]
           /\ \A x \in Event : Put(q, e)[x] > 0 => x = e \/ q[x] > 0
           /\ q[e] > 0 => Take(q, e) \in [Event -> Nat]
           /\ \A x \in Event : q[e] > 0 /\ Take(q, e)[x] > 0 => q[x] > 0
  BY DEF Put, Take

\* The keys a handler starts from are keys.
LEMMA StartKeysAreKeys ==
    ASSUME NEW e \in Event
    PROVE  StartKeys(e) \in SUBSET Key
  BY DEF StartKeys, Event, Key

-----------------------------------------------------------------------------
(* Type correctness.                                                       *)

LEMMA InitTypeOK == Init => TypeOK
  <1> SUFFICES ASSUME Init PROVE TypeOK
    OBVIOUS
  <1>1. EmptyQueue \in [Event -> Nat]
    BY DEF EmptyQueue
  <1>2. IdleTask \in Task /\ IdleTask.pc = "idle"
    BY DEF IdleTask, Task, TaskPc
  <1>3. deletion \in [Deleter -> Deletion]
    BY RowStatements DEF Init, Deletion, DeletePc
  <1>4. 0 \in 0 .. MaxFaults
    BY MaxFaultsAssumption
  <1>5. QED
    BY <1>1, <1>2, <1>3, <1>4, RowStatements DEF Init, TypeOK, UploadPc

\* No fault takes the count beyond its bound.
LEMMA FaultsBounded ==
    ASSUME TypeOK, UNCHANGED faults \/ \E kind : Fault(kind)
    PROVE  faults' \in 0 .. MaxFaults
  BY MaxFaultsAssumption DEF TypeOK, Fault

LEMMA CallFaults ==
    /\ \A kind, r : Call(kind, r) => UNCHANGED faults \/ \E k : Fault(k)
    /\ \A c, kind, r : TaskCall(c, kind, r) => UNCHANGED faults \/ \E k : Fault(k)
  BY DEF Call, TaskCall

LEMMA UploadTypeOK ==
    ASSUME TypeOK, NEW a \in Avatar, UploadStep(a)
    PROVE  TypeOK'
  <1> USE DEF TypeOK, serverVars, queueVars, workerVars
  <1>1. CASE UploadPut(a)
    <2>1. faults' \in 0 .. MaxFaults
      BY <1>1, FaultsBounded, CallFaults DEF UploadPut
    <2>2. QED
      BY <1>1, <2>1 DEF UploadPut, UploadPc, Key
  <1>2. CASE UploadInsert(a)
    <2>1. faults' \in 0 .. MaxFaults
      BY <1>2, FaultsBounded, CallFaults DEF UploadInsert
    <2>2. QED
      BY <1>2, <2>1, RowStatements DEF UploadInsert, UploadPc
  <1>3. CASE UploadPublish(a)
    <2>1. faults' \in 0 .. MaxFaults
      BY <1>3, FaultsBounded DEF UploadPublish
    <2> DEFINE e == AvatarUploadEvent(a)
    <2>e. e \in Event
      BY PublishedEvents
    <2> HIDE DEF e
    <2>p. Put(mainQ, e) \in [Event -> Nat]
      BY <2>e, QueueOperators
    <2>2. mainQ' \in [Event -> Nat]
      BY <1>3, <2>p DEF UploadPublish, e
    <2>3. QED
      BY <1>3, <2>1, <2>2 DEF UploadPublish, UploadPc
  <1>4. CASE UploadUndoRow(a)
    <2>1. faults' \in 0 .. MaxFaults
      BY <1>4, FaultsBounded, CallFaults DEF UploadUndoRow
    <2>2. QED
      BY <1>4, <2>1, RowStatements DEF UploadUndoRow, UploadPc
  <1>5. CASE UploadUndoObject(a)
    <2>1. faults' \in 0 .. MaxFaults
      BY <1>5, FaultsBounded, CallFaults DEF UploadUndoObject
    <2>2. QED
      BY <1>5, <2>1 DEF UploadUndoObject, UploadPc
  <1>6. CASE UploadAbort(a)
    <2>1. faults' \in 0 .. MaxFaults
      BY <1>6, FaultsBounded DEF UploadAbort
    <2>2. QED
      BY <1>6, <2>1 DEF UploadAbort, UploadPc
  <1>7. QED
    BY <1>1, <1>2, <1>3, <1>4, <1>5, <1>6 DEF UploadStep

LEMMA DeleteTypeOK ==
    ASSUME TypeOK, NEW d \in Deleter, DeleteStep(d)
    PROVE  TypeOK'
  <1> USE DEF TypeOK, serverVars, queueVars, workerVars
  <1>1. CASE DeleteRead(d)
    <2>1. faults' \in 0 .. MaxFaults
      BY <1>1, FaultsBounded, CallFaults DEF DeleteRead
    <2>2. deletion' \in [Deleter -> Deletion]
      BY <1>1, RowStatements DEF DeleteRead, Deletion, DeletePc
    <2>3. QED
      BY <1>1, <2>1, <2>2 DEF DeleteRead
  <1>2. CASE DeleteSoft(d)
    <2>1. faults' \in 0 .. MaxFaults
      BY <1>2, FaultsBounded, CallFaults DEF DeleteSoft
    <2>2. row' \in [Avatar -> Row]
      BY <1>2, RowStatements DEF DeleteSoft, Deletion
    <2>3. deletion' \in [Deleter -> Deletion]
      BY <1>2 DEF DeleteSoft, Deletion, DeletePc
    <2>4. QED
      BY <1>2, <2>1, <2>2, <2>3 DEF DeleteSoft
  <1>3. CASE DeletePublish(d)
    <2>1. faults' \in 0 .. MaxFaults
      BY <1>3, FaultsBounded DEF DeletePublish
    <2> DEFINE e == AvatarDeleteEvent(deletion[d].av, AllObjectKeys(deletion[d].seen))
    <2>e. e \in Event
      BY PublishedEvents DEF Deletion
    <2> HIDE DEF e
    <2>p. Put(mainQ, e) \in [Event -> Nat]
      BY <2>e, QueueOperators
    <2>2. mainQ' \in [Event -> Nat]
      BY <1>3, <2>p DEF DeletePublish, e
    <2>3. deletion' \in [Deleter -> Deletion]
      <3>1. PICK p \in {"acked", "restore"} : deletion' = [deletion EXCEPT ![d].pc = p]
        BY <1>3 DEF DeletePublish
      <3>2. QED
        BY <3>1 DEF Deletion, DeletePc
    <2>4. QED
      BY <1>3, <2>1, <2>2, <2>3 DEF DeletePublish
  <1>4. CASE DeleteRestore(d)
    <2>1. faults' \in 0 .. MaxFaults
      BY <1>4, FaultsBounded, CallFaults DEF DeleteRestore
    <2>2. row' \in [Avatar -> Row]
      BY <1>4, RowStatements DEF DeleteRestore, Deletion
    <2>3. deletion' \in [Deleter -> Deletion]
      BY <1>4 DEF DeleteRestore, Deletion, DeletePc
    <2>4. QED
      BY <1>4, <2>1, <2>2, <2>3 DEF DeleteRestore
  <1>5. CASE DeleteAbort(d)
    <2>1. faults' \in 0 .. MaxFaults
      BY <1>5, FaultsBounded DEF DeleteAbort
    <2>2. deletion' \in [Deleter -> Deletion]
      BY <1>5 DEF DeleteAbort, Deletion, DeletePc
    <2>3. QED
      BY <1>5, <2>1, <2>2 DEF DeleteAbort
  <1>6. QED
    BY <1>1, <1>2, <1>3, <1>4, <1>5 DEF DeleteStep

\* What a consumer that is not idle holds, field by field.
LEMMA TaskFields ==
    ASSUME TypeOK, NEW c \in Consumer
    PROVE  /\ task[c].keys \in SUBSET Key
           /\ task[c].err \in BOOLEAN
           /\ task[c].pc # "idle" => task[c].ev \in Event /\ task[c].ev.av \in Avatar
  BY DEF TypeOK, Task, Event

\* An assignment to a field of a task keeps the tasks well-typed.
LEMMA TaskUpdates ==
    ASSUME task \in [Consumer -> Task], NEW c \in Consumer,
           NEW p \in TaskPc
    PROVE  /\ [task EXCEPT ![c].dead = TRUE] \in [Consumer -> Task]
           /\ [task EXCEPT ![c].pc = p] \in [Consumer -> Task]
  <1>1. task[c] \in Task
    OBVIOUS
  <1>2. [task[c] EXCEPT !.dead = TRUE] \in Task
    BY <1>1 DEF Task
  <1>3. [task[c] EXCEPT !.pc = p] \in Task
    BY <1>1 DEF Task
  <1>4. QED
    BY <1>2, <1>3

\* Changing the objects of one avatar.
LEMMA ObjectUpdates ==
    ASSUME s3 \in [Avatar -> SUBSET Key], NEW a \in Avatar, NEW k \in Key
    PROVE  /\ [s3 EXCEPT ![a] = @ \cup {k}] \in [Avatar -> SUBSET Key]
           /\ [s3 EXCEPT ![a] = @ \ {k}] \in [Avatar -> SUBSET Key]
  OBVIOUS

LEMMA ConsumerTypeOK ==
    ASSUME TypeOK, NEW c \in Consumer, ConsumerStep(c) \/ ContextEnds(c)
    PROVE  TypeOK'
  <1> USE DEF TypeOK, serverVars, queueVars, workerVars
  <1>w. c \in Op \X Worker /\ c[1] \in Op /\ c[2] \in Worker
    BY DEF Consumer
  <1>1. CASE Receive(c)
    <2>1. PICK e \in Event :
            /\ e.op = c[1] /\ mainQ[e] > 0
            /\ mainQ' = Take(mainQ, e)
            /\ task' = [task EXCEPT ![c] =
                   [pc |-> StartPc(e), ev |-> e, keys |-> StartKeys(e),
                    err |-> FALSE, dead |-> FALSE]]
      BY <1>1 DEF Receive
    <2>2. mainQ' \in [Event -> Nat]
      BY <2>1, QueueOperators
    <2>3. StartKeys(e) \in SUBSET Key
      BY StartKeysAreKeys
    <2>4. task' \in [Consumer -> Task]
      BY <2>1, <2>3 DEF Task, TaskPc, StartPc
    <2>5. QED
      BY <1>1, <2>1, <2>2, <2>4 DEF Receive
  <1>2. CASE ContextEnds(c)
    <2>1. faults' \in 0 .. MaxFaults
      BY <1>2, FaultsBounded DEF ContextEnds
    <2>2. task' \in [Consumer -> Task]
      <3>1. task' = [task EXCEPT ![c].dead = TRUE]
        BY <1>2 DEF ContextEnds
      <3>2. "idle" \in TaskPc
        BY DEF TaskPc
      <3>3. QED
        BY <3>1, <3>2, TaskUpdates
    <2>3. QED
      BY <1>2, <2>1, <2>2 DEF ContextEnds
  <1>3. CASE JobLoad(c)
    <2>1. faults' \in 0 .. MaxFaults
      BY <1>3, FaultsBounded, CallFaults DEF JobLoad
    <2>2. task' \in [Consumer -> Task]
      <3>1. PICK p \in {"report", "fetch", "ack"} : task' = [task EXCEPT ![c].pc = p]
        BY <1>3 DEF JobLoad
      <3>2. p \in TaskPc
        BY DEF TaskPc
      <3>3. QED
        BY <3>1, <3>2, TaskUpdates
    <2>3. QED
      BY <1>3, <2>1, <2>2 DEF JobLoad
  <1>4. CASE JobFetch(c)
    <2>1. faults' \in 0 .. MaxFaults
      BY <1>4, FaultsBounded, CallFaults DEF JobFetch
    <2>2. task' \in [Consumer -> Task]
      <3>1. PICK p \in {"thumbs", "undo"} : task' = [task EXCEPT ![c].pc = p]
        BY <1>4 DEF JobFetch
      <3>2. p \in TaskPc
        BY DEF TaskPc
      <3>3. QED
        BY <3>1, <3>2, TaskUpdates
    <2>3. QED
      BY <1>4, <2>1, <2>2 DEF JobFetch
  <1>5. CASE JobPutThumb(c)
    <2>1. faults' \in 0 .. MaxFaults
      BY <1>5, FaultsBounded, CallFaults DEF JobPutThumb
    <2>2. task' \in [Consumer -> Task]
      BY <1>5 DEF JobPutThumb, Task, TaskPc, Key
    <2>a. task[c].ev.av \in Avatar
      BY <1>5, TaskFields DEF JobPutThumb
    <2>3. s3' \in [Avatar -> SUBSET Key]
      BY <1>5, <2>a, ObjectUpdates DEF JobPutThumb, Key
    <2>4. QED
      BY <1>5, <2>1, <2>2, <2>3 DEF JobPutThumb
  <1>6. CASE JobSave(c)
    <2>1. faults' \in 0 .. MaxFaults
      BY <1>6, FaultsBounded, CallFaults DEF JobSave
    <2>2. task' \in [Consumer -> Task]
      <3>1. PICK p \in {"ack", "undo"} : task' = [task EXCEPT ![c].pc = p]
        BY <1>6 DEF JobSave
      <3>2. p \in TaskPc
        BY DEF TaskPc
      <3>3. QED
        BY <3>1, <3>2, TaskUpdates
    <2>3. row' \in [Avatar -> Row]
      <3>1. task[c].ev.av \in Avatar
        BY <1>6, TaskFields DEF JobSave
      <3>2. QED
        BY <1>6, <3>1, RowStatements DEF JobSave
    <2>4. QED
      BY <1>6, <2>1, <2>2, <2>3 DEF JobSave
  <1>7. CASE JobUndo(c)
    <2>1. faults' \in 0 .. MaxFaults
      BY <1>7, FaultsBounded, CallFaults DEF JobUndo
    <2>2. task' \in [Consumer -> Task]
      BY <1>7 DEF JobUndo, Task
    <2>3. s3' \in [Avatar -> SUBSET Key]
      <3>1. task[c].ev.av \in Avatar /\ task[c].keys \in SUBSET Key
        BY <1>7, TaskFields DEF JobUndo
      <3>2. QED
        BY <1>7, <3>1, ObjectUpdates DEF JobUndo
    <2>4. QED
      BY <1>7, <2>1, <2>2, <2>3 DEF JobUndo
  <1>8. CASE JobMarkFailed(c)
    <2>1. faults' \in 0 .. MaxFaults
      BY <1>8, FaultsBounded, CallFaults DEF JobMarkFailed
    <2>2. task' \in [Consumer -> Task]
      BY <1>8 DEF JobMarkFailed, Task, TaskPc
    <2>3. row' \in [Avatar -> Row]
      <3>1. task[c].ev.av \in Avatar
        BY <1>8, TaskFields DEF JobMarkFailed
      <3>2. QED
        BY <1>8, <3>1, RowStatements DEF JobMarkFailed
    <2>4. QED
      BY <1>8, <2>1, <2>2, <2>3 DEF JobMarkFailed
  <1>9. CASE SweepRemove(c)
    <2>1. faults' \in 0 .. MaxFaults
      BY <1>9, FaultsBounded, CallFaults DEF SweepRemove
    <2>2. task' \in [Consumer -> Task]
      <3>1. task[c].keys \in SUBSET Key /\ task[c].err \in BOOLEAN
        BY TaskFields
      <3>2. PICK k \in task[c].keys, r \in WriteResult :
              task' = [task EXCEPT ![c] = Swept(task[c], k, r)]
        BY <1>9 DEF SweepRemove
      <3>3. Swept(task[c], k, r) \in Task
        <4>1. task[c] \in Task /\ task[c].keys \ {k} \in SUBSET Key
          BY <3>1
        <4>2. (IF r = "ok" THEN task[c].err ELSE TRUE) \in BOOLEAN
          BY <3>1
        <4>3. QED
          BY <4>1, <4>2 DEF Task, Swept
      <3>4. QED
        BY <3>2, <3>3
    <2>3. s3' \in [Avatar -> SUBSET Key]
      <3>1. task[c].ev.av \in Avatar /\ task[c].keys \in SUBSET Key
        BY <1>9, TaskFields DEF SweepRemove
      <3>2. QED
        BY <1>9, <3>1, ObjectUpdates DEF SweepRemove
    <2>4. \A x \in Consumer : task'[x].pc = task[x].pc /\ task'[x].ev = task[x].ev
      <3>1. PICK k \in task[c].keys, r \in WriteResult :
              task' = [task EXCEPT ![c] = Swept(task[c], k, r)]
        BY <1>9 DEF SweepRemove
      <3>2. QED
        BY <3>1 DEF Swept, Task
    <2>5. QED
      BY <1>9, <2>1, <2>2, <2>3, <2>4 DEF SweepRemove
  <1>10. CASE SweepDone(c)
    <2>1. task' \in [Consumer -> Task]
      BY <1>10 DEF SweepDone, Task, TaskPc, SweepVerdict
    <2>2. QED
      BY <1>10, <2>1 DEF SweepDone
  <1>11. CASE Republish(c)
    <2> DEFINE e == task[c].ev
    <2>e. e \in Event
      BY <1>11 DEF Republish
    <2> HIDE DEF e
    <2>1. Put(dlq, e) \in [Event -> Nat]
      BY <2>e, QueueOperators
    <2>2. ~RetriesExhausted(e) => Put(retryQ, NextAttempt(e)) \in [Event -> Nat]
      BY <2>e, RepublishedEvent, QueueOperators
    <2>3. dlq' \in [Event -> Nat] /\ retryQ' \in [Event -> Nat]
      BY <1>11, <2>1, <2>2 DEF Republish, e
    <2>4. task' \in [Consumer -> Task]
      BY <1>11 DEF Republish, Task, TaskPc
    <2>5. QED
      BY <1>11, <2>3, <2>4 DEF Republish
  <1>12. CASE RepublishFails(c)
    <2>1. task' \in [Consumer -> Task]
      <3>1. task[c] \in Task /\ task' = [task EXCEPT ![c].pc = "nack"]
        BY <1>12 DEF RepublishFails
      <3>2. [task[c] EXCEPT !.pc = "nack"] \in Task
        BY <3>1 DEF Task, TaskPc
      <3>3. QED
        BY <3>1, <3>2
    <2>2. QED
      BY <1>12, <2>1 DEF RepublishFails
  <1>13. CASE Settle(c)
    <2>1. task' \in [Consumer -> Task]
      BY <1>13 DEF Settle, Task, TaskPc, IdleTask
    <2>2. QED
      BY <1>13, <2>1 DEF Settle, IdleTask
  <1>14. QED
    BY <1>1, <1>2, <1>3, <1>4, <1>5, <1>6, <1>7, <1>8, <1>9, <1>10, <1>11, <1>12, <1>13
       DEF ConsumerStep, JobStep, SweepStep

LEMMA RequeuedTypeOK ==
    ASSUME TypeOK, NEW w \in Worker
    PROVE  Requeued(w) \in [Event -> Nat]
  BY DEF Requeued, TypeOK

LEMMA ReplicaTypeOK ==
    ASSUME TypeOK, NEW w \in Worker, ReplicaStep(w)
    PROVE  TypeOK'
  <1> USE DEF TypeOK, serverVars, queueVars, workerVars
  <1>1. CASE Disconnect(w)
    <2>1. faults' \in 0 .. MaxFaults
      BY <1>1, FaultsBounded DEF Disconnect
    <2>2. QED
      BY <1>1, <2>1, RequeuedTypeOK DEF Disconnect
  <1>2. CASE Restart(w)
    BY <1>2 DEF Restart
  <1>3. CASE Crash(w)
    <2>1. faults' \in 0 .. MaxFaults
      BY <1>3, FaultsBounded DEF Crash
    <2>2. task' \in [Consumer -> Task]
      BY <1>3 DEF Crash, Task, TaskPc, IdleTask
    <2>3. QED
      BY <1>3, <2>1, <2>2, RequeuedTypeOK DEF Crash, IdleTask
  <1>4. QED
    BY <1>1, <1>2, <1>3 DEF ReplicaStep

LEMMA RetryTypeOK ==
    ASSUME TypeOK, NEW e \in Event, RetryExpires(e)
    PROVE  TypeOK'
  <1>1. Take(retryQ, e) \in [Event -> Nat] /\ Put(mainQ, e) \in [Event -> Nat]
    BY QueueOperators DEF RetryExpires, TypeOK
  <1>2. QED
    BY <1>1 DEF RetryExpires, TypeOK, serverVars, workerVars

LEMMA NextTypeOK == TypeOK /\ [Next]_vars => TypeOK'
  <1> SUFFICES ASSUME TypeOK, [Next]_vars PROVE TypeOK'
    OBVIOUS
  <1>1. CASE UNCHANGED vars
    BY <1>1 DEF TypeOK, vars
  <1>2. CASE Next
    BY <1>2, UploadTypeOK, DeleteTypeOK, ConsumerTypeOK, ReplicaTypeOK, RetryTypeOK DEF Next
  <1>3. QED
    BY <1>1, <1>2

\* Every variable keeps its type in every behaviour.
THEOREM TypeCorrect == Spec => []TypeOK
  BY InitTypeOK, NextTypeOK, PTL DEF Spec

-----------------------------------------------------------------------------
(* The inductive invariant.                                                *)

\* What a step has to respect for the conjuncts about rows and requests when it
\* leaves the requests alone: no row changes state, no original disappears that
\* was there to be served.
LEMMA RowsFrame ==
    ASSUME TypeOK, IInv, UNCHANGED <<upload, deletion>>,
           \A a \in Avatar : row'[a].state = row[a].state,
           \A a \in Avatar : Original \in s3[a] /\ ~DeleteAcked(a) => Original \in s3'[a]
    PROVE  NoRowNoDelete' /\ OriginalKept' /\ OneDeleteAtATime'
  <1> USE DEF IInv
  <1>1. NoRowNoDelete'
    BY DEF NoRowNoDelete
  <1>2. \A d \in Deleter : deletion[d].av \in Avatar
    BY DEF TypeOK, Deletion
  <1>3. OneDeleteAtATime'
    BY <1>2 DEF OneDeleteAtATime, Open, Live
  <1>4. \A a \in Avatar : MayBeLive(a) => ~DeleteAcked(a)
    BY DEF MayBeLive, DeleteAcked, OneDeleteAtATime, Open
  <1>5. \A a \in Avatar : upload[a] = "insert" => ~DeleteAcked(a)
    BY DEF NoRowNoDelete, DeleteAcked
  <1>6. \A a \in Avatar : MayBeLive(a)' => MayBeLive(a)
    BY DEF MayBeLive, Open, Live
  <1>7. OriginalKept'
    BY <1>4, <1>5, <1>6 DEF OriginalKept
  <1>8. QED
    BY <1>1, <1>3, <1>7

\* The same for the conjunct about delete events: requests that acknowledged stay
\* so, queues receive no new delete event, no task gets a new one.
LEMMA EventsFrame ==
    ASSUME IInv,
           \A a : DeleteAcked(a) => DeleteAcked(a)',
           \A e \in Event : e.op = "delete" =>
               /\ mainQ'[e] > 0 => DeleteAcked(e.av)
               /\ retryQ'[e] > 0 => DeleteAcked(e.av)
               /\ dlq'[e] > 0 => DeleteAcked(e.av),
           \A c \in Consumer : c[1] = "delete" /\ task'[c].pc # "idle" =>
               DeleteAcked(task'[c].ev.av)
    PROVE  DeleteEventsAcked'
  BY DEF IInv, DeleteEventsAcked

\* An acknowledged delete stays acknowledged while the requests do not change.
LEMMA AckedFrame ==
    ASSUME UNCHANGED deletion, NEW a
    PROVE  DeleteAcked(a)' <=> DeleteAcked(a)
  BY DEF DeleteAcked

LEMMA InitIInv == Init => IInv
  BY DEF Init, IInv, NoRowNoDelete, OriginalKept, MayBeLive, Open, Live, OneDeleteAtATime,
         DeleteEventsAcked, DeleteAcked, TasksKeepToTheirKeys, NoRow, EmptyQueue,
         IdleTask

\* Three actions of a consumer touch the bucket.
LEMMA WhoStores ==
    ASSUME NEW c \in Consumer, ConsumerStep(c) \/ ContextEnds(c)
    PROVE  JobPutThumb(c) \/ JobUndo(c) \/ SweepRemove(c) \/ UNCHANGED s3
  <1>1. CASE JobStep(c)
    BY <1>1 DEF JobStep, JobLoad, JobFetch, JobSave, JobMarkFailed
  <1>2. CASE SweepStep(c)
    BY <1>2 DEF SweepStep, SweepDone
  <1>3. CASE Receive(c) \/ Republish(c) \/ RepublishFails(c) \/ Settle(c) \/ ContextEnds(c)
    BY <1>3 DEF Receive, Republish, RepublishFails, Settle, ContextEnds
  <1> QED
    BY <1>1, <1>2, <1>3 DEF ConsumerStep

\* Two actions of a consumer touch the table.
LEMMA WhoSaves ==
    ASSUME NEW c \in Consumer, ConsumerStep(c) \/ ContextEnds(c)
    PROVE  JobSave(c) \/ JobMarkFailed(c) \/ UNCHANGED row
  <1>1. CASE JobStep(c)
    BY <1>1 DEF JobStep, JobLoad, JobFetch, JobPutThumb, JobUndo
  <1>2. CASE SweepStep(c)
    BY <1>2 DEF SweepStep, SweepRemove, SweepDone
  <1>3. CASE Receive(c) \/ Republish(c) \/ RepublishFails(c) \/ Settle(c) \/ ContextEnds(c)
    BY <1>3 DEF Receive, Republish, RepublishFails, Settle, ContextEnds
  <1> QED
    BY <1>1, <1>2, <1>3 DEF ConsumerStep

\* No step of a consumer inserts, deletes or restores a row.
LEMMA ConsumerRows ==
    ASSUME TypeOK, NEW c \in Consumer, ConsumerStep(c) \/ ContextEnds(c)
    PROVE  \A a \in Avatar : row'[a].state = row[a].state
  <1>1. \A a \in Avatar : row[a] \in Row
    BY DEF TypeOK
  <1>2. CASE JobSave(c)
    BY <1>1, <1>2 DEF JobSave, TypeOK, UpdateProcessingResult, Row
  <1>3. CASE JobMarkFailed(c)
    BY <1>1, <1>3 DEF JobMarkFailed, TypeOK, SetProcessingStatus, Row
  <1>4. CASE UNCHANGED row
    BY <1>4
  <1>5. QED
    BY <1>2, <1>3, <1>4, WhoSaves

\* A consumer removes an original only when the avatar's delete was acknowledged.
LEMMA ConsumerObjects ==
    ASSUME TypeOK, IInv, NEW c \in Consumer, ConsumerStep(c) \/ ContextEnds(c),
           NEW a \in Avatar, Original \in s3[a], ~DeleteAcked(a)
    PROVE  Original \in s3'[a]
  <1>1. s3 \in [Avatar -> SUBSET Key]
    BY DEF TypeOK
  <1>2. CASE JobPutThumb(c)
    BY <1>1, <1>2 DEF JobPutThumb
  <1>3. CASE JobUndo(c)
    <2>1. Original \notin task[c].keys
      BY <1>3, KeyAssumption DEF JobUndo, IInv, TasksKeepToTheirKeys
    <2>2. QED
      BY <1>1, <1>3, <2>1 DEF JobUndo
  <1>4. CASE SweepRemove(c)
    <2>1. a # task[c].ev.av
      BY <1>4 DEF SweepRemove, IInv, TasksKeepToTheirKeys, DeleteEventsAcked
    <2>2. QED
      BY <1>1, <1>4, <2>1 DEF SweepRemove
  <1>5. CASE UNCHANGED s3
    BY <1>5
  <1>6. QED
    BY <1>2, <1>3, <1>4, <1>5, WhoStores

\* Every delete event a consumer takes, holds or republishes was acknowledged.
LEMMA ConsumerEvents ==
    ASSUME TypeOK, IInv, NEW c \in Consumer, ConsumerStep(c) \/ ContextEnds(c),
           UNCHANGED deletion
    PROVE  DeleteEventsAcked'
  <1> USE DEF queueVars
  <1>a. \A a : DeleteAcked(a)' <=> DeleteAcked(a)
    BY AckedFrame
  <1>i. DeleteEventsAcked
    BY DEF IInv
  <1>t. task \in [Consumer -> Task]
    BY DEF TypeOK
  <1>1. CASE Receive(c)
    <2>1. PICK e \in Event :
            /\ e.op = c[1] /\ mainQ[e] > 0
            /\ mainQ' = Take(mainQ, e)
            /\ task' = [task EXCEPT ![c] =
                   [pc |-> StartPc(e), ev |-> e, keys |-> StartKeys(e),
                    err |-> FALSE, dead |-> FALSE]]
      BY <1>1 DEF Receive
    <2>2. \A x \in Event : mainQ'[x] > 0 => mainQ[x] > 0
      BY <2>1, QueueOperators DEF TypeOK
    <2>3. QED
      BY <1>1, <1>a, <1>i, <1>t, <2>1, <2>2 DEF DeleteEventsAcked, Receive
  <1>2. CASE Republish(c)
    <2> DEFINE e == task[c].ev
    <2>1. e \in Event /\ (e.op = "delete" => DeleteAcked(e.av))
      BY <1>2, <1>i DEF Republish, TypeOK, DeleteEventsAcked
    <2> HIDE DEF e
    <2>2. \A x \in Event : dlq'[x] > 0 => x = e \/ dlq[x] > 0
      BY <1>2, <2>1, QueueOperators DEF Republish, TypeOK, e
    <2>3. CASE RetriesExhausted(e)
      BY <1>2, <1>a, <1>i, <1>t, <2>1, <2>2, <2>3 DEF DeleteEventsAcked, Republish, e
    <2>4. CASE ~RetriesExhausted(e)
      <3>1. NextAttempt(e) \in Event /\ NextAttempt(e).op = e.op /\ NextAttempt(e).av = e.av
        BY <2>1, <2>4, RepublishedEvent
      <3>2. retryQ' = Put(retryQ, NextAttempt(e)) /\ dlq' = dlq
        BY <1>2, <2>4 DEF Republish, e
      <3>3. \A x \in Event : retryQ'[x] > 0 => x = NextAttempt(e) \/ retryQ[x] > 0
        BY <3>1, <3>2, QueueOperators DEF TypeOK
      <3>4. QED
        BY <1>2, <1>a, <1>i, <1>t, <2>1, <3>1, <3>2, <3>3 DEF DeleteEventsAcked, Republish
    <2>5. QED
      BY <2>3, <2>4
  <1>3. CASE Settle(c)
    BY <1>3, <1>a, <1>i, <1>t DEF Settle, DeleteEventsAcked, IdleTask
  <1>4. CASE /\ UNCHANGED queueVars
             /\ \A x \in Consumer : task'[x].ev = task[x].ev
             /\ task[c].pc # "idle"
             /\ \A x \in Consumer : x # c => task'[x].pc = task[x].pc
    BY <1>4, <1>a, <1>i DEF DeleteEventsAcked
  <1>5. ASSUME JobStep(c) \/ SweepStep(c) \/ RepublishFails(c) \/ ContextEnds(c)
        PROVE  /\ UNCHANGED queueVars
               /\ \A x \in Consumer : task'[x].ev = task[x].ev
               /\ task[c].pc # "idle"
               /\ \A x \in Consumer : x # c => task'[x].pc = task[x].pc
    <2>1. CASE JobLoad(c) \/ JobFetch(c) \/ JobSave(c) \/ JobMarkFailed(c)
      <3>1. task' = [task EXCEPT ![c].pc = task'[c].pc] /\ UNCHANGED queueVars
        <4>1. CASE JobLoad(c)
          BY <4>1, <1>t DEF JobLoad, Task
        <4>2. CASE JobFetch(c)
          BY <4>2, <1>t DEF JobFetch, Task
        <4>3. CASE JobSave(c)
          BY <4>3, <1>t DEF JobSave, Task
        <4>4. CASE JobMarkFailed(c)
          BY <4>4, <1>t DEF JobMarkFailed, Task
        <4>5. QED
          BY <2>1, <4>1, <4>2, <4>3, <4>4
      <3>2. task[c].pc # "idle"
        BY <2>1 DEF JobLoad, JobFetch, JobSave, JobMarkFailed
      <3> QED
        BY <3>1, <3>2, <1>t DEF Task
    <2>2. CASE JobPutThumb(c)
      BY <2>2, <1>t DEF JobPutThumb, Task
    <2>3. CASE JobUndo(c)
      BY <2>3, <1>t DEF JobUndo, Task
    <2>4. CASE SweepRemove(c)
      <3>1. PICK k \in task[c].keys, r \in WriteResult :
              task' = [task EXCEPT ![c] = Swept(task[c], k, r)]
        BY <2>4 DEF SweepRemove
      <3>2. QED
        BY <2>4, <3>1, <1>t DEF SweepRemove, Swept, Task
    <2>5. CASE SweepDone(c) \/ RepublishFails(c) \/ ContextEnds(c)
      BY <2>5, <1>t DEF SweepDone, RepublishFails, ContextEnds, Task
    <2>6. QED
      BY <1>5, <2>1, <2>2, <2>3, <2>4, <2>5 DEF JobStep, SweepStep
  <1>6. QED
    BY <1>1, <1>2, <1>3, <1>4, <1>5 DEF ConsumerStep

\* A consumer goes on with the keys of its own kind of event.
LEMMA ConsumerKeys ==
    ASSUME TypeOK, IInv, NEW c \in Consumer, ConsumerStep(c) \/ ContextEnds(c)
    PROVE  TasksKeepToTheirKeys'
  <1>i. TasksKeepToTheirKeys
    BY DEF IInv
  <1>t. task \in [Consumer -> Task]
    BY DEF TypeOK
  <1>1. CASE Receive(c)
    BY <1>1, <1>i, <1>t DEF Receive, StartPc, StartKeys, Event, Op, TasksKeepToTheirKeys
  <1>2. CASE ContextEnds(c)
    BY <1>2, <1>i, <1>t DEF ContextEnds, Task, TasksKeepToTheirKeys
  <1>3. CASE JobLoad(c) \/ JobFetch(c)
    BY <1>3, <1>i, <1>t DEF JobLoad, JobFetch, Task, TasksKeepToTheirKeys
  <1>4. CASE JobPutThumb(c)
    BY <1>4, <1>i, <1>t DEF JobPutThumb, Task, TasksKeepToTheirKeys
  <1>5. CASE JobSave(c) \/ JobMarkFailed(c)
    BY <1>5, <1>i, <1>t DEF JobSave, JobMarkFailed, Task, TasksKeepToTheirKeys
  <1>u. CASE JobUndo(c)
    BY <1>u, <1>i, <1>t DEF JobUndo, Task, TasksKeepToTheirKeys
  <1>6. CASE SweepRemove(c)
    <2>1. task'[c].pc = "sweep" /\ c[1] = "delete"
      BY <1>6, <1>i, <1>t DEF SweepRemove, Swept, Task, TasksKeepToTheirKeys
    <2>2. \A x \in Consumer : x # c => task'[x] = task[x]
      BY <1>6, <1>t DEF SweepRemove
    <2>3. QED
      BY <1>i, <2>1, <2>2 DEF TasksKeepToTheirKeys
  <1>9. CASE SweepDone(c)
    BY <1>9, <1>i, <1>t DEF SweepDone, SweepVerdict, Task, TasksKeepToTheirKeys
  <1>7. CASE Republish(c) \/ RepublishFails(c) \/ Settle(c)
    BY <1>7, <1>i, <1>t
       DEF Republish, RepublishFails, Settle, IdleTask, Task, TasksKeepToTheirKeys
  <1>8. QED
    BY <1>1, <1>2, <1>3, <1>4, <1>5, <1>u, <1>6, <1>7, <1>9 DEF ConsumerStep, JobStep, SweepStep

LEMMA ConsumerIInv ==
    ASSUME TypeOK, IInv, NEW c \in Consumer, ConsumerStep(c) \/ ContextEnds(c)
    PROVE  IInv'
  <1>1. UNCHANGED <<upload, deletion>>
    BY DEF serverVars, ConsumerStep, JobStep, SweepStep, Receive, ContextEnds, JobLoad,
           JobFetch, JobPutThumb, JobSave, JobUndo, JobMarkFailed, SweepRemove,
           SweepDone, Republish, RepublishFails, Settle
  <1>2. NoRowNoDelete' /\ OriginalKept' /\ OneDeleteAtATime'
    BY <1>1, ConsumerRows, ConsumerObjects, RowsFrame
  <1>3. DeleteEventsAcked'
    BY <1>1, ConsumerEvents
  <1>4. TasksKeepToTheirKeys'
    BY ConsumerKeys
  <1>5. QED
    BY <1>2, <1>3, <1>4 DEF IInv

\* Requests leave the tasks alone.
LEMMA TasksFrame ==
    ASSUME IInv, UNCHANGED task
    PROVE  TasksKeepToTheirKeys'
  BY DEF IInv, TasksKeepToTheirKeys

\* An upload request publishes no delete event.
LEMMA UploadEvents ==
    ASSUME TypeOK, IInv, NEW a \in Avatar, UploadStep(a)
    PROVE  DeleteEventsAcked'
  <1>1. UNCHANGED <<deletion, retryQ, dlq, task>>
    BY DEF queueVars, workerVars, UploadStep, UploadPut, UploadInsert, UploadPublish,
           UploadUndoRow, UploadUndoObject, UploadAbort
  <1>2. \A x \in Event : x.op = "delete" /\ mainQ'[x] > 0 => mainQ[x] > 0
    <2>1. CASE UNCHANGED mainQ
      BY <2>1
    <2>2. CASE mainQ' = Put(mainQ, AvatarUploadEvent(a))
      <3>1. AvatarUploadEvent(a) \in Event /\ AvatarUploadEvent(a).op = "upload"
        BY PublishedEvents DEF AvatarUploadEvent
      <3>2. QED
        BY <2>2, <3>1, QueueOperators DEF TypeOK
    <2>3. QED
      BY <2>1, <2>2
         DEF queueVars, UploadStep, UploadPut, UploadInsert, UploadPublish, UploadUndoRow,
             UploadUndoObject, UploadAbort
  <1>3. QED
    BY <1>1, <1>2, AckedFrame DEF IInv, DeleteEventsAcked

LEMMA UploadIInv ==
    ASSUME TypeOK, IInv, NEW a \in Avatar, UploadStep(a)
    PROVE  IInv'
  <1>1. UNCHANGED <<deletion, task>>
    BY DEF workerVars, UploadStep, UploadPut, UploadInsert, UploadPublish,
           UploadUndoRow, UploadUndoObject, UploadAbort
  <1>t. /\ upload \in [Avatar -> UploadPc]
        /\ row \in [Avatar -> Row]
        /\ s3 \in [Avatar -> SUBSET Key]
        /\ \A d \in Deleter : deletion[d].av \in Avatar
    BY DEF TypeOK, Deletion
  <1>i. NoRowNoDelete /\ OriginalKept /\ OneDeleteAtATime
    BY DEF IInv
  <1>2. \A x \in Avatar : x # a =>
            upload'[x] = upload[x] /\ row'[x] = row[x] /\ s3'[x] = s3[x]
    BY <1>t
       DEF UploadStep, UploadPut, UploadInsert, UploadPublish, UploadUndoRow,
           UploadUndoObject, UploadAbort
  \* What the step does to its own avatar.
  <1>3. /\ upload'[a] \in {"idle", "insert"} =>
              /\ upload[a] = "idle" /\ row'[a] = row[a] /\ upload'[a] = "insert"
              /\ Original \in s3'[a]
        /\ upload'[a] = "publish" =>
              upload[a] = "insert" /\ s3'[a] = s3[a]
        /\ upload'[a] = "acked" =>
              upload[a] = "publish" /\ s3'[a] = s3[a] /\ row'[a] = row[a]
        /\ Live(row'[a]) => Live(row[a]) \/ upload[a] = "insert"
    <2>1. CASE UploadPut(a)
      BY <1>t, <2>1 DEF UploadPut, WriteResult
    <2>2. CASE UploadInsert(a)
      BY <1>t, <2>2 DEF UploadInsert, WriteResult
    <2>3. CASE UploadPublish(a)
      BY <1>t, <2>3 DEF UploadPublish
    <2>4. CASE UploadUndoRow(a)
      BY <1>t, <2>4 DEF UploadUndoRow, WriteResult, DeleteHard, NoRow, Live
    <2>5. CASE UploadUndoObject(a)
      BY <1>t, <2>5 DEF UploadUndoObject, WriteResult
    <2>6. CASE UploadAbort(a)
      BY <1>t, <2>6 DEF UploadAbort
    <2>7. QED
      BY <2>1, <2>2, <2>3, <2>4, <2>5, <2>6 DEF UploadStep
  <1>4. NoRowNoDelete'
    BY <1>1, <1>2, <1>3, <1>i DEF NoRowNoDelete
  <1>5. OneDeleteAtATime'
    <2>1. upload[a] = "insert" =>
            \A d \in Deleter : deletion[d].av = a => ~(Open(d) \/ deletion[d].pc = "acked")
      BY <1>i DEF NoRowNoDelete, Open
    <2>2. QED
      BY <1>1, <1>2, <1>3, <1>t, <1>i, <2>1 DEF OneDeleteAtATime, Open
  <1>6. OriginalKept'
    <2>1. upload[a] = "publish" => MayBeLive(a) \/ ~MayBeLive(a)'  \/ ~(row'[a] = row[a])
      BY <1>1 DEF MayBeLive, Open
    <2>2. \A x \in Avatar : x # a => (MayBeLive(x)' => MayBeLive(x))
      BY <1>1, <1>2 DEF MayBeLive, Open
    <2>3. QED
      BY <1>2, <1>3, <1>i, <2>1, <2>2 DEF OriginalKept
  <1>7. QED
    BY <1>1, <1>4, <1>5, <1>6, TasksFrame, UploadEvents DEF IInv

\* Only a published delete event is new, and its request is acknowledged.
LEMMA DeleteEvents ==
    ASSUME TypeOK, IInv, NEW d \in Deleter, DeleteStep(d)
    PROVE  DeleteEventsAcked'
  <1>1. UNCHANGED <<retryQ, dlq, task>>
    BY DEF queueVars, workerVars, DeleteStep, DeleteRead, DeleteSoft, DeletePublish,
           DeleteRestore, DeleteAbort
  <1>t. deletion \in [Deleter -> Deletion]
    BY DEF TypeOK
  <1>2. \A a : DeleteAcked(a) => DeleteAcked(a)'
    <2>1. deletion[d].pc # "acked"
      BY DEF DeleteStep, DeleteRead, DeleteSoft, DeletePublish, DeleteRestore, DeleteAbort
    <2>2. \A x \in Deleter : x # d => deletion'[x] = deletion[x]
      BY <1>t
         DEF DeleteStep, DeleteRead, DeleteSoft, DeletePublish, DeleteRestore, DeleteAbort
    <2>3. QED
      BY <2>1, <2>2 DEF DeleteAcked
  <1>3. \A x \in Event : x.op = "delete" /\ mainQ'[x] > 0 =>
            mainQ[x] > 0 \/ DeleteAcked(x.av)'
    <2>1. CASE UNCHANGED mainQ
      BY <2>1
    <2>2. CASE DeletePublish(d) /\ ~UNCHANGED mainQ
      <3>1. PICK e \in Event :
              e = AvatarDeleteEvent(deletion[d].av, AllObjectKeys(deletion[d].seen))
        BY <1>t, PublishedEvents DEF Deletion
      <3>2. mainQ' = Put(mainQ, e) /\ e.av = deletion[d].av
        BY <2>2, <3>1 DEF DeletePublish, AvatarDeleteEvent
      <3>3. DeleteAcked(e.av)'
        BY <2>2, <1>t, <3>2 DEF DeletePublish, DeleteAcked, Deletion
      <3>4. QED
        BY <3>1, <3>2, <3>3, QueueOperators DEF TypeOK
    <2>3. QED
      BY <2>1, <2>2
         DEF queueVars, DeleteStep, DeleteRead, DeleteSoft, DeleteRestore, DeleteAbort
  <1>4. QED
    BY <1>1, <1>2, <1>3 DEF IInv, DeleteEventsAcked

LEMMA DeleteIInv ==
    ASSUME TypeOK, IInv, NEW d \in Deleter, DeleteStep(d)
    PROVE  IInv'
  <1>1. UNCHANGED <<upload, s3, task>>
    BY DEF workerVars, DeleteStep, DeleteRead, DeleteSoft, DeletePublish, DeleteRestore,
           DeleteAbort
  <1> DEFINE a == deletion[d].av
  <1>t. /\ deletion \in [Deleter -> Deletion]
        /\ row \in [Avatar -> Row]
        /\ \A x \in Deleter : deletion[x].av \in Avatar
    BY DEF TypeOK, Deletion
  <1>i. NoRowNoDelete /\ OriginalKept /\ OneDeleteAtATime
    BY DEF IInv
  <1>2. /\ \A x \in Deleter : x # d => deletion'[x] = deletion[x]
        /\ deletion'[d].av = a
        /\ \A x \in Avatar : x # a => row'[x] = row[x]
    BY <1>t
       DEF DeleteStep, DeleteRead, DeleteSoft, DeletePublish, DeleteRestore, DeleteAbort,
           Deletion
  \* How the request and the row it is about move together.
  <1>3. \/ /\ deletion[d].pc = "idle"
           /\ \/ deletion'[d].pc = "failed"
              \/ deletion'[d].pc = "softDelete" /\ Live(row[a])
           /\ row'[a] = row[a]
        \/ /\ deletion[d].pc = "softDelete"
           /\ \/ deletion'[d].pc \in {"failed", "aborted"} /\ (Live(row'[a]) => Live(row[a]))
              \/ deletion'[d].pc = "publish" /\ Live(row[a]) /\ ~Live(row'[a])
           /\ row[a].state = "absent" => row'[a].state = "absent"
        \/ /\ deletion[d].pc = "publish"
           /\ deletion'[d].pc \in {"acked", "restore", "aborted"}
           /\ row'[a] = row[a]
        \/ /\ deletion[d].pc = "restore"
           /\ deletion'[d].pc \in {"failed", "aborted"}
           /\ row[a].state = "absent" => row'[a].state = "absent"
    <2>1. CASE DeleteRead(d)
      <3>1. row' = row /\ deletion[d].pc = "idle"
        BY <2>1 DEF DeleteRead
      <3>2. \/ deletion'[d].pc = "failed"
            \/ deletion'[d].pc = "softDelete" /\ Live(row[a])
        BY <1>t, <2>1 DEF DeleteRead
      <3>3. QED
        BY <3>1, <3>2
    <2>2. CASE DeleteSoft(d)
      <3>1. PICK r \in WriteResult :
              /\ row' = IF r = "error" THEN row ELSE [row EXCEPT ![a] = SoftDelete(@)]
              /\ deletion' = [deletion EXCEPT ![d].pc =
                     IF r = "ok" /\ SoftDeleteMatches(row[a]) THEN "publish" ELSE "failed"]
        BY <2>2 DEF DeleteSoft
      <3>2. row'[a] = IF r = "error" THEN row[a] ELSE SoftDelete(row[a])
        BY <3>1, <1>t
      <3>3. deletion'[d].pc =
              IF r = "ok" /\ SoftDeleteMatches(row[a]) THEN "publish" ELSE "failed"
        BY <3>1, <1>t DEF Deletion
      <3>4. row[a] \in Row
        BY <1>t
      <3>5. QED
        BY <2>2, <3>2, <3>3, <3>4 DEF DeleteSoft, SoftDelete, SoftDeleteMatches, Live, Row
    <2>3. CASE DeletePublish(d)
      BY <1>t, <2>3 DEF DeletePublish, Deletion
    <2>4. CASE DeleteRestore(d)
      BY <1>t, <2>4 DEF DeleteRestore, Deletion, RestoreSoftDeleted
    <2>5. CASE DeleteAbort(d)
      BY <1>t, <2>5 DEF DeleteAbort, Deletion
    <2>6. QED
      BY <2>1, <2>2, <2>3, <2>4, <2>5 DEF DeleteStep
  <1> HIDE DEF a
  <1>a. a = deletion[d].av
    BY DEF a
  <1>4. NoRowNoDelete'
    BY <1>1, <1>2, <1>3, <1>t, <1>i, <1>a DEF NoRowNoDelete, Live
  <1>5. OneDeleteAtATime'
    BY <1>2, <1>3, <1>t, <1>i, <1>a DEF OneDeleteAtATime, Open
  <1>6. OriginalKept'
    <2>1. \A x \in Avatar : MayBeLive(x)' => MayBeLive(x)
      BY <1>2, <1>3, <1>t, <1>a DEF MayBeLive, Open
    <2>2. QED
      BY <1>1, <1>i, <2>1 DEF OriginalKept
  <1>7. QED
    BY <1>1, <1>4, <1>5, <1>6, TasksFrame, DeleteEvents DEF IInv

LEMMA ReplicaIInv ==
    ASSUME TypeOK, IInv, NEW w \in Worker, ReplicaStep(w)
    PROVE  IInv'
  <1>1. UNCHANGED <<row, s3, upload, deletion, retryQ, dlq>>
    BY DEF serverVars, queueVars, ReplicaStep, Disconnect, Restart, Crash
  <1>2. NoRowNoDelete' /\ OriginalKept' /\ OneDeleteAtATime'
    BY <1>1, RowsFrame
  <1>3. \A x \in Consumer : task'[x] \in {task[x], IdleTask}
    BY DEF TypeOK, ReplicaStep, Disconnect, Restart, Crash
  <1>4. TasksKeepToTheirKeys'
    BY <1>3 DEF IInv, TasksKeepToTheirKeys, IdleTask
  <1>5. \A e \in Event : e.op = "delete" /\ mainQ'[e] > 0 => DeleteAcked(e.av)
    <2>1. ASSUME NEW e \in Event, e.op = "delete", Requeued(w)[e] > 0
          PROVE  DeleteAcked(e.av)
      <3>1. <<e.op, w>> \in Consumer /\ <<e.op, w>>[1] = e.op
        BY DEF Consumer, Event
      <3>2. mainQ[e] > 0 \/ Unacked(w, e)
        BY <2>1 DEF Requeued
      <3>3. QED
        BY <2>1, <3>1, <3>2 DEF Unacked, IInv, DeleteEventsAcked
    <2>2. QED
      BY <2>1 DEF queueVars, ReplicaStep, Disconnect, Restart, Crash, IInv, DeleteEventsAcked
  <1>6. DeleteEventsAcked'
    BY <1>1, <1>3, <1>5, AckedFrame DEF IInv, DeleteEventsAcked, IdleTask
  <1>7. QED
    BY <1>2, <1>4, <1>6 DEF IInv

LEMMA RetryIInv ==
    ASSUME TypeOK, IInv, NEW e \in Event, RetryExpires(e)
    PROVE  IInv'
  <1>1. UNCHANGED <<row, s3, upload, deletion, dlq, task>>
    BY DEF serverVars, workerVars, RetryExpires
  <1>2. NoRowNoDelete' /\ OriginalKept' /\ OneDeleteAtATime'
    BY <1>1, RowsFrame
  <1>3. /\ \A x \in Event : mainQ'[x] > 0 => x = e \/ mainQ[x] > 0
        /\ \A x \in Event : retryQ'[x] > 0 => retryQ[x] > 0
    BY QueueOperators DEF RetryExpires, TypeOK
  <1>4. DeleteEventsAcked'
    BY <1>1, <1>3, AckedFrame DEF RetryExpires, IInv, DeleteEventsAcked
  <1>5. QED
    BY <1>1, <1>2, <1>4, TasksFrame DEF IInv

LEMMA NextIInv == TypeOK /\ IInv /\ [Next]_vars => IInv'
  <1> SUFFICES ASSUME TypeOK, IInv, [Next]_vars PROVE IInv'
    OBVIOUS
  <1>1. CASE UNCHANGED vars
    <2>1. UNCHANGED <<row, s3, upload, deletion, mainQ, retryQ, dlq, task>>
      BY <1>1 DEF vars
    <2>2. NoRowNoDelete' /\ OriginalKept' /\ OneDeleteAtATime'
      BY <2>1, RowsFrame
    <2>3. DeleteEventsAcked'
      BY <2>1, AckedFrame DEF IInv, DeleteEventsAcked
    <2>4. QED
      BY <2>1, <2>2, <2>3, TasksFrame DEF IInv
  <1>2. CASE Next
    BY <1>2, UploadIInv, DeleteIInv, ConsumerIInv, ReplicaIInv, RetryIInv DEF Next
  <1>3. QED
    BY <1>1, <1>2

\* The strengthening holds in every behaviour.
THEOREM Invariant == Spec => []IInv
  BY InitIInv, NextIInv, TypeCorrect, PTL DEF Spec

\* A live avatar whose upload was acknowledged always has its original: no
\* rollback, retry, redelivery, crash or late worker takes it away.
THEOREM Servable == Spec => []AckedAvatarServable
  <1>1. IInv => AckedAvatarServable
    BY DEF IInv, OriginalKept, MayBeLive, AckedAvatarServable, Acked
  <1>2. QED
    BY <1>1, Invariant, PTL

\* An acknowledged delete is never undone, and no delete event exists for an
\* avatar that is live.
THEOREM DeletedForGood == Spec => []DeleteIsFinal
  <1>1. TypeOK /\ IInv => DeleteIsFinal
    <2> SUFFICES ASSUME TypeOK, IInv PROVE DeleteIsFinal
      OBVIOUS
    <2>1. \A a \in Avatar : DeleteAcked(a) => ~Live(row[a])
      BY DEF DeleteAcked, IInv, OneDeleteAtATime
    <2>2. ASSUME NEW e \in Event, e.op = "delete", mainQ[e] + retryQ[e] + dlq[e] > 0
          PROVE  DeleteAcked(e.av)
      <3>1. mainQ[e] \in Nat /\ retryQ[e] \in Nat /\ dlq[e] \in Nat
        BY DEF TypeOK
      <3>2. mainQ[e] > 0 \/ retryQ[e] > 0 \/ dlq[e] > 0
        BY <2>2, <3>1
      <3>3. QED
        BY <2>2, <3>2 DEF IInv, DeleteEventsAcked
    <2>3. \A e \in Event : e.av \in Avatar
      BY DEF Event
    <2>4. QED
      BY <2>1, <2>2, <2>3 DEF DeleteIsFinal
  <1>2. QED
    BY <1>1, Invariant, TypeCorrect, PTL

-----------------------------------------------------------------------------
(* Steps of the worker.                                                    *)

\* A delete request leaves the status of every row alone.
LEMMA DeleteKeepsStatus ==
    ASSUME TypeOK, NEW d \in Deleter, DeleteStep(d)
    PROVE  \A a \in Avatar : row'[a].status = row[a].status
  <1>t. row \in [Avatar -> Row]
    BY DEF TypeOK
  <1>1. CASE DeleteSoft(d)
    BY <1>1, <1>t DEF DeleteSoft, SoftDelete, Row
  <1>2. CASE DeleteRestore(d)
    BY <1>2, <1>t DEF DeleteRestore, RestoreSoftDeleted, Row
  <1>3. CASE DeleteRead(d) \/ DeletePublish(d) \/ DeleteAbort(d)
    BY <1>3 DEF DeleteRead, DeletePublish, DeleteAbort
  <1> QED
    BY <1>1, <1>2, <1>3 DEF DeleteStep

\* A consumer changes its own task only.
LEMMA OwnTask ==
    ASSUME TypeOK, NEW c \in Consumer, ConsumerStep(c) \/ ContextEnds(c)
    PROVE  \A x \in Consumer : x # c => task'[x] = task[x]
  <1>1. task \in [Consumer -> Task]
    BY DEF TypeOK
  <1>2. CASE JobStep(c)
    BY <1>1, <1>2 DEF JobStep, JobLoad, JobFetch, JobPutThumb, JobSave, JobUndo, JobMarkFailed
  <1>3. CASE SweepStep(c)
    BY <1>1, <1>3 DEF SweepStep, SweepRemove, SweepDone
  <1>4. CASE Receive(c) \/ Republish(c) \/ RepublishFails(c) \/ Settle(c) \/ ContextEnds(c)
    BY <1>1, <1>4 DEF Receive, Republish, RepublishFails, Settle, ContextEnds
  <1> QED
    BY <1>2, <1>3, <1>4 DEF ConsumerStep

\* What a consumer step leaves alone.
LEMMA ConsumerFrame ==
    ASSUME NEW c \in Consumer, ConsumerStep(c) \/ ContextEnds(c)
    PROVE  UNCHANGED <<upload, deletion, conn>>
  BY DEF serverVars, ConsumerStep, JobStep, SweepStep, Receive, ContextEnds, JobLoad,
         JobFetch, JobPutThumb, JobSave, JobUndo, JobMarkFailed, SweepRemove, SweepDone,
         Republish, RepublishFails, Settle

\* What the handler of an upload event does: its position, and the row it is about.
LEMMA JobMoves ==
    ASSUME TypeOK, IInv, NEW c \in Consumer, JobStep(c)
    PROVE  /\ c[1] = "upload"
           /\ task[c].pc \in {"load", "fetch", "thumbs", "undo"}
           /\ task'[c].ev = task[c].ev
           /\ task'[c].dead = task[c].dead
           /\ task'[c].pc \in {"load", "fetch", "thumbs", "undo", "report", "ack"}
           /\ task'[c].pc = "ack" =>
                 \/ ~NeedsProcessing(row[task[c].ev.av]) /\ UNCHANGED row
                 \/ row'[task[c].ev.av].status = "completed"
           /\ \A a \in Avatar : a # task[c].ev.av => row'[a] = row[a]
           /\ UNCHANGED queueVars
  <1> DEFINE Moves ==
           /\ c[1] = "upload"
           /\ task[c].pc \in {"load", "fetch", "thumbs", "undo"}
           /\ task'[c].ev = task[c].ev
           /\ task'[c].dead = task[c].dead
           /\ task'[c].pc \in {"load", "fetch", "thumbs", "undo", "report", "ack"}
           /\ task'[c].pc = "ack" =>
                 \/ ~NeedsProcessing(row[task[c].ev.av]) /\ UNCHANGED row
                 \/ row'[task[c].ev.av].status = "completed"
           /\ \A a \in Avatar : a # task[c].ev.av => row'[a] = row[a]
           /\ UNCHANGED queueVars
  <1>t. /\ task \in [Consumer -> Task] /\ row \in [Avatar -> Row]
        /\ task[c].pc \in {"load", "fetch", "thumbs", "undo"} =>
              task[c].ev.av \in Avatar /\ c[1] = "upload"
    BY TaskFields DEF TypeOK, IInv, TasksKeepToTheirKeys
  <1>1. CASE JobLoad(c)
    <2>1. PICK r \in ReadResult :
            task' = [task EXCEPT ![c].pc =
                CASE r = "error" -> "report"
                  [] r = "ok" /\ NeedsProcessing(row[task[c].ev.av]) -> "fetch"
                  [] OTHER -> "ack"]
      BY <1>1 DEF JobLoad
    <2>2. /\ task'[c].pc \in {"report", "fetch", "ack"}
          /\ task'[c].pc = "ack" => ~NeedsProcessing(row[task[c].ev.av])
      <3>1. CASE r = "error"
        BY <2>1, <3>1, <1>t DEF Task
      <3>2. CASE r = "ok" /\ NeedsProcessing(row[task[c].ev.av])
        BY <2>1, <3>2, <1>t DEF Task
      <3>3. CASE r = "ok" /\ ~NeedsProcessing(row[task[c].ev.av])
        BY <2>1, <3>3, <1>t DEF Task
      <3> QED
        BY <3>1, <3>2, <3>3 DEF ReadResult
    <2>3. task'[c].ev = task[c].ev /\ task'[c].dead = task[c].dead
      BY <2>1, <1>t DEF Task
    <2> QED
      BY <1>1, <1>t, <2>2, <2>3 DEF JobLoad
  <1>2. CASE JobFetch(c)
    BY <1>2, <1>t DEF JobFetch, Task
  <1>3. CASE JobPutThumb(c)
    BY <1>3, <1>t DEF JobPutThumb, Task
  <1>4. CASE JobSave(c)
    <2>1. PICK r \in WriteResult :
            /\ row' = IF r = "error" THEN row
                      ELSE [row EXCEPT ![task[c].ev.av] = UpdateProcessingResult(@)]
            /\ task' = [task EXCEPT ![c].pc =
                   IF r = "ok" /\ Live(row[task[c].ev.av]) THEN "ack" ELSE "undo"]
      BY <1>4 DEF JobSave
    <2>2. task[c].pc = "thumbs" /\ task[c].ev.av \in Avatar /\ UNCHANGED queueVars
      BY <1>4, <1>t DEF JobSave
    <2>3. /\ task'[c].pc \in {"ack", "undo"}
          /\ task'[c].pc = "ack" => r = "ok" /\ Live(row[task[c].ev.av])
          /\ task'[c].ev = task[c].ev /\ task'[c].dead = task[c].dead
      BY <2>1, <1>t DEF Task
    <2>4. task'[c].pc = "ack" => row'[task[c].ev.av].status = "completed"
      BY <2>1, <2>2, <2>3, <1>t DEF Row, UpdateProcessingResult
    <2>5. \A a \in Avatar : a # task[c].ev.av => row'[a] = row[a]
      BY <2>1, <2>2, <1>t
    <2> QED
      BY <2>2, <2>3, <2>4, <2>5, <1>t
  <1>5. CASE JobUndo(c)
    BY <1>5, <1>t DEF JobUndo, Task
  <1>6. CASE JobMarkFailed(c)
    BY <1>6, <1>t DEF JobMarkFailed, Task
  <1>7. Moves
    BY <1>1, <1>2, <1>3, <1>4, <1>5, <1>6 DEF JobStep
  <1> QED
    BY <1>7

\* A delete task never touches rows or queues, except to report.
LEMMA SweepMoves ==
    ASSUME TypeOK, IInv, NEW c \in Consumer, SweepStep(c)
    PROVE  /\ c[1] = "delete"
           /\ task'[c].ev = task[c].ev
           /\ task'[c].dead = task[c].dead
           /\ UNCHANGED <<row, mainQ, retryQ, dlq>>
  <1>t. task \in [Consumer -> Task] /\ (task[c].pc = "sweep" => c[1] = "delete")
    BY DEF TypeOK, IInv, TasksKeepToTheirKeys
  <1>1. CASE SweepRemove(c)
    BY <1>1, <1>t DEF SweepRemove, Swept, Task, queueVars
  <1>2. CASE SweepDone(c)
    BY <1>2, <1>t DEF SweepDone, Task, queueVars
  <1> QED
    BY <1>1, <1>2 DEF SweepStep

\* A queue only grows when an event is put into it.
LEMMA PutGrows ==
    ASSUME NEW q \in [Event -> Nat], NEW e \in Event
    PROVE  /\ \A x \in Event : Put(q, e)[x] >= q[x]
           /\ Put(q, e)[e] > 0
  BY DEF Put

-----------------------------------------------------------------------------
(* Where events and tasks go in a step.                                    *)

\* An event that is in a queue stays in one, or starts at a consumer.
LEMMA EventMoves ==
    ASSUME TypeOK, [Next]_vars, NEW e \in Event, mainQ[e] + retryQ[e] + dlq[e] > 0
    PROVE  \/ mainQ'[e] + retryQ'[e] + dlq'[e] > 0
           \/ \E w \in Worker : /\ conn'[w] = "up"
                                /\ task'[<<e.op, w>>].pc = StartPc(e)
                                /\ task'[<<e.op, w>>].ev = e
                                /\ task'[<<e.op, w>>].keys = StartKeys(e)
  <1>t. /\ mainQ \in [Event -> Nat] /\ retryQ \in [Event -> Nat] /\ dlq \in [Event -> Nat]
        /\ deletion \in [Deleter -> Deletion] /\ task \in [Consumer -> Task]
    BY DEF TypeOK
  <1>q. mainQ[e] \in Nat /\ retryQ[e] \in Nat /\ dlq[e] \in Nat
    BY <1>t
  \* Where the counts of e only grow.
  <1>g. ASSUME mainQ'[e] \in Nat, retryQ'[e] \in Nat, dlq'[e] \in Nat,
               mainQ'[e] >= mainQ[e], retryQ'[e] >= retryQ[e], dlq'[e] >= dlq[e]
        PROVE  mainQ'[e] + retryQ'[e] + dlq'[e] > 0
    BY <1>g, <1>q
  <1>p. ASSUME NEW x \in Event, mainQ' = Put(mainQ, x), UNCHANGED <<retryQ, dlq>>
        PROVE  mainQ'[e] + retryQ'[e] + dlq'[e] > 0
    BY <1>p, <1>t, <1>g, PutGrows, QueueOperators
  <1>1. CASE UNCHANGED <<mainQ, retryQ, dlq>>
    BY <1>1
  <1>2. ASSUME NEW a \in Avatar, UploadStep(a)
        PROVE  mainQ'[e] + retryQ'[e] + dlq'[e] > 0
    <2>1. \/ mainQ' = Put(mainQ, AvatarUploadEvent(a)) /\ UNCHANGED <<retryQ, dlq>>
          \/ UNCHANGED <<mainQ, retryQ, dlq>>
      BY <1>2 DEF UploadStep, UploadPut, UploadInsert, UploadPublish, UploadUndoRow,
                  UploadUndoObject, UploadAbort, queueVars
    <2> QED
      BY <2>1, <1>1, <1>p, PublishedEvents
  <1>3. ASSUME NEW d \in Deleter, DeleteStep(d)
        PROVE  mainQ'[e] + retryQ'[e] + dlq'[e] > 0
    <2>1. \/ /\ mainQ' = Put(mainQ, AvatarDeleteEvent(deletion[d].av,
                                                      AllObjectKeys(deletion[d].seen)))
             /\ UNCHANGED <<retryQ, dlq>>
          \/ UNCHANGED <<mainQ, retryQ, dlq>>
      BY <1>3 DEF DeleteStep, DeleteRead, DeleteSoft, DeletePublish, DeleteRestore,
                  DeleteAbort, queueVars
    <2>2. deletion[d].av \in Avatar /\ deletion[d].seen \in Row
      BY <1>t DEF Deletion
    <2> QED
      BY <2>1, <2>2, <1>1, <1>p, PublishedEvents
  <1>4. ASSUME NEW c \in Consumer, Receive(c)
        PROVE  \/ mainQ'[e] + retryQ'[e] + dlq'[e] > 0
               \/ \E w \in Worker : /\ conn'[w] = "up"
                                    /\ task'[<<e.op, w>>].pc = StartPc(e)
                                    /\ task'[<<e.op, w>>].ev = e
                                    /\ task'[<<e.op, w>>].keys = StartKeys(e)
    <2>1. PICK x \in Event :
            /\ x.op = c[1] /\ mainQ[x] > 0
            /\ mainQ' = Take(mainQ, x)
            /\ task' = [task EXCEPT ![c] =
                   [pc |-> StartPc(x), ev |-> x, keys |-> StartKeys(x),
                    err |-> FALSE, dead |-> FALSE]]
      BY <1>4 DEF Receive
    <2>2. /\ UNCHANGED <<retryQ, dlq, conn>> /\ conn[c[2]] = "up"
          /\ c[2] \in Worker /\ c = <<c[1], c[2]>>
      BY <1>4 DEF Receive, Consumer
    <2>3. CASE x = e
      BY <2>1, <2>2, <2>3, <1>t
    <2>4. CASE x # e
      <3>1. mainQ'[e] = mainQ[e]
        BY <2>1, <2>4, <1>t DEF Take
      <3> QED
        BY <2>2, <3>1
    <2> QED
      BY <2>3, <2>4
  <1>5. ASSUME NEW c \in Consumer, Republish(c)
        PROVE  mainQ'[e] + retryQ'[e] + dlq'[e] > 0
    <2>1. task[c].ev \in Event /\ mainQ' = mainQ
      BY <1>5 DEF Republish, TypeOK
    <2>2. \/ dlq' = Put(dlq, task[c].ev) /\ retryQ' = retryQ
          \/ /\ retryQ' = Put(retryQ, NextAttempt(task[c].ev)) /\ dlq' = dlq
             /\ ~RetriesExhausted(task[c].ev)
      BY <1>5 DEF Republish
    <2>3. ASSUME NEW x \in Event, NEW q \in [Event -> Nat]
          PROVE  Put(q, x)[e] \in Nat /\ Put(q, x)[e] >= q[e]
      BY <2>3, PutGrows, QueueOperators
    <2>4. CASE dlq' = Put(dlq, task[c].ev) /\ retryQ' = retryQ
      BY <2>1, <2>3, <2>4, <1>t, <1>q, <1>g
    <2>5. CASE /\ retryQ' = Put(retryQ, NextAttempt(task[c].ev)) /\ dlq' = dlq
               /\ ~RetriesExhausted(task[c].ev)
      <3>1. NextAttempt(task[c].ev) \in Event
        BY <2>1, <2>5, RepublishedEvent
      <3> QED
        BY <2>1, <2>3, <2>5, <3>1, <1>t, <1>q, <1>g
    <2> QED
      BY <2>2, <2>4, <2>5
  <1>6. ASSUME NEW x \in Event, RetryExpires(x)
        PROVE  mainQ'[e] + retryQ'[e] + dlq'[e] > 0
    BY <1>6, <1>t, <1>q DEF RetryExpires, Put, Take
  <1>7. ASSUME NEW w \in Worker, ReplicaStep(w)
        PROVE  mainQ'[e] + retryQ'[e] + dlq'[e] > 0
    <2>1. UNCHANGED <<retryQ, dlq>> /\ (mainQ' = mainQ \/ mainQ' = Requeued(w))
      BY <1>7 DEF ReplicaStep, Disconnect, Restart, Crash, queueVars
    <2> QED
      BY <2>1, <1>t, <1>q DEF Requeued
  <1>8. ASSUME NEW c \in Consumer, ConsumerStep(c) \/ ContextEnds(c), ~Receive(c), ~Republish(c)
        PROVE  UNCHANGED <<mainQ, retryQ, dlq>>
    BY <1>8 DEF queueVars, ConsumerStep, JobStep, SweepStep, ContextEnds, JobLoad,
         JobFetch, JobPutThumb, JobSave, JobUndo, JobMarkFailed, SweepRemove, SweepDone,
         RepublishFails, Settle
  <1>9. CASE UNCHANGED vars
    BY <1>9, <1>1 DEF vars
  <1> QED
    BY <1>1, <1>2, <1>3, <1>4, <1>5, <1>6, <1>7, <1>8, <1>9 DEF Next

\* What a step does to a task: nothing, one of its own consumer's steps, or its
\* replica dies.
LEMMA TaskSteps ==
    ASSUME TypeOK, [Next]_vars, NEW c \in Consumer
    PROVE  \/ task'[c] = task[c] /\ ~ConsumerStep(c)
           \/ ConsumerStep(c) \/ ContextEnds(c)
           \/ \E w \in Worker : Crash(w) /\ c[2] = w /\ task'[c] = IdleTask
  <1>t. task \in [Consumer -> Task]
    BY DEF TypeOK
  <1>1. CASE UNCHANGED task
    BY <1>1
  <1>2. ASSUME NEW x \in Consumer, ConsumerStep(x) \/ ContextEnds(x)
        PROVE  task'[c] = task[c] \/ ConsumerStep(c) \/ ContextEnds(c)
    BY <1>2, OwnTask
  <1>3. ASSUME NEW w \in Worker, ReplicaStep(w)
        PROVE  \/ task'[c] = task[c]
               \/ Crash(w) /\ c[2] = w /\ task'[c] = IdleTask
    BY <1>3, <1>t DEF ReplicaStep, Disconnect, Restart, Crash
  <1>4. \/ UNCHANGED task
        \/ (\E x \in Consumer : ConsumerStep(x) \/ ContextEnds(x))
        \/ (\E w \in Worker : ReplicaStep(w))
    BY DEF Next, vars, workerVars, UploadStep, UploadPut, UploadInsert, UploadPublish,
           UploadUndoRow, UploadUndoObject, UploadAbort, DeleteStep, DeleteRead, DeleteSoft,
           DeletePublish, DeleteRestore, DeleteAbort, RetryExpires
  <1> QED
    BY <1>1, <1>2, <1>3, <1>4

\* A session changes only by a step of its replica.
LEMMA SessionSteps ==
    ASSUME TypeOK, [Next]_vars, NEW w \in Worker
    PROVE  conn'[w] = conn[w] \/ ReplicaStep(w)
  <1>t. conn \in [Worker -> {"up", "lost"}]
    BY DEF TypeOK
  <1>1. ASSUME NEW v \in Worker, ReplicaStep(v)
        PROVE  v = w \/ conn'[w] = conn[w]
    BY <1>1, <1>t DEF ReplicaStep, Disconnect, Restart, Crash
  <1>2. ASSUME NEW c \in Consumer, ConsumerStep(c) \/ ContextEnds(c)
        PROVE  conn' = conn
    BY <1>2, ConsumerFrame
  <1>3. \/ conn' = conn
        \/ \E c \in Consumer : ConsumerStep(c) \/ ContextEnds(c)
        \/ \E v \in Worker : ReplicaStep(v)
    BY DEF Next, vars, workerVars, UploadStep, UploadPut, UploadInsert, UploadPublish,
           UploadUndoRow, UploadUndoObject, UploadAbort, DeleteStep, DeleteRead, DeleteSoft,
           DeletePublish, DeleteRestore, DeleteAbort, RetryExpires
  <1> QED
    BY <1>1, <1>2, <1>3

\* Nobody stores the original again once a delete was acknowledged.
LEMMA OriginalNotBack ==
    ASSUME TypeOK, IInv, [Next]_vars, NEW a \in Avatar, DeleteAcked(a), Original \notin s3[a]
    PROVE  Original \notin s3'[a]
  <1>t. s3 \in [Avatar -> SUBSET Key] /\ upload[a] # "idle"
    BY DEF TypeOK, IInv, NoRowNoDelete, DeleteAcked
  <1>1. ASSUME NEW b \in Avatar, UploadStep(b)
        PROVE  Original \notin s3'[a]
    BY <1>1, <1>t DEF UploadStep, UploadPut, UploadInsert, UploadPublish, UploadUndoRow,
                      UploadUndoObject, UploadAbort
  <1>2. ASSUME NEW c \in Consumer, ConsumerStep(c) \/ ContextEnds(c)
        PROVE  Original \notin s3'[a]
    <2>1. CASE JobPutThumb(c)
      BY <2>1, <1>t, KeyAssumption DEF JobPutThumb
    <2>2. CASE JobUndo(c)
      BY <2>2, <1>t DEF JobUndo
    <2>3. CASE SweepRemove(c)
      BY <2>3, <1>t DEF SweepRemove
    <2>4. CASE UNCHANGED s3
      BY <2>4
    <2> QED
      BY <1>2, <2>1, <2>2, <2>3, <2>4, WhoStores
  <1>3. CASE UNCHANGED s3
    BY <1>3
  <1> QED
    BY <1>1, <1>2, <1>3
       DEF Next, vars, DeleteStep, DeleteRead, DeleteSoft, DeletePublish, DeleteRestore,
           DeleteAbort, RetryExpires, ReplicaStep, Disconnect, Restart, Crash

\* A delete is acknowledged by publishing its event, and stays acknowledged.
LEMMA AckedSteps ==
    ASSUME TypeOK, [Next]_vars, NEW d \in Deleter
    PROVE  /\ deletion[d].pc = "acked" => deletion'[d] = deletion[d]
           /\ deletion[d].pc # "acked" /\ deletion'[d].pc = "acked" =>
                 DeletePublish(d) /\ deletion'[d] = [deletion[d] EXCEPT !.pc = "acked"]
  <1>t. deletion \in [Deleter -> Deletion]
    BY DEF TypeOK
  <1>1. ASSUME NEW x \in Deleter, DeleteStep(x), x # d
        PROVE  deletion'[d] = deletion[d]
    BY <1>1, <1>t DEF DeleteStep, DeleteRead, DeleteSoft, DeletePublish, DeleteRestore,
                      DeleteAbort
  <1>2. CASE DeleteStep(d)
    <2>1. CASE DeletePublish(d)
      BY <2>1, <1>t DEF DeletePublish, Deletion
    <2>2. CASE ~DeletePublish(d)
      BY <1>2, <2>2, <1>t DEF DeleteStep, DeleteRead, DeleteSoft, DeleteRestore,
                              DeleteAbort, Deletion
    <2> QED
      BY <2>1, <2>2
  <1>3. CASE UNCHANGED deletion
    BY <1>3
  <1>4. ASSUME NEW c \in Consumer, ConsumerStep(c) \/ ContextEnds(c)
        PROVE  UNCHANGED deletion
    BY <1>4, ConsumerFrame
  <1>5. UNCHANGED deletion \/ \E x \in Deleter : DeleteStep(x)
    BY <1>4 DEF Next, vars, serverVars, UploadStep, UploadPut, UploadInsert, UploadPublish,
           UploadUndoRow, UploadUndoObject, UploadAbort, RetryExpires, ReplicaStep, Disconnect,
           Restart, Crash
  <1> QED
    BY <1>1, <1>2, <1>3, <1>5

-----------------------------------------------------------------------------
(* No delete event is lost.                                                *)

\* A step of a consumer keeps the context of a task that goes on.
LEMMA ContextKept ==
    ASSUME TypeOK, IInv, NEW c \in Consumer, ConsumerStep(c)
    PROVE  \/ ~task'[c].dead
           \/ task'[c].dead = task[c].dead /\ task'[c].pc # "idle"
  <1>t. task \in [Consumer -> Task]
    BY DEF TypeOK
  <1>1. CASE JobStep(c)
    BY <1>1, JobMoves
  <1>2. CASE SweepRemove(c)
    BY <1>2, <1>t DEF SweepRemove, Swept, Task
  <1>3. CASE SweepDone(c)
    BY <1>3, <1>t DEF SweepDone, SweepVerdict, Task
  <1>4. CASE Receive(c)
    BY <1>4, <1>t DEF Receive
  <1>5. CASE Republish(c) \/ RepublishFails(c)
    BY <1>5, <1>t DEF Republish, RepublishFails, Task
  <1>6. CASE Settle(c)
    BY <1>6, <1>t DEF Settle, IdleTask
  <1> QED
    BY <1>1, <1>2, <1>3, <1>4, <1>5, <1>6 DEF ConsumerStep, SweepStep

\* No shutdown or timeout ends a context: only the end of its session does, and
\* the replica starts again when both handlers are through.
LEMMA NextDeadOnlyIfLost ==
    ASSUME TypeOK, IInv, DeadOnlyIfLost, "cancel" \notin FaultKinds, [Next]_vars
    PROVE  DeadOnlyIfLost'
  <1>t. task \in [Consumer -> Task] /\ conn \in [Worker -> {"up", "lost"}]
    BY DEF TypeOK
  <1> SUFFICES ASSUME NEW c \in Consumer, task'[c].dead
               PROVE  conn'[c[2]] = "lost" /\ task'[c].pc # "idle"
    BY DEF DeadOnlyIfLost
  <1>c. c[2] \in Worker /\ c[1] \in Op /\ c = <<c[1], c[2]>>
    BY DEF Consumer
  <1>i. ~IdleTask.dead
    BY DEF IdleTask
  <1>1. CASE ConsumerStep(c)
    BY <1>1, <1>c, ContextKept, ConsumerFrame DEF DeadOnlyIfLost
  <1>2. CASE ContextEnds(c)
    BY <1>2, <1>t DEF ContextEnds, Fault, Task
  <1>3. CASE task'[c] = task[c]
    <2>1. conn[c[2]] = "lost" /\ task[c].pc # "idle"
      BY <1>3 DEF DeadOnlyIfLost
    <2>2. CASE ReplicaStep(c[2])
      <3>1. ~Disconnect(c[2])
        BY <2>1 DEF Disconnect
      <3>2. ~Restart(c[2])
        BY <2>1, <1>c DEF Restart
      <3>3. ~Crash(c[2])
        BY <1>i, <1>c DEF Crash
      <3> QED
        BY <2>2, <3>1, <3>2, <3>3 DEF ReplicaStep
    <2> QED
      BY <2>1, <2>2, <1>3, <1>c, SessionSteps
  <1> QED
    BY <1>1, <1>2, <1>3, <1>i, TaskSteps

\* A delivery of a delete event that the broker knows of: afterwards it is still
\* there or back in a queue, unless the sweep is done.
LEMMA HeldMoves ==
    ASSUME TypeOK, IInv, DeadOnlyIfLost, "cancel" \notin FaultKinds, [Next]_vars,
           NEW w \in Worker, NEW c, c = <<"delete", w>>,
           conn[w] = "up", task[c].pc \notin {"idle", "ack", "nack"}
    PROVE  \/ \E e \in Event : /\ e.op = "delete" /\ e.av = task[c].ev.av
                               /\ e.keys = task[c].ev.keys
                               /\ mainQ'[e] + retryQ'[e] + dlq'[e] > 0
           \/ /\ conn'[w] = "up" /\ task'[c].ev = task[c].ev
              /\ \/ task'[c] = task[c]
                 \/ SweepRemove(c)
                 \/ SweepDone(c) /\ task[c].err /\ task'[c].pc = "report"
           \/ SweepDone(c) /\ ~task[c].err
  <1>t. /\ task \in [Consumer -> Task] /\ conn \in [Worker -> {"up", "lost"}]
        /\ mainQ \in [Event -> Nat] /\ retryQ \in [Event -> Nat] /\ dlq \in [Event -> Nat]
        /\ c \in Consumer /\ c[1] = "delete" /\ c[2] = w
        /\ task[c].ev \in Event /\ task[c].ev.op = "delete"
    BY DEF TypeOK, Consumer, Op
  <1>d. ~task[c].dead
    BY <1>t DEF DeadOnlyIfLost
  <1> DEFINE e == task[c].ev
             Back == \E x \in Event : /\ x.op = "delete" /\ x.av = e.av /\ x.keys = e.keys
                                      /\ mainQ'[x] + retryQ'[x] + dlq'[x] > 0
  <1>1. CASE ConsumerStep(c)
    <2>1. ~JobStep(c)
      BY <1>t, JobMoves
    <2>2. ~Receive(c) /\ ~Settle(c) /\ ~RepublishFails(c)
      BY <1>t, <1>d DEF Receive, Settle, RepublishFails, CanPublish
    <2>3. CASE SweepStep(c)
      <3>1. task'[c].ev = e /\ conn' = conn
        BY <2>3, <1>t, SweepMoves DEF SweepStep, SweepRemove, SweepDone
      <3>2. SweepDone(c) /\ task[c].err => task'[c].pc = "report"
        BY <1>t DEF SweepDone, SweepVerdict
      <3>3. task[c].err \in BOOLEAN
        BY <1>t DEF Task
      <3> QED
        BY <2>3, <3>1, <3>2, <3>3 DEF SweepStep
    <2>4. CASE Republish(c)
      <3>1. CASE dlq' = Put(dlq, e)
        <4>1. dlq'[e] > 0 /\ dlq'[e] \in Nat
          BY <3>1, <1>t, PutGrows, QueueOperators
        <4>2. mainQ' = mainQ /\ (retryQ' = retryQ \/ ~RetriesExhausted(e))
          BY <2>4 DEF Republish
        <4>3. RetriesExhausted(e)
          <5>1. dlq' # dlq
            BY <3>1, <1>t DEF Put
          <5> QED
            BY <5>1, <2>4 DEF Republish
        <4>4. mainQ'[e] + retryQ'[e] + dlq'[e] > 0
          BY <4>1, <4>2, <4>3, <1>t
        <4> QED
          BY <4>4, <1>t
      <3>2. CASE retryQ' = Put(retryQ, NextAttempt(e)) /\ dlq' = dlq /\ ~RetriesExhausted(e)
        <4>1. PICK x \in Event : /\ x = NextAttempt(e) /\ x.op = "delete"
                                 /\ x.av = e.av /\ x.keys = e.keys
          BY <3>2, <1>t, RepublishedEvent DEF NextAttempt, Event
        <4>2. retryQ'[x] > 0 /\ retryQ' \in [Event -> Nat]
          BY <3>2, <4>1, <1>t, PutGrows, QueueOperators
        <4>3. mainQ'[x] + retryQ'[x] + dlq'[x] > 0
          BY <2>4, <3>2, <4>2, <1>t DEF Republish
        <4> QED
          BY <4>1, <4>3
      <3> QED
        BY <2>4, <3>1, <3>2 DEF Republish
    <2> QED
      BY <1>1, <2>1, <2>2, <2>3, <2>4 DEF ConsumerStep
  <1>2. CASE ContextEnds(c)
    BY <1>2, <1>t DEF ContextEnds, Fault
  <1>3. CASE ReplicaStep(w)
    <2>1. ~Restart(w)
      BY DEF Restart
    <2>2. CASE mainQ' = Requeued(w) /\ UNCHANGED <<retryQ, dlq>>
      <3>1. Unacked(w, e)
        BY <1>t DEF Unacked
      <3>2. mainQ'[e] = mainQ[e] + 1
        BY <2>2, <3>1, <1>t DEF Requeued
      <3> QED
        BY <2>2, <3>2, <1>t
    <2> QED
      BY <1>3, <2>1, <2>2 DEF ReplicaStep, Disconnect, Crash
  <1>4. CASE task'[c] = task[c] /\ ~ReplicaStep(w)
    BY <1>4, SessionSteps
  <1>5. ASSUME NEW v \in Worker, Crash(v), c[2] = v
        PROVE  ReplicaStep(w)
    BY <1>5, <1>t DEF ReplicaStep
  <1> QED
    BY <1>1, <1>2, <1>3, <1>4, <1>5, <1>t, TaskSteps

\* A sweep that goes on: just delivered, still the same, or one key further.
LEMMA SweepTaskMoves ==
    ASSUME TypeOK, IInv, [Next]_vars, NEW c \in Consumer, task'[c].pc = "sweep"
    PROVE  \/ /\ task[c].pc = "sweep" /\ task'[c].ev = task[c].ev
              /\ task'[c].keys = task[c].keys /\ task'[c].err = task[c].err
           \/ SweepRemove(c)
           \/ /\ Receive(c) /\ task'[c].ev \in Event
              /\ task'[c].keys = StartKeys(task'[c].ev) /\ ~task'[c].err
  <1>t. task \in [Consumer -> Task]
    BY DEF TypeOK
  <1>1. CASE ConsumerStep(c)
    <2>1. ~JobStep(c)
      BY JobMoves
    <2>2. ~SweepDone(c)
      BY <1>t DEF SweepDone, SweepVerdict, Task
    <2>3. ~Republish(c) /\ ~RepublishFails(c) /\ ~Settle(c)
      BY <1>t DEF Republish, RepublishFails, Settle, IdleTask, Task
    <2>4. CASE Receive(c)
      <3>1. PICK e \in Event :
              task' = [task EXCEPT ![c] = [pc |-> StartPc(e), ev |-> e, keys |-> StartKeys(e),
                                           err |-> FALSE, dead |-> FALSE]]
        BY <2>4 DEF Receive
      <3>2. task'[c] = [pc |-> StartPc(e), ev |-> e, keys |-> StartKeys(e),
                        err |-> FALSE, dead |-> FALSE]
        BY <3>1, <1>t
      <3>3. task'[c].ev = e /\ task'[c].keys = StartKeys(e) /\ task'[c].err = FALSE
        BY <3>2
      <3> QED
        BY <2>4, <3>3
    <2> QED
      BY <1>1, <2>1, <2>2, <2>3, <2>4 DEF ConsumerStep, SweepStep
  <1>2. CASE ContextEnds(c)
    BY <1>2, <1>t DEF ContextEnds, Task
  <1>3. ASSUME NEW w \in Worker, task'[c] = IdleTask
        PROVE  FALSE
    BY <1>3 DEF IdleTask
  <1> QED
    BY <1>1, <1>2, <1>3, TaskSteps

LEMMA NextSweptIsGone ==
    ASSUME TypeOK, IInv, SweptIsGone, [Next]_vars
    PROVE  SweptIsGone'
  <1> SUFFICES ASSUME NEW w \in Worker, NEW c, c = <<"delete", w>>, task'[c].pc = "sweep"
               PROVE  \/ Original \in task'[c].keys
                      \/ task'[c].err
                      \/ Original \notin s3'[task'[c].ev.av]
    BY DEF SweptIsGone
  <1>t. /\ c \in Consumer /\ c[1] = "delete" /\ task \in [Consumer -> Task]
        /\ s3 \in [Avatar -> SUBSET Key]
        /\ task[c].pc # "idle" => /\ task[c].ev \in Event /\ task[c].ev.av \in Avatar
                                  /\ DeleteAcked(task[c].ev.av)
    BY DEF Consumer, Op, TypeOK, Event, IInv, DeleteEventsAcked
  <1>1. CASE /\ task[c].pc = "sweep" /\ task'[c].ev = task[c].ev
             /\ task'[c].keys = task[c].keys /\ task'[c].err = task[c].err
    BY <1>1, <1>t, OriginalNotBack DEF SweptIsGone
  <1>2. CASE SweepRemove(c)
    <2>1. task[c].pc = "sweep"
      BY <1>2 DEF SweepRemove
    <2>2. PICK k \in task[c].keys, r \in WriteResult :
            /\ s3' = IF r = "error" THEN s3 ELSE [s3 EXCEPT ![task[c].ev.av] = @ \ {k}]
            /\ task'[c] = Swept(task[c], k, r)
      BY <1>2, <1>t DEF SweepRemove
    <2>3. /\ task'[c].keys = task[c].keys \ {k} /\ task'[c].ev = task[c].ev
          /\ task'[c].err = IF r = "ok" THEN task[c].err ELSE TRUE
      BY <2>2, <1>t DEF Swept, Task
    <2>4. CASE r = "ok"
      BY <2>1, <2>2, <2>3, <2>4, <1>t DEF SweptIsGone
    <2>5. CASE r # "ok"
      BY <2>3, <2>5
    <2> QED
      BY <2>4, <2>5
  <1>3. CASE task'[c].ev \in Event /\ Receive(c) /\ task'[c].keys = StartKeys(task'[c].ev)
    <2>1. task'[c].ev.op = "delete"
      BY <1>3, <1>t DEF Receive
    <2> QED
      BY <1>3, <2>1 DEF StartKeys, Event, Key
  <1> QED
    BY <1>1, <1>2, <1>3, <1>t, SweepTaskMoves

LEMMA NextCleanupKept ==
    ASSUME DeletesDelivered, TypeOK, IInv, CleanupKept, [Next]_vars
    PROVE  CleanupKept'
  <1>f. "cancel" \notin FaultKinds /\ "lost" \notin FaultKinds
    BY DEF DeletesDelivered
  <1>k. DeadOnlyIfLost /\ SweptIsGone /\ NoLostCleanup
    BY DEF CleanupKept
  <1>1. DeadOnlyIfLost' /\ SweptIsGone'
    BY <1>f, <1>k, NextDeadOnlyIfLost, NextSweptIsGone
  <1>2. NoLostCleanup'
    <2> SUFFICES ASSUME NEW a \in Avatar, DeleteAcked(a)', Original \in s3'[a]
                 PROVE  DeleteEventExists(a)'
      BY DEF NoLostCleanup
    <2>t. TypeOK'
      BY NextTypeOK
    <2>e. ASSUME NEW e \in Event, e.op = "delete", e.av = a,
                 mainQ'[e] + retryQ'[e] + dlq'[e] > 0
          PROVE  DeleteEventExists(a)'
      BY <2>e DEF DeleteEventExists
    <2>w. ASSUME NEW w \in Worker, conn'[w] = "up", task'[<<"delete", w>>].ev.av = a,
                 task'[<<"delete", w>>].pc \in {"sweep", "report"}
          PROVE  DeleteEventExists(a)'
      BY <2>w DEF DeleteEventExists
    <2>1. CASE DeleteAcked(a)
      <3>1. DeleteEventExists(a)
        BY <2>1, <1>k, OriginalNotBack DEF NoLostCleanup
      <3>2. CASE \E e \in Event : e.op = "delete" /\ e.av = a
                                  /\ mainQ[e] + retryQ[e] + dlq[e] > 0
        <4>1. PICK e \in Event : e.op = "delete" /\ e.av = a
                                 /\ mainQ[e] + retryQ[e] + dlq[e] > 0
          BY <3>2
        <4>2. StartPc(e) = "sweep"
          BY <4>1 DEF StartPc
        <4>3. CASE mainQ'[e] + retryQ'[e] + dlq'[e] > 0
          BY <4>1, <4>3, <2>e
        <4>4. ASSUME NEW w \in Worker, conn'[w] = "up", task'[<<e.op, w>>].pc = StartPc(e),
                     task'[<<e.op, w>>].ev = e
              PROVE  DeleteEventExists(a)'
          BY <4>1, <4>2, <4>4, <2>w
        <4> QED
          BY <4>1, <4>3, <4>4, EventMoves
      <3>3. ASSUME NEW w \in Worker, conn[w] = "up", task[<<"delete", w>>].ev.av = a,
                   task[<<"delete", w>>].pc \notin {"idle", "ack", "nack"}
            PROVE  DeleteEventExists(a)'
        <4> DEFINE c == <<"delete", w>>
        <4>t. c \in Consumer /\ task \in [Consumer -> Task]
          BY DEF Consumer, Op, TypeOK
        <4>1. CASE conn'[w] = "up" /\ task'[c].ev = task[c].ev /\ task'[c] = task[c]
          BY <4>1, <3>3 DEF DeleteEventExists
        <4>2. CASE conn'[w] = "up" /\ task'[c].ev = task[c].ev /\ SweepRemove(c)
          <5>1. task'[c].pc = "sweep"
            BY <4>2, <4>t DEF SweepRemove, Swept, Task
          <5> QED
            BY <4>2, <5>1, <3>3, <2>w
        <4>3. CASE conn'[w] = "up" /\ task'[c].ev = task[c].ev /\ task'[c].pc = "report"
          BY <4>3, <3>3, <2>w
        <4>4. CASE SweepDone(c) /\ ~task[c].err
          <5>1. task[c].pc = "sweep" /\ task[c].keys = {} /\ s3' = s3
            BY <4>4 DEF SweepDone
          <5> QED
            BY <4>4, <5>1, <3>3, <1>k DEF SweptIsGone
        <4>5. CASE \E e \in Event : /\ e.op = "delete" /\ e.av = task[c].ev.av
                                    /\ e.keys = task[c].ev.keys
                                    /\ mainQ'[e] + retryQ'[e] + dlq'[e] > 0
          BY <4>5, <3>3, <2>e
        <4> HIDE DEF c
        <4>6. c = <<"delete", w>>
          BY DEF c
        <4> QED
          BY <4>1, <4>2, <4>3, <4>4, <4>5, <4>6, <3>3, <1>f, <1>k, HeldMoves
      <3> QED
        BY <3>1, <3>2, <3>3 DEF DeleteEventExists
    <2>2. CASE ~DeleteAcked(a)
      <3>1. PICK d \in Deleter : deletion'[d].av = a /\ deletion'[d].pc = "acked"
        BY DEF DeleteAcked
      <3>2. DeletePublish(d) /\ deletion'[d] = [deletion[d] EXCEPT !.pc = "acked"]
        BY <2>2, <3>1, AckedSteps DEF DeleteAcked
      <3>3. deletion \in [Deleter -> Deletion]
        BY DEF TypeOK
      <3>4. deletion[d].av = a /\ deletion[d].seen \in Row
        BY <3>1, <3>2, <3>3 DEF Deletion
      <3>5. mainQ' = Put(mainQ, AvatarDeleteEvent(a, AllObjectKeys(deletion[d].seen)))
        <4>1. deletion' # [deletion EXCEPT ![d].pc = "restore"]
          BY <3>1, <3>3 DEF Deletion
        <4> QED
          BY <4>1, <3>2, <3>4, <1>f DEF DeletePublish, Fault
      <3>6. PICK e \in Event : e = AvatarDeleteEvent(a, AllObjectKeys(deletion[d].seen))
        BY <3>4, PublishedEvents
      <3>7. mainQ'[e] > 0
        BY <3>5, <3>6, PutGrows DEF TypeOK
      <3>8. mainQ'[e] + retryQ'[e] + dlq'[e] > 0
        BY <3>7, <2>t DEF TypeOK
      <3> QED
        BY <3>6, <3>8, <2>e DEF AvatarDeleteEvent
    <2> QED
      BY <2>1, <2>2
  <1> QED
    BY <1>1, <1>2 DEF CleanupKept

LEMMA InitCleanupKept == Init => CleanupKept
  BY DEF Init, CleanupKept, DeadOnlyIfLost, SweptIsGone, NoLostCleanup, DeleteAcked,
         IdleTask, Consumer, Op

\* An acknowledged delete is not forgotten: as long as the original is in the
\* bucket its event is queued or being handled, whatever is cut short in between
\* (a failed removal, a crash, a lost session, a failed republish).  Excepted are
\* an event lost on its way to the broker and a context that ends with the session
\* up, after which consumeLoop's nack drops the delivery.
THEOREM CleanupNotLost == ASSUME DeletesDelivered PROVE Spec => []NoLostCleanup
  <1>1. TypeOK /\ IInv /\ CleanupKept /\ [Next]_vars => CleanupKept'
    BY NextCleanupKept
  <1>2. CleanupKept => NoLostCleanup
    BY DEF CleanupKept
  <1> QED
    BY <1>1, <1>2, InitCleanupKept, TypeCorrect, Invariant, PTL DEF Spec

-----------------------------------------------------------------------------
(* What a delete leaves in the bucket.                                     *)

\* Where no call to S3 fails and no answer is lost: a removal that returns has
\* removed, unless the context had ended.
LEMMA TidyCalls ==
    ASSUME Tidy
    PROVE  /\ \A r : Call("s3", r) => r = "ok"
           /\ \A kind, r : Call(kind, r) => r \in {"ok", "error"}
           /\ \A c, r : TaskCall(c, "s3", r) => r = "ok" \/ (task[c].dead /\ r = "error")
           /\ \A c, kind, r : TaskCall(c, kind, r) => r \in {"ok", "error"}
  BY DEF Tidy, Call, TaskCall, Fault

\* Only publishing brings a new event: a retry, a redelivery or a crash copies
\* one that is there.
LEMMA EventOrigins ==
    ASSUME TypeOK, [Next]_vars, NEW a \in Avatar, Heard(a)'
    PROVE  Heard(a) \/ (UploadPublish(a) /\ upload'[a] = "acked")
  <1>t. /\ mainQ \in [Event -> Nat] /\ retryQ \in [Event -> Nat]
        /\ task \in [Consumer -> Task] /\ deletion \in [Deleter -> Deletion]
        /\ \A c \in Consumer : task[c].pc # "idle" =>
               task[c].ev \in Event /\ task[c].ev.op = c[1]
        /\ upload \in [Avatar -> UploadPc]
    BY DEF TypeOK
  <1>u. \A w \in Worker : <<"upload", w>> \in Consumer
    BY DEF Consumer, Op
  \* A queued event of a is known, and so is one at a consumer.
  <1>k. ASSUME NEW e \in Event, e.op = "upload", e.av = a, mainQ[e] > 0 \/ retryQ[e] > 0
        PROVE  Heard(a)
    BY <1>k DEF Heard
  <1>h. ASSUME NEW c \in Consumer, task[c].pc # "idle", task[c].ev.op = "upload",
               task[c].ev.av = a
        PROVE  Heard(a)
    BY <1>h, <1>t DEF Heard, Consumer
  <1>1. ASSUME NEW e \in Event, e.op = "upload", e.av = a, mainQ'[e] > 0 \/ retryQ'[e] > 0
        PROVE  Heard(a) \/ (UploadPublish(a) /\ upload'[a] = "acked")
    <2>1. CASE UNCHANGED <<mainQ, retryQ>>
      BY <2>1, <1>1, <1>k
    <2>2. ASSUME NEW b \in Avatar, UploadStep(b)
          PROVE  \/ Heard(a)
                 \/ UploadPublish(a) /\ upload'[a] = "acked"
      <3>1. \/ UNCHANGED <<mainQ, retryQ>>
            \/ /\ UploadPublish(b) /\ upload'[b] = "acked"
               /\ mainQ' = Put(mainQ, AvatarUploadEvent(b)) /\ retryQ' = retryQ
        BY <2>2, <1>t DEF UploadStep, UploadPut, UploadInsert, UploadPublish, UploadUndoRow,
                          UploadUndoObject, UploadAbort, queueVars
      <3>2. CASE /\ UploadPublish(b) /\ upload'[b] = "acked"
                 /\ mainQ' = Put(mainQ, AvatarUploadEvent(b)) /\ retryQ' = retryQ
        <4>1. e = AvatarUploadEvent(b) \/ mainQ[e] > 0 \/ retryQ[e] > 0
          BY <3>2, <1>1, <1>t, PublishedEvents, QueueOperators
        <4>2. CASE e = AvatarUploadEvent(b)
          <5>1. a = b
            BY <4>2, <1>1 DEF AvatarUploadEvent
          <5> QED
            BY <5>1, <3>2
        <4> QED
          BY <4>1, <4>2, <1>1, <1>k
      <3> QED
        BY <2>1, <3>1, <3>2
    <2>3. ASSUME NEW d \in Deleter, DeleteStep(d)
          PROVE  mainQ[e] > 0 \/ retryQ[e] > 0
      <3>1. \/ UNCHANGED <<mainQ, retryQ>>
            \/ /\ mainQ' = Put(mainQ, AvatarDeleteEvent(deletion[d].av,
                                                        AllObjectKeys(deletion[d].seen)))
               /\ retryQ' = retryQ
        BY <2>3 DEF DeleteStep, DeleteRead, DeleteSoft, DeletePublish, DeleteRestore,
                    DeleteAbort, queueVars
      <3>2. PICK x \in Event :
              x = AvatarDeleteEvent(deletion[d].av, AllObjectKeys(deletion[d].seen))
        BY <1>t, PublishedEvents DEF Deletion
      <3>3. x # e
        BY <3>2, <1>1 DEF AvatarDeleteEvent
      <3> QED
        BY <3>1, <3>2, <3>3, <1>1, <1>t, QueueOperators
    <2>4. ASSUME NEW c \in Consumer, ConsumerStep(c) \/ ContextEnds(c)
          PROVE  Heard(a)
      <3>1. \/ UNCHANGED <<mainQ, retryQ>>
            \/ \E x \in Event : /\ mainQ[x] > 0 /\ mainQ' = Take(mainQ, x)
                                /\ retryQ' = retryQ
            \/ /\ task[c].pc = "report" /\ mainQ' = mainQ
               /\ ~RetriesExhausted(task[c].ev)
               /\ retryQ' = Put(retryQ, NextAttempt(task[c].ev))
        BY <2>4 DEF ConsumerStep, JobStep, SweepStep, ContextEnds, JobLoad, JobFetch,
             JobPutThumb, JobSave, JobUndo, JobMarkFailed, SweepRemove, SweepDone,
             RepublishFails, Settle, Receive, Republish, queueVars
      <3>2. CASE \E x \in Event : /\ mainQ[x] > 0 /\ mainQ' = Take(mainQ, x)
                                  /\ retryQ' = retryQ
        BY <3>2, <1>1, <1>k, <1>t, QueueOperators
      <3>3. CASE /\ task[c].pc = "report" /\ mainQ' = mainQ
                 /\ ~RetriesExhausted(task[c].ev)
                 /\ retryQ' = Put(retryQ, NextAttempt(task[c].ev))
        <4>1. task[c].ev \in Event
          BY <3>3, <1>t
        <4>2. CASE e = NextAttempt(task[c].ev)
          BY <3>3, <4>1, <4>2, <1>1, <1>h, RepublishedEvent
        <4>3. CASE mainQ[e] > 0 \/ retryQ[e] > 0
          BY <4>3, <1>1, <1>k
        <4> QED
          BY <3>3, <4>1, <4>2, <4>3, <1>1, <1>t, RepublishedEvent, QueueOperators
      <3> QED
        BY <2>1, <3>1, <3>2, <3>3, <1>1, <1>k
    <2>5. ASSUME NEW x \in Event, RetryExpires(x)
          PROVE  mainQ[e] > 0 \/ retryQ[e] > 0
      BY <2>5, <1>1, <1>t DEF RetryExpires, Put, Take
    <2>6. ASSUME NEW w \in Worker, ReplicaStep(w)
          PROVE  Heard(a)
      <3>1. retryQ' = retryQ /\ (mainQ' = mainQ \/ mainQ' = Requeued(w))
        BY <2>6 DEF ReplicaStep, Disconnect, Restart, Crash, queueVars
      <3>2. CASE Unacked(w, e)
        BY <3>2, <1>1, <1>h, <1>u DEF Unacked
      <3>3. CASE ~Unacked(w, e)
        BY <3>1, <3>3, <1>1, <1>k DEF Requeued
      <3> QED
        BY <3>2, <3>3
    <2> QED
      BY <2>1, <2>2, <2>3, <2>4, <2>5, <2>6, <1>1, <1>k DEF Next, vars
  <1>2. ASSUME NEW w \in Worker, NEW c, c = <<"upload", w>>, task'[c].pc # "idle",
               task'[c].ev.av = a
        PROVE  Heard(a)
    <2>1. CASE task'[c].ev = task[c].ev /\ task[c].pc # "idle"
      BY <2>1, <1>2, <1>t, <1>u, <1>h
    <2>2. CASE Receive(c)
      <3>1. PICK e \in Event : /\ e.op = c[1] /\ mainQ[e] > 0
                               /\ task' = [task EXCEPT ![c] =
                                     [pc |-> StartPc(e), ev |-> e, keys |-> StartKeys(e),
                                      err |-> FALSE, dead |-> FALSE]]
        BY <2>2 DEF Receive
      <3>2. e.av = a /\ e.op = "upload"
        BY <3>1, <1>2, <1>t, <1>u
      <3> QED
        BY <3>1, <3>2, <1>k
    <2>3. CASE (ConsumerStep(c) /\ ~Receive(c)) \/ ContextEnds(c)
      <3>c. c \in Consumer
        BY <1>2, <1>u
      <3>1. task'[c] # IdleTask
        BY <1>2 DEF IdleTask
      <3>2. task[c].pc # "idle" /\ task'[c].ev = task[c].ev
        <4>1. CASE JobStep(c)
          <5>1. CASE JobLoad(c) \/ JobFetch(c)
            BY <5>1, <3>c, <1>t DEF JobLoad, JobFetch, Task
          <5>2. CASE JobPutThumb(c)
            BY <5>2, <3>c, <1>t DEF JobPutThumb, Task
          <5>4. CASE JobSave(c)
            BY <5>4, <3>c, <1>t DEF JobSave, Task
          <5>3. CASE JobUndo(c)
            BY <5>3, <3>c, <1>t DEF JobUndo, Task
          <5>5. CASE JobMarkFailed(c)
            BY <5>5, <3>c, <1>t DEF JobMarkFailed, Task
          <5> QED
            BY <4>1, <5>1, <5>2, <5>3, <5>4, <5>5 DEF JobStep
        <4>2. CASE SweepStep(c)
          BY <4>2, <3>c, <1>t DEF SweepStep, SweepRemove, SweepDone, Swept, Task
        <4>3. CASE Republish(c) \/ RepublishFails(c) \/ ContextEnds(c)
          <5>1. CASE Republish(c)
            BY <5>1, <3>c, <1>t DEF Republish, Task
          <5>2. CASE RepublishFails(c)
            BY <5>2, <3>c, <1>t DEF RepublishFails, Task
          <5>3. CASE ContextEnds(c)
            BY <5>3, <3>c, <1>t DEF ContextEnds, Task
          <5> QED
            BY <4>3, <5>1, <5>2, <5>3
        <4>4. ~Settle(c)
          BY <3>1, <3>c, <1>t DEF Settle
        <4> QED
          BY <2>3, <4>1, <4>2, <4>3, <4>4 DEF ConsumerStep
      <3> QED
        BY <3>2, <2>1
    <2>4. CASE task'[c] = IdleTask
      BY <2>4, <1>2 DEF IdleTask
    <2> QED
      BY <2>1, <2>2, <2>3, <2>4, <1>2, <1>u, TaskSteps
  <1> QED
    BY <1>1, <1>2 DEF Heard

\* What happens to the thumbnails a row lists.
LEMMA ListedThumbs ==
    ASSUME TypeOK, IInv, EventsAfterAck, [Next]_vars, NEW a \in Avatar
    PROVE  /\ row[a].thumbs \subseteq row'[a].thumbs
           /\ ~Heard(a) /\ row[a].thumbs = {} => row'[a].thumbs = {}
  <1>t. /\ row \in [Avatar -> Row] /\ task \in [Consumer -> Task]
        /\ deletion \in [Deleter -> Deletion] /\ upload \in [Avatar -> UploadPc]
    BY DEF TypeOK
  <1>r. /\ \A r \in Row : /\ r.thumbs \in {{}, Thumb}
                          /\ SoftDelete(r).thumbs = r.thumbs
                          /\ RestoreSoftDeleted(r).thumbs = r.thumbs
                          /\ SetProcessingStatus(r, "failed").thumbs = r.thumbs
                          /\ UpdateProcessingResult(r).thumbs \in {r.thumbs, Thumb}
        /\ Insert.thumbs = {} /\ NoRow.thumbs = {}
    BY DEF Row, SoftDelete, RestoreSoftDeleted, SetProcessingStatus, UpdateProcessingResult,
           Insert, NoRow
  <1>1. CASE row'[a] = row[a]
    BY <1>1
  <1>2. ASSUME NEW b \in Avatar, UploadStep(b)
        PROVE  row'[a].thumbs = row[a].thumbs
    <2>1. CASE row' # row /\ a = b
      <3>1. row'[a] \in {Insert, NoRow} /\ ~Acked(a)
        BY <1>2, <2>1, <1>t DEF UploadStep, UploadPut, UploadInsert, UploadPublish,
           UploadUndoRow, UploadUndoObject, UploadAbort, DeleteHard, Acked
      <3> QED
        BY <3>1, <1>r DEF EventsAfterAck
    <2>2. CASE a # b
      BY <1>2, <2>2, <1>t DEF UploadStep, UploadPut, UploadInsert, UploadPublish,
         UploadUndoRow, UploadUndoObject, UploadAbort
    <2> QED
      BY <2>1, <2>2
  <1>3. ASSUME NEW d \in Deleter, DeleteStep(d)
        PROVE  row'[a].thumbs = row[a].thumbs
    <2>1. \/ row' = row
          \/ row' = [row EXCEPT ![deletion[d].av] = SoftDelete(@)]
          \/ row' = [row EXCEPT ![deletion[d].av] = RestoreSoftDeleted(@)]
      BY <1>3 DEF DeleteStep, DeleteRead, DeleteSoft, DeletePublish, DeleteRestore,
                  DeleteAbort
    <2> QED
      BY <2>1, <1>t, <1>r
  <1>4. ASSUME NEW c \in Consumer, ConsumerStep(c) \/ ContextEnds(c), row'[a] # row[a]
        PROVE  /\ row'[a].thumbs \in {row[a].thumbs, Thumb}
               /\ Heard(a)
    <2>1. \/ /\ task[c].pc \in {"thumbs", "undo"}
             /\ row' = [row EXCEPT ![task[c].ev.av] = UpdateProcessingResult(@)]
          \/ /\ task[c].pc \in {"thumbs", "undo"}
             /\ row' = [row EXCEPT ![task[c].ev.av] = SetProcessingStatus(@, "failed")]
      BY <1>4 DEF ConsumerStep, JobStep, SweepStep, ContextEnds, JobLoad, JobFetch,
           JobPutThumb, JobSave, JobUndo, JobMarkFailed, SweepRemove, SweepDone,
           RepublishFails, Settle, Receive, Republish
    <2>2. a = task[c].ev.av
      BY <2>1, <1>4, <1>t
    <2>3. c[1] = "upload" /\ c[2] \in Worker /\ c = <<c[1], c[2]>>
      BY <2>1 DEF IInv, TasksKeepToTheirKeys, Consumer
    <2>4. Heard(a)
      BY <2>1, <2>2, <2>3 DEF Heard
    <2>5. row'[a].thumbs \in {row[a].thumbs, Thumb}
      BY <2>1, <2>2, <1>t, <1>r
    <2> QED
      BY <2>4, <2>5
  <1>5. \/ UNCHANGED row
        \/ \E b \in Avatar : UploadStep(b)
        \/ \E d \in Deleter : DeleteStep(d)
        \/ \E c \in Consumer : ConsumerStep(c) \/ ContextEnds(c)
    BY DEF Next, vars, RetryExpires, ReplicaStep, Disconnect, Restart, Crash
  <1>6. row[a].thumbs \subseteq Thumb
    BY <1>t, <1>r
  <1> QED
    BY <1>1, <1>2, <1>3, <1>4, <1>5, <1>6

\* An upload stays acknowledged.
LEMMA AckStays ==
    ASSUME TypeOK, [Next]_vars, NEW a \in Avatar, Acked(a)
    PROVE  Acked(a)'
  <1>t. upload \in [Avatar -> UploadPc]
    BY DEF TypeOK
  <1>1. ASSUME NEW b \in Avatar, UploadStep(b)
        PROVE  Acked(a)'
    BY <1>1, <1>t DEF UploadStep, UploadPut, UploadInsert, UploadPublish, UploadUndoRow,
       UploadUndoObject, UploadAbort, Acked
  <1>2. ASSUME NEW c \in Consumer, ConsumerStep(c) \/ ContextEnds(c)
        PROVE  UNCHANGED upload
    BY <1>2, ConsumerFrame
  <1>3. UNCHANGED upload \/ \E b \in Avatar : UploadStep(b)
    BY <1>2 DEF Next, vars, serverVars, DeleteStep, DeleteRead, DeleteSoft, DeletePublish,
       DeleteRestore, DeleteAbort, RetryExpires, ReplicaStep, Disconnect, Restart, Crash
  <1> QED
    BY <1>1, <1>3 DEF Acked

LEMMA NextEventsAfterAck ==
    ASSUME TypeOK, IInv, EventsAfterAck, [Next]_vars
    PROVE  EventsAfterAck'
  <1> SUFFICES ASSUME NEW a \in Avatar, ~Acked(a)'
               PROVE  row'[a].thumbs = {} /\ ~Heard(a)'
    BY DEF EventsAfterAck
  <1>1. row[a].thumbs = {} /\ ~Heard(a)
    BY AckStays DEF EventsAfterAck
  <1> QED
    BY <1>1, ListedThumbs, EventOrigins DEF Acked

\* An attempt that has stored k still has it in hand, has listed it in the row
\* of a live avatar, or has removed it.
LEMMA HandMoves ==
    ASSUME Tidy, TypeOK, IInv, [Next]_vars, NEW a \in Avatar, NEW k, InHand(a, k),
           k \in s3'[a]
    PROVE  InHand(a, k)' \/ (k \in row'[a].thumbs /\ Live(row[a]))
  <1>1. PICK w \in Worker : /\ task[<<"upload", w>>].pc \in {"thumbs", "undo"}
                            /\ task[<<"upload", w>>].ev.av = a
                            /\ k \in task[<<"upload", w>>].keys
    BY DEF InHand
  <1>2. PICK c : c = <<"upload", w>>
    OBVIOUS
  <1>t. /\ c \in Consumer /\ c[1] = "upload" /\ c[2] = w /\ task \in [Consumer -> Task]
        /\ task[c].pc \in {"thumbs", "undo"} /\ task[c].ev.av = a /\ k \in task[c].keys
        /\ row \in [Avatar -> Row] /\ s3 \in [Avatar -> SUBSET Key] /\ k \in Thumb
    BY <1>1, <1>2 DEF TypeOK, Consumer, Op, IInv, TasksKeepToTheirKeys
  <1>h. ASSUME task'[c].pc \in {"thumbs", "undo"}, task'[c].ev = task[c].ev,
               k \in task'[c].keys
        PROVE  InHand(a, k)'
    BY <1>h, <1>2, <1>t DEF InHand
  <1>3. CASE task'[c] = task[c]
    BY <1>3, <1>h, <1>t
  <1>4. CASE ContextEnds(c)
    BY <1>4, <1>h, <1>t DEF ContextEnds, Task
  <1>5. CASE JobStep(c)
    <2>1. CASE JobPutThumb(c)
      BY <2>1, <1>h, <1>t DEF JobPutThumb, Task
    <2>2. CASE JobSave(c)
      <3>1. PICK r \in WriteResult :
              /\ TaskCall(c, "db", r)
              /\ row' = IF r = "error" THEN row
                        ELSE [row EXCEPT ![a] = UpdateProcessingResult(@)]
              /\ task' = [task EXCEPT ![c].pc =
                     IF r = "ok" /\ Live(row[a]) THEN "ack" ELSE "undo"]
        BY <2>2, <1>t DEF JobSave
      <3>2. CASE r = "ok" /\ Live(row[a])
        BY <3>1, <3>2, <1>t DEF UpdateProcessingResult, Row
      <3>3. CASE ~(r = "ok" /\ Live(row[a]))
        BY <3>1, <3>3, <1>h, <1>t DEF Task
      <3> QED
        BY <3>2, <3>3
    <2>3. CASE JobUndo(c)
      <3>1. PICK x \in task[c].keys, r \in WriteResult :
              /\ Call("s3", r)
              /\ s3' = IF r = "error" THEN s3 ELSE [s3 EXCEPT ![a] = @ \ {x}]
              /\ task' = [task EXCEPT ![c].keys = @ \ {x}]
        BY <2>3, <1>t DEF JobUndo
      <3>2. k # x
        BY <3>1, <1>t, TidyCalls
      <3> QED
        BY <3>1, <3>2, <1>h, <1>t DEF Task
    <2>4. ~JobMarkFailed(c) /\ ~JobLoad(c) /\ ~JobFetch(c)
      BY <1>t DEF JobMarkFailed, JobLoad, JobFetch
    <2> QED
      BY <1>5, <2>1, <2>2, <2>3, <2>4 DEF JobStep
  <1>6. ~Receive(c) /\ ~SweepStep(c) /\ ~Republish(c) /\ ~RepublishFails(c) /\ ~Settle(c)
    BY <1>t DEF Receive, SweepStep, SweepRemove, SweepDone, Republish, RepublishFails, Settle
  <1>7. \A v \in Worker : ~Crash(v)
    BY DEF Crash, Fault, Tidy
  <1> QED
    BY <1>3, <1>4, <1>5, <1>6, <1>7, <1>t, TaskSteps DEF ConsumerStep

\* A thumbnail appears in the bucket in the hand of the attempt that stores it.
LEMMA NewObjects ==
    ASSUME Tidy, TypeOK, IInv, [Next]_vars, NEW a \in Avatar,
           NEW k \in s3'[a], k \notin s3[a]
    PROVE  k = Original \/ (k \in Thumb /\ InHand(a, k)')
  <1>t. s3 \in [Avatar -> SUBSET Key] /\ task \in [Consumer -> Task]
    BY DEF TypeOK
  <1>1. ASSUME NEW b \in Avatar, UploadStep(b)
        PROVE  k = Original
    BY <1>1, <1>t DEF UploadStep, UploadPut, UploadInsert, UploadPublish, UploadUndoRow,
                      UploadUndoObject, UploadAbort
  <1>2. ASSUME NEW c \in Consumer, JobPutThumb(c)
        PROVE  k \in Thumb /\ InHand(a, k)'
    <2>1. PICK t \in Thumb \ task[c].keys, r \in WriteResult :
            /\ TaskCall(c, "s3", r)
            /\ s3' = IF r = "error" THEN s3
                     ELSE [s3 EXCEPT ![task[c].ev.av] = @ \cup {t}]
            /\ task' = IF r = "ok" THEN [task EXCEPT ![c].keys = @ \cup {t}]
                                   ELSE [task EXCEPT ![c].pc = "undo"]
      BY <1>2 DEF JobPutThumb
    <2>2. r = "ok"
      BY <2>1, TidyCalls
    <2>3. k = t /\ task[c].ev.av = a
      BY <2>1, <2>2, <1>t
    <2>4. /\ task'[c].keys = task[c].keys \cup {t} /\ task'[c].pc = "thumbs"
          /\ task'[c].ev.av = a
      BY <2>1, <2>2, <2>3, <1>2, <1>t DEF JobPutThumb, Task
    <2>5. c[2] \in Worker /\ c = <<"upload", c[2]>>
      BY <1>2 DEF JobPutThumb, IInv, TasksKeepToTheirKeys, Consumer
    <2> QED
      BY <2>3, <2>4, <2>5 DEF InHand
  <1>3. ASSUME NEW c \in Consumer, ConsumerStep(c) \/ ContextEnds(c), ~JobPutThumb(c)
        PROVE  FALSE
    <2>1. ~JobUndo(c)
      BY <1>t DEF JobUndo
    <2>2. ~SweepRemove(c)
      BY <1>t DEF SweepRemove
    <2> QED
      BY <1>3, <2>1, <2>2, WhoStores
  <1>4. s3' # s3
    OBVIOUS
  <1> QED
    BY <1>1, <1>2, <1>3, <1>4
       DEF Next, vars, DeleteStep, DeleteRead, DeleteSoft, DeletePublish, DeleteRestore,
           DeleteAbort, RetryExpires, ReplicaStep, Disconnect, Restart, Crash

LEMMA NextThumbsAccounted ==
    ASSUME Tidy, TypeOK, IInv, EventsAfterAck, ThumbsAccounted, [Next]_vars
    PROVE  ThumbsAccounted'
  <1> SUFFICES ASSUME NEW a \in Avatar, NEW k \in s3'[a], k \in Thumb
               PROVE  k \in row'[a].thumbs \/ InHand(a, k)'
    BY DEF ThumbsAccounted
  <1>1. CASE k \notin s3[a]
    BY <1>1, NewObjects, KeyAssumption
  <1>2. CASE k \in row[a].thumbs
    BY <1>2, ListedThumbs
  <1>3. CASE InHand(a, k)
    BY <1>3, HandMoves
  <1> QED
    BY <1>1, <1>2, <1>3 DEF ThumbsAccounted

\* Removals of a sweep whose session is up.
LEMMA SweepRemoves ==
    ASSUME Tidy, TypeOK, DeadOnlyIfLost, NEW c \in Consumer, conn[c[2]] = "up",
           SweepRemove(c)
    PROVE  \E k \in task[c].keys :
              /\ s3' = [s3 EXCEPT ![task[c].ev.av] = @ \ {k}]
              /\ task'[c] = [task[c] EXCEPT !.keys = @ \ {k}]
  <1>t. task \in [Consumer -> Task]
    BY DEF TypeOK
  <1>1. PICK k \in task[c].keys, r \in WriteResult :
          /\ TaskCall(c, "s3", r)
          /\ s3' = IF r = "error" THEN s3 ELSE [s3 EXCEPT ![task[c].ev.av] = @ \ {k}]
          /\ task' = [task EXCEPT ![c] = Swept(task[c], k, r)]
    BY DEF SweepRemove
  <1>2. r = "ok"
    BY <1>1, TidyCalls DEF DeadOnlyIfLost
  <1>3. Swept(task[c], k, r) = [task[c] EXCEPT !.keys = @ \ {k}]
    BY <1>2, <1>t DEF Swept, Task
  <1> QED
    BY <1>1, <1>2, <1>3, <1>t

LEMMA NextSweepsSucceed ==
    ASSUME Tidy, TypeOK, IInv, DeadOnlyIfLost, SweepsSucceed, [Next]_vars
    PROVE  SweepsSucceed'
  <1> SUFFICES ASSUME NEW w \in Worker, NEW c, c = <<"delete", w>>
               PROVE  /\ task'[c].pc = "sweep" => task'[c].keys \subseteq task'[c].ev.keys
                      /\ conn'[w] = "up" => task'[c].pc \in {"idle", "sweep", "ack"}
                      /\ conn'[w] = "up" /\ task'[c].pc = "sweep" => ~task'[c].err
    BY DEF SweepsSucceed
  <1>t. /\ c \in Consumer /\ c[1] = "delete" /\ c[2] = w /\ task \in [Consumer -> Task]
        /\ conn \in [Worker -> {"up", "lost"}]
    BY DEF Consumer, Op, TypeOK
  <1>s. /\ task[c].pc = "sweep" => task[c].keys \subseteq task[c].ev.keys
        /\ conn[w] = "up" => task[c].pc \in {"idle", "sweep", "ack"}
        /\ conn[w] = "up" /\ task[c].pc = "sweep" => ~task[c].err
    BY DEF SweepsSucceed
  <1>f. "cancel" \notin FaultKinds /\ "crash" \notin FaultKinds
    BY DEF Tidy
  <1>1. ASSUME task'[c].pc = "sweep"
        PROVE  /\ task'[c].keys \subseteq task'[c].ev.keys
               /\ conn[w] = "up" => ~task'[c].err
    <2>1. CASE /\ task[c].pc = "sweep" /\ task'[c].ev = task[c].ev
               /\ task'[c].keys = task[c].keys /\ task'[c].err = task[c].err
      BY <2>1, <1>s
    <2>2. CASE SweepRemove(c)
      <3>1. task[c].pc = "sweep"
        BY <2>2 DEF SweepRemove
      <3>2. task'[c].keys \subseteq task[c].keys /\ task'[c].ev = task[c].ev
        BY <2>2, <1>t DEF SweepRemove, Swept, Task
      <3>3. conn[w] = "up" => task'[c].err = task[c].err
        BY <2>2, <1>t, SweepRemoves DEF Task
      <3> QED
        BY <3>1, <3>2, <3>3, <1>s
    <2>3. CASE /\ Receive(c) /\ task'[c].ev \in Event
               /\ task'[c].keys = StartKeys(task'[c].ev) /\ ~task'[c].err
      BY <2>3 DEF StartKeys
    <2> QED
      BY <1>1, <1>t, <2>1, <2>2, <2>3, SweepTaskMoves
  <1>2. CASE conn[w] = "up"
    <2>1. task'[c].pc \in {"idle", "sweep", "ack"}
      <3>1. CASE ConsumerStep(c)
        <4>1. ~JobStep(c) /\ ~Republish(c) /\ ~RepublishFails(c)
          BY <1>2, <1>s, <1>t, JobMoves DEF Republish, RepublishFails
        <4>2. CASE Receive(c)
          <5>1. PICK e \in Event : /\ e.op = "delete"
                                   /\ task' = [task EXCEPT ![c] =
                                         [pc |-> StartPc(e), ev |-> e, keys |-> StartKeys(e),
                                          err |-> FALSE, dead |-> FALSE]]
            BY <4>2, <1>t DEF Receive
          <5>2. StartPc(e) = "sweep"
            BY <5>1 DEF StartPc
          <5> QED
            BY <5>1, <5>2, <1>t
        <4>3. CASE SweepRemove(c)
          BY <4>3, <1>t DEF SweepRemove, Swept, Task
        <4>4. CASE SweepDone(c)
          BY <4>4, <1>2, <1>s, <1>t DEF SweepDone, SweepVerdict, Task
        <4>5. CASE Settle(c)
          BY <4>5, <1>t DEF Settle, IdleTask
        <4> QED
          BY <3>1, <4>1, <4>2, <4>3, <4>4, <4>5 DEF ConsumerStep, SweepStep
      <3>2. ~ContextEnds(c)
        BY <1>2, <1>f, <1>t DEF ContextEnds, Fault
      <3>3. CASE task'[c] = task[c]
        BY <3>3, <1>2, <1>s
      <3>4. CASE task'[c] = IdleTask
        BY <3>4 DEF IdleTask
      <3> QED
        BY <3>1, <3>2, <3>3, <3>4, <1>t, TaskSteps
    <2> QED
      BY <2>1, <1>1, <1>2
  <1>3. CASE conn[w] = "lost" /\ conn'[w] = "up"
    <2>1. Restart(w)
      <3>1. ReplicaStep(w)
        BY <1>3, SessionSteps
      <3> QED
        BY <3>1, <1>3, <1>f DEF ReplicaStep, Disconnect, Crash, Fault
    <2>2. task[c].pc = "idle" /\ task' = task
      BY <2>1 DEF Restart, Op
    <2> QED
      BY <2>2, <1>1
  <1>4. conn'[w] = "up" => conn[w] \in {"up", "lost"}
    BY <1>t
  <1> QED
    BY <1>1, <1>2, <1>3, <1>4

\* What a delete has listed stays listed until it is removed.
LEMMA RemovalMoves ==
    ASSUME Tidy, TypeOK, IInv, DeadOnlyIfLost, SweepsSucceed, [Next]_vars,
           NEW a \in Avatar, NEW k \in s3'[a], ToRemove(a, k)
    PROVE  ToRemove(a, k)'
  <1>f. "cancel" \notin FaultKinds
    BY DEF Tidy
  <1>q. ASSUME NEW e \in Event, e.op = "delete", e.av = a, k \in e.keys,
               mainQ'[e] + retryQ'[e] + dlq'[e] > 0
        PROVE  ToRemove(a, k)'
    BY <1>q DEF ToRemove
  <1>w. ASSUME NEW w \in Worker, conn'[w] = "up", task'[<<"delete", w>>].pc = "sweep",
               task'[<<"delete", w>>].ev.av = a, k \in task'[<<"delete", w>>].keys
        PROVE  ToRemove(a, k)'
    BY <1>w DEF ToRemove
  <1>1. ASSUME NEW e \in Event, e.op = "delete", e.av = a, k \in e.keys,
               mainQ[e] + retryQ[e] + dlq[e] > 0
        PROVE  ToRemove(a, k)'
    <2>1. StartPc(e) = "sweep" /\ StartKeys(e) = e.keys
      BY <1>1 DEF StartPc, StartKeys
    <2>2. CASE mainQ'[e] + retryQ'[e] + dlq'[e] > 0
      BY <2>2, <1>1, <1>q
    <2>3. ASSUME NEW w \in Worker, conn'[w] = "up", task'[<<e.op, w>>].pc = StartPc(e),
                 task'[<<e.op, w>>].ev = e, task'[<<e.op, w>>].keys = StartKeys(e)
          PROVE  ToRemove(a, k)'
      BY <1>1, <2>1, <2>3, <1>w
    <2> QED
      BY <1>1, <2>2, <2>3, EventMoves
  <1>2. ASSUME NEW w \in Worker, conn[w] = "up", NEW c, c = <<"delete", w>>,
               task[c].pc = "sweep", task[c].ev.av = a, k \in task[c].keys
        PROVE  ToRemove(a, k)'
    <2>t. /\ c \in Consumer /\ c[2] = w /\ task \in [Consumer -> Task]
          /\ s3 \in [Avatar -> SUBSET Key]
      BY <1>2 DEF Consumer, Op, TypeOK
    <2>s. task[c].keys \subseteq task[c].ev.keys /\ ~task[c].err
      BY <1>2 DEF SweepsSucceed
    <2>1. CASE \E e \in Event : /\ e.op = "delete" /\ e.av = task[c].ev.av
                                /\ e.keys = task[c].ev.keys
                                /\ mainQ'[e] + retryQ'[e] + dlq'[e] > 0
      BY <2>1, <2>s, <1>2, <1>q
    <2>2. CASE conn'[w] = "up" /\ task'[c] = task[c]
      BY <2>2, <1>2, <1>w
    <2>3. CASE conn'[w] = "up" /\ SweepRemove(c)
      <3>1. PICK x \in task[c].keys :
              /\ s3' = [s3 EXCEPT ![a] = @ \ {x}]
              /\ task'[c] = [task[c] EXCEPT !.keys = @ \ {x}]
        BY <2>3, <2>t, <1>2, SweepRemoves
      <3>2. k # x
        BY <3>1, <2>t
      <3>3. /\ task'[c].pc = "sweep" /\ task'[c].ev.av = a /\ k \in task'[c].keys
        BY <3>1, <3>2, <2>t, <1>2 DEF Task
      <3> QED
        BY <2>3, <3>3, <1>2, <1>w
    <2>4. ~SweepDone(c)
      BY <1>2 DEF SweepDone
    <2> QED
      BY <2>1, <2>2, <2>3, <2>4, <1>2, <1>f, HeldMoves
  <1> QED
    BY <1>1, <1>2 DEF ToRemove

LEMMA NextListedIsRemoved ==
    ASSUME Tidy, TypeOK, IInv, TidyInv, [Next]_vars
    PROVE  ListedIsRemoved'
  <1>t. deletion \in [Deleter -> Deletion] /\ mainQ \in [Event -> Nat] /\ TypeOK'
    BY NextTypeOK DEF TypeOK
  <1> SUFFICES ASSUME NEW d \in Deleter, deletion'[d].pc = "acked",
                      NEW k \in AllObjectKeys(deletion'[d].seen) \cap s3'[deletion'[d].av]
               PROVE  \/ ToRemove(deletion[d].av, k)'
                      \/ InHand(deletion[d].av, k)'
    BY DEF ListedIsRemoved
  <1>1. CASE deletion[d].pc = "acked"
    <2>1. deletion'[d] = deletion[d]
      BY <1>1, AckedSteps
    <2>2. PICK a \in Avatar : a = deletion[d].av
      BY <1>t DEF Deletion
    <2>3. ~Live(row[a]) /\ DeleteAcked(a)
      BY <1>1, <2>2 DEF IInv, OneDeleteAtATime, DeleteAcked
    <2>4. k \in s3'[a]
      BY <2>1, <2>2
    <2>5. CASE k \notin s3[a]
      BY <2>2, <2>1, <2>3, <2>4, <2>5, NewObjects, OriginalNotBack
    <2>6. CASE ToRemove(a, k)
      BY <2>2, <2>1, <2>4, <2>6, RemovalMoves DEF TidyInv
    <2>7. CASE InHand(a, k)
      BY <2>2, <2>1, <2>3, <2>4, <2>7, HandMoves
    <2> QED
      BY <1>1, <2>1, <2>2, <2>5, <2>6, <2>7 DEF TidyInv, ListedIsRemoved
  <1>2. CASE deletion[d].pc # "acked"
    <2>1. DeletePublish(d) /\ deletion'[d] = [deletion[d] EXCEPT !.pc = "acked"]
      BY <1>2, AckedSteps
    <2>2. deletion'[d].av = deletion[d].av /\ deletion'[d].seen = deletion[d].seen
      BY <2>1, <1>t DEF Deletion
    <2>3. PICK e \in Event :
            e = AvatarDeleteEvent(deletion[d].av, AllObjectKeys(deletion[d].seen))
      BY <1>t, PublishedEvents DEF Deletion
    <2>4. mainQ' = Put(mainQ, e)
      <3>1. deletion' # [deletion EXCEPT ![d].pc = "restore"]
        BY <1>t DEF Deletion
      <3> QED
        BY <3>1, <2>1, <2>3 DEF DeletePublish, Fault, Tidy
    <2>5. mainQ'[e] + retryQ'[e] + dlq'[e] > 0
      <3>1. mainQ'[e] > 0
        BY <2>4, <1>t, PutGrows
      <3> QED
        BY <3>1, <1>t DEF TypeOK
    <2>6. e.op = "delete" /\ e.av = deletion'[d].av /\ k \in e.keys
      BY <2>2, <2>3 DEF AvatarDeleteEvent
    <2> QED
      BY <2>5, <2>6 DEF ToRemove
  <1> QED
    BY <1>1, <1>2

LEMMA InitTidyInv == Init => TidyInv
  <1> SUFFICES ASSUME Init PROVE TidyInv
    OBVIOUS
  <1>1. IdleTask.pc = "idle" /\ ~IdleTask.dead
    BY DEF IdleTask
  <1>2. \A w \in Worker, op \in Op : task[<<op, w>>] = IdleTask
    BY DEF Init, Consumer
  <1>3. DeadOnlyIfLost /\ SweepsSucceed
    BY <1>1, <1>2 DEF Init, DeadOnlyIfLost, SweepsSucceed, Op
  <1>4. EventsAfterAck
    <2>1. ASSUME NEW a \in Avatar
          PROVE  ~Heard(a)
      <3>1. \A e \in Event : ~(mainQ[e] > 0 \/ retryQ[e] > 0)
        BY DEF Init, EmptyQueue
      <3>2. \A w \in Worker : task[<<"upload", w>>].pc = "idle"
        <4>1. "upload" \in Op
          BY DEF Op
        <4> QED
          BY <4>1, <1>1, <1>2
      <3> QED
        BY <3>1, <3>2 DEF Heard
    <2> QED
      BY <2>1 DEF Init, EventsAfterAck, NoRow
  <1>5. ThumbsAccounted /\ ListedIsRemoved
    BY DEF Init, ThumbsAccounted, ListedIsRemoved
  <1> QED
    BY <1>3, <1>4, <1>5 DEF TidyInv

LEMMA NextTidyInv ==
    ASSUME Tidy, TypeOK, IInv, TidyInv, [Next]_vars
    PROVE  TidyInv'
  <1>1. "cancel" \notin FaultKinds
    BY DEF Tidy
  <1>2. DeadOnlyIfLost'
    BY <1>1, NextDeadOnlyIfLost DEF TidyInv
  <1>3. EventsAfterAck'
    BY NextEventsAfterAck DEF TidyInv
  <1>4. ThumbsAccounted'
    BY NextThumbsAccounted DEF TidyInv
  <1>5. SweepsSucceed'
    BY NextSweepsSucceed DEF TidyInv
  <1>6. ListedIsRemoved'
    BY NextListedIsRemoved
  <1> QED
    BY <1>2, <1>3, <1>4, <1>5, <1>6 DEF TidyInv

\* Once nothing about an avatar is queued or handled, an object that is left was
\* neither listed by the row nor by the event of the delete.
LEMMA TidyLeavesNothing ==
    ASSUME TypeOK, TidyInv
    PROVE  FreshDeleteLeavesNothing
  <1> SUFFICES ASSUME NEW d \in Deleter, NEW a, a = deletion[d].av,
                      deletion[d].pc = "acked", deletion[d].seen.thumbs = row[a].thumbs,
                      Quiet(a), NEW k \in s3[a]
               PROVE  FALSE
    BY DEF FreshDeleteLeavesNothing
  <1>t. a \in Avatar /\ k \in Key
    BY DEF TypeOK, Deletion
  <1>1. ~InHand(a, k)
    BY DEF InHand, Quiet, Consumer, Op
  <1>2. ~ToRemove(a, k)
    <2>1. \A e \in Event : e.av = a => ~(mainQ[e] + retryQ[e] + dlq[e] > 0)
      BY DEF Quiet
    <2>2. \A w \in Worker : task[<<"delete", w>>].pc = "sweep" =>
                                task[<<"delete", w>>].ev.av # a
      BY DEF Quiet, Consumer, Op
    <2> QED
      BY <2>1, <2>2 DEF ToRemove
  <1>3. k \in AllObjectKeys(deletion[d].seen)
    BY <1>t, <1>1 DEF TidyInv, ThumbsAccounted, AllObjectKeys, Key
  <1> QED
    BY <1>1, <1>2, <1>3 DEF TidyInv, ListedIsRemoved

\* A delete whose first read saw the thumbnails the row lists in the end leaves
\* no object behind: ProcessAvatarDelete is told of each key, a thumbnail that
\* no row lists is removed by the attempt that stored it, and neither a failed
\* statement, a publish that fails, a request that is cut short nor a lost
\* session changes that.  Excepted are failing calls to S3 and lost answers (a
\* rollback only logs its errors), lost events, and attempts that are cut short.
THEOREM DeletesAreTidy == ASSUME Tidy PROVE Spec => []FreshDeleteLeavesNothing
  <1>1. TypeOK /\ IInv /\ TidyInv /\ [Next]_vars => TidyInv'
    BY NextTidyInv
  <1>2. TypeOK /\ TidyInv => FreshDeleteLeavesNothing
    BY TidyLeavesNothing
  <1> QED
    BY <1>1, <1>2, InitTidyInv, TypeCorrect, Invariant, PTL DEF Spec

-----------------------------------------------------------------------------
(* What an acknowledged delete has achieved stays.                         *)

\* Nobody reads a dead-letter queue.
LEMMA DLQKeeps ==
    ASSUME TypeOK, [Next]_vars, NEW e \in Event, dlq[e] > 0
    PROVE  dlq'[e] > 0
  <1>t. dlq \in [Event -> Nat]
    BY DEF TypeOK
  <1>1. CASE UNCHANGED dlq
    BY <1>1
  <1>2. ASSUME NEW c \in Consumer, Republish(c)
        PROVE  dlq'[e] > 0
    <2>1. dlq' = dlq \/ dlq' = Put(dlq, task[c].ev)
      BY <1>2 DEF Republish
    <2>2. CASE dlq' = Put(dlq, task[c].ev)
      <3>1. task[c].ev \in Event
        BY <1>2 DEF Republish, TypeOK
      <3>2. dlq'[e] >= dlq[e] /\ dlq[e] \in Nat /\ dlq'[e] \in Nat
        BY <2>2, <3>1, <1>t, PutGrows, QueueOperators
      <3> QED
        BY <3>2
    <2> QED
      BY <2>1, <2>2
  <1>3. ASSUME NEW c \in Consumer, ConsumerStep(c) \/ ContextEnds(c), ~Republish(c)
        PROVE  UNCHANGED dlq
    BY <1>3 DEF ConsumerStep, JobStep, SweepStep, Receive, ContextEnds, JobLoad, JobFetch,
                JobPutThumb, JobSave, JobUndo, JobMarkFailed, SweepRemove, SweepDone,
                RepublishFails, Settle, queueVars
  <1>4. ASSUME NEW w \in Worker, ReplicaStep(w)
        PROVE  UNCHANGED dlq
    BY <1>4 DEF ReplicaStep, Disconnect, Restart, Crash, queueVars
  <1> QED
    BY <1>1, <1>2, <1>3, <1>4
       DEF Next, vars, queueVars, UploadStep, UploadPut, UploadInsert, UploadPublish,
           UploadUndoRow, UploadUndoObject, UploadAbort, DeleteStep, DeleteRead, DeleteSoft,
           DeletePublish, DeleteRestore, DeleteAbort, RetryExpires

LEMMA NextCleanedUp ==
    ASSUME TypeOK, IInv, [Next]_vars, NEW a \in Avatar, DeleteAcked(a), CleanedUp(a)
    PROVE  DeleteAcked(a)' /\ CleanedUp(a)'
  <1>1. DeleteAcked(a)'
    BY AckedSteps DEF DeleteAcked
  <1>2. CASE Original \notin s3[a]
    BY <1>1, <1>2, OriginalNotBack DEF CleanedUp
  <1>3. CASE InDLQ("delete", a)
    BY <1>1, <1>3, DLQKeeps DEF CleanedUp, InDLQ
  <1> QED
    BY <1>1, <1>2, <1>3 DEF CleanedUp

\* What OriginalRemoved promises for good, it promises from the first time on:
\* once the delete of an avatar was acknowledged and its original is gone, or
\* its delete event is in the DLQ, no late attempt, retry, redelivery or
\* rollback of the other requests undoes it, whatever fails. That it comes to
\* this is for TLC (liveness).
THEOREM RemovedForGood ==
    ASSUME NEW a \in Avatar
    PROVE  Spec => [](DeleteAcked(a) /\ CleanedUp(a) => []CleanedUp(a))
  <1>1. /\ TypeOK /\ IInv /\ [Next]_vars /\ DeleteAcked(a) /\ CleanedUp(a)
        => DeleteAcked(a)' /\ CleanedUp(a)'
    BY NextCleanedUp
  <1> QED
    BY <1>1, TypeCorrect, Invariant, PTL DEF Spec

==============================================================================
