--------------------------- MODULE ImageReadProofs ---------------------------
(***************************************************************************)
(* What holds only while some kinds of fault do not happen: no job is lost *)
(* (Delivered), a completed row lists stored thumbnails and nobody touches *)
(* them but a delete (ThumbnailPromise), and no GET breaks off for a reason *)
(* of its own making (NoOverlap).  For any number of the other faults, and *)
(* of avatars, requests, replicas, thumbnails, retries.                    *)
(***************************************************************************)
EXTENDS ImageRead, ThumbnailRefinement, AvatarLifecycleProofs

-----------------------------------------------------------------------------
(* No job is lost while every event arrives (NoLostJob).                   *)

\* An upload event stays where it is, or moves within the queues.
LEMMA EventStays ==
    ASSUME TypeOK, NEW a \in Avatar, UploadEventExists(a),
           \A e \in UploadEventsOf(a) :
               mainQ[e] + retryQ[e] + dlq[e] > 0 => mainQ'[e] + retryQ'[e] + dlq'[e] > 0,
           \A w \in Worker : conn'[w] = conn[w] /\ task'[<<"upload", w>>] = task[<<"upload", w>>]
    PROVE  UploadEventExists(a)'
  BY DEF UploadEventExists, UploadEventsOf

LEMMA UploadKeepsJobs ==
    ASSUME Delivered, TypeOK, JobsKept, NEW b \in Avatar, UploadStep(b)
    PROVE  JobsKept'
  <1>1. UNCHANGED <<deletion, retryQ, dlq, task, conn>>
    BY DEF queueVars, workerVars, UploadStep, UploadPut, UploadInsert, UploadPublish,
           UploadUndoRow, UploadUndoObject, UploadAbort
  <1>2. Undisturbed'
    BY <1>1 DEF JobsKept, Undisturbed
  <1>t. /\ upload \in [Avatar -> UploadPc] /\ row \in [Avatar -> Row]
        /\ mainQ \in [Event -> Nat] /\ retryQ \in [Event -> Nat] /\ dlq \in [Event -> Nat]
    BY DEF TypeOK
  <1>3. \A x \in Avatar : x # b => upload'[x] = upload[x] /\ row'[x] = row[x]
    BY <1>t
       DEF UploadStep, UploadPut, UploadInsert, UploadPublish, UploadUndoRow,
           UploadUndoObject, UploadAbort
  <1>4. mainQ' = mainQ \/ mainQ' = Put(mainQ, AvatarUploadEvent(b))
    BY DEF queueVars, UploadStep, UploadPut, UploadInsert, UploadPublish, UploadUndoRow,
           UploadUndoObject, UploadAbort
  <1>5. \A e \in Event : mainQ'[e] >= mainQ[e] /\ mainQ'[e] \in Nat
    <2>1. AvatarUploadEvent(b) \in Event
      BY PublishedEvents
    <2>2. CASE mainQ' = mainQ
      BY <2>2, <1>t
    <2>3. CASE mainQ' = Put(mainQ, AvatarUploadEvent(b))
      BY <2>1, <2>3, <1>t, PutGrows, QueueOperators
    <2> QED
      BY <2>2, <2>3, <1>4
  <1>6. Acked(b)' => mainQ' = Put(mainQ, AvatarUploadEvent(b))
    BY <1>t DEF Acked, Delivered, Fault, UploadStep, UploadPut, UploadInsert, UploadPublish,
                UploadUndoRow, UploadUndoObject, UploadAbort, WriteResult
  <1>7. ASSUME NEW a \in Avatar, Acked(a)', Live(row[a])', row'[a].status # "completed"
        PROVE  UploadEventExists(a)'
    <2>1. CASE a = b
      <3>1. AvatarUploadEvent(b) \in Event
        BY PublishedEvents
      <3>2. mainQ'[AvatarUploadEvent(b)] > 0
        BY <1>6, <1>7, <1>t, <2>1, <3>1, PutGrows
      <3> DEFINE e == AvatarUploadEvent(b)
      <3>3. e.op = "upload" /\ e.av = a
        BY <2>1 DEF AvatarUploadEvent
      <3>4. mainQ'[e] + retryQ'[e] + dlq'[e] > 0
        <4> HIDE DEF e
        <4>1. e \in Event /\ mainQ'[e] > 0
          BY <3>1, <3>2 DEF e
        <4> QED
          BY <4>1, <1>1, <1>5, <1>t
      <3> QED
        BY <3>1, <3>3, <3>4 DEF UploadEventExists
    <2>2. CASE a # b
      <3>1. UploadEventExists(a)
        BY <2>2, <1>3, <1>7 DEF JobsKept, NoLostJob, Acked
      <3> QED
        BY <3>1, <1>1, <1>5, <1>t, EventStays DEF UploadEventsOf
    <2> QED
      BY <2>1, <2>2
  <1> QED
    BY <1>2, <1>7 DEF JobsKept, NoLostJob

LEMMA DeleteKeepsJobs ==
    ASSUME Delivered, TypeOK, JobsKept, NEW d \in Deleter, DeleteStep(d)
    PROVE  JobsKept'
  <1>1. UNCHANGED <<upload, retryQ, dlq, task, conn>>
    BY DEF queueVars, workerVars, DeleteStep, DeleteRead, DeleteSoft, DeletePublish,
           DeleteRestore, DeleteAbort
  <1>t. /\ deletion \in [Deleter -> Deletion] /\ row \in [Avatar -> Row]
        /\ mainQ \in [Event -> Nat] /\ retryQ \in [Event -> Nat] /\ dlq \in [Event -> Nat]
        /\ deletion[d].av \in Avatar /\ deletion[d].seen \in Row
    BY DEF TypeOK, Deletion
  <1>i. Undisturbed /\ NoLostJob
    BY DEF JobsKept
  <1>2. deletion'[d].pc # "restore" /\ \A x \in Deleter : x # d => deletion'[x] = deletion[x]
    <2>1. CASE DeleteRead(d) \/ DeleteSoft(d) \/ DeleteAbort(d) \/ DeleteRestore(d)
      BY <2>1, <1>t DEF DeleteRead, DeleteSoft, DeleteAbort, DeleteRestore, Deletion
    <2>2. CASE DeletePublish(d)
      BY <2>2, <1>t DEF DeletePublish, Deletion, Delivered, Fault
    <2> QED
      BY <2>1, <2>2 DEF DeleteStep
  <1>3. Undisturbed'
    BY <1>1, <1>2, <1>i DEF Undisturbed
  <1>4. \A x \in Avatar : /\ Live(row'[x]) => Live(row[x])
                          /\ row'[x].status = row[x].status
    <2>1. CASE DeleteSoft(d)
      BY <2>1, <1>t DEF DeleteSoft, SoftDelete, Live, Row
    <2>2. CASE UNCHANGED row
      BY <2>2
    <2> QED
      BY <2>1, <2>2, <1>i
         DEF Undisturbed, DeleteStep, DeleteRead, DeletePublish, DeleteRestore, DeleteAbort
  <1>5. \A e \in Event : mainQ'[e] >= mainQ[e] /\ mainQ'[e] \in Nat
    <2>1. AvatarDeleteEvent(deletion[d].av, AllObjectKeys(deletion[d].seen)) \in Event
      BY <1>t, PublishedEvents
    <2>2. \/ mainQ' = mainQ
          \/ mainQ' = Put(mainQ, AvatarDeleteEvent(deletion[d].av,
                                                   AllObjectKeys(deletion[d].seen)))
      BY DEF queueVars, DeleteStep, DeleteRead, DeleteSoft, DeletePublish, DeleteRestore,
             DeleteAbort
    <2> QED
      BY <1>t, <2>1, <2>2, PutGrows, QueueOperators
  <1>6. ASSUME NEW a \in Avatar, Acked(a)', Live(row[a])', row'[a].status # "completed"
        PROVE  UploadEventExists(a)'
    <2>1. UploadEventExists(a)
      BY <1>1, <1>4, <1>6, <1>i DEF NoLostJob, Acked
    <2> QED
      BY <2>1, <1>1, <1>5, <1>t, EventStays DEF UploadEventsOf
  <1> QED
    BY <1>3, <1>6 DEF JobsKept, NoLostJob

\* A consumer that holds an upload event still has it, or has put it back.
LEMMA ConsumerKeepsEvents ==
    ASSUME Delivered, TypeOK, IInv, JobsKept, NEW c \in Consumer, ConsumerStep(c),
           NEW a \in Avatar, UploadEventExists(a)
    PROVE  \/ UploadEventExists(a)'
           \/ /\ c[1] = "upload" /\ task[c].ev.av = a
              /\ \/ ~NeedsProcessing(row[a]) /\ UNCHANGED row
                 \/ row'[a].status = "completed"
  <1>t. /\ task \in [Consumer -> Task]
        /\ mainQ \in [Event -> Nat] /\ retryQ \in [Event -> Nat] /\ dlq \in [Event -> Nat]
        /\ c[1] \in Op /\ c[2] \in Worker /\ c = <<c[1], c[2]>>
    BY DEF TypeOK, Consumer
  <1>i. Undisturbed
    BY DEF JobsKept
  <1>o. conn' = conn /\ \A x \in Consumer : x # c => task'[x] = task[x]
    BY OwnTask, ConsumerFrame
  <1>w. \A w \in Worker : <<"upload", w>> \in Consumer
    BY DEF Consumer, Op
  \* Where c handles an event and goes on handling it.
  <1>k. ASSUME UNCHANGED queueVars, task'[c].ev = task[c].ev,
               c[1] = "upload" /\ task'[c].pc \in {"idle", "ack", "nack"} =>
                   task[c].pc \in {"idle", "ack", "nack"}
        PROVE  UploadEventExists(a)'
    <2>1. CASE \E e \in Event : e.op = "upload" /\ e.av = a /\ mainQ[e] + retryQ[e] + dlq[e] > 0
      BY <2>1, <1>k DEF queueVars, UploadEventExists
    <2>2. ASSUME NEW w \in Worker, conn[w] = "up",
                 task[<<"upload", w>>].pc \notin {"idle", "ack", "nack"},
                 task[<<"upload", w>>].ev.av = a
          PROVE  UploadEventExists(a)'
      <3>1. CASE <<"upload", w>> = c
        BY <2>2, <3>1, <1>k, <1>o DEF UploadEventExists
      <3>2. CASE <<"upload", w>> # c
        BY <2>2, <3>2, <1>o, <1>w DEF UploadEventExists
      <3> QED
        BY <3>1, <3>2
    <2> QED
      BY <2>1, <2>2 DEF UploadEventExists
  <1>1. CASE Receive(c)
    <2>1. PICK e \in Event :
            /\ e.op = c[1] /\ mainQ[e] > 0
            /\ mainQ' = Take(mainQ, e)
            /\ task' = [task EXCEPT ![c] =
                   [pc |-> StartPc(e), ev |-> e, keys |-> StartKeys(e),
                    err |-> FALSE, dead |-> FALSE]]
      BY <1>1 DEF Receive
    <2>2. CASE e.op = "upload" /\ e.av = a
      <3>1. task'[c].pc = "load" /\ task'[c].ev = e /\ conn'[c[2]] = "up" /\ c = <<"upload", c[2]>>
        BY <2>1, <2>2, <1>1, <1>t, <1>o DEF StartPc, Receive
      <3> QED
        BY <3>1, <2>2, <1>t DEF UploadEventExists
    <2>3. CASE ~(e.op = "upload" /\ e.av = a)
      <3>1. \A x \in Event : x.op = "upload" /\ x.av = a => mainQ'[x] = mainQ[x]
        BY <2>1, <2>3, <1>t DEF Take
      <3>2. task[c].pc = "idle" /\ UNCHANGED <<retryQ, dlq>>
        BY <1>1 DEF Receive
      <3>3. CASE \E x \in Event : x.op = "upload" /\ x.av = a /\ mainQ[x] + retryQ[x] + dlq[x] > 0
        BY <3>1, <3>2, <3>3 DEF UploadEventExists
      <3>4. ASSUME NEW w \in Worker, conn[w] = "up",
                   task[<<"upload", w>>].pc \notin {"idle", "ack", "nack"},
                   task[<<"upload", w>>].ev.av = a
            PROVE  UploadEventExists(a)'
        BY <3>2, <3>4, <1>o, <1>w DEF UploadEventExists
      <3> QED
        BY <3>3, <3>4 DEF UploadEventExists
    <2> QED
      BY <2>2, <2>3
  <1>2. CASE JobStep(c)
    <2>1. CASE task'[c].pc = "ack" /\ task[c].ev.av = a
      BY <1>2, <2>1, JobMoves
    <2>2. CASE task'[c].pc # "ack"
      BY <1>2, <2>2, <1>k, JobMoves
    <2>3. CASE task'[c].pc = "ack" /\ task[c].ev.av # a
      <3>1. UNCHANGED queueVars
        BY <1>2, JobMoves
      <3>2. CASE \E x \in Event : x.op = "upload" /\ x.av = a /\ mainQ[x] + retryQ[x] + dlq[x] > 0
        BY <3>1, <3>2 DEF UploadEventExists, queueVars
      <3>3. ASSUME NEW w \in Worker, conn[w] = "up",
                   task[<<"upload", w>>].pc \notin {"idle", "ack", "nack"},
                   task[<<"upload", w>>].ev.av = a
            PROVE  UploadEventExists(a)'
        BY <2>3, <3>3, <1>o, <1>w DEF UploadEventExists
      <3> QED
        BY <3>2, <3>3 DEF UploadEventExists
    <2> QED
      BY <2>1, <2>2, <2>3
  <1>3. CASE SweepStep(c)
    <2>1. c[1] = "delete" /\ task'[c].ev = task[c].ev /\ UNCHANGED queueVars
      BY <1>3, SweepMoves DEF queueVars
    <2> QED
      BY <2>1, <1>k
  <1>4. CASE Republish(c)
    <2> DEFINE e == task[c].ev
    <2>1. e \in Event /\ e.op = c[1] /\ mainQ' = mainQ
      BY <1>4 DEF Republish, TypeOK
    <2> HIDE DEF e
    \* The event is in the next queue, and no other has left one.
    <2>2. /\ \A x \in Event : retryQ'[x] >= retryQ[x] /\ retryQ'[x] \in Nat
          /\ \A x \in Event : dlq'[x] >= dlq[x] /\ dlq'[x] \in Nat
          /\ \E x \in Event : x.op = e.op /\ x.av = e.av /\ retryQ'[x] + dlq'[x] > 0
      <3>1. CASE RetriesExhausted(e)
        <4>1. dlq' = Put(dlq, e) /\ retryQ' = retryQ
          BY <1>4, <3>1 DEF Republish, e
        <4>2. dlq'[e] > 0 /\ \A x \in Event : dlq'[x] >= dlq[x] /\ dlq'[x] \in Nat
          BY <4>1, <2>1, <1>t, PutGrows, QueueOperators
        <4> QED
          BY <4>1, <4>2, <2>1, <1>t
      <3>2. CASE ~RetriesExhausted(e)
        <4> DEFINE n == NextAttempt(e)
        <4>1. n \in Event /\ n.op = e.op /\ n.av = e.av
          BY <3>2, <2>1, RepublishedEvent
        <4>2. retryQ' = Put(retryQ, n) /\ dlq' = dlq
          BY <1>4, <3>2 DEF Republish, e
        <4> HIDE DEF n
        <4>3. retryQ'[n] > 0 /\ \A x \in Event : retryQ'[x] >= retryQ[x] /\ retryQ'[x] \in Nat
          BY <4>1, <4>2, <1>t, PutGrows, QueueOperators
        <4> QED
          BY <4>1, <4>2, <4>3, <1>t
      <3> QED
        BY <3>1, <3>2
    <2>3. CASE \E x \in Event : x.op = "upload" /\ x.av = a /\ mainQ[x] + retryQ[x] + dlq[x] > 0
      BY <2>1, <2>2, <2>3, <1>t DEF UploadEventExists
    <2>4. ASSUME NEW w \in Worker, conn[w] = "up",
                 task[<<"upload", w>>].pc \notin {"idle", "ack", "nack"},
                 task[<<"upload", w>>].ev.av = a
          PROVE  UploadEventExists(a)'
      <3>1. CASE <<"upload", w>> = c
        <4>1. e.op = "upload" /\ e.av = a
          BY <2>1, <2>4, <3>1 DEF e
        <4>2. PICK x \in Event : x.op = "upload" /\ x.av = a /\ retryQ'[x] + dlq'[x] > 0
          BY <4>1, <2>2
        <4>3. mainQ'[x] + retryQ'[x] + dlq'[x] > 0
          BY <4>2, <2>1, <2>2, <1>t
        <4> QED
          BY <4>2, <4>3 DEF UploadEventExists
      <3>2. CASE <<"upload", w>> # c
        BY <2>4, <3>2, <1>o, <1>w DEF UploadEventExists
      <3> QED
        BY <3>1, <3>2
    <2> QED
      BY <2>3, <2>4 DEF UploadEventExists
  <1>5. CASE RepublishFails(c)
    BY <1>5, <1>i, <1>t DEF RepublishFails, CanPublish, Undisturbed
  <1>6. CASE Settle(c)
    <2>1. task[c].pc \in {"ack", "nack"} /\ UNCHANGED queueVars
      BY <1>6 DEF Settle
    <2>2. CASE \E x \in Event : x.op = "upload" /\ x.av = a /\ mainQ[x] + retryQ[x] + dlq[x] > 0
      BY <2>1, <2>2 DEF UploadEventExists, queueVars
    <2>3. ASSUME NEW w \in Worker, conn[w] = "up",
                 task[<<"upload", w>>].pc \notin {"idle", "ack", "nack"},
                 task[<<"upload", w>>].ev.av = a
          PROVE  UploadEventExists(a)'
      BY <2>1, <2>3, <1>o, <1>w DEF UploadEventExists
    <2> QED
      BY <2>2, <2>3 DEF UploadEventExists
  <1> QED
    BY <1>1, <1>2, <1>3, <1>4, <1>5, <1>6 DEF ConsumerStep

LEMMA ConsumerKeepsJobs ==
    ASSUME Delivered, TypeOK, IInv, JobsKept, NEW c \in Consumer,
           ConsumerStep(c) \/ ContextEnds(c)
    PROVE  JobsKept'
  <1>t. /\ task \in [Consumer -> Task] /\ row \in [Avatar -> Row]
        /\ c[1] \in Op /\ c[2] \in Worker
    BY DEF TypeOK, Consumer
  <1>i. Undisturbed /\ NoLostJob
    BY DEF JobsKept
  <1>f. UNCHANGED <<upload, deletion, conn>>
    BY ConsumerFrame
  <1>c. ConsumerStep(c)
    BY <1>i, <1>t DEF ContextEnds, Undisturbed, Delivered, Fault
  <1>1. ~task'[c].dead
    <2>1. CASE JobStep(c)
      BY <2>1, <1>i, JobMoves DEF Undisturbed
    <2>2. CASE SweepStep(c)
      BY <2>2, <1>i, SweepMoves DEF Undisturbed
    <2>3. CASE Receive(c) \/ Settle(c)
      BY <2>3, <1>t DEF Receive, Settle, IdleTask
    <2>4. CASE Republish(c) \/ RepublishFails(c)
      BY <2>4, <1>t, <1>i DEF Republish, RepublishFails, Undisturbed, Task
    <2> QED
      BY <2>1, <2>2, <2>3, <2>4, <1>c DEF ConsumerStep
  <1>2. Undisturbed'
    BY <1>1, <1>f, <1>i, OwnTask DEF Undisturbed
  <1>3. \A a \in Avatar : row'[a].state = row[a].state
    BY ConsumerRows
  <1>4. ASSUME NEW a \in Avatar, Acked(a)', Live(row[a])', row'[a].status # "completed"
        PROVE  UploadEventExists(a)'
    <2>1. Acked(a) /\ Live(row[a])
      BY <1>3, <1>4, <1>f DEF Acked, Live
    <2>2. CASE row[a].status # "completed"
      BY <2>1, <2>2, <1>4, <1>c, <1>i, ConsumerKeepsEvents DEF NoLostJob, NeedsProcessing
    \* The row was completed: another attempt has just marked it failed.
    <2>3. CASE row[a].status = "completed"
      <3>1. row'[a] # row[a]
        BY <2>3, <1>4
      <3>2. JobMarkFailed(c)
        <4>1. CASE JobSave(c)
          <5>1. UpdateProcessingResult(row[a]).status = "completed"
            BY <1>t, <2>3 DEF UpdateProcessingResult, Row
          <5> QED
            BY <4>1, <5>1, <1>t, <1>4, <2>3 DEF JobSave
        <4> QED
          BY <4>1, <3>1, <1>c, WhoSaves
      <3>3. task[c].ev.av = a
        BY <3>1, <3>2, JobMoves DEF JobStep
      <3>4. c[1] = "upload" /\ task'[c].ev = task[c].ev
        BY <3>2, JobMoves DEF JobStep
      <3>5. task'[c].pc = "report"
        BY <3>2, <1>t DEF JobMarkFailed
      <3>6. c = <<"upload", c[2]>> /\ conn'[c[2]] = "up"
        BY <3>4, <1>t, <1>i, <1>f DEF Consumer, Undisturbed
      <3> QED
        BY <3>3, <3>4, <3>5, <3>6, <1>t DEF UploadEventExists
    <2> QED
      BY <2>2, <2>3
  <1> QED
    BY <1>2, <1>4 DEF JobsKept, NoLostJob

\* Without disconnects, what a replica can do is die.  The broker requeues what
\* it has not answered.
LEMMA ReplicaKeepsJobs ==
    ASSUME Delivered, TypeOK, JobsKept, NEW w \in Worker, ReplicaStep(w)
    PROVE  JobsKept'
  <1>t. /\ task \in [Consumer -> Task] /\ conn \in [Worker -> {"up", "lost"}]
        /\ mainQ \in [Event -> Nat] /\ retryQ \in [Event -> Nat] /\ dlq \in [Event -> Nat]
        /\ \A v \in Worker : <<"upload", v>> \in Consumer /\ <<"upload", v>>[2] = v
    BY DEF TypeOK, Consumer, Op
  <1>i. Undisturbed /\ NoLostJob
    BY DEF JobsKept
  <1>1. Crash(w)
    BY <1>i DEF ReplicaStep, Disconnect, Restart, Delivered, Fault, Undisturbed
  <1>2. UNCHANGED <<row, upload, deletion, retryQ, dlq>>
    BY <1>1 DEF Crash, serverVars
  <1>3. Undisturbed'
    BY <1>1, <1>2, <1>i, <1>t DEF Crash, Undisturbed, IdleTask
  <1>4. ASSUME NEW a \in Avatar, UploadEventExists(a)
        PROVE  UploadEventExists(a)'
    <2>1. \A x \in Event : mainQ'[x] >= mainQ[x] /\ mainQ'[x] \in Nat
      BY <1>1, <1>t DEF Crash, Requeued
    <2>2. CASE \E x \in Event : x.op = "upload" /\ x.av = a /\ mainQ[x] + retryQ[x] + dlq[x] > 0
      BY <1>2, <1>t, <2>1, <2>2 DEF UploadEventExists
    <2>3. ASSUME NEW v \in Worker, conn[v] = "up",
                 task[<<"upload", v>>].pc \notin {"idle", "ack", "nack"},
                 task[<<"upload", v>>].ev.av = a
          PROVE  UploadEventExists(a)'
      <3>1. CASE v = w
        <4> DEFINE e == task[<<"upload", w>>].ev
        <4>1. e \in Event /\ e.op = "upload" /\ e.av = a
          BY <2>3, <3>1, <1>t DEF TypeOK
        <4>2. Unacked(w, e)
          BY <2>3, <3>1, <4>1 DEF Unacked
        <4> HIDE DEF e
        <4>3. mainQ'[e] > 0
          BY <1>1, <1>t, <4>1, <4>2 DEF Crash, Requeued
        <4>4. mainQ'[e] + retryQ'[e] + dlq'[e] > 0
          BY <4>1, <4>3, <2>1, <1>2, <1>t
        <4> QED
          BY <4>1, <4>4 DEF UploadEventExists
      <3>2. CASE v # w
        <4>1. task'[<<"upload", v>>] = task[<<"upload", v>>] /\ conn'[v] = "up"
          BY <1>1, <1>t, <2>3, <3>2 DEF Crash
        <4> QED
          BY <4>1, <2>3 DEF UploadEventExists
      <3> QED
        BY <3>1, <3>2
    <2> QED
      BY <1>4, <2>2, <2>3 DEF UploadEventExists
  <1> QED
    BY <1>2, <1>3, <1>4, <1>i DEF JobsKept, NoLostJob, Acked

LEMMA RetryKeepsJobs ==
    ASSUME TypeOK, JobsKept, NEW e \in Event, RetryExpires(e)
    PROVE  JobsKept'
  <1>t. mainQ \in [Event -> Nat] /\ retryQ \in [Event -> Nat] /\ dlq \in [Event -> Nat]
    BY DEF TypeOK
  <1>1. UNCHANGED <<row, upload, deletion, dlq, task, conn>>
    BY DEF serverVars, workerVars, RetryExpires
  <1>2. \A x \in Event : mainQ[x] + retryQ[x] + dlq[x] > 0 => mainQ'[x] + retryQ'[x] + dlq'[x] > 0
    BY <1>t, <1>1 DEF RetryExpires, Put, Take
  <1>3. \A a \in Avatar : UploadEventExists(a) => UploadEventExists(a)'
    BY <1>1, <1>2, EventStays DEF UploadEventsOf
  <1> QED
    BY <1>1, <1>3 DEF JobsKept, Undisturbed, NoLostJob, Acked

LEMMA NextKeepsJobs == Delivered /\ TypeOK /\ IInv /\ JobsKept /\ [Next]_vars => JobsKept'
  <1> SUFFICES ASSUME Delivered, TypeOK, IInv, JobsKept, [Next]_vars PROVE JobsKept'
    OBVIOUS
  <1>1. CASE UNCHANGED vars
    BY <1>1 DEF vars, JobsKept, Undisturbed, NoLostJob, Acked, UploadEventExists
  <1>2. CASE Next
    BY <1>2, UploadKeepsJobs, DeleteKeepsJobs, ConsumerKeepsJobs, ReplicaKeepsJobs,
       RetryKeepsJobs DEF Next
  <1> QED
    BY <1>1, <1>2

\* Where no handler's context ends early and every event arrives, an acknowledged
\* avatar that is not processed yet still has its event (consumeLoop: requeue by
\* the broker, republish before ack), however many workers die, calls fail or
\* answers are lost.
THEOREM NoJobIsLost == ASSUME Delivered PROVE Spec => []NoLostJob
  <1>1. Init => JobsKept
    BY DEF Init, JobsKept, Undisturbed, NoLostJob, Acked, IdleTask
  <1>2. TypeOK /\ IInv /\ JobsKept /\ [Next]_vars => JobsKept'
    BY NextKeepsJobs
  <1>3. JobsKept => NoLostJob
    BY DEF JobsKept
  <1> QED
    BY <1>1, <1>2, <1>3, TypeCorrect, Invariant, PTL DEF Spec

-----------------------------------------------------------------------------
(* Attempts at one upload follow each other (JobInv).                      *)

LEMMA AheadType ==
    ASSUME TypeOK, NEW e \in Event
    PROVE  Ahead(e) \in Nat
  BY DEF TypeOK, Ahead

\* A step that neither queues an upload event nor hands one to a consumer.
LEMMA NoGain ==
    ASSUME TypeOK, TypeOK', OneAttempt,
           \A e \in Event : e.op = "upload" => Ahead(e)' <= Ahead(e),
           \A w \in Worker, a \in Avatar : Attempts(w, a)' => Attempts(w, a)
    PROVE  OneAttempt'
  <1>1. \A e \in Event : Ahead(e) \in Nat /\ Ahead(e)' \in Nat
    BY DEF TypeOK, Ahead
  <1>2. \A a \in Avatar : \A e \in UploadEventsOf(a) :
            e \in Event /\ Ahead(e)' <= Ahead(e) /\ Ahead(e) \in Nat /\ Ahead(e)' \in Nat
    BY <1>1 DEF UploadEventsOf
  <1>3. ASSUME NEW a \in Avatar
        PROVE  /\ \A e \in UploadEventsOf(a) : Ahead(e)' <= 1
               /\ \A e, f \in UploadEventsOf(a) : Ahead(e)' > 0 /\ Ahead(f)' > 0 => e = f
               /\ \A w \in Worker : Attempts(w, a)' =>
                      /\ \A e \in UploadEventsOf(a) : Ahead(e)' = 0
                      /\ \A v \in Worker : Attempts(v, a)' => v = w
    <2>1. \A e \in UploadEventsOf(a) : Ahead(e)' <= 1
      BY <1>2 DEF OneAttempt
    <2>2. \A e, f \in UploadEventsOf(a) : Ahead(e)' > 0 /\ Ahead(f)' > 0 => e = f
      BY <1>2 DEF OneAttempt
    <2>3. ASSUME NEW w \in Worker, Attempts(w, a)'
          PROVE  /\ \A e \in UploadEventsOf(a) : Ahead(e)' = 0
                 /\ \A v \in Worker : Attempts(v, a)' => v = w
      BY <1>2, <2>3 DEF OneAttempt
    <2> QED
      BY <2>1, <2>2, <2>3
  <1> QED
    BY <1>3 DEF OneAttempt, UploadEventsOf

\* No event and no attempt of an avatar before its upload is acknowledged: the
\* part of NothingBeforeAck about events.
QuietBeforeAck ==
    \A a \in Avatar : ~Acked(a) =>
        /\ \A e \in UploadEventsOf(a) : Ahead(e) = 0
        /\ \A w \in Worker : ~Attempts(w, a)

LEMMA NoGainQuiet ==
    ASSUME TypeOK, TypeOK', QuietBeforeAck,
           \A e \in Event : e.op = "upload" => Ahead(e)' <= Ahead(e),
           \A w \in Worker, a \in Avatar : Attempts(w, a)' => Attempts(w, a),
           \A a \in Avatar : Acked(a) => Acked(a)'
    PROVE  QuietBeforeAck'
  <1>1. \A e \in Event : Ahead(e) \in Nat /\ Ahead(e)' \in Nat
    BY DEF TypeOK, Ahead
  <1>2. ASSUME NEW a \in Avatar, ~Acked(a)', NEW e \in UploadEventsOf(a)
        PROVE  Ahead(e)' = 0
    <2>1. e \in Event /\ e.op = "upload" /\ Ahead(e) = 0
      BY <1>2 DEF UploadEventsOf, QuietBeforeAck
    <2> QED
      BY <1>1, <2>1
  <1> QED
    BY <1>2 DEF QuietBeforeAck, UploadEventsOf

LEMMA UploadPlaces ==
    ASSUME TypeOK, TypeOK', OneAttempt, QuietBeforeAck, NEW b \in Avatar, UploadStep(b)
    PROVE  OneAttempt' /\ QuietBeforeAck'
  <1>1. UNCHANGED <<retryQ, task>> /\ ~Acked(b)
    BY DEF queueVars, workerVars, UploadStep, UploadPut, UploadInsert, UploadPublish,
           UploadUndoRow, UploadUndoObject, UploadAbort, Acked
  <1>2. \A w, a : Attempts(w, a)' <=> Attempts(w, a)
    BY <1>1 DEF Attempts
  <1>3. \A a \in Avatar : Acked(a) => Acked(a)'
    BY <1>1 DEF TypeOK, Acked, UploadStep, UploadPut, UploadInsert, UploadPublish,
                UploadUndoRow, UploadUndoObject, UploadAbort
  <1>4. CASE mainQ' = mainQ
    <2>1. \A e \in Event : Ahead(e)' <= Ahead(e)
      BY <1>1, <1>4, AheadType DEF Ahead
    <2> QED
      BY <1>2, <1>3, <2>1, NoGain, NoGainQuiet
  <1>5. CASE mainQ' = Put(mainQ, AvatarUploadEvent(b)) /\ upload'[b] = "acked"
    <2> DEFINE n == AvatarUploadEvent(b)
    <2>1. n \in Event /\ n.op = "upload" /\ n.av = b
      BY PublishedEvents DEF AvatarUploadEvent
    <2>2. n \in UploadEventsOf(b)
      BY <2>1 DEF UploadEventsOf
    <2>p. mainQ' = Put(mainQ, n)
      BY <1>5
    <2> HIDE DEF n
    <2>3. Ahead(n)' = Ahead(n) + 1 /\ \A e \in Event : e # n => Ahead(e)' = Ahead(e)
      BY <1>1, <2>1, <2>p DEF Ahead, Put, TypeOK
    <2>4. (\A e \in UploadEventsOf(b) : Ahead(e) = 0) /\ \A w \in Worker : ~Attempts(w, b)
      BY <1>1 DEF QuietBeforeAck
    <2>5. ASSUME NEW a \in Avatar, a # b
          PROVE  \A e \in UploadEventsOf(a) : Ahead(e)' = Ahead(e)
      BY <2>1, <2>3, <2>5 DEF UploadEventsOf
    <2>6. /\ \A e \in UploadEventsOf(b) : Ahead(e)' <= 1
          /\ \A e \in UploadEventsOf(b) : Ahead(e)' > 0 => e = n
      BY <2>2, <2>3, <2>4 DEF UploadEventsOf
    <2>7. OneAttempt'
      <3>1. ASSUME NEW a \in Avatar
            PROVE  /\ \A e \in UploadEventsOf(a) : Ahead(e)' <= 1
                   /\ \A e, f \in UploadEventsOf(a) : Ahead(e)' > 0 /\ Ahead(f)' > 0 => e = f
                   /\ \A w \in Worker : Attempts(w, a)' =>
                          /\ \A e \in UploadEventsOf(a) : Ahead(e)' = 0
                          /\ \A v \in Worker : Attempts(v, a)' => v = w
        <4>1. CASE a = b
          BY <4>1, <1>2, <2>4, <2>6
        <4>2. CASE a # b
          BY <4>2, <1>2, <2>5 DEF OneAttempt
        <4> QED
          BY <4>1, <4>2
      <3> QED
        BY <3>1 DEF OneAttempt, UploadEventsOf
    <2>8. QuietBeforeAck'
      <3>1. Acked(b)'
        BY <1>5 DEF Acked
      <3> QED
        BY <3>1, <1>2, <1>3, <2>5 DEF QuietBeforeAck, UploadEventsOf
    <2> QED
      BY <2>7, <2>8
  <1> QED
    BY <1>4, <1>5
       DEF TypeOK, queueVars, UploadStep, UploadPut, UploadInsert, UploadPublish,
           UploadUndoRow, UploadUndoObject, UploadAbort

LEMMA DeletePlaces ==
    ASSUME TypeOK, TypeOK', OneAttempt, QuietBeforeAck, NEW d \in Deleter, DeleteStep(d)
    PROVE  OneAttempt' /\ QuietBeforeAck'
  <1>1. UNCHANGED <<upload, retryQ, task>>
    BY DEF queueVars, workerVars, DeleteStep, DeleteRead, DeleteSoft, DeletePublish,
           DeleteRestore, DeleteAbort
  <1>2. \A e \in Event : e.op = "upload" => mainQ'[e] = mainQ[e]
    <2>1. CASE DeletePublish(d)
      BY <2>1 DEF TypeOK, AvatarDeleteEvent, Put, DeletePublish
    <2>2. CASE ~DeletePublish(d)
      BY <2>2 DEF queueVars, DeleteStep, DeleteRead, DeleteSoft, DeleteRestore, DeleteAbort
    <2> QED
      BY <2>1, <2>2
  <1>3. \A e \in Event : e.op = "upload" => Ahead(e)' <= Ahead(e)
    BY <1>1, <1>2, AheadType DEF Ahead
  <1>4. \A w \in Worker, a \in Avatar : Attempts(w, a)' => Attempts(w, a)
    BY <1>1 DEF Attempts
  <1> QED
    BY <1>1, <1>3, <1>4, NoGain, NoGainQuiet DEF Acked

\* A delivery takes the only copy of the event.
LEMMA ReceivePlaces ==
    ASSUME TypeOK, TypeOK', OneAttempt, QuietBeforeAck, NEW c \in Consumer, Receive(c)
    PROVE  OneAttempt' /\ QuietBeforeAck'
  <1>t. /\ task \in [Consumer -> Task] /\ mainQ \in [Event -> Nat] /\ retryQ \in [Event -> Nat]
        /\ c = <<c[1], c[2]>> /\ c[2] \in Worker
        /\ \A w \in Worker : <<"upload", w>> \in Consumer /\ <<"upload", w>>[1] = "upload"
                             /\ <<"upload", w>>[2] = w
    BY DEF TypeOK, Consumer, Op
  <1>1. PICK e \in Event :
          /\ e.op = c[1] /\ mainQ[e] > 0
          /\ mainQ' = Take(mainQ, e)
          /\ task' = [task EXCEPT ![c] =
                 [pc |-> StartPc(e), ev |-> e, keys |-> StartKeys(e),
                  err |-> FALSE, dead |-> FALSE]]
    BY DEF Receive
  <1>2. UNCHANGED <<retryQ, upload>>
    BY DEF Receive, serverVars
  <1>3. /\ Ahead(e) > 0 /\ Ahead(e)' = Ahead(e) - 1
        /\ \A x \in Event : x # e => Ahead(x)' = Ahead(x)
    BY <1>1, <1>2, <1>t DEF Ahead, Take
  <1>4. \A x \in Event : Ahead(x)' <= Ahead(x)
    BY <1>3, AheadType
  <1>5. CASE e.op # "upload"
    <2>1. \A w \in Worker : task'[<<"upload", w>>] = task[<<"upload", w>>]
      BY <1>1, <1>5, <1>t
    <2>2. \A w \in Worker, a \in Avatar : Attempts(w, a)' => Attempts(w, a)
      BY <2>1 DEF Attempts
    <2> QED
      BY <1>2, <1>4, <2>2, NoGain, NoGainQuiet DEF Acked
  <1>6. CASE e.op = "upload"
    <2> DEFINE a == e.av
               w == c[2]
    <2>1. e \in UploadEventsOf(a) /\ a \in Avatar /\ w \in Worker /\ c = <<"upload", w>>
      BY <1>1, <1>6, <1>t DEF UploadEventsOf, Event
    <2>2. task'[c].ev = e /\ \A x \in Consumer : x # c => task'[x] = task[x]
      BY <1>1, <1>t
    <2>e. e.av = a
      OBVIOUS
    <2> HIDE DEF a, w
    \* Before, the event was the only one and nobody was at work.
    <2>3. /\ Ahead(e) = 1
          /\ \A x \in UploadEventsOf(a) : x # e => Ahead(x) = 0
          /\ \A v \in Worker : ~Attempts(v, a)
      <3>1. \A x \in UploadEventsOf(a) : Ahead(x) \in Nat /\ Ahead(x) <= 1
        BY <2>1, AheadType DEF OneAttempt, UploadEventsOf
      <3>2. \A x \in UploadEventsOf(a) : x # e => Ahead(x) = 0
        BY <3>1, <2>1, <1>3 DEF OneAttempt
      <3>3. \A v \in Worker : ~Attempts(v, a)
        BY <2>1, <1>3 DEF OneAttempt
      <3>4. Ahead(e) = 1
        BY <3>1, <2>1, <1>3
      <3> QED
        BY <3>2, <3>3, <3>4
    <2>4. \A x \in UploadEventsOf(a) : Ahead(x)' = 0
      BY <2>3, <1>3 DEF UploadEventsOf
    <2>5. \A v \in Worker : Attempts(v, a)' => v = w
      <3>1. ASSUME NEW v \in Worker, v # w
            PROVE  ~Attempts(v, a)'
        <4>1. task'[<<"upload", v>>] = task[<<"upload", v>>]
          BY <3>1, <2>1, <2>2, <1>t
        <4> QED
          BY <4>1, <2>3 DEF Attempts
      <3> QED
        BY <3>1
    <2>6. ASSUME NEW b \in Avatar, b # a
          PROVE  /\ \A x \in UploadEventsOf(b) : Ahead(x)' = Ahead(x)
                 /\ \A v \in Worker : Attempts(v, b)' => Attempts(v, b)
      <3>1. \A x \in UploadEventsOf(b) : Ahead(x)' = Ahead(x)
        BY <2>6, <2>e, <1>3 DEF UploadEventsOf
      <3>2. ASSUME NEW v \in Worker, Attempts(v, b)'
            PROVE  Attempts(v, b)
        <4>1. <<"upload", v>> # c
          BY <3>2, <2>2, <2>6, <2>e DEF Attempts
        <4> QED
          BY <4>1, <3>2, <2>2, <1>t DEF Attempts
      <3> QED
        BY <3>1, <3>2
    <2>7. OneAttempt'
      <3>1. ASSUME NEW b \in Avatar
            PROVE  /\ \A x \in UploadEventsOf(b) : Ahead(x)' <= 1
                   /\ \A x, y \in UploadEventsOf(b) : Ahead(x)' > 0 /\ Ahead(y)' > 0 => x = y
                   /\ \A v \in Worker : Attempts(v, b)' =>
                          /\ \A x \in UploadEventsOf(b) : Ahead(x)' = 0
                          /\ \A u \in Worker : Attempts(u, b)' => u = v
        <4>1. CASE b = a
          BY <4>1, <2>4, <2>5
        <4>2. CASE b # a
          BY <4>2, <2>6 DEF OneAttempt
        <4> QED
          BY <4>1, <4>2
      <3> QED
        BY <3>1 DEF OneAttempt, UploadEventsOf
    <2>8. QuietBeforeAck'
      <3>1. Acked(a)
        BY <2>1, <2>3 DEF QuietBeforeAck
      <3>2. \A b : Acked(b)' <=> Acked(b)
        BY <1>2 DEF Acked
      <3> QED
        BY <3>1, <3>2, <2>6 DEF QuietBeforeAck, UploadEventsOf
    <2> QED
      BY <2>7, <2>8
  <1> QED
    BY <1>5, <1>6

\* The attempt that republishes its event is over with that.
LEMMA RepublishPlaces ==
    ASSUME TypeOK, TypeOK', OneAttempt, QuietBeforeAck, NEW c \in Consumer, Republish(c)
    PROVE  OneAttempt' /\ QuietBeforeAck'
  <1>t. /\ task \in [Consumer -> Task] /\ mainQ \in [Event -> Nat] /\ retryQ \in [Event -> Nat]
        /\ c = <<c[1], c[2]>> /\ c[2] \in Worker
        /\ \A w \in Worker : <<"upload", w>> \in Consumer /\ <<"upload", w>>[1] = "upload"
                             /\ <<"upload", w>>[2] = w
    BY DEF TypeOK, Consumer, Op
  <1>e. PICK e \in Event : e = task[c].ev /\ e.op = c[1]
    BY DEF Republish, TypeOK
  <1> DEFINE n == NextAttempt(e)
             a == e.av
  <1>1. /\ task[c].pc = "report" /\ mainQ' = mainQ /\ upload' = upload
        /\ task' = [task EXCEPT ![c].pc = "ack"]
        /\ RetriesExhausted(e) => retryQ' = retryQ
        /\ ~RetriesExhausted(e) => retryQ' = Put(retryQ, n)
    BY <1>e DEF Republish, serverVars
  <1>2. e \in Event /\ e.op = c[1] /\ a \in Avatar
    BY <1>e DEF Event
  <1>3. ~RetriesExhausted(e) => n \in Event /\ n.op = e.op /\ n.av = a
    BY <1>2, RepublishedEvent
  <1>v. e.av = a
    OBVIOUS
  <1>x. \A b : Acked(b)' <=> Acked(b)
    BY <1>1 DEF Acked
  \* Every attempt is an old one, and not that of c.
  <1>4. \A w \in Worker, b \in Avatar : Attempts(w, b)' => Attempts(w, b) /\ <<"upload", w>> # c
    <2>1. ASSUME NEW w \in Worker, NEW b \in Avatar, Attempts(w, b)'
          PROVE  Attempts(w, b) /\ <<"upload", w>> # c
      <3>1. task'[c].pc = "ack" /\ \A x \in Consumer : x # c => task'[x] = task[x]
        BY <1>1, <1>t DEF Task
      <3>2. <<"upload", w>> # c
        BY <2>1, <3>1 DEF Attempts
      <3> QED
        BY <2>1, <3>1, <3>2, <1>t DEF Attempts
    <2> QED
      BY <2>1
  <1> HIDE DEF n, a
  <1>5. CASE RetriesExhausted(e) \/ c[1] # "upload"
    <2>1. \A x \in Event : x.op = "upload" => retryQ'[x] = retryQ[x]
      BY <1>1, <1>2, <1>3, <1>5, <1>t DEF Put
    <2>2. \A x \in Event : x.op = "upload" => Ahead(x)' <= Ahead(x)
      BY <1>1, <2>1, AheadType DEF Ahead
    <2> QED
      BY <1>4, <1>x, <2>2, NoGain, NoGainQuiet
  <1>6. CASE ~RetriesExhausted(e) /\ c[1] = "upload"
    <2>1. n \in UploadEventsOf(a) /\ n \in Event
      BY <1>2, <1>3, <1>6 DEF UploadEventsOf
    <2>2. Ahead(n)' = Ahead(n) + 1 /\ \A x \in Event : x # n => Ahead(x)' = Ahead(x)
      BY <1>1, <1>6, <1>t, <2>1 DEF Ahead, Put
    <2>3. Attempts(c[2], a)
      BY <1>1, <1>2, <1>6, <1>e, <1>t, <1>v DEF Attempts
    <2>4. /\ \A x \in UploadEventsOf(a) : Ahead(x) = 0
          /\ \A v \in Worker : Attempts(v, a) => v = c[2]
      BY <2>3, <1>2, <1>t DEF OneAttempt
    <2>5. \A v \in Worker : ~Attempts(v, a)'
      BY <1>2, <1>4, <1>6, <1>t, <2>4
    <2>6. /\ \A x \in UploadEventsOf(a) : Ahead(x)' <= 1
          /\ \A x \in UploadEventsOf(a) : Ahead(x)' > 0 => x = n
      BY <2>1, <2>2, <2>4 DEF UploadEventsOf
    <2>7. \A b \in Avatar : b # a => \A x \in UploadEventsOf(b) : Ahead(x)' = Ahead(x)
      BY <1>3, <1>6, <2>2 DEF UploadEventsOf
    <2>8. OneAttempt'
      <3>1. ASSUME NEW b \in Avatar
            PROVE  /\ \A x \in UploadEventsOf(b) : Ahead(x)' <= 1
                   /\ \A x, y \in UploadEventsOf(b) : Ahead(x)' > 0 /\ Ahead(y)' > 0 => x = y
                   /\ \A v \in Worker : Attempts(v, b)' =>
                          /\ \A x \in UploadEventsOf(b) : Ahead(x)' = 0
                          /\ \A u \in Worker : Attempts(u, b)' => u = v
        <4>1. CASE b = a
          BY <4>1, <2>5, <2>6
        <4>2. CASE b # a
          BY <4>2, <1>4, <2>7 DEF OneAttempt
        <4> QED
          BY <4>1, <4>2
      <3> QED
        BY <3>1 DEF OneAttempt, UploadEventsOf
    <2>9. QuietBeforeAck'
      <3>1. Acked(a)
        BY <1>2, <1>t, <2>3 DEF QuietBeforeAck
      <3> QED
        BY <3>1, <1>4, <1>x, <2>7 DEF QuietBeforeAck, UploadEventsOf
    <2> QED
      BY <2>8, <2>9
  <1> QED
    BY <1>5, <1>6

LEMMA ConsumerPlaces ==
    ASSUME TypeOK, TypeOK', IInv, OneAttempt, QuietBeforeAck, NEW c \in Consumer,
           ConsumerStep(c) \/ ContextEnds(c)
    PROVE  OneAttempt' /\ QuietBeforeAck'
  <1>t. /\ task \in [Consumer -> Task]
        /\ \A w \in Worker : <<"upload", w>> \in Consumer /\ <<"upload", w>>[1] = "upload"
    BY DEF TypeOK, Consumer, Op
  <1>o. UNCHANGED upload /\ \A x \in Consumer : x # c => task'[x] = task[x]
    BY OwnTask, ConsumerFrame
  <1>1. CASE Receive(c) \/ Republish(c)
    BY <1>1, ReceivePlaces, RepublishPlaces
  <1>2. ASSUME UNCHANGED queueVars,
               c[1] = "upload" => \/ task'[c].pc \in {"idle", "ack", "nack"}
                                  \/ /\ task[c].pc \notin {"idle", "ack", "nack"}
                                     /\ task'[c].ev = task[c].ev
        PROVE  OneAttempt' /\ QuietBeforeAck'
    <2>1. \A x \in Event : Ahead(x)' <= Ahead(x)
      BY <1>2, AheadType DEF Ahead, queueVars
    <2>2. ASSUME NEW w \in Worker, NEW a \in Avatar, Attempts(w, a)'
          PROVE  Attempts(w, a)
      <3>1. CASE <<"upload", w>> = c
        BY <3>1, <2>2, <1>2, <1>t DEF Attempts
      <3>2. CASE <<"upload", w>> # c
        BY <3>2, <2>2, <1>o, <1>t DEF Attempts
      <3> QED
        BY <3>1, <3>2
    <2> QED
      BY <1>o, <2>1, <2>2, NoGain, NoGainQuiet DEF Acked
  <1>3. CASE JobStep(c)
    BY <1>2, <1>3, JobMoves
  <1>4. CASE SweepStep(c)
    <2>1. c[1] = "delete" /\ UNCHANGED queueVars
      BY <1>4, SweepMoves DEF queueVars
    <2> QED
      BY <1>2, <2>1
  <1>5. CASE RepublishFails(c)
    BY <1>2, <1>5, <1>t DEF RepublishFails, Task
  <1>6. CASE Settle(c)
    BY <1>2, <1>6, <1>t DEF Settle, IdleTask
  <1>7. CASE ContextEnds(c)
    BY <1>2, <1>7, <1>t DEF ContextEnds, Task
  <1> QED
    BY <1>1, <1>3, <1>4, <1>5, <1>6, <1>7 DEF ConsumerStep

\* Without crashes and lost sessions no delivery is handed out twice.
LEMMA OtherPlaces ==
    ASSUME NoOverlap, TypeOK, TypeOK', OneAttempt, QuietBeforeAck,
           \/ \E e \in Event : RetryExpires(e)
           \/ \E w \in Worker : ReplicaStep(w)
    PROVE  OneAttempt' /\ QuietBeforeAck' /\ UNCHANGED <<row, s3, upload, deletion, task>>
  <1>1. UNCHANGED <<row, s3, upload, deletion, task>>
    BY DEF NoOverlap, Fault, serverVars, workerVars, RetryExpires, ReplicaStep, Disconnect,
           Restart, Crash
  <1>2. ASSUME NEW x \in Event
        PROVE  Ahead(x)' <= Ahead(x)
    <2>1. CASE \E e \in Event : RetryExpires(e)
      BY <2>1 DEF RetryExpires, TypeOK, Ahead, Put, Take
    <2>2. CASE UNCHANGED <<mainQ, retryQ>>
      BY <2>2, AheadType DEF Ahead
    <2> QED
      BY <2>1, <2>2 DEF NoOverlap, Fault, queueVars, ReplicaStep, Disconnect, Restart, Crash
  <1>3. \A w \in Worker, a \in Avatar : Attempts(w, a)' => Attempts(w, a)
    BY <1>1 DEF Attempts
  <1> QED
    BY <1>1, <1>2, <1>3, NoGain, NoGainQuiet DEF Acked

LEMMA BeforeAckParts ==
    NothingBeforeAck <=> /\ QuietBeforeAck
                         /\ \A a \in Avatar : row[a].status = "completed" => Acked(a)
  BY DEF NothingBeforeAck, QuietBeforeAck

\* A task of an upload that handles an event is an attempt at it.
LEMMA AttemptOf ==
    ASSUME TypeOK, NEW w \in Worker, task[<<"upload", w>>].pc \notin {"idle", "ack", "nack"}
    PROVE  /\ task[<<"upload", w>>].ev.av \in Avatar
           /\ Attempts(w, task[<<"upload", w>>].ev.av)
  BY TaskFields DEF Attempts, Consumer, Op

\* A request touches no avatar at which a worker is.
LEMMA UploadJobInv ==
    ASSUME TypeOK, TypeOK', JobInv, NEW b \in Avatar, UploadStep(b)
    PROVE  JobInv'
  <1>i. OneAttempt /\ QuietBeforeAck /\ AttemptUnfinished /\ UploadedStay /\ CompletedKeepsThumbs
    BY BeforeAckParts DEF JobInv
  <1>c. \A a \in Avatar : row[a].status = "completed" => Acked(a)
    BY BeforeAckParts DEF JobInv
  <1>t. row \in [Avatar -> Row] /\ s3 \in [Avatar -> SUBSET Key] /\ upload \in [Avatar -> UploadPc]
    BY DEF TypeOK
  <1>1. UNCHANGED <<deletion, task>> /\ ~Acked(b)
    BY DEF workerVars, UploadStep, UploadPut, UploadInsert, UploadPublish,
           UploadUndoRow, UploadUndoObject, UploadAbort, Acked
  <1>2. \A x \in Avatar : x # b =>
            upload'[x] = upload[x] /\ row'[x] = row[x] /\ s3'[x] = s3[x]
    BY <1>t
       DEF UploadStep, UploadPut, UploadInsert, UploadPublish, UploadUndoRow,
           UploadUndoObject, UploadAbort
  <1>3. row'[b].status # "completed"
    BY <1>1, <1>c, <1>t
       DEF UploadStep, UploadPut, UploadInsert, UploadPublish, UploadUndoRow,
           UploadUndoObject, UploadAbort, Insert, DeleteHard, NoRow
  <1>4. OneAttempt' /\ QuietBeforeAck'
    BY <1>i, UploadPlaces
  <1>5. \A x \in Avatar : row'[x].status = "completed" => Acked(x)'
    BY <1>2, <1>3, <1>c DEF Acked
  <1>6. NothingBeforeAck'
    BY <1>4, <1>5 DEF NothingBeforeAck, QuietBeforeAck
  <1>7. \A w \in Worker : task[<<"upload", w>>].pc \in {"load", "fetch", "thumbs", "undo"} =>
            task[<<"upload", w>>].ev.av \in Avatar \ {b}
    BY <1>1, <1>i, AttemptOf DEF QuietBeforeAck
  <1>8. AttemptUnfinished'
    BY <1>1, <1>2, <1>7, <1>i DEF AttemptUnfinished
  <1>9. \A a : DeleteAcked(a)' <=> DeleteAcked(a)
    BY <1>1, AckedFrame
  <1>10. UploadedStay'
    BY <1>1, <1>2, <1>7, <1>9, <1>i DEF UploadedStay
  <1>11. CompletedKeepsThumbs'
    BY <1>2, <1>3, <1>9, <1>i DEF CompletedKeepsThumbs
  <1> QED
    BY <1>4, <1>6, <1>8, <1>10, <1>11 DEF JobInv

\* A delete request changes no status and no object.
LEMMA DeleteJobInv ==
    ASSUME TypeOK, TypeOK', JobInv, NEW d \in Deleter, DeleteStep(d)
    PROVE  JobInv'
  <1>i. OneAttempt /\ QuietBeforeAck /\ AttemptUnfinished /\ UploadedStay /\ CompletedKeepsThumbs
    BY BeforeAckParts DEF JobInv
  <1>c. \A a \in Avatar : row[a].status = "completed" => Acked(a)
    BY BeforeAckParts DEF JobInv
  <1>t. row \in [Avatar -> Row] /\ deletion \in [Deleter -> Deletion]
    BY DEF TypeOK
  <1>1. UNCHANGED <<upload, s3, task>>
    BY DEF workerVars, DeleteStep, DeleteRead, DeleteSoft, DeletePublish, DeleteRestore,
           DeleteAbort
  <1>2. \A x \in Avatar : row'[x].status = row[x].status
    BY DeleteKeepsStatus
  <1>3. \A a : DeleteAcked(a) => DeleteAcked(a)'
    <2>1. deletion[d].pc # "acked" /\ \A x \in Deleter : x # d => deletion'[x] = deletion[x]
      BY <1>t
         DEF DeleteStep, DeleteRead, DeleteSoft, DeletePublish, DeleteRestore, DeleteAbort
    <2> QED
      BY <2>1 DEF DeleteAcked
  <1>4. OneAttempt' /\ QuietBeforeAck'
    BY <1>i, DeletePlaces
  <1>5. NothingBeforeAck'
    BY <1>1, <1>2, <1>4, <1>c DEF NothingBeforeAck, QuietBeforeAck, Acked
  <1>6. AttemptUnfinished'
    <2>1. \A w \in Worker : task[<<"upload", w>>].pc \in {"fetch", "thumbs", "undo"} =>
              task[<<"upload", w>>].ev.av \in Avatar
      BY AttemptOf
    <2> QED
      BY <1>1, <1>2, <1>i, <2>1 DEF AttemptUnfinished
  <1>7. UploadedStay'
    BY <1>1, <1>3, <1>i DEF UploadedStay
  <1>8. CompletedKeepsThumbs'
    BY <1>1, <1>2, <1>3, <1>i DEF CompletedKeepsThumbs
  <1> QED
    BY <1>4, <1>5, <1>6, <1>7, <1>8 DEF JobInv

\* Where no answer is lost, a call takes effect or returns an error.
LEMMA NoUnsureCall ==
    ASSUME NoOverlap, NEW c, NEW kind, NEW r, Call(kind, r) \/ TaskCall(c, kind, r)
    PROVE  r \in {"ok", "error"}
  BY DEF NoOverlap, Call, TaskCall, Fault

\* What an upload attempt does to the row and the objects of its avatar.
LEMMA AttemptMoves ==
    ASSUME NoOverlap, TypeOK, IInv, JobInv, NEW w \in Worker, NEW c \in Consumer,
           c = <<"upload", w>>, JobStep(c)
    PROVE  LET a == task[c].ev.av IN
           /\ \A x \in Avatar : x # a => row'[x] = row[x] /\ s3'[x] = s3[x]
           /\ task'[c].pc \in {"fetch", "thumbs", "undo"} => row'[a].status # "completed"
           /\ task'[c].pc \in {"load", "fetch", "thumbs"} =>
                 DeleteAcked(a) \/ task'[c].keys \subseteq s3'[a]
           /\ row'[a].status = "completed" => DeleteAcked(a) \/ Thumb \subseteq s3'[a]
  <1> DEFINE a == task[c].ev.av
             Moves ==
               /\ \A x \in Avatar : x # a => row'[x] = row[x] /\ s3'[x] = s3[x]
               /\ task'[c].pc \in {"fetch", "thumbs", "undo"} => row'[a].status # "completed"
               /\ task'[c].pc \in {"load", "fetch", "thumbs"} =>
                     DeleteAcked(a) \/ task'[c].keys \subseteq s3'[a]
               /\ row'[a].status = "completed" => DeleteAcked(a) \/ Thumb \subseteq s3'[a]
  <1>t. /\ task \in [Consumer -> Task] /\ row \in [Avatar -> Row] /\ s3 \in [Avatar -> SUBSET Key]
        /\ a \in Avatar
    BY JobMoves, TaskFields DEF TypeOK
  <1>i. /\ task[c].pc \in {"fetch", "thumbs", "undo"} => row[a].status # "completed"
        /\ task[c].pc \in {"load", "fetch", "thumbs"} => DeleteAcked(a) \/ task[c].keys \subseteq s3[a]
        /\ row[a].status = "completed" => DeleteAcked(a) \/ Thumb \subseteq s3[a]
    BY <1>t DEF JobInv, AttemptUnfinished, UploadedStay, CompletedKeepsThumbs
  <1>1. CASE JobLoad(c)
    <2>1. /\ UNCHANGED <<row, s3>> /\ task[c].pc = "load"
          /\ task'[c].keys = task[c].keys
          /\ task'[c].pc \in {"fetch", "report", "ack"}
          /\ task'[c].pc = "fetch" => NeedsProcessing(row[a])
      <3>1. PICK r \in ReadResult :
              task' = [task EXCEPT ![c].pc =
                  CASE r = "error" -> "report"
                    [] r = "ok" /\ NeedsProcessing(row[task[c].ev.av]) -> "fetch"
                    [] OTHER -> "ack"]
        BY <1>1 DEF JobLoad
      <3>2. CASE r = "error"
        BY <1>1, <1>t, <3>1, <3>2 DEF JobLoad, Task
      <3>3. CASE r = "ok" /\ NeedsProcessing(row[task[c].ev.av])
        BY <1>1, <1>t, <3>1, <3>3 DEF JobLoad, Task
      <3>4. CASE r = "ok" /\ ~NeedsProcessing(row[task[c].ev.av])
        BY <1>1, <1>t, <3>1, <3>4 DEF JobLoad, Task
      <3> QED
        BY <3>2, <3>3, <3>4 DEF ReadResult
    <2> QED
      BY <1>i, <2>1 DEF NeedsProcessing
  <1>2. CASE JobFetch(c)
    <2>1. /\ UNCHANGED <<row, s3>> /\ task[c].pc = "fetch"
          /\ task'[c].keys = task[c].keys
          /\ task'[c].pc \in {"thumbs", "undo"}
      BY <1>2, <1>t DEF JobFetch, Task
    <2> QED
      BY <1>i, <2>1
  <1>3. CASE JobPutThumb(c)
    <2>1. PICK k \in Thumb \ task[c].keys, r \in WriteResult :
            /\ TaskCall(c, "s3", r)
            /\ s3' = IF r = "error" THEN s3 ELSE [s3 EXCEPT ![a] = @ \cup {k}]
            /\ task' = IF r = "ok" THEN [task EXCEPT ![c].keys = @ \cup {k}]
                                   ELSE [task EXCEPT ![c].pc = "undo"]
      BY <1>3 DEF JobPutThumb
    <2>2. task[c].pc = "thumbs" /\ UNCHANGED row
      BY <1>3 DEF JobPutThumb
    <2>3. CASE r = "error"
      BY <1>t, <1>i, <2>1, <2>2, <2>3 DEF Task
    <2>4. CASE r = "ok"
      <3>1. /\ s3'[a] = s3[a] \cup {k} /\ \A x \in Avatar : x # a => s3'[x] = s3[x]
            /\ task'[c].keys = task[c].keys \cup {k} /\ task'[c].pc = "thumbs"
        BY <1>t, <2>1, <2>2, <2>4 DEF Task
      <3> QED
        BY <1>i, <2>2, <3>1
    <2> QED
      BY <2>1, <2>3, <2>4, NoUnsureCall
  <1>4. CASE JobSave(c)
    <2>1. PICK r \in WriteResult :
            /\ TaskCall(c, "db", r)
            /\ row' = IF r = "error" THEN row
                      ELSE [row EXCEPT ![a] = UpdateProcessingResult(@)]
            /\ task' = [task EXCEPT ![c].pc =
                   IF r = "ok" /\ Live(row[a]) THEN "ack" ELSE "undo"]
      BY <1>4 DEF JobSave
    <2>2. task[c].pc = "thumbs" /\ task[c].keys = Thumb /\ UNCHANGED s3
      BY <1>4 DEF JobSave, AllUploaded
    <2>3. r \in {"ok", "error"}
      BY <2>1, NoUnsureCall
    <2>4. /\ \A x \in Avatar : x # a => row'[x] = row[x]
          /\ task'[c].pc = IF r = "ok" /\ Live(row[a]) THEN "ack" ELSE "undo"
          /\ task'[c].pc = "undo" => row'[a] = row[a]
      BY <1>t, <2>1, <2>3 DEF Task, UpdateProcessingResult
    <2> QED
      BY <1>i, <2>2, <2>4
  <1>5. CASE JobUndo(c)
    <2>1. /\ UNCHANGED row /\ task[c].pc = "undo" /\ task'[c].pc = "undo"
          /\ \A x \in Avatar : x # a => s3'[x] = s3[x]
      BY <1>5, <1>t DEF JobUndo, Task
    <2> QED
      BY <1>i, <2>1
  <1>6. CASE JobMarkFailed(c)
    <2>1. /\ UNCHANGED s3 /\ task[c].pc = "undo" /\ task'[c].pc = "report"
          /\ \A x \in Avatar : x # a => row'[x] = row[x]
          /\ row'[a].status \in {row[a].status, "failed"}
      BY <1>6, <1>t DEF JobMarkFailed, Task, SetProcessingStatus, Row
    <2> QED
      BY <1>i, <2>1
  <1>7. Moves
    BY <1>1, <1>2, <1>3, <1>4, <1>5, <1>6 DEF JobStep
  <1> QED
    BY <1>7

\* The other steps of a consumer: they change no row, and objects only of an
\* avatar that is deleted for good.
LEMMA OtherMoves ==
    ASSUME TypeOK, IInv, NEW c \in Consumer, ConsumerStep(c) \/ ContextEnds(c), ~JobStep(c)
    PROVE  /\ UNCHANGED row
           /\ \A a \in Avatar : ~DeleteAcked(a) => s3'[a] = s3[a]
           /\ \A v \in Worker : LET t == task[<<"upload", v>>]
                                    n == task'[<<"upload", v>>] IN
                 n.pc \in {"load", "fetch", "thumbs", "undo"} =>
                     \/ n.pc = t.pc /\ n.ev = t.ev /\ n.keys = t.keys
                     \/ n.pc = "load" /\ n.keys = {}
  <1> DEFINE Tasks ==
        \A v \in Worker :
            task'[<<"upload", v>>].pc \in {"load", "fetch", "thumbs", "undo"} =>
                \/ /\ task'[<<"upload", v>>].pc = task[<<"upload", v>>].pc
                   /\ task'[<<"upload", v>>].ev = task[<<"upload", v>>].ev
                   /\ task'[<<"upload", v>>].keys = task[<<"upload", v>>].keys
                \/ /\ task'[<<"upload", v>>].pc = "load"
                   /\ task'[<<"upload", v>>].keys = {}
  <1>t. /\ task \in [Consumer -> Task] /\ s3 \in [Avatar -> SUBSET Key]
        /\ \A w \in Worker : <<"upload", w>> \in Consumer /\ <<"upload", w>>[1] = "upload"
    BY DEF TypeOK, Consumer, Op
  <1>o. \A x \in Consumer : x # c => task'[x] = task[x]
    BY OwnTask
  <1>w. ASSUME \/ c[1] # "upload"
               \/ task'[c].pc \notin {"load", "fetch", "thumbs", "undo"}
               \/ /\ task'[c].pc = task[c].pc /\ task'[c].ev = task[c].ev
                  /\ task'[c].keys = task[c].keys
               \/ task'[c].pc = "load" /\ task'[c].keys = {}
        PROVE  Tasks
    <2>1. ASSUME NEW v \in Worker,
                 task'[<<"upload", v>>].pc \in {"load", "fetch", "thumbs", "undo"}
          PROVE  \/ /\ task'[<<"upload", v>>].pc = task[<<"upload", v>>].pc
                    /\ task'[<<"upload", v>>].ev = task[<<"upload", v>>].ev
                    /\ task'[<<"upload", v>>].keys = task[<<"upload", v>>].keys
                 \/ /\ task'[<<"upload", v>>].pc = "load"
                    /\ task'[<<"upload", v>>].keys = {}
      <3>1. CASE <<"upload", v>> = c
        BY <2>1, <3>1, <1>w, <1>t
      <3>2. CASE <<"upload", v>> # c
        BY <3>2, <1>o, <1>t
      <3> QED
        BY <3>1, <3>2
    <2> QED
      BY <2>1
  <1>1. CASE SweepRemove(c)
    <2>1. c[1] = "delete" /\ UNCHANGED row
      BY <1>1, SweepMoves DEF SweepStep
    <2>2. DeleteAcked(task[c].ev.av)
      BY <1>1, <2>1 DEF SweepRemove, IInv, DeleteEventsAcked
    <2>3. \A a \in Avatar : a # task[c].ev.av => s3'[a] = s3[a]
      BY <1>1, <1>t DEF SweepRemove
    <2>4. \A a \in Avatar : ~DeleteAcked(a) => s3'[a] = s3[a]
      BY <2>2, <2>3
    <2> QED
      BY <2>1, <2>4, <1>w
  <1>2. CASE SweepDone(c)
    <2>1. c[1] = "delete" /\ UNCHANGED row
      BY <1>2, SweepMoves DEF SweepStep
    <2> QED
      BY <1>2, <2>1, <1>w DEF SweepDone
  <1>3. CASE Receive(c)
    <2>1. c[1] = "upload" => task'[c].pc = "load" /\ task'[c].keys = {}
      <3>1. PICK e \in Event :
              /\ e.op = c[1]
              /\ task' = [task EXCEPT ![c] =
                     [pc |-> StartPc(e), ev |-> e, keys |-> StartKeys(e),
                      err |-> FALSE, dead |-> FALSE]]
        BY <1>3 DEF Receive
      <3>2. task'[c].pc = StartPc(e) /\ task'[c].keys = StartKeys(e)
        BY <3>1, <1>t
      <3>3. CASE c[1] = "upload"
        <4>1. e.op # "delete"
          BY <3>1, <3>3
        <4>2. StartPc(e) = "load" /\ StartKeys(e) = {}
          BY <4>1 DEF StartPc, StartKeys
        <4> QED
          BY <3>2, <4>2
      <3>4. CASE c[1] # "upload"
        BY <3>4
      <3> QED
        BY <3>3, <3>4
    <2> QED
      BY <1>3, <2>1, <1>w DEF Receive
  <1>4. CASE ContextEnds(c)
    <2>1. /\ task'[c].pc = task[c].pc /\ task'[c].ev = task[c].ev
          /\ task'[c].keys = task[c].keys
      BY <1>4, <1>t DEF ContextEnds, Task
    <2> QED
      BY <1>4, <2>1, <1>w DEF ContextEnds
  <1>5. CASE Republish(c) \/ RepublishFails(c) \/ Settle(c)
    <2>1. task'[c].pc \notin {"load", "fetch", "thumbs", "undo"}
      BY <1>5, <1>t DEF Republish, RepublishFails, Settle, IdleTask, Task
    <2> QED
      BY <1>5, <2>1, <1>w DEF Republish, RepublishFails, Settle
  <1> QED
    BY <1>1, <1>2, <1>3, <1>4, <1>5 DEF ConsumerStep, SweepStep

LEMMA ConsumerJobInv ==
    ASSUME NoOverlap, TypeOK, TypeOK', IInv, JobInv, NEW c \in Consumer,
           ConsumerStep(c) \/ ContextEnds(c)
    PROVE  JobInv'
  <1>i. OneAttempt /\ QuietBeforeAck /\ AttemptUnfinished /\ UploadedStay /\ CompletedKeepsThumbs
    BY BeforeAckParts DEF JobInv
  <1>c. \A a \in Avatar : row[a].status = "completed" => Acked(a)
    BY BeforeAckParts DEF JobInv
  <1>f. UNCHANGED <<upload, deletion>> /\ \A x \in Consumer : x # c => task'[x] = task[x]
    BY ConsumerFrame, OwnTask
  <1>d. \A a : DeleteAcked(a)' <=> DeleteAcked(a)
    BY <1>f, AckedFrame
  <1>p. OneAttempt' /\ QuietBeforeAck'
    BY <1>i, ConsumerPlaces
  <1>w. \A v \in Worker : <<"upload", v>> \in Consumer
    BY DEF Consumer, Op
  <1>1. CASE JobStep(c)
    <2> DEFINE a == task[c].ev.av
    <2>1. PICK w \in Worker : c = <<"upload", w>>
      BY <1>1, JobMoves DEF Consumer
    <2>a. PICK b \in Avatar : b = a
      BY <1>1, JobMoves, TaskFields
    <2>2. Attempts(w, b)
      BY <1>1, <2>1, <2>a, JobMoves DEF Attempts
    <2>3. Acked(b) /\ \A v \in Worker : Attempts(v, b) => v = w
      BY <2>2, <1>i DEF QuietBeforeAck, OneAttempt
    <2>4. /\ \A x \in Avatar : x # b => row'[x] = row[x] /\ s3'[x] = s3[x]
          /\ task'[c].pc \in {"fetch", "thumbs", "undo"} => row'[b].status # "completed"
          /\ task'[c].pc \in {"load", "fetch", "thumbs"} =>
                DeleteAcked(b) \/ task'[c].keys \subseteq s3'[b]
          /\ row'[b].status = "completed" => DeleteAcked(b) \/ Thumb \subseteq s3'[b]
      BY <1>1, <2>1, <2>a, AttemptMoves
    <2>5. task'[c].ev.av = b
      BY <1>1, <2>a, JobMoves
    \* The other attempts are at other avatars.
    <2>6. ASSUME NEW v \in Worker, v # w, task'[<<"upload", v>>].pc \in {"load", "fetch", "thumbs", "undo"}
          PROVE  /\ task'[<<"upload", v>>] = task[<<"upload", v>>]
                 /\ task[<<"upload", v>>].ev.av \in Avatar \ {b}
      <3>1. task'[<<"upload", v>>] = task[<<"upload", v>>]
        BY <2>1, <2>6, <1>f, <1>w
      <3>2. task[<<"upload", v>>].ev.av \in Avatar /\ Attempts(v, task[<<"upload", v>>].ev.av)
        BY <2>6, <3>1, AttemptOf
      <3> QED
        BY <2>3, <2>6, <3>1, <3>2
    <2> HIDE DEF a
    <2>7. AttemptUnfinished'
      <3>1. ASSUME NEW v \in Worker, task'[<<"upload", v>>].pc \in {"fetch", "thumbs", "undo"}
            PROVE  row'[task'[<<"upload", v>>].ev.av].status # "completed"
        <4>1. CASE v = w
          BY <2>1, <2>4, <2>5, <3>1, <4>1
        <4>2. CASE v # w
          BY <2>4, <2>6, <3>1, <4>2, <1>i DEF AttemptUnfinished
        <4> QED
          BY <4>1, <4>2
      <3> QED
        BY <3>1 DEF AttemptUnfinished
    <2>8. UploadedStay'
      <3>1. ASSUME NEW v \in Worker, task'[<<"upload", v>>].pc \in {"load", "fetch", "thumbs"}
            PROVE  \/ DeleteAcked(task'[<<"upload", v>>].ev.av)
                   \/ task'[<<"upload", v>>].keys \subseteq s3'[task'[<<"upload", v>>].ev.av]
        <4>1. CASE v = w
          BY <2>1, <2>4, <2>5, <3>1, <4>1
        <4>2. CASE v # w
          BY <2>4, <2>6, <3>1, <4>2, <1>i DEF UploadedStay
        <4> QED
          BY <4>1, <4>2
      <3> QED
        BY <3>1, <1>f DEF UploadedStay, DeleteAcked
    <2>9. CompletedKeepsThumbs'
      BY <1>d, <1>i, <2>4 DEF CompletedKeepsThumbs
    <2>10. NothingBeforeAck'
      BY <1>p, <1>f, <1>c, <2>3, <2>4 DEF NothingBeforeAck, QuietBeforeAck, Acked
    <2> QED
      BY <1>p, <2>7, <2>8, <2>9, <2>10 DEF JobInv
  <1>2. CASE ~JobStep(c)
    <2>1. /\ UNCHANGED row
          /\ \A a \in Avatar : ~DeleteAcked(a) => s3'[a] = s3[a]
          /\ \A v \in Worker :
                task'[<<"upload", v>>].pc \in {"load", "fetch", "thumbs", "undo"} =>
                    \/ /\ task'[<<"upload", v>>].pc = task[<<"upload", v>>].pc
                       /\ task'[<<"upload", v>>].ev = task[<<"upload", v>>].ev
                       /\ task'[<<"upload", v>>].keys = task[<<"upload", v>>].keys
                    \/ /\ task'[<<"upload", v>>].pc = "load"
                       /\ task'[<<"upload", v>>].keys = {}
      BY <1>2, OtherMoves
    <2>2. NothingBeforeAck'
      BY <1>p, <1>f, <1>c, <2>1 DEF NothingBeforeAck, QuietBeforeAck, Acked
    <2>3. AttemptUnfinished'
      BY <2>1, <1>i DEF AttemptUnfinished
    <2>4. UploadedStay'
      <3>1. ASSUME NEW v \in Worker, task'[<<"upload", v>>].pc \in {"load", "fetch", "thumbs"}
            PROVE  \/ DeleteAcked(task'[<<"upload", v>>].ev.av)
                   \/ task'[<<"upload", v>>].keys \subseteq s3'[task'[<<"upload", v>>].ev.av]
        <4>1. CASE task'[<<"upload", v>>].keys = {}
          BY <4>1
        <4>2. CASE /\ task'[<<"upload", v>>].pc = task[<<"upload", v>>].pc
                   /\ task'[<<"upload", v>>].ev = task[<<"upload", v>>].ev
                   /\ task'[<<"upload", v>>].keys = task[<<"upload", v>>].keys
          <5>1. task[<<"upload", v>>].ev.av \in Avatar
            BY <3>1, <4>2, AttemptOf
          <5> QED
            BY <2>1, <3>1, <4>2, <5>1, <1>i DEF UploadedStay
        <4> QED
          BY <2>1, <3>1, <4>1, <4>2
      <3> QED
        BY <3>1, <1>f DEF UploadedStay, DeleteAcked
    <2>5. CompletedKeepsThumbs'
      BY <1>d, <1>i, <2>1 DEF CompletedKeepsThumbs
    <2> QED
      BY <1>p, <2>2, <2>3, <2>4, <2>5 DEF JobInv
  <1> QED
    BY <1>1, <1>2

LEMMA NextJobInv ==
    NoOverlap /\ TypeOK /\ TypeOK' /\ IInv /\ JobInv /\ [Next]_vars => JobInv'
  <1> SUFFICES ASSUME NoOverlap, TypeOK, TypeOK', IInv, JobInv, [Next]_vars
               PROVE  JobInv'
    OBVIOUS
  <1>1. CASE UNCHANGED vars
    BY <1>1 DEF vars, JobInv, OneAttempt, NothingBeforeAck, AttemptUnfinished, UploadedStay,
                CompletedKeepsThumbs, UploadEventsOf, Ahead, Attempts, Acked, DeleteAcked
  <1>2. CASE \/ \E e \in Event : RetryExpires(e)
             \/ \E w \in Worker : ReplicaStep(w)
    <2>1. OneAttempt /\ QuietBeforeAck
      BY BeforeAckParts DEF JobInv
    <2>2. OneAttempt' /\ QuietBeforeAck' /\ UNCHANGED <<row, s3, upload, deletion, task>>
      BY <1>2, <2>1, OtherPlaces
    <2> QED
      BY <2>2
         DEF JobInv, NothingBeforeAck, QuietBeforeAck, AttemptUnfinished, UploadedStay,
             CompletedKeepsThumbs, Acked, DeleteAcked
  <1>3. CASE Next
    BY <1>2, <1>3, UploadJobInv, DeleteJobInv, ConsumerJobInv DEF Next
  <1> QED
    BY <1>1, <1>3

LEMMA InitJobInv == Init => JobInv
  <1> SUFFICES ASSUME Init PROVE JobInv
    OBVIOUS
  <1>1. \A e \in Event : Ahead(e) = 0
    BY DEF Init, Ahead, EmptyQueue
  <1>2. \A w \in Worker : task[<<"upload", w>>].pc = "idle"
    BY DEF Init, IdleTask, Consumer, Op
  <1>3. \A a \in Avatar : row[a].status = "pending"
    BY DEF Init, NoRow
  <1>4. OneAttempt
    <2>1. \A a \in Avatar : \A e \in UploadEventsOf(a) : Ahead(e) = 0
      BY <1>1 DEF UploadEventsOf
    <2>2. ASSUME NEW a \in Avatar, NEW e \in UploadEventsOf(a)
          PROVE  Ahead(e) <= 1 /\ ~(Ahead(e) > 0)
      BY <2>1, <2>2
    <2>3. \A w \in Worker, a \in Avatar : ~Attempts(w, a)
      BY <1>2 DEF Attempts
    <2> QED
      BY <2>2, <2>3 DEF OneAttempt
  <1>5. NothingBeforeAck
    BY <1>1, <1>2, <1>3 DEF NothingBeforeAck, UploadEventsOf, Attempts
  <1>6. AttemptUnfinished /\ UploadedStay
    BY <1>2 DEF AttemptUnfinished, UploadedStay
  <1>7. CompletedKeepsThumbs
    BY <1>3 DEF CompletedKeepsThumbs
  <1> QED
    BY <1>4, <1>5, <1>6, <1>7 DEF JobInv

\* Where no crash, lost session or lost answer makes two attempts overlap, the
\* upload event of an avatar is in one place, the attempt that holds it works on
\* a row that is not completed, and what it has uploaded stays (consumeLoop,
\* republishOrDLQ, ProcessAvatarUpload).
THEOREM OneAttemptAtATime == ASSUME NoOverlap PROVE Spec => []JobInv
  <1>1. TypeOK /\ TypeOK' /\ IInv /\ JobInv /\ [Next]_vars => JobInv'
    BY NextJobInv
  <1> QED
    BY <1>1, InitJobInv, TypeCorrect, Invariant, PTL DEF Spec

\* What a row lists is there, unless the avatar is deleted for good.
LEMMA CompletedThumbs == IInv /\ JobInv => CompletedHasThumbs
  BY DEF IInv, JobInv, CompletedKeepsThumbs, OneDeleteAtATime, DeleteAcked, CompletedHasThumbs

\* Where no crash, lost session or lost answer makes two attempts overlap, a row
\* shown as completed lists thumbnails that are in the bucket: retries, rollbacks
\* (ProcessAvatarUpload), cancelled handlers and deletes that are taken back
\* never come between the two.
THEOREM CompletedIsStored == ASSUME NoOverlap PROVE Spec => []CompletedHasThumbs
  BY OneAttemptAtATime, CompletedThumbs, Invariant, PTL

-----------------------------------------------------------------------------
(* What is listed stays (ThumbnailPromise).                                 *)

\* A step that changes nothing of any avatar's gallery.
LEMMA NoGalleryChange ==
    ASSUME \A x \in Avatar : Stage(x)' = Stage(x) /\ s3'[x] \cap Thumb = s3[x] \cap Thumb
    PROVE  UNCHANGED Gallery
  BY DEF Gallery

\* A step that changes one avatar's only.
LEMMA OneGalleryChange ==
    ASSUME NEW a \in Avatar,
           \A x \in Avatar : x # a =>
               Stage(x)' = Stage(x) /\ s3'[x] \cap Thumb = s3[x] \cap Thumb
    PROVE  Thumbnails!Becomes(a, Stage(a)', s3'[a] \cap Thumb)
  BY DEF Gallery, Thumbnails!Becomes

LEMMA GalleryOf ==
    ASSUME NEW a \in Avatar
    PROVE  Gallery[a].stage = Stage(a) /\ Gallery[a].stored = s3[a] \cap Thumb
  BY DEF Gallery

\* A stage changes only with the status or with an acknowledged delete.
LEMMA SameStage ==
    ASSUME NEW a, DeleteAcked(a)' <=> DeleteAcked(a),
           row'[a].status = "completed" <=> row[a].status = "completed"
    PROVE  Stage(a)' = Stage(a)
  BY DEF Stage

\* A request moves nothing before its upload is acknowledged, and then rests.
LEMMA UploadGallery ==
    ASSUME TypeOK, JobInv, NEW b \in Avatar, UploadStep(b)
    PROVE  UNCHANGED Gallery
  <1>t. row \in [Avatar -> Row] /\ s3 \in [Avatar -> SUBSET Key] /\ upload \in [Avatar -> UploadPc]
    BY DEF TypeOK
  <1>1. UNCHANGED deletion /\ ~Acked(b)
    BY DEF UploadStep, UploadPut, UploadInsert, UploadPublish, UploadUndoRow,
           UploadUndoObject, UploadAbort, Acked
  <1>2. \A x \in Avatar : x # b => row'[x] = row[x] /\ s3'[x] = s3[x]
    BY <1>t
       DEF UploadStep, UploadPut, UploadInsert, UploadPublish, UploadUndoRow,
           UploadUndoObject, UploadAbort
  <1>3. row[b].status # "completed"
    BY <1>1, BeforeAckParts DEF JobInv
  <1>4. row'[b].status # "completed"
    BY <1>3, <1>t
       DEF UploadStep, UploadPut, UploadInsert, UploadPublish, UploadUndoRow,
           UploadUndoObject, UploadAbort, Insert, DeleteHard, NoRow
  <1>5. s3'[b] \in {s3[b], s3[b] \cup {Original}, s3[b] \ {Original}}
    BY <1>t
       DEF UploadStep, UploadPut, UploadInsert, UploadPublish, UploadUndoRow,
           UploadUndoObject, UploadAbort
  <1>6. s3'[b] \cap Thumb = s3[b] \cap Thumb
    BY <1>5, KeyAssumption
  <1>7. \A x \in Avatar : Stage(x)' = Stage(x)
    BY <1>1, <1>2, <1>3, <1>4, SameStage, AckedFrame
  <1>8. \A x \in Avatar : s3'[x] \cap Thumb = s3[x] \cap Thumb
    BY <1>2, <1>6
  <1> QED
    BY <1>7, <1>8, NoGalleryChange

\* A delete request takes an avatar off for good by its acknowledgement; a soft
\* delete that is taken back leaves the gallery as it is.
LEMMA DeleteGallery ==
    ASSUME TypeOK, NEW d \in Deleter, DeleteStep(d)
    PROVE  (\E a \in Avatar : Thumbnails!Step(a)) \/ UNCHANGED Gallery
  <1>t. row \in [Avatar -> Row] /\ deletion \in [Deleter -> Deletion]
    BY DEF TypeOK
  <1>1. UNCHANGED s3
    BY DEF DeleteStep, DeleteRead, DeleteSoft, DeletePublish, DeleteRestore, DeleteAbort
  <1>2. \A x \in Avatar : row'[x].status = row[x].status
    BY DeleteKeepsStatus
  <1>3. PICK a \in Avatar : a = deletion[d].av
    BY <1>t DEF Deletion
  <1>4. /\ deletion[d].pc # "acked" /\ deletion'[d].av = a
        /\ \A x \in Deleter : x # d => deletion'[x] = deletion[x]
    BY <1>t, <1>3
       DEF DeleteStep, DeleteRead, DeleteSoft, DeletePublish, DeleteRestore, DeleteAbort, Deletion
  <1>5. /\ \A x \in Avatar : x # a => (DeleteAcked(x)' <=> DeleteAcked(x))
        /\ DeleteAcked(a) => DeleteAcked(a)'
    BY <1>3, <1>4 DEF DeleteAcked
  <1>6. \A x \in Avatar : x # a => Stage(x)' = Stage(x)
    BY <1>2, <1>5, SameStage
  <1>7. CASE DeleteAcked(a)' <=> DeleteAcked(a)
    <2>1. Stage(a)' = Stage(a)
      BY <1>2, <1>7, SameStage
    <2> QED
      BY <1>1, <1>6, <2>1, NoGalleryChange
  <1>8. CASE ~DeleteAcked(a) /\ DeleteAcked(a)'
    <2>1. Stage(a)' = "deleted" /\ Stage(a) # "deleted"
      BY <1>8 DEF Stage
    <2>2. Thumbnails!Becomes(a, "deleted", s3[a] \cap Thumb)
      BY <1>1, <1>6, <2>1, OneGalleryChange
    <2> QED
      BY <2>1, <2>2, GalleryOf DEF Thumbnails!Step, Thumbnails!Delete
  <1> QED
    BY <1>5, <1>7, <1>8

\* An attempt lists what it has stored, and before that stores and removes only
\* what is not listed.
LEMMA JobGallery ==
    ASSUME NoOverlap, TypeOK, IInv, JobInv, NEW c \in Consumer, JobStep(c)
    PROVE  (\E a \in Avatar : Thumbnails!Step(a)) \/ UNCHANGED Gallery
  <1>t. /\ row \in [Avatar -> Row] /\ s3 \in [Avatar -> SUBSET Key]
        /\ task \in [Consumer -> Task]
    BY DEF TypeOK
  <1>w. PICK w \in Worker : c = <<"upload", w>>
    BY JobMoves DEF Consumer
  <1>a. PICK a \in Avatar : a = task[c].ev.av
    BY JobMoves, TaskFields
  <1>d. \A x : DeleteAcked(x)' <=> DeleteAcked(x)
    BY ConsumerFrame, AckedFrame DEF ConsumerStep
  <1>o. \A x \in Avatar : x # a => row'[x] = row[x] /\ s3'[x] = s3[x]
    BY <1>w, <1>a, AttemptMoves
  <1>s. \A x \in Avatar : x # a =>
            Stage(x)' = Stage(x) /\ s3'[x] \cap Thumb = s3[x] \cap Thumb
    BY <1>d, <1>o, SameStage
  <1>b. Thumbnails!Becomes(a, Stage(a)', s3'[a] \cap Thumb)
    BY <1>s, OneGalleryChange
  <1>n. Stage(a)' = Stage(a) /\ s3'[a] \cap Thumb = s3[a] \cap Thumb => UNCHANGED Gallery
    BY <1>s, NoGalleryChange
  <1>u. task[c].pc \in {"fetch", "thumbs", "undo"} =>
            row[a].status # "completed" /\ Stage(a) # "listed"
    BY <1>w, <1>a DEF JobInv, AttemptUnfinished, Stage
  <1>1. CASE JobLoad(c) \/ JobFetch(c)
    <2>1. UNCHANGED <<row, s3>>
      BY <1>1 DEF JobLoad, JobFetch
    <2> QED
      BY <1>d, <1>n, <2>1, SameStage
  <1>2. CASE JobPutThumb(c)
    <2>1. PICK k \in Thumb : s3'[a] \in {s3[a], s3[a] \cup {k}}
      BY <1>2, <1>t, <1>a DEF JobPutThumb
    <2>2. Stage(a)' = Stage(a) /\ Stage(a) # "listed"
      BY <1>2, <1>d, <1>u, SameStage DEF JobPutThumb
    <2>3. CASE s3'[a] = s3[a]
      BY <1>n, <2>2, <2>3
    <2>4. CASE s3'[a] = s3[a] \cup {k}
      <3>1. s3'[a] \cap Thumb = (s3[a] \cap Thumb) \cup {k}
        BY <2>4
      <3>2. Thumbnails!Store(a, k)
        BY <1>b, <2>2, <3>1, GalleryOf DEF Thumbnails!Store
      <3> QED
        BY <3>2 DEF Thumbnails!Step
    <2> QED
      BY <2>1, <2>3, <2>4
  <1>3. CASE JobSave(c)
    <2>1. /\ task[c].pc = "thumbs" /\ task[c].keys = Thumb /\ UNCHANGED s3
          /\ row'[a] \in {row[a], UpdateProcessingResult(row[a])}
      BY <1>3, <1>t, <1>a DEF JobSave, AllUploaded
    <2>2. CASE row'[a] = row[a]
      BY <1>d, <1>n, <2>1, <2>2, SameStage
    <2>3. CASE row'[a] # row[a]
      <3>1. Live(row[a]) /\ row'[a].status = "completed"
        BY <1>t, <2>1, <2>3 DEF UpdateProcessingResult, Row
      <3>2. ~DeleteAcked(a)
        BY <3>1 DEF IInv, OneDeleteAtATime, DeleteAcked
      <3>3. s3[a] \cap Thumb = Thumb
        BY <1>w, <1>a, <2>1, <3>2 DEF JobInv, UploadedStay
      <3>4. Stage(a) = "open" /\ Stage(a)' = "listed"
        BY <1>d, <1>u, <2>1, <3>1, <3>2 DEF Stage
      <3>5. Thumbnails!List(a)
        BY <1>b, <2>1, <3>3, <3>4, GalleryOf DEF Thumbnails!List
      <3> QED
        BY <3>5 DEF Thumbnails!Step
    <2> QED
      BY <2>2, <2>3
  <1>4. CASE JobUndo(c)
    <2>1. PICK k \in Thumb : s3'[a] \in {s3[a], s3[a] \ {k}}
      BY <1>4, <1>t, <1>a DEF JobUndo, IInv, TasksKeepToTheirKeys
    <2>2. Stage(a)' = Stage(a) /\ Stage(a) # "listed"
      BY <1>4, <1>d, <1>u, SameStage DEF JobUndo
    <2>3. CASE s3'[a] = s3[a]
      BY <1>n, <2>2, <2>3
    <2>4. CASE s3'[a] = s3[a] \ {k}
      <3>1. s3'[a] \cap Thumb = (s3[a] \cap Thumb) \ {k}
        BY <2>4
      <3>2. Thumbnails!Remove(a, k)
        BY <1>b, <2>2, <3>1, GalleryOf DEF Thumbnails!Remove
      <3> QED
        BY <3>2 DEF Thumbnails!Step
    <2> QED
      BY <2>1, <2>3, <2>4
  <1>5. CASE JobMarkFailed(c)
    <2>1. /\ task[c].pc = "undo" /\ UNCHANGED s3
          /\ row'[a].status \in {row[a].status, "failed"}
      BY <1>5, <1>t, <1>a DEF JobMarkFailed, SetProcessingStatus, Row
    <2> QED
      BY <1>d, <1>n, <1>u, <2>1, SameStage
  <1> QED
    BY <1>1, <1>2, <1>3, <1>4, <1>5 DEF JobStep

\* A cleanup removes only what is deleted for good.
LEMMA SweepGallery ==
    ASSUME TypeOK, IInv, NEW c \in Consumer, SweepRemove(c)
    PROVE  (\E a \in Avatar : Thumbnails!Step(a)) \/ UNCHANGED Gallery
  <1>t. s3 \in [Avatar -> SUBSET Key]
    BY DEF TypeOK
  <1>a. PICK a \in Avatar : a = task[c].ev.av
    BY TaskFields DEF SweepRemove
  <1>d. UNCHANGED <<row, deletion>>
    BY DEF SweepRemove, serverVars
  <1>s. \A x \in Avatar : Stage(x)' = Stage(x)
    BY <1>d, SameStage, AckedFrame
  <1>o. \A x \in Avatar : x # a => s3'[x] = s3[x]
    BY <1>t, <1>a DEF SweepRemove
  <1>b. Thumbnails!Becomes(a, Stage(a), s3'[a] \cap Thumb)
    BY <1>s, <1>o, OneGalleryChange
  <1>1. Stage(a) = "deleted"
    BY <1>a DEF SweepRemove, IInv, TasksKeepToTheirKeys, DeleteEventsAcked, Stage
  <1>2. PICK k : s3'[a] \in {s3[a], s3[a] \ {k}}
    BY <1>t, <1>a DEF SweepRemove
  <1>3. CASE s3'[a] \cap Thumb = s3[a] \cap Thumb
    BY <1>s, <1>o, <1>3, NoGalleryChange
  <1>4. CASE s3'[a] \cap Thumb # s3[a] \cap Thumb
    <2>1. k \in Thumb /\ s3'[a] \cap Thumb = (s3[a] \cap Thumb) \ {k}
      BY <1>2, <1>4
    <2>2. Thumbnails!Remove(a, k)
      BY <1>b, <1>1, <2>1, GalleryOf DEF Thumbnails!Remove
    <2> QED
      BY <2>1, <2>2 DEF Thumbnails!Step
  <1> QED
    BY <1>3, <1>4

\* Every step keeps the promise or goes unseen.
LEMMA NextGallery ==
    NoOverlap /\ TypeOK /\ IInv /\ JobInv /\ [Next]_vars => [Thumbnails!Next]_Gallery
  <1> SUFFICES ASSUME NoOverlap, TypeOK, IInv, JobInv, [Next]_vars
               PROVE  (\E a \in Avatar : Thumbnails!Step(a)) \/ UNCHANGED Gallery
    BY DEF Thumbnails!Next
  <1>1. CASE UNCHANGED <<row, s3, deletion>>
    BY <1>1, SameStage, AckedFrame, NoGalleryChange
  <1>2. ASSUME NEW c \in Consumer, ConsumerStep(c) \/ ContextEnds(c), ~JobStep(c), ~SweepRemove(c)
        PROVE  UNCHANGED <<row, s3, deletion>>
    BY <1>2
       DEF ConsumerStep, SweepStep, Receive, ContextEnds, SweepDone, Republish,
           RepublishFails, Settle, serverVars
  <1> QED
    BY <1>1, <1>2, UploadGallery, DeleteGallery, JobGallery, SweepGallery
       DEF Next, vars, serverVars, RetryExpires, ReplicaStep, Disconnect, Restart, Crash

LEMMA InitGallery == Init => Thumbnails!Init
  <1> SUFFICES ASSUME Init PROVE Thumbnails!Init
    OBVIOUS
  <1>1. \A a \in Avatar : Stage(a) = "open" /\ s3[a] \cap Thumb = {}
    BY DEF Init, Stage, DeleteAcked, NoRow
  <1> QED
    BY <1>1 DEF Gallery, Thumbnails!Init

\* Where no crash, lost session or lost answer makes two attempts overlap, the
\* worker keeps ThumbnailPromise: it lists thumbnails when all are stored, and
\* from then on no retry, rollback or delete that is taken back touches them
\* until a delete is acknowledged (ProcessAvatarUpload, deleteAvatarWithPublish).
THEOREM ThumbnailsAreKept == ASSUME NoOverlap PROVE Spec => KeepsThumbnails
  <1>1. TypeOK /\ IInv /\ JobInv /\ [Next]_vars => [Thumbnails!Next]_Gallery
    BY NextGallery
  <1> QED
    BY <1>1, InitGallery, OneAttemptAtATime, TypeCorrect, Invariant, PTL
       DEF Spec, KeepsThumbnails, Thumbnails!Spec

-----------------------------------------------------------------------------
(* Reads.                                                                  *)

\* A read changes nothing but itself and the count of faults.
LEMMA ReadFrame ==
    ASSUME NEW r \in Reader, ReadStep(r)
    PROVE  UNCHANGED <<row, s3, upload, deletion, mainQ, retryQ, dlq, task, conn>>
  BY DEF ReadStep, GetImage, tryStoredThumbnail, streamImagePayload, buildFromOriginal,
         serverVars, queueVars, workerVars

LEMMA ReadKeepsType ==
    ASSUME TypeOK, NEW r \in Reader, ReadStep(r)
    PROVE  TypeOK'
  <1>1. faults' \in 0 .. MaxFaults
    BY CallFaults, FaultsBounded
       DEF ReadStep, GetImage, tryStoredThumbnail, streamImagePayload, buildFromOriginal
  <1> QED
    BY <1>1, ReadFrame DEF TypeOK

\* A request moves only itself, and stays the request it is.
LEMMA ReadMoves ==
    ASSUME ReadTypeOK, NEW r \in Reader, ReadStep(r)
    PROVE  /\ \E pc \in ReadPc : read' = [read EXCEPT ![r].pc = pc]
           /\ read'[r].pc \in {"stat", "stream", "truncated"} =>
                 read[r].wanted \in Thumb \/ ~read[r].convert
  <1>t. read \in [Reader -> Request]
    BY DEF ReadTypeOK
  <1>k. read[r].pc \in {"stat", "stream", "truncated"} =>
            read[r].wanted \in Thumb \/ ~read[r].convert
    BY DEF ReadTypeOK
  <1>1. CASE GetImage(r)
    <2>1. PICK result \in ReadResult :
             Goes(r, CASE result = "error" -> "error"
                       [] ~Live(row[read[r].av]) -> "notFound"
                       [] HasStoredImage(row[read[r].av], read[r]) -> "stat"
                       [] OTHER -> "fetch")
      BY <1>1 DEF GetImage
    <2>2. PICK pc \in {"error", "notFound", "stat", "fetch"} :
             /\ Goes(r, pc)
             /\ pc = "stat" => HasStoredImage(row[read[r].av], read[r])
      <3>1. CASE result = "error"
        BY <2>1, <3>1
      <3>2. CASE result # "error" /\ ~Live(row[read[r].av])
        BY <2>1, <3>2
      <3>3. CASE /\ result # "error" /\ Live(row[read[r].av])
                 /\ HasStoredImage(row[read[r].av], read[r])
        BY <2>1, <3>3
      <3>4. CASE /\ result # "error" /\ Live(row[read[r].av])
                 /\ ~HasStoredImage(row[read[r].av], read[r])
        BY <2>1, <3>4
      <3> QED
        BY <3>1, <3>2, <3>3, <3>4
    <2>3. /\ pc \in ReadPc /\ read' = [read EXCEPT ![r].pc = pc] /\ read'[r].pc = pc
          /\ pc \notin {"stream", "truncated"}
      BY <1>t, <2>2 DEF Goes, ReadPc, Request
    <2>4. pc = "stat" => read[r].wanted \in Thumb \/ ~read[r].convert
      BY <2>2 DEF HasStoredImage
    <2> QED
      BY <2>3, <2>4
  <1>2. CASE tryStoredThumbnail(r)
    BY <1>t, <1>k, <1>2 DEF tryStoredThumbnail, Goes, ReadPc, Request
  <1>3. CASE streamImagePayload(r)
    BY <1>t, <1>k, <1>3 DEF streamImagePayload, Goes, ReadPc, Request
  <1>4. CASE buildFromOriginal(r)
    <2>1. PICK pc \in {"served", "error"} : read' = [read EXCEPT ![r].pc = pc]
      BY <1>4 DEF buildFromOriginal, Goes
    <2>2. pc \in ReadPc /\ read'[r].pc = pc
      BY <1>t, <2>1 DEF ReadPc, Request
    <2> QED
      BY <2>1, <2>2
  <1> QED
    BY <1>1, <1>2, <1>3, <1>4 DEF ReadStep

LEMMA ReadStepTypeOK == ReadTypeOK /\ [ReadNext]_readVars => ReadTypeOK'
  <1> SUFFICES ASSUME ReadTypeOK, [ReadNext]_readVars PROVE ReadTypeOK'
    OBVIOUS
  <1>1. CASE UNCHANGED read
    BY <1>1 DEF ReadTypeOK
  <1>2. ASSUME NEW r \in Reader, ReadStep(r)
        PROVE  ReadTypeOK'
    <2>1. PICK pc \in ReadPc : read' = [read EXCEPT ![r].pc = pc]
      BY <1>2, ReadMoves
    <2>2. read \in [Reader -> Request] /\ read' \in [Reader -> Request]
      BY <2>1 DEF ReadTypeOK, Request
    <2>3. read'[r].wanted = read[r].wanted /\ read'[r].convert = read[r].convert
      BY <2>1, <2>2 DEF Request
    <2>4. \A q \in Reader : q # r => read'[q] = read[q]
      BY <2>1, <2>2
    <2>5. ASSUME NEW q \in Reader, read'[q].pc \in {"stat", "stream", "truncated"}
          PROVE  read'[q].wanted \in Thumb \/ ~read'[q].convert
      BY <1>2, <2>3, <2>4, <2>5, ReadMoves DEF ReadTypeOK
    <2> QED
      BY <2>2, <2>5 DEF ReadTypeOK
  <1> QED
    BY <1>1, <1>2 DEF ReadNext, readVars

\* Every request is one the API can be sent, and only what is stored in the
\* format asked for is streamed (hasStoredImage).
THEOREM ReadsTyped == ReadSpec => []ReadTypeOK
  <1>1. ReadInit => ReadTypeOK
    BY DEF ReadInit, ReadTypeOK, Request, ReadPc
  <1> QED
    BY <1>1, ReadStepTypeOK, PTL DEF ReadSpec

-----------------------------------------------------------------------------
(* What a reader was led to.                                               *)

\* Once completed, always completed: nothing marks a completed row failed, and
\* no rollback takes it out of the table.
LEMMA CompletedStays ==
    ASSUME NoOverlap, TypeOK, TypeOK', IInv, JobInv, [Next]_vars,
           NEW a \in Avatar, row[a].status = "completed"
    PROVE  row'[a].status = "completed"
  <1>t. row \in [Avatar -> Row] /\ task \in [Consumer -> Task]
    BY DEF TypeOK
  <1>k. Acked(a) /\ row[a] \in Row
    BY <1>t, BeforeAckParts DEF JobInv
  <1>1. ASSUME NEW b \in Avatar, UploadStep(b)
        PROVE  row'[a] = row[a]
    BY <1>1, <1>k, <1>t
       DEF UploadStep, UploadPut, UploadInsert, UploadPublish, UploadUndoRow, UploadUndoObject,
           UploadAbort, Acked
  <1>2. ASSUME NEW d \in Deleter, DeleteStep(d)
        PROVE  row'[a].status = row[a].status
    BY <1>2, DeleteKeepsStatus
  <1>3. ASSUME NEW c \in Consumer, ConsumerStep(c) \/ ContextEnds(c)
        PROVE  row'[a].status = "completed"
    <2>1. CASE ~JobStep(c)
      BY <1>3, <2>1, OtherMoves
    <2>2. CASE JobStep(c) /\ task[c].ev.av # a
      BY <2>2, JobMoves
    <2>3. CASE JobStep(c) /\ task[c].ev.av = a
      <3>1. PICK w \in Worker : c = <<"upload", w>>
        BY <2>3, JobMoves DEF Consumer
      <3>2. task[c].pc \notin {"fetch", "thumbs", "undo"}
        BY <2>3, <3>1 DEF JobInv, AttemptUnfinished
      <3> QED
        BY <2>3, <3>2 DEF JobStep, JobLoad, JobFetch, JobPutThumb, JobSave, JobUndo, JobMarkFailed
    <2> QED
      BY <2>1, <2>2, <2>3
  <1>4. CASE \/ \E e \in Event : RetryExpires(e)
             \/ \E w \in Worker : ReplicaStep(w)
    BY <1>4 DEF RetryExpires, ReplicaStep, Disconnect, Restart, Crash
  <1>5. CASE UNCHANGED vars
    BY <1>5 DEF vars
  <1> QED
    BY <1>1, <1>2, <1>3, <1>4, <1>5 DEF Next

\* What an acknowledged upload may come to.
Outcome(a) ==
    DeleteAcked(a) \/ row[a].status = "completed" \/ InDLQ("upload", a)

\* UploadSettles promises an outcome for good; this is the "for good": once an
\* upload is processed, its event dead-lettered or its delete acknowledged, no
\* redelivery, late retry, rollback or failing job takes that back. That it comes
\* to this is for TLC (liveness).
THEOREM OutcomeForGood ==
    ASSUME NoOverlap, NEW a \in Avatar
    PROVE  Spec => [](Outcome(a) => []Outcome(a))
  <1>1. ASSUME TypeOK, TypeOK', IInv, JobInv, [Next]_vars, Outcome(a)
        PROVE  Outcome(a)'
    <2>1. CASE DeleteAcked(a)
      BY <1>1, <2>1, AckedSteps DEF Outcome, DeleteAcked
    <2>2. CASE row[a].status = "completed"
      BY <1>1, <2>2, CompletedStays DEF Outcome
    <2>3. CASE InDLQ("upload", a)
      BY <1>1, <2>3, DLQKeeps DEF Outcome, InDLQ
    <2> QED
      BY <1>1, <2>1, <2>2, <2>3 DEF Outcome
  <1>2. TypeOK /\ TypeOK' /\ IInv /\ JobInv /\ [Next]_vars /\ Outcome(a) => Outcome(a)'
    BY <1>1
  <1> QED
    BY <1>2, TypeCorrect, Invariant, OneAttemptAtATime, PTL DEF Spec

ReadInv == TypeOK /\ IInv /\ JobInv /\ ReadTypeOK /\ LedByCompletedRow

\* A read leaves what the other two invariants speak of alone.
LEMMA ReadKeepsIInv == ASSUME IInv, NEW r \in Reader, ReadStep(r) PROVE IInv'
  <1>1. UNCHANGED <<row, s3, upload, deletion, mainQ, retryQ, dlq, task>>
    BY ReadFrame
  <1> QED
    BY <1>1
       DEF IInv, NoRowNoDelete, OriginalKept, MayBeLive, Open, OneDeleteAtATime,
           DeleteEventsAcked, DeleteAcked, TasksKeepToTheirKeys

LEMMA ReadKeepsJobInv == ASSUME JobInv, NEW r \in Reader, ReadStep(r) PROVE JobInv'
  <1>1. UNCHANGED <<row, s3, upload, deletion, mainQ, retryQ, dlq, task>>
    BY ReadFrame
  <1> QED
    BY <1>1
       DEF JobInv, OneAttempt, NothingBeforeAck, AttemptUnfinished, UploadedStay,
           CompletedKeepsThumbs, UploadEventsOf, Ahead, Attempts, Acked, DeleteAcked

\* Only a completed row leads to a thumbnail.
LEMMA ReadLedByRow ==
    ASSUME ReadTypeOK, LedByCompletedRow, NEW r \in Reader, ReadStep(r)
    PROVE  LedByCompletedRow'
  <1>t. read \in [Reader -> Request]
    BY DEF ReadTypeOK
  <1>1. PICK pc \in ReadPc : read' = [read EXCEPT ![r].pc = pc]
    BY ReadMoves
  <1>2. /\ \A q \in Reader : q # r => read'[q] = read[q]
        /\ read'[r].pc = pc /\ read'[r].wanted = read[r].wanted /\ read'[r].av = read[r].av
    BY <1>1, <1>t DEF Request
  <1>3. pc \in {"stat", "stream"} /\ read[r].wanted \in Thumb => row[read[r].av].status = "completed"
    <2>1. CASE GetImage(r)
      <3>1. PICK result \in ReadResult :
               Goes(r, CASE result = "error" -> "error"
                         [] ~Live(row[read[r].av]) -> "notFound"
                         [] HasStoredImage(row[read[r].av], read[r]) -> "stat"
                         [] OTHER -> "fetch")
        BY <2>1 DEF GetImage
      <3>2. pc \in {"stat", "stream"} => HasStoredImage(row[read[r].av], read[r])
        <4> SUFFICES ASSUME ~HasStoredImage(row[read[r].av], read[r])
                     PROVE  pc \notin {"stat", "stream"}
          OBVIOUS
        <4>1. read'[r].pc \in {"error", "notFound", "fetch"}
          BY <1>t, <3>1 DEF Goes, Request
        <4> QED
          BY <1>2, <4>1
      <3> QED
        BY <3>2, KeyAssumption DEF HasStoredImage
    <2>2. CASE ~GetImage(r)
      <3>1. read[r].pc \in {"stat", "stream", "fetch"}
        BY <2>2 DEF ReadStep, tryStoredThumbnail, streamImagePayload, buildFromOriginal
      <3>2. read[r].pc = "fetch" => read'[r].pc \notin {"stat", "stream"}
        BY <2>2, <1>t
           DEF ReadStep, tryStoredThumbnail, streamImagePayload, buildFromOriginal, Goes, Request
      <3> QED
        BY <1>2, <3>1, <3>2 DEF LedByCompletedRow
    <2> QED
      BY <2>1, <2>2
  <1>4. UNCHANGED row
    BY ReadFrame
  <1> QED
    BY <1>2, <1>3, <1>4 DEF LedByCompletedRow

LEMMA NextReadInv == ASSUME NoOverlap, ReadInv, [ReadNext]_readVars PROVE ReadInv'
  <1>i. TypeOK /\ IInv /\ JobInv /\ ReadTypeOK /\ LedByCompletedRow
    BY DEF ReadInv
  <1>r. ReadTypeOK'
    BY <1>i, ReadStepTypeOK
  <1>1. CASE [Next]_vars /\ UNCHANGED read
    <2>1. TypeOK'
      BY <1>1, <1>i, NextTypeOK
    <2>2. IInv' /\ JobInv'
      BY <1>1, <1>i, <2>1, NextIInv, NextJobInv
    <2>3. LedByCompletedRow'
      <3>1. ASSUME NEW r \in Reader, read[r].pc \in {"stat", "stream"}, read[r].wanted \in Thumb
            PROVE  row'[read[r].av].status = "completed"
        <4>1. read[r].av \in Avatar
          BY <1>i DEF ReadTypeOK, Request
        <4>2. row[read[r].av].status = "completed"
          BY <1>i, <3>1 DEF LedByCompletedRow
        <4> QED
          BY <1>1, <1>i, <2>1, <4>1, <4>2, CompletedStays
      <3> QED
        BY <1>1, <3>1 DEF LedByCompletedRow
    <2> QED
      BY <1>r, <2>1, <2>2, <2>3 DEF ReadInv
  <1>2. ASSUME NEW r \in Reader, ReadStep(r)
        PROVE  ReadInv'
    BY <1>i, <1>r, <1>2, ReadKeepsType, ReadKeepsIInv, ReadKeepsJobInv,
       ReadLedByRow DEF ReadInv
  <1> QED
    BY <1>1, <1>2 DEF ReadNext, readVars, vars

LEMMA InitReadInv == ReadInit => ReadInv
  <1>1. ReadInit => ReadTypeOK /\ LedByCompletedRow
    BY DEF ReadInit, ReadTypeOK, LedByCompletedRow, Request, ReadPc
  <1> QED
    BY <1>1, InitTypeOK, InitIInv, InitJobInv DEF ReadInit, ReadInv

\* The same beside any number of readers: whatever GetImage and its calls do in
\* between, a row shown as completed lists thumbnails that are in the bucket.
THEOREM CompletedIsStoredForReaders ==
    ASSUME NoOverlap PROVE ReadSpec => [](JobInv /\ CompletedHasThumbs)
  <1>1. ReadInv /\ [ReadNext]_readVars => ReadInv'
    BY NextReadInv
  <1>2. ReadInv => JobInv /\ CompletedHasThumbs
    BY CompletedThumbs DEF ReadInv
  <1> QED
    BY <1>1, <1>2, InitReadInv, PTL DEF ReadSpec

\* And beside any number of readers.
THEOREM ThumbnailsAreKeptForReaders == ASSUME NoOverlap PROVE ReadSpec => KeepsThumbnails
  <1>1. ReadInv /\ [ReadNext]_readVars => ReadInv'
    BY NextReadInv
  <1>2. ReadInv /\ [ReadNext]_readVars => [Thumbnails!Next]_Gallery
    <2> SUFFICES ASSUME ReadInv, [ReadNext]_readVars PROVE [Thumbnails!Next]_Gallery
      OBVIOUS
    <2>1. CASE [Next]_vars
      BY <2>1, NextGallery DEF ReadInv
    <2>2. ASSUME NEW r \in Reader, ReadStep(r)
          PROVE  UNCHANGED Gallery
      BY <2>2, ReadFrame, SameStage, AckedFrame, NoGalleryChange
    <2> QED
      BY <2>1, <2>2 DEF ReadNext, readVars
  <1>3. ReadInit => Thumbnails!Init
    BY InitGallery DEF ReadInit
  <1> QED
    BY <1>1, <1>2, <1>3, InitReadInv, PTL DEF ReadSpec, KeepsThumbnails, Thumbnails!Spec

\* And without any premise: the original of a live avatar whose upload was
\* acknowledged is there for every read (buildFromOriginal relies on it).
THEOREM ServableForReaders == ReadSpec => []AckedAvatarServable
  <1>1. ReadInit => TypeOK /\ IInv
    BY InitTypeOK, InitIInv DEF ReadInit
  <1>2. TypeOK /\ IInv /\ [ReadNext]_readVars => TypeOK' /\ IInv'
    <2> SUFFICES ASSUME TypeOK, IInv, [ReadNext]_readVars PROVE TypeOK' /\ IInv'
      OBVIOUS
    <2>1. CASE [Next]_vars
      BY <2>1, NextTypeOK, NextIInv
    <2>2. ASSUME NEW r \in Reader, ReadStep(r)
          PROVE  TypeOK' /\ IInv'
      BY <2>2, ReadKeepsType, ReadKeepsIInv
    <2> QED
      BY <2>1, <2>2 DEF ReadNext, readVars
  <1>3. IInv => AckedAvatarServable
    BY DEF IInv, OriginalKept, MayBeLive, AckedAvatarServable, Acked
  <1> QED
    BY <1>1, <1>2, <1>3, PTL DEF ReadSpec

\* A call that uses up no fault succeeds.
LEMMA QuietCall ==
    ASSUME TypeOK, UNCHANGED faults, NEW kind, NEW result, Call(kind, result)
    PROVE  result = "ok"
  <1>1. faults + 1 # faults
    BY DEF TypeOK
  <1> QED
    BY <1>1 DEF Call, Fault

\* The object a request of a live acknowledged avatar was led to is there.
LEMMA LedToObject ==
    ASSUME ReadInv, NEW r \in Reader, Acked(read[r].av), Live(row[read[r].av])
    PROVE  /\ Original \in s3[read[r].av]
           /\ read[r].pc = "stream" => read[r].wanted \in s3[read[r].av]
  <1>a. read[r].av \in Avatar /\ read[r].wanted \in Key
    BY DEF ReadInv, ReadTypeOK, Request
  <1>1. Original \in s3[read[r].av]
    BY <1>a DEF ReadInv, IInv, OriginalKept, MayBeLive, Acked
  <1>2. ASSUME read[r].pc = "stream", read[r].wanted \in Thumb
        PROVE  read[r].wanted \in s3[read[r].av]
    <2>1. row[read[r].av].status = "completed"
      BY <1>2 DEF ReadInv, LedByCompletedRow
    <2>2. CompletedHasThumbs
      BY CompletedThumbs DEF ReadInv
    <2> QED
      BY <1>a, <1>2, <2>1, <2>2 DEF CompletedHasThumbs
  <1> QED
    BY <1>a, <1>1, <1>2 DEF Key

LEMMA ReadBreaks ==
    ASSUME ReadInv, NEW r \in Reader, ReadStep(r), UNCHANGED faults,
           Acked(read[r].av), Live(row[read[r].av]), Renders(read[r].av, read[r].convert)
    PROVE  read'[r].pc \notin Broke
  <1>t. read \in [Reader -> Request] /\ TypeOK
    BY DEF ReadInv, ReadTypeOK
  <1>o. /\ Original \in s3[read[r].av]
        /\ read[r].pc = "stream" => read[r].wanted \in s3[read[r].av]
    BY LedToObject
  <1>1. CASE GetImage(r)
    <2>1. PICK result \in ReadResult :
             /\ Call("db", result)
             /\ Goes(r, CASE result = "error" -> "error"
                          [] ~Live(row[read[r].av]) -> "notFound"
                          [] HasStoredImage(row[read[r].av], read[r]) -> "stat"
                          [] OTHER -> "fetch")
      BY <1>1 DEF GetImage
    <2>2. result = "ok"
      BY <1>t, <2>1, QuietCall
    <2>3. read'[r].pc \in {"stat", "fetch"}
      BY <1>t, <2>1, <2>2 DEF Goes, Request
    <2> QED
      BY <2>3 DEF Broke
  <1>2. CASE tryStoredThumbnail(r)
    BY <1>t, <1>2 DEF tryStoredThumbnail, Goes, Broke, Request
  <1>3. CASE streamImagePayload(r)
    <2>1. PICK result \in ReadResult :
             /\ Call("s3", result)
             /\ Goes(r, IF result = "ok" /\ read[r].wanted \in s3[read[r].av]
                        THEN "served" ELSE "truncated")
      BY <1>3 DEF streamImagePayload
    <2>2. result = "ok" /\ read[r].wanted \in s3[read[r].av]
      BY <1>3, <1>t, <1>o, <2>1, QuietCall DEF streamImagePayload
    <2>3. read'[r].pc = "served"
      BY <1>t, <2>1, <2>2 DEF Goes, Request
    <2> QED
      BY <2>3 DEF Broke
  <1>4. CASE buildFromOriginal(r)
    <2>1. PICK result \in ReadResult :
             /\ Call("s3", result)
             /\ Goes(r, IF /\ result = "ok" /\ Original \in s3[read[r].av]
                           /\ Renders(read[r].av, read[r].convert)
                        THEN "served" ELSE "error")
      BY <1>4 DEF buildFromOriginal
    <2>2. result = "ok"
      BY <1>t, <2>1, QuietCall
    <2>3. read'[r].pc = "served"
      BY <1>t, <1>o, <2>1, <2>2 DEF Goes, Request
    <2> QED
      BY <2>3 DEF Broke
  <1> QED
    BY <1>1, <1>2, <1>3, <1>4 DEF ReadStep

\* A GET breaks only as ReadFailsOnlyIfDeleted allows (AvatarService.GetImage).
LEMMA ReadStepFails ==
    ASSUME ReadInv, [ReadNext]_readVars, NEW r \in Reader,
           read[r].pc \notin Broke, read'[r].pc \in Broke
    PROVE  LET a == read[r].av IN
           \/ faults' # faults
           \/ ~Acked(a)
           \/ ~Live(row[a])
           \/ a \in Broken /\ read[r].convert
  <1>1. read' # read
    OBVIOUS
  <1>2. PICK q \in Reader : ReadStep(q)
    BY <1>1 DEF ReadNext, readVars
  <1>3. read \in [Reader -> Request]
    BY DEF ReadInv, ReadTypeOK
  <1>4. q = r
    BY <1>2, <1>3, ReadMoves DEF ReadInv
  <1> QED
    BY <1>2, <1>4, ReadBreaks DEF Renders

\* Where no crash, lost session or lost answer makes two attempts overlap, a GET
\* of an acknowledged live avatar breaks off only because its own call failed or
\* the image does not convert: no rollback, retry or delete that is taken back
\* takes away the object GetImage was led to.
THEOREM ReadsServed == ASSUME NoOverlap PROVE ReadSpec => ReadFailsOnlyIfDeleted
  <1>1. ReadInv /\ [ReadNext]_readVars => ReadInv'
    BY NextReadInv
  <1>2. ReadInv /\ [ReadNext]_readVars =>
            [\A r \in Reader : read[r].pc \notin Broke /\ read'[r].pc \in Broke =>
                LET a == read[r].av IN
                \/ faults' # faults
                \/ ~Acked(a)
                \/ ~Live(row[a])
                \/ a \in Broken /\ read[r].convert]_readVars
    BY ReadStepFails
  <1> QED
    BY <1>1, <1>2, InitReadInv, PTL DEF ReadSpec, ReadFailsOnlyIfDeleted

==============================================================================
