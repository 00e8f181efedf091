----------------------- MODULE AvatarRefinementProofs -----------------------
(***************************************************************************)
(* AvatarLifecycle implements AvatarPromise, for any number of avatars,    *)
(* requests, replicas and faults: each step of the system is, for every    *)
(* avatar, a step of the promise or no change at all.                      *)
(***************************************************************************)
EXTENDS AvatarRefinement, AvatarLifecycleProofs

-----------------------------------------------------------------------------
(* The strengthening.                                                      *)

\* A step of a consumer leaves the requests alone.
LEMMA ConsumerRequests ==
    ASSUME NEW c \in Consumer, ConsumerStep(c) \/ ContextEnds(c)
    PROVE  UNCHANGED <<upload, deletion>>
  BY DEF serverVars, ConsumerStep, JobStep, SweepStep, Receive, ContextEnds, JobLoad,
         JobFetch, JobPutThumb, JobSave, JobUndo, JobMarkFailed, SweepRemove,
         SweepDone, Republish, RepublishFails, Settle

\* What a delete request does to requests and rows.
LEMMA DeleteMoves ==
    ASSUME TypeOK, IInv, NEW d \in Deleter, DeleteStep(d),
           NEW a \in Avatar, a = deletion[d].av
    PROVE  /\ UNCHANGED <<upload, s3>>
           /\ \A x \in Avatar : x # a =>
                 row'[x] = row[x] /\ (DeleteAcked(x)' <=> DeleteAcked(x))
           /\ row[a].state = "absent" <=> row'[a].state = "absent"
           /\ DeleteAcked(a) => DeleteAcked(a)'
  <1>t. deletion \in [Deleter -> Deletion] /\ row \in [Avatar -> Row]
    BY DEF TypeOK
  <1>1. UNCHANGED <<upload, s3>>
    BY DEF DeleteStep, DeleteRead, DeleteSoft, DeletePublish, DeleteRestore, DeleteAbort
  <1>2. /\ \A x \in Deleter : x # d => deletion'[x] = deletion[x]
        /\ deletion'[d].av = a
        /\ \A x \in Avatar : x # a => row'[x] = row[x]
        /\ deletion[d].pc # "acked"
    BY <1>t
       DEF DeleteStep, DeleteRead, DeleteSoft, DeletePublish, DeleteRestore, DeleteAbort,
           Deletion
  <1>3. row[a].state = "absent" <=> row'[a].state = "absent"
    <2>0. row[a] \in Row
      BY <1>t
    <2>1. CASE DeleteSoft(d)
      BY <1>t, <2>0, <2>1 DEF DeleteSoft, SoftDelete, Live, Row
    <2>2. CASE DeleteRestore(d)
      BY <1>t, <2>0, <2>2 DEF DeleteRestore, RestoreSoftDeleted, Row
    <2>3. CASE UNCHANGED row
      BY <2>3
    <2>4. QED
      BY <2>1, <2>2, <2>3 DEF DeleteStep, DeleteRead, DeletePublish, DeleteAbort
  <1>4. \A x \in Avatar : x # a => (DeleteAcked(x)' <=> DeleteAcked(x))
    BY <1>2 DEF DeleteAcked
  <1>5. DeleteAcked(a) => DeleteAcked(a)'
    BY <1>2 DEF DeleteAcked
  <1>6. QED
    BY <1>1, <1>2, <1>3, <1>4, <1>5

LEMMA KeptStep == TypeOK /\ IInv /\ KeptFromInsertOn /\ [Next]_vars => KeptFromInsertOn'
  <1> SUFFICES ASSUME TypeOK, IInv, KeptFromInsertOn, [Next]_vars
               PROVE  KeptFromInsertOn'
    OBVIOUS
  \* While the requests do not change, neither rows nor originals are lost.
  <1>f. ASSUME UNCHANGED <<upload, deletion>>,
               \A x \in Avatar : row'[x].state = row[x].state,
               \A x \in Avatar : Original \in s3[x] /\ ~DeleteAcked(x) => Original \in s3'[x]
        PROVE  KeptFromInsertOn'
    BY <1>f, AckedFrame DEF KeptFromInsertOn
  <1>1. ASSUME NEW a \in Avatar, UploadStep(a)
        PROVE  KeptFromInsertOn'
    <2>1. UNCHANGED deletion /\ \A x : DeleteAcked(x)' <=> DeleteAcked(x)
      BY <1>1, AckedFrame
         DEF UploadStep, UploadPut, UploadInsert, UploadPublish,
             UploadUndoRow, UploadUndoObject, UploadAbort
    <2>t. upload \in [Avatar -> UploadPc] /\ row \in [Avatar -> Row]
          /\ s3 \in [Avatar -> SUBSET Key]
      BY DEF TypeOK
    <2>2. \A x \in Avatar : x # a =>
              upload'[x] = upload[x] /\ row'[x] = row[x] /\ s3'[x] = s3[x]
      BY <1>1, <2>t
         DEF UploadStep, UploadPut, UploadInsert, UploadPublish, UploadUndoRow,
             UploadUndoObject, UploadAbort
    <2>3. upload'[a] \in {"publish", "acked"} =>
              /\ row'[a].state # "absent"
              /\ DeleteAcked(a) \/ Original \in s3'[a]
      <3>1. CASE UploadInsert(a)
        BY <3>1, <2>t DEF UploadInsert, WriteResult, Insert, IInv, OriginalKept
      <3>2. CASE UploadPublish(a)
        BY <3>2, <2>t DEF UploadPublish, KeptFromInsertOn
      <3>3. CASE UploadPut(a) \/ UploadUndoRow(a) \/ UploadUndoObject(a) \/ UploadAbort(a)
        BY <3>3, <2>t
           DEF UploadPut, UploadUndoRow, UploadUndoObject, UploadAbort, WriteResult
      <3>4. QED
        BY <1>1, <3>1, <3>2, <3>3 DEF UploadStep
    <2>4. QED
      BY <2>1, <2>2, <2>3 DEF KeptFromInsertOn
  <1>2. ASSUME NEW d \in Deleter, DeleteStep(d)
        PROVE  KeptFromInsertOn'
    <2>1. PICK a \in Avatar : a = deletion[d].av
      BY DEF TypeOK, Deletion
    <2>2. UNCHANGED <<upload, s3>>
      BY <1>2, <2>1, DeleteMoves
    <2>3. \A x \in Avatar : row[x].state # "absent" => row'[x].state # "absent"
      BY <1>2, <2>1, DeleteMoves
    <2>4. \A x \in Avatar : DeleteAcked(x) => DeleteAcked(x)'
      BY <1>2, <2>1, DeleteMoves
    <2>5. QED
      BY <2>2, <2>3, <2>4 DEF KeptFromInsertOn
  <1>3. ASSUME NEW c \in Consumer, ConsumerStep(c) \/ ContextEnds(c)
        PROVE  KeptFromInsertOn'
    BY <1>3, <1>f, ConsumerRequests, ConsumerRows, ConsumerObjects
  <1>4. CASE UNCHANGED <<row, s3, upload, deletion>>
    BY <1>4, <1>f
  <1>5. QED
    BY <1>1, <1>2, <1>3, <1>4
       DEF Next, vars, serverVars, RetryExpires, ReplicaStep, Disconnect, Restart, Crash

\* From its insertion on a row disappears only by the rollback of its own
\* upload, and its original only by an acknowledged delete.
THEOREM KeptThroughout == Spec => []KeptFromInsertOn
  <1>1. Init => KeptFromInsertOn
    BY DEF Init, KeptFromInsertOn
  <1>2. QED
    BY <1>1, KeptStep, Invariant, TypeCorrect, PTL DEF Spec

-----------------------------------------------------------------------------
(* The refinement.                                                         *)

\* An avatar, as its owner sees it.
LEMMA OneView ==
    ASSUME NEW a \in Avatar
    PROVE  /\ OwnersView[a].answer = Answer(a)
           /\ OwnersView[a].shown = Shown(a)
           /\ OwnersView[a].stored = Stored(a)
  BY DEF OwnersView

\* A step that changes what is seen of one avatar only.
LEMMA OneChange ==
    ASSUME NEW a \in Avatar,
           \A x \in Avatar : x # a =>
               /\ Answer(x)' = Answer(x)
               /\ Shown(x)' = Shown(x)
               /\ Stored(x)' = Stored(x)
    PROVE  Promise!Becomes(a, Answer(a)', Shown(a)', Stored(a)')
  BY DEF OwnersView, Promise!Becomes

\* A step that changes nothing anybody sees.
LEMMA NoChange ==
    ASSUME \A x \in Avatar :
               /\ Answer(x)' = Answer(x)
               /\ Shown(x)' = Shown(x)
               /\ Stored(x)' = Stored(x)
    PROVE  UNCHANGED OwnersView
  BY DEF OwnersView

\* What is deleted for good is not shown.
LEMMA GoneStaysGone ==
    ASSUME IInv, NEW a \in Avatar, DeleteAcked(a)
    PROVE  ~Live(row[a])
  BY DEF DeleteAcked, IInv, OneDeleteAtATime

LEMMA UploadPromise ==
    ASSUME TypeOK, IInv, KeptFromInsertOn, NEW a \in Avatar, UploadStep(a)
    PROVE  Promise!Step(a) \/ UNCHANGED OwnersView
  <1>1. UNCHANGED deletion /\ \A x : DeleteAcked(x)' <=> DeleteAcked(x)
    BY AckedFrame
       DEF UploadStep, UploadPut, UploadInsert, UploadPublish,
           UploadUndoRow, UploadUndoObject, UploadAbort
  <1>t. /\ upload \in [Avatar -> UploadPc]
        /\ row \in [Avatar -> Row]
        /\ s3 \in [Avatar -> SUBSET Key]
    BY DEF TypeOK
  <1>2. \A x \in Avatar : x # a =>
            upload'[x] = upload[x] /\ row'[x] = row[x] /\ s3'[x] = s3[x]
    BY <1>t
       DEF UploadStep, UploadPut, UploadInsert, UploadPublish, UploadUndoRow,
           UploadUndoObject, UploadAbort
  <1>3. \A x \in Avatar : x # a =>
            /\ Answer(x)' = Answer(x)
            /\ Shown(x)' = Shown(x)
            /\ Stored(x)' = Stored(x)
    BY <1>1, <1>2 DEF Answer, Shown, Live, Stored
  <1>4. Promise!Becomes(a, Answer(a)', Shown(a)', Stored(a)')
    BY <1>3, OneChange
  <1>5. (/\ Answer(a)' = Answer(a)
         /\ Shown(a)' = Shown(a)
         /\ Stored(a)' = Stored(a)) => UNCHANGED OwnersView
    BY <1>3, NoChange
  <1>6. CASE UploadPut(a)
    <2>1. Answer(a) = "open" /\ Shown(a) = "none" /\ Shown(a)' = "none"
      BY <1>1, <1>6 DEF UploadPut, IInv, NoRowNoDelete, Answer, Shown, Live, DeleteAcked
    <2>2. \/ Answer(a)' \in {"open", "failed"} /\ Stored(a)'
          \/ Answer(a)' = "failed" /\ Stored(a)' = Stored(a)
      BY <1>t, <1>6 DEF UploadPut, WriteResult, Answer, Stored
    <2>3. QED
      BY <1>4, <2>1, <2>2, OneView DEF Promise!Step, Promise!Store, Promise!Fail
  <1>7. CASE UploadInsert(a)
    <2>1. Answer(a) = "open" /\ Answer(a)' = "open"
      BY <1>t, <1>7 DEF UploadInsert, WriteResult, Answer
    <2>2. Shown(a) = "none" /\ Shown(a)' \in {"none", "shown"}
      BY <1>t, <1>1, <1>7
         DEF UploadInsert, WriteResult, Insert, IInv, NoRowNoDelete, Shown, Live, DeleteAcked
    <2>3. Stored(a) = TRUE /\ Stored(a)' = TRUE
      BY <1>7 DEF UploadInsert, IInv, OriginalKept, Stored
    <2>4. QED
      BY <1>4, <1>5, <2>1, <2>2, <2>3, OneView DEF Promise!Step, Promise!Show
  <1>8. CASE UploadPublish(a)
    <2>1. Answer(a) = "open" /\ Answer(a)' \in {"open", "acked"}
      BY <1>t, <1>8 DEF UploadPublish, Answer
    <2>2. Shown(a)' = Shown(a) /\ Stored(a)' = Stored(a)
      BY <1>1, <1>8 DEF UploadPublish, Shown, Live, Stored
    <2>3. Shown(a) # "none" /\ (Stored(a) \/ Shown(a) = "gone")
      BY <1>8, GoneStaysGone DEF UploadPublish, KeptFromInsertOn, Shown, Live, Stored
    <2>4. QED
      BY <1>4, <1>5, <2>1, <2>2, <2>3, OneView DEF Promise!Step, Promise!Ack
  <1>9. CASE UploadUndoRow(a)
    <2>1. Answer(a) = "open" /\ Answer(a)' = "open" /\ Stored(a)' = Stored(a)
      BY <1>t, <1>9 DEF UploadUndoRow, Answer, Stored
    <2>2. \/ Shown(a)' = Shown(a)
          \/ Shown(a) # "gone" /\ Shown(a)' = "none"
      BY <1>t, <1>1, <1>9, GoneStaysGone
         DEF UploadUndoRow, WriteResult, DeleteHard, NoRow, Shown, Live
    <2>3. QED
      BY <1>4, <1>5, <2>1, <2>2, OneView DEF Promise!Step, Promise!Withdraw
  <1>10. CASE UploadUndoObject(a)
    <2>1. Answer(a) = "open" /\ Answer(a)' = "failed" /\ Shown(a)' = Shown(a)
      BY <1>t, <1>1, <1>10 DEF UploadUndoObject, Answer, Shown, Live
    <2>2. Stored(a)' = Stored(a) \/ Stored(a)' = FALSE
      BY <1>t, <1>10 DEF UploadUndoObject, WriteResult, Stored
    <2>3. QED
      BY <1>4, <2>1, <2>2, OneView DEF Promise!Step, Promise!Fail
  <1>11. CASE UploadAbort(a)
    <2>1. Answer(a) = "open" /\ Answer(a)' = "failed"
      BY <1>t, <1>11 DEF UploadAbort, Answer
    <2>2. Shown(a)' = Shown(a) /\ Stored(a)' = Stored(a)
      BY <1>1, <1>11 DEF UploadAbort, Shown, Live, Stored
    <2>3. QED
      BY <1>4, <2>1, <2>2, OneView DEF Promise!Step, Promise!Fail
  <1>12. QED
    BY <1>6, <1>7, <1>8, <1>9, <1>10, <1>11 DEF UploadStep

LEMMA DeletePromise ==
    ASSUME TypeOK, IInv, KeptFromInsertOn, NEW d \in Deleter, DeleteStep(d),
           NEW a \in Avatar, a = deletion[d].av
    PROVE  Promise!Step(a) \/ UNCHANGED OwnersView
  <1>t. /\ deletion \in [Deleter -> Deletion]
        /\ row \in [Avatar -> Row]
        /\ row[a] \in Row
    BY DEF TypeOK
  <1>m. /\ UNCHANGED <<upload, s3>>
        /\ \A x \in Avatar : x # a =>
              row'[x] = row[x] /\ (DeleteAcked(x)' <=> DeleteAcked(x))
        /\ row[a].state = "absent" => row'[a].state = "absent"
    BY DeleteMoves
  <1>1. \A x \in Avatar : Answer(x)' = Answer(x) /\ Stored(x)' = Stored(x)
    BY <1>m DEF Answer, Stored
  <1>2. \A x \in Avatar : x # a => Shown(x)' = Shown(x)
    BY <1>m DEF Shown, Live
  <1>4. Promise!Becomes(a, Answer(a), Shown(a)', Stored(a))
    BY <1>t, <1>1, <1>2, OneChange
  <1>5. Shown(a)' = Shown(a) => UNCHANGED OwnersView
    BY <1>1, <1>2, NoChange
  \* A request that does not acknowledge leaves the acknowledgements as they are.
  <1>6. ~DeletePublish(d) => (DeleteAcked(a)' <=> DeleteAcked(a))
    <2>1. \A x \in Deleter : x # d => deletion'[x] = deletion[x]
      BY <1>t
         DEF DeleteStep, DeleteRead, DeleteSoft, DeletePublish, DeleteRestore, DeleteAbort
    <2>2. ~DeletePublish(d) => deletion[d].pc # "acked" /\ deletion'[d].pc # "acked"
      BY <1>t
         DEF DeleteStep, DeleteRead, DeleteSoft, DeleteRestore, DeleteAbort, Deletion
    <2>3. QED
      BY <2>1, <2>2 DEF DeleteAcked
  <1>7. CASE DeleteSoft(d)
    <2>1. row'[a].state = row[a].state \/ (row[a].state = "live" /\ row'[a].state = "deleted")
      BY <1>t, <1>7 DEF DeleteSoft, SoftDelete, Live, Row
    <2>2. DeleteAcked(a)' <=> DeleteAcked(a)
      BY <1>6, <1>7 DEF DeleteSoft, DeletePublish
    <2>3. Shown(a)' = Shown(a) \/ (Shown(a) = "shown" /\ Shown(a)' = "hidden")
      BY <2>1, <2>2, GoneStaysGone DEF Shown, Live
    <2>4. QED
      BY <1>t, <1>4, <1>5, <2>3, OneView DEF Promise!Step, Promise!Hide
  <1>8. CASE DeletePublish(d)
    <2>1. row' = row /\ Open(d)
      BY <1>8 DEF DeletePublish, Open
    <2>2. ~DeleteAcked(a) /\ ~Live(row[a])
      BY <2>1, <1>8 DEF DeletePublish, DeleteAcked, IInv, OneDeleteAtATime
    <2>3. Shown(a) \in {"hidden", "none"}
      BY <1>t, <2>2 DEF Shown, Live, Row
    <2>4. Shown(a) = "none" => Answer(a) # "acked"
      BY <1>t, <2>2 DEF Shown, Live, Answer, KeptFromInsertOn
    <2>5. Shown(a)' = Shown(a) \/ Shown(a)' = "gone"
      BY <2>1, <2>2 DEF Shown, Live
    <2>6. QED
      BY <1>t, <1>4, <1>5, <2>3, <2>4, <2>5, OneView DEF Promise!Step, Promise!Delete
  <1>9. CASE DeleteRestore(d)
    <2>1. DeleteAcked(a)' <=> DeleteAcked(a)
      BY <1>6, <1>9 DEF DeleteRestore, DeletePublish
    <2>2. ~DeleteAcked(a)
      BY <1>9 DEF DeleteRestore, DeleteAcked, Open, IInv, OneDeleteAtATime
    <2>3. row'[a].state = row[a].state \/ (row[a].state = "deleted" /\ row'[a].state = "live")
      BY <1>t, <1>9 DEF DeleteRestore, RestoreSoftDeleted, Row
    <2>4. Shown(a)' = Shown(a) \/ (Shown(a) = "hidden" /\ Shown(a)' = "shown")
      BY <2>1, <2>2, <2>3 DEF Shown, Live
    <2>5. QED
      BY <1>t, <1>4, <1>5, <2>4, OneView DEF Promise!Step, Promise!Reappear
  <1>10. CASE DeleteRead(d) \/ DeleteAbort(d)
    <2>1. row' = row /\ ~(DeletePublish(d) /\ deletion'[d].pc = "acked")
      BY <1>t, <1>10 DEF DeleteRead, DeleteAbort, Deletion
    <2>2. \A x \in Deleter : deletion[x].pc = "acked" <=> deletion'[x].pc = "acked"
      BY <1>t, <1>10 DEF DeleteRead, DeleteAbort, Deletion
    <2>3. \A x \in Deleter : deletion'[x].av = deletion[x].av
      BY <1>t, <1>10 DEF DeleteRead, DeleteAbort, Deletion
    <2>4. DeleteAcked(a)' <=> DeleteAcked(a)
      BY <2>2, <2>3 DEF DeleteAcked
    <2>5. QED
      BY <1>5, <2>1, <2>4 DEF Shown, Live
  <1>11. QED
    BY <1>7, <1>8, <1>9, <1>10 DEF DeleteStep

LEMMA ConsumerPromise ==
    ASSUME TypeOK, IInv, NEW c \in Consumer, ConsumerStep(c) \/ ContextEnds(c)
    PROVE  (\E a \in Avatar : Promise!Step(a)) \/ UNCHANGED OwnersView
  <1>1. UNCHANGED <<upload, deletion>> /\ \A x \in Avatar : row'[x].state = row[x].state
    BY ConsumerRequests, ConsumerRows
  <1>2. \A x \in Avatar : Answer(x)' = Answer(x) /\ Shown(x)' = Shown(x)
    BY <1>1, AckedFrame DEF Answer, Shown, Live
  <1>t. s3 \in [Avatar -> SUBSET Key]
    BY DEF TypeOK
  <1>3. CASE \A x \in Avatar : Stored(x)' = Stored(x)
    BY <1>2, <1>3, NoChange
  <1>4. CASE SweepRemove(c)
    <2>0. PICK a \in Avatar : a = task[c].ev.av
      BY <1>4, TaskFields DEF SweepRemove
    <2>1. a = task[c].ev.av /\ DeleteAcked(a)
      BY <1>4, <2>0 DEF SweepRemove, IInv, TasksKeepToTheirKeys, DeleteEventsAcked
    <2>2. \A x \in Avatar : x # a => Stored(x)' = Stored(x)
      BY <1>4, <1>t, <2>1 DEF SweepRemove, Stored
    <2>3. Stored(a)' = Stored(a) \/ Stored(a)' = FALSE
      BY <1>4, <1>t, <2>1 DEF SweepRemove, Stored
    <2>4. Shown(a) = "gone"
      BY <2>1, GoneStaysGone DEF Shown, Live
    <2>5. Promise!Becomes(a, Answer(a), "gone", Stored(a)')
      BY <1>2, <2>1, <2>2, <2>4, OneChange
    <2>6. Stored(a)' = FALSE => Promise!Step(a)
      BY <2>1, <2>4, <2>5, OneView DEF Promise!Step, Promise!CleanUp
    <2>7. QED
      BY <1>3, <2>1, <2>2, <2>3, <2>6
  <1>5. CASE JobPutThumb(c)
    BY <1>3, <1>5, <1>t, KeyAssumption DEF JobPutThumb, Stored
  <1>6. CASE JobUndo(c)
    <2>1. Original \notin task[c].keys
      BY <1>6, KeyAssumption DEF JobUndo, IInv, TasksKeepToTheirKeys
    <2>2. QED
      BY <1>3, <1>6, <1>t, <2>1 DEF JobUndo, Stored
  <1>7. CASE UNCHANGED s3
    BY <1>3, <1>7 DEF Stored
  <1>8. QED
    BY <1>4, <1>5, <1>6, <1>7
       DEF ConsumerStep, JobStep, SweepStep, Receive, ContextEnds, JobLoad, JobFetch,
           JobSave, JobMarkFailed, SweepDone, Republish, RepublishFails, Settle

\* Every step of the system keeps the promise or goes unseen.
LEMMA NextPromise ==
    TypeOK /\ IInv /\ KeptFromInsertOn /\ [Next]_vars => [Promise!Next]_OwnersView
  <1> SUFFICES ASSUME TypeOK, IInv, KeptFromInsertOn, [Next]_vars
               PROVE  Promise!Next \/ UNCHANGED OwnersView
    OBVIOUS
  <1>1. ASSUME NEW a \in Avatar, UploadStep(a)
        PROVE  Promise!Next \/ UNCHANGED OwnersView
    BY <1>1, UploadPromise DEF Promise!Next
  <1>2. ASSUME NEW d \in Deleter, DeleteStep(d)
        PROVE  Promise!Next \/ UNCHANGED OwnersView
    <2>1. PICK a \in Avatar : a = deletion[d].av
      BY DEF TypeOK, Deletion
    <2>2. QED
      BY <1>2, <2>1, DeletePromise DEF Promise!Next
  <1>3. ASSUME NEW c \in Consumer, ConsumerStep(c) \/ ContextEnds(c)
        PROVE  Promise!Next \/ UNCHANGED OwnersView
    BY <1>3, ConsumerPromise DEF Promise!Next
  <1>4. CASE UNCHANGED <<row, s3, upload, deletion>>
    BY <1>4, AckedFrame, NoChange DEF Answer, Shown, Live, Stored
  <1>5. QED
    BY <1>1, <1>2, <1>3, <1>4
       DEF Next, vars, serverVars, RetryExpires, ReplicaStep, Disconnect, Restart, Crash

\* Before anything happens no avatar is known.
LEMMA InitPromise == Init => Promise!Init
  <1> SUFFICES ASSUME Init PROVE Promise!Init
    OBVIOUS
  <1>1. ASSUME NEW a \in Avatar
        PROVE  Answer(a) = "open" /\ Shown(a) = "none" /\ Stored(a) = FALSE
    <2>1. Answer(a) = "open" /\ Stored(a) = FALSE
      BY DEF Init, Answer, Stored
    <2>2. ~DeleteAcked(a)
      BY DEF Init, DeleteAcked
    <2>3. QED
      BY <2>1, <2>2 DEF Init, NoRow, Shown, Live
  <1>2. QED
    BY <1>1 DEF OwnersView, Promise!Init, Promise!Unknown

\* The system keeps what AvatarPromise promises the owner of an avatar.
THEOREM Implements == Spec => ImplementsPromise
  BY InitPromise, NextPromise, KeptThroughout, Invariant, TypeCorrect, PTL
     DEF Spec, ImplementsPromise, Promise!Spec

\* So an acknowledged avatar stays known and stored until a delete of it has been
\* answered with success.
THEOREM OwnersKeepAvatars == Spec => []Promise!Kept
  BY Implements, Promise!PromiseKept, PTL DEF ImplementsPromise

=============================================================================
