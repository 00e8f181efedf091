-------------------------- MODULE PlaceholderProofs ---------------------------
(***************************************************************************)
(* What a clean prewarm guarantees, for any number of replicas, requests,  *)
(* variants, placeholder files and faults.                                 *)
(***************************************************************************)
EXTENDS Placeholder, TLAPS

\* The next variant is one of them.
LEMMA NextObject ==
  ASSUME NEW o \in Object, o # Objects
  PROVE  o + 1 \in Object
  BY ObjectsAssumption DEF Object

\* Advance keeps the type of a startup, the file and every failure so far, and
\* is past nothing new but the variant it was at.
LEMMA AdvanceSound ==
  ASSUME NEW t \in Warm, NEW err \in BOOLEAN, NEW skip \in BOOLEAN,
         NEW n, n = Advance(t, err, skip)
  PROVE  /\ n \in Warm
         /\ n.pc \in {"stat", "up"}
         /\ n.file = t.file
         /\ t.errs \/ err => n.errs
         /\ t.skipped \/ skip => n.skipped
         /\ \A o \in Object : n.pc = "up" \/ o < n.obj => o = t.obj \/ o < t.obj
  <1>1. t.obj \in Object /\ t.errs \in BOOLEAN /\ t.skipped \in BOOLEAN
    BY DEF Warm
  <1>2. t.obj # Objects => t.obj + 1 \in Object
    BY <1>1, NextObject
  <1>3. n.pc = (IF t.obj = Objects THEN "up" ELSE "stat")
    BY DEF Advance, Warm
  <1>4. n.obj = (IF t.obj = Objects THEN t.obj ELSE t.obj + 1)
    BY DEF Advance, Warm
  <1>5. n.file = t.file /\ n.errs = (t.errs \/ err) /\ n.skipped = (t.skipped \/ skip)
    BY DEF Advance, Warm
  <1>6. n \in Warm
    BY <1>1, <1>2 DEF Advance, Warm
  <1>7. \A o \in Object : n.pc = "up" \/ o < n.obj => o = t.obj \/ o < t.obj
    BY <1>1, <1>3, <1>4, ObjectsAssumption DEF Object
  <1> QED
    BY <1>1, <1>3, <1>5, <1>6, <1>7

\* A replica starts in a state of the right type, past no variant.
LEMMA StartSound ==
  ASSUME NEW f \in Image \cup {NoFile}
  PROVE  LET n == newAvatarPlaceholder(f) IN
         /\ n \in Warm
         /\ n.file = f
         /\ n.pc = (IF f = NoFile THEN "up" ELSE "stat")
         /\ n.obj = 1
  BY ObjectsAssumption DEF newAvatarPlaceholder, Warm, Object

\* A fault is counted within its bound.
LEMMA FaultBound ==
  ASSUME TypeOK, NEW kind, Fault(kind)
  PROVE  faults' \in 0 .. MaxFaults
  BY MaxFaultsAssumption DEF TypeOK, Fault

LEMMA WarmCallBound ==
  ASSUME TypeOK, NEW r, NEW result, WarmCall(r, result)
  PROVE  faults' \in 0 .. MaxFaults
  BY FaultBound DEF WarmCall, TypeOK

LEMMA InitIInv == Init => IInv
  <1> SUFFICES ASSUME Init PROVE IInv
    OBVIOUS
  <1>1. \A r \in Replica : \E f \in Image \cup {NoFile} : warm[r] = newAvatarPlaceholder(f)
    BY DEF Init
  <1>2. ASSUME NEW r \in Replica
        PROVE  /\ warm[r].obj = 1
               /\ configured(r) => warm[r].pc = "stat"
               /\ ~configured(r) => warm[r].pc = "up"
    <2>1. PICK f \in Image \cup {NoFile} : warm[r] = newAvatarPlaceholder(f)
      BY <1>1
    <2> QED
      BY <2>1, StartSound DEF configured
  <1>3. TypeOK
    <2>1. warm \in [Replica -> Warm]
      BY <1>1, StartSound DEF Init
    <2> QED
      BY <2>1, MaxFaultsAssumption DEF Init, TypeOK, Get, Content
  <1>4. UploadsItsFile /\ PastIsStored
    BY <1>2, ObjectsAssumption DEF UploadsItsFile, PastIsStored, Past, Unharmed, Object
  <1>5. StreamsWhenUp /\ StreamsNeverBlank
    BY DEF Init, StreamsWhenUp, StreamsNeverBlank
  <1> QED
    BY <1>3, <1>4, <1>5 DEF IInv

(***************************************************************************)
(* A step of the prewarm of r: nothing complete leaves the store, and a    *)
(* variant that r passes without a failure is in it.                       *)
(***************************************************************************)
LEMMA PrewarmStep ==
  ASSUME IInv,
         NEW r \in Replica, warm[r].pc # "up",
         NEW n \in Warm, warm' = [warm EXCEPT ![r] = n],
         n.file = warm[r].file,
         warm[r].errs => n.errs,
         warm[r].skipped => n.skipped,
         \A o \in Object : n.pc = "up" \/ o < n.obj =>
             \/ o < warm[r].obj
             \/ n.errs \/ n.skipped
             \/ n.file = NoFile
             \/ store'[o] \in Image,
         store' \in [Object -> Content],
         \A o \in Object : store[o] \in Image => store'[o] \in Image,
         get' = get, faults' \in 0 .. MaxFaults
  PROVE  IInv'
  <1>1. /\ warm \in [Replica -> Warm]
        /\ warm'[r] = n
        /\ \A q \in Replica \ {r} : warm'[q] = warm[q]
    BY DEF IInv, TypeOK
  <1>2. TypeOK'
    BY <1>1 DEF IInv, TypeOK
  <1>3. UploadsItsFile'
    BY <1>1 DEF IInv, UploadsItsFile, configured
  <1>4. ASSUME NEW q \in Replica, NEW o \in Object, Past(q, o)', Unharmed(q)'
        PROVE  store'[o] \in Image
    <2>1. CASE q # r
      BY <1>1, <1>4, <2>1 DEF IInv, PastIsStored, Past, Unharmed, configured
    <2>2. CASE q = r
      <3>1. Unharmed(r)
        BY <1>1, <1>4, <2>2 DEF Unharmed, configured
      <3>2. o < warm[r].obj => store[o] \in Image
        BY <3>1 DEF IInv, PastIsStored, Past
      <3>3. n.pc = "up" \/ o < n.obj
        BY <1>1, <1>4, <2>2 DEF Past
      <3>4. ~n.errs /\ ~n.skipped /\ n.file # NoFile
        BY <1>1, <1>4, <2>2 DEF Unharmed, configured
      <3> QED
        BY <3>2, <3>3, <3>4
    <2> QED
      BY <2>1, <2>2
  <1>5. PastIsStored'
    BY <1>4 DEF PastIsStored
  <1>6. \A g \in Reader : get[g].pc = "stream" => get[g].at # r
    BY DEF IInv, StreamsWhenUp
  <1>7. \A g \in Reader : get[g].at \in Replica
    BY DEF IInv, TypeOK, Get
  <1>8. StreamsWhenUp' /\ StreamsNeverBlank'
    BY <1>1, <1>6, <1>7 DEF IInv, StreamsWhenUp, StreamsNeverBlank, Clean, Unharmed, configured
  <1> QED
    BY <1>2, <1>3, <1>5, <1>8 DEF IInv

\* The stat finds the object complete, finds it missing, or fails.
LEMMA ShouldUploadStep ==
  ASSUME IInv, NEW r \in Replica, shouldUpload(r)
  PROVE  IInv'
  <1> DEFINE t == warm[r]
  <1>1. /\ t \in Warm /\ t.obj \in Object /\ t.pc = "stat"
        /\ t.errs \in BOOLEAN /\ t.skipped \in BOOLEAN
    BY DEF IInv, TypeOK, Warm, shouldUpload
  <1>2. /\ faults' \in 0 .. MaxFaults
        /\ store' = store /\ get' = get
        /\ store \in [Object -> Content]
    BY WarmCallBound DEF IInv, TypeOK, shouldUpload
  <1>3. PICK result \in {"ok", "error"} :
          warm' = [warm EXCEPT ![r] =
              CASE result = "error" -> Advance(warm[r], FALSE, TRUE)
                [] result = "ok" /\ Missing(store[warm[r].obj]) -> [@ EXCEPT !.pc = "put"]
                [] OTHER -> Advance(warm[r], FALSE, FALSE)]
    BY DEF shouldUpload
  <1>4. CASE result = "error"
    <2> DEFINE n == Advance(t, FALSE, TRUE)
    <2>1. warm' = [warm EXCEPT ![r] = n]
      BY <1>3, <1>4
    <2>n. n = Advance(t, FALSE, TRUE)
      OBVIOUS
    <2> HIDE DEF n, t
    <2>2. n \in Warm /\ n.file = t.file /\ n.skipped /\ (t.errs => n.errs)
      BY <1>1, <2>n, AdvanceSound
    <2> USE DEF t
    <2> QED
      BY <1>1, <1>2, <2>1, <2>2, PrewarmStep
  <1>5. CASE result = "ok" /\ Missing(store[t.obj])
    <2> DEFINE n == [t EXCEPT !.pc = "put"]
    <2>1. warm' = [warm EXCEPT ![r] = n]
      BY <1>3, <1>5
    <2>2. /\ n \in Warm /\ n.file = t.file /\ n.skipped = t.skipped /\ n.errs = t.errs
          /\ n.pc = "put" /\ n.obj = t.obj
      BY <1>1 DEF Warm
    <2> HIDE DEF n
    <2> QED
      BY <1>1, <1>2, <2>1, <2>2, PrewarmStep
  <1>6. CASE result = "ok" /\ ~Missing(store[t.obj])
    <2> DEFINE n == Advance(t, FALSE, FALSE)
    <2>1. warm' = [warm EXCEPT ![r] = n]
      BY <1>3, <1>6
    <2>2. /\ n \in Warm /\ n.file = t.file
          /\ (t.skipped => n.skipped) /\ (t.errs => n.errs)
          /\ \A o \in Object : n.pc = "up" \/ o < n.obj => o = t.obj \/ o < t.obj
      <3>n. n = Advance(t, FALSE, FALSE)
        OBVIOUS
      <3> HIDE DEF n, t
      <3> QED
        BY <1>1, <3>n, AdvanceSound
    <2>3. store[t.obj] \in Image
      BY <1>1, <1>2, <1>6 DEF Missing, Content
    <2> HIDE DEF n
    <2> QED
      BY <1>1, <1>2, <2>1, <2>2, <2>3, PrewarmStep
  <1> QED
    BY <1>3, <1>4, <1>5, <1>6

\* The upload succeeds, fails, or succeeds unknown to the replica.
LEMMA PutObjectStep ==
  ASSUME IInv, NEW r \in Replica, PutObject(r)
  PROVE  IInv'
  <1> DEFINE t == warm[r]
  <1>1. /\ t \in Warm /\ t.obj \in Object /\ t.pc = "put"
        /\ t.errs \in BOOLEAN /\ t.skipped \in BOOLEAN
    BY DEF IInv, TypeOK, Warm, PutObject
  <1>2. t.file \in Image
    BY <1>1 DEF IInv, UploadsItsFile, configured, Warm
  <1>3. PICK result \in {"ok", "error", "unsure"} :
          /\ WarmCall(r, result)
          /\ store' = IF result = "error" THEN store
                      ELSE [store EXCEPT ![warm[r].obj] = warm[r].file]
          /\ warm' = [warm EXCEPT ![r] = Advance(warm[r], result # "ok", FALSE)]
    BY DEF PutObject
  <1>4. faults' \in 0 .. MaxFaults /\ get' = get /\ store \in [Object -> Content]
    BY <1>3, WarmCallBound DEF IInv, TypeOK, PutObject
  <1>5. /\ store' \in [Object -> Content]
        /\ \A o \in Object : store[o] \in Image => store'[o] \in Image
        /\ result # "error" => store'[t.obj] \in Image
    BY <1>1, <1>2, <1>3, <1>4 DEF Content
  <1> DEFINE n == Advance(t, result # "ok", FALSE)
  <1>6. /\ n \in Warm /\ n.file = t.file
        /\ (t.errs \/ result # "ok" => n.errs) /\ (t.skipped => n.skipped)
        /\ \A o \in Object : n.pc = "up" \/ o < n.obj => o = t.obj \/ o < t.obj
    <2>1. PICK err \in BOOLEAN : (result # "ok" => err) /\ n = Advance(t, err, FALSE)
      OBVIOUS
    <2> HIDE DEF n, t
    <2> QED
      BY <1>1, <2>1, AdvanceSound
  <1>7. warm' = [warm EXCEPT ![r] = n]
    BY <1>3
  <1>8. \A o \in Object : n.pc = "up" \/ o < n.obj =>
            o < t.obj \/ n.errs \/ store'[o] \in Image
    BY <1>5, <1>6
  <1> HIDE DEF n
  <1> QED
    BY <1>1, <1>4, <1>5, <1>6, <1>7, <1>8, PrewarmStep

\* The end of the prewarm's time only marks the replica.
LEMMA TimeoutStep ==
  ASSUME IInv, NEW r \in Replica, PrewarmTimesOut(r)
  PROVE  IInv'
  <1> DEFINE t == warm[r]
             n == [t EXCEPT !.late = TRUE]
  <1>1. t \in Warm /\ t.pc # "up" /\ warm' = [warm EXCEPT ![r] = n]
    BY DEF IInv, TypeOK, PrewarmTimesOut
  <1>2. /\ n \in Warm /\ n.file = t.file /\ n.skipped = t.skipped /\ n.errs = t.errs
        /\ n.pc = t.pc /\ n.obj = t.obj
    BY <1>1 DEF Warm
  <1>3. /\ store' = store /\ get' = get /\ faults' \in 0 .. MaxFaults
        /\ store \in [Object -> Content]
    BY DEF IInv, TypeOK, PrewarmTimesOut
  <1> HIDE DEF n
  <1> QED
    BY <1>1, <1>2, <1>3, PrewarmStep

\* A replica that starts again is past no variant, and its responses are broken.
LEMMA RestartStep ==
  ASSUME IInv, NEW r \in Replica, Restart(r)
  PROVE  IInv'
  <1>1. PICK f \in Image \cup {NoFile} : warm' = [warm EXCEPT ![r] = newAvatarPlaceholder(f)]
    BY DEF Restart
  <1>2. /\ warm \in [Replica -> Warm] /\ get \in [Reader -> Get]
        /\ store' = store /\ faults' \in 0 .. MaxFaults
    BY FaultBound DEF IInv, TypeOK, Restart
  <1>3. /\ \A q \in Replica \ {r} : warm'[q] = warm[q]
        /\ warm'[r] \in Warm
        /\ warm'[r].obj = 1
        /\ warm'[r].pc = (IF warm'[r].file = NoFile THEN "up" ELSE "stat")
    BY <1>1, <1>2, StartSound
  <1>4. \A g \in Reader : \/ get'[g] = get[g] /\ (get[g].at # r \/ get[g].pc # "stream")
                          \/ get'[g] = [get[g] EXCEPT !.pc = "broken"]
    BY DEF Restart
  <1>5. \A g \in Reader :
            [get[g] EXCEPT !.pc = "broken"] \in Get /\ [get[g] EXCEPT !.pc = "broken"].pc = "broken"
    BY <1>2 DEF Get
  <1>6. TypeOK'
    <2>1. get' \in [Reader -> Get]
      BY <1>2, <1>4, <1>5 DEF Restart
    <2>2. warm' \in [Replica -> Warm]
      BY <1>1, <1>2, <1>3
    <2> QED
      BY <1>2, <2>1, <2>2 DEF IInv, TypeOK
  <1>7. UploadsItsFile'
    BY <1>3 DEF IInv, UploadsItsFile, configured
  <1>8. ASSUME NEW q \in Replica, NEW o \in Object, Past(q, o)', Unharmed(q)'
        PROVE  store'[o] \in Image
    <2>1. q # r
      BY <1>3, <1>8, ObjectsAssumption DEF Past, Unharmed, configured, Object
    <2> QED
      BY <1>2, <1>3, <1>8, <2>1 DEF IInv, PastIsStored, Past, Unharmed, configured
  <1>9. PastIsStored'
    BY <1>8 DEF PastIsStored
  <1>10. ASSUME NEW g \in Reader, get'[g].pc = "stream"
         PROVE  get'[g] = get[g] /\ get[g].at \in Replica \ {r}
    BY <1>2, <1>4, <1>5, <1>10 DEF Get
  <1>11. StreamsWhenUp' /\ StreamsNeverBlank'
    BY <1>3, <1>10 DEF IInv, StreamsWhenUp, StreamsNeverBlank, Clean, Unharmed, configured
  <1> QED
    BY <1>6, <1>7, <1>9, <1>11 DEF IInv

\* A response begins only at a replica that is up, with the length of an object.
LEMMA GetStep ==
  ASSUME IInv, NEW g \in Reader, buildPayload(g) \/ streamImagePayload(g)
  PROVE  IInv'
  <1>1. /\ get \in [Reader -> Get] /\ store \in [Object -> Content]
        /\ warm \in [Replica -> Warm] /\ faults \in 0 .. MaxFaults
        /\ get[g].at \in Replica /\ get[g].obj \in Object
        /\ store' = store /\ warm' = warm
    BY DEF IInv, TypeOK, Get, buildPayload, streamImagePayload
  <1>2. faults' \in 0 .. MaxFaults
    BY <1>1, FaultBound DEF IInv, buildPayload, streamImagePayload
  <1>3. /\ get' \in [Reader -> Get]
        /\ \A h \in Reader \ {g} : get'[h] = get[h]
        /\ get'[g].at = get[g].at
        /\ get'[g].pc = "stream" =>
              warm[get[g].at].pc = "up" /\ get'[g].size = store[get[g].obj]
    <2>1. CASE buildPayload(g)
      <3>1. ASSUME configured(get[g].at) PROVE warm[get[g].at].file \in Content
        BY <1>1, <3>1 DEF configured, Warm, Content
      <3> QED
        BY <1>1, <2>1, <3>1 DEF buildPayload, Get
    <2>2. CASE streamImagePayload(g)
      BY <1>1, <2>2 DEF streamImagePayload, Get
    <2> QED
      BY <2>1, <2>2
  <1>4. TypeOK'
    BY <1>1, <1>2, <1>3 DEF TypeOK
  <1>5. UploadsItsFile' /\ PastIsStored'
    BY <1>1 DEF IInv, UploadsItsFile, PastIsStored, Past, Unharmed, configured
  <1>6. StreamsWhenUp'
    BY <1>1, <1>3 DEF IInv, StreamsWhenUp
  <1>7. ASSUME get'[g].pc = "stream", Clean(get[g].at)
        PROVE  get'[g].size \in Image
    BY <1>1, <1>3, <1>7 DEF IInv, PastIsStored, Past, Clean
  <1>8. StreamsNeverBlank'
    BY <1>1, <1>3, <1>7 DEF IInv, StreamsNeverBlank, Clean, Unharmed, configured
  <1> QED
    BY <1>4, <1>5, <1>6, <1>8 DEF IInv

\* No replica is past a variant without a failure unless the bucket has it:
\* shouldUpload, the uploads, timeouts, restarts and reads keep it so.
THEOREM Invariant == Spec => []IInv
  <1>1. IInv /\ [Next]_vars => IInv'
    <2> SUFFICES ASSUME IInv, [Next]_vars PROVE IInv'
      OBVIOUS
    <2>1. CASE UNCHANGED vars
      BY <2>1 DEF vars, IInv, TypeOK, UploadsItsFile, PastIsStored, StreamsWhenUp,
         StreamsNeverBlank, Past, Unharmed, Clean, configured
    <2>2. ASSUME NEW r \in Replica, WarmStep(r) \/ PrewarmTimesOut(r) \/ Restart(r)
          PROVE  IInv'
      BY <2>2, ShouldUploadStep, PutObjectStep, TimeoutStep, RestartStep DEF WarmStep
    <2>3. ASSUME NEW g \in Reader, buildPayload(g) \/ streamImagePayload(g)
          PROVE  IInv'
      BY <2>3, GetStep
    <2> QED
      BY <2>1, <2>2, <2>3 DEF Next
  <1> QED
    BY <1>1, InitIInv, PTL DEF Spec

\* Every variable of the prewarm keeps its type.
THEOREM TypeCorrect == Spec => []TypeOK
  <1>1. IInv => TypeOK
    BY DEF IInv
  <1> QED
    BY <1>1, Invariant, PTL

\* What EnsurePlaceholderInS3 promises, when no stat fails: every variant is in
\* the bucket and stays there, whatever other replicas do.
THEOREM PrewarmStores == Spec => []CleanPrewarmStores
  <1>1. IInv => CleanPrewarmStores
    BY DEF IInv, PastIsStored, Past, CleanPrewarmStores, Clean
  <1> QED
    BY <1>1, Invariant, PTL

\* No response of a replica with a clean prewarm announces a zero-byte object.
THEOREM NoBlankResponse == Spec => []StreamsNeverBlank
  <1>1. IInv => StreamsNeverBlank
    BY DEF IInv
  <1> QED
    BY <1>1, Invariant, PTL

LEMMA StoredStays ==
  ASSUME IInv, [Next]_vars, NEW o \in Object, store[o] \in Image
  PROVE  store'[o] \in Image
  <1>1. ASSUME NEW r \in Replica, PutObject(r) PROVE store'[o] \in Image
    <2>1. warm[r].file \in Image
      BY <1>1 DEF IInv, TypeOK, UploadsItsFile, configured, Warm, PutObject
    <2>2. store' = store \/ store' = [store EXCEPT ![warm[r].obj] = warm[r].file]
      BY <1>1 DEF PutObject
    <2> QED
      BY <2>1, <2>2 DEF IInv, TypeOK
  <1>2. ASSUME NEW r \in Replica, shouldUpload(r) \/ PrewarmTimesOut(r) \/ Restart(r)
        PROVE  store' = store
    BY <1>2 DEF shouldUpload, PrewarmTimesOut, Restart
  <1>3. ASSUME NEW g \in Reader, buildPayload(g) \/ streamImagePayload(g)
        PROVE  store' = store
    BY <1>3 DEF buildPayload, streamImagePayload
  <1> QED
    BY <1>1, <1>2, <1>3 DEF Next, WarmStep, vars

\* One clean prewarm is enough: what it found or put in the bucket stays whole,
\* also after that replica is gone and when every later prewarm fails halfway.
THEOREM PrewarmedForGood ==
  ASSUME NEW r \in Replica
  PROVE  Spec => [](Clean(r) => [](\A o \in Object : store[o] \in Image))
  <1>1. IInv /\ [Next]_vars /\ (\A o \in Object : store[o] \in Image)
            => (\A o \in Object : store[o] \in Image)'
    BY StoredStays
  <1>2. IInv /\ Clean(r) => \A o \in Object : store[o] \in Image
    BY DEF IInv, PastIsStored, Past, Clean
  <1> QED
    BY <1>1, <1>2, Invariant, PTL DEF Spec

===============================================================================
