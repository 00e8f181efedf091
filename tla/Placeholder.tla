----------------------------- MODULE Placeholder -----------------------------
(***************************************************************************)
(* The default placeholder (internal/usecase/avatar_placeholder.go).  Every *)
(* server replica uploads the variants of its placeholder file before it   *)
(* takes traffic (ensureInS3, the prewarm), several of them into the same  *)
(* bucket; a GET for a user without an avatar is served from the bucket,   *)
(* or rendered in memory when the bucket does not answer (buildPayload).   *)
(***************************************************************************)
EXTENDS Naturals

CONSTANTS
    Replica,    \* server processes
    Reader,     \* GETs, one request each
    Image,      \* contents of placeholder files
    NoFile,     \* no file configured, or one that could not be used
    Objects,    \* variants of a placeholder: the original and the thumbnails
    FaultKinds, \* the faults that may happen
    MaxFaults   \* how many of them happen in one behaviour

ASSUME ObjectsAssumption == Objects \in Nat \ {0}
ASSUME ImageAssumption == NoFile \notin Image /\ {"absent", "empty"} \cap Image = {}
ASSUME MaxFaultsAssumption == MaxFaults \in Nat

VARIABLES
    store,      \* what the bucket has under the key of each variant
    warm,       \* the startup of each replica
    get,        \* the requests
    faults      \* faults that have happened

vars == <<store, warm, get, faults>>

\* In the order in which ensureInS3 visits them: the original is the first.
Object == 1 .. Objects

Content == {"absent", "empty"} \cup Image

\* obj: the variant in work.  errs: an upload failed.  skipped: a stat failed.
\* late: the 30 s of the prewarm are over.
Warm == [pc : {"stat", "put", "up"}, file : Image \cup {NoFile}, obj : Object,
         errs : BOOLEAN, skipped : BOOLEAN, late : BOOLEAN]

\* size: the length announced to the client, as the content it belongs to.
Get == [pc : {"idle", "stream", "served", "blank", "broken", "notFound"},
        at : Replica, obj : Object, size : Content]

TypeOK ==
    /\ store \in [Object -> Content]
    /\ warm \in [Replica -> Warm]
    /\ get \in [Reader -> Get]
    /\ faults \in 0 .. MaxFaults

configured(r) == warm[r].file # NoFile

\* Mutant of newAvatarPlaceholder: a replica without a file prewarms as well.
newPlaceholderUnchecked(file) ==
    [pc |-> "stat", file |-> file, obj |-> 1,
     errs |-> FALSE, skipped |-> FALSE, late |-> FALSE]

newAvatarPlaceholder(file) ==
    [pc |-> IF file = NoFile THEN "up" ELSE "stat", file |-> file, obj |-> 1,
     errs |-> FALSE, skipped |-> FALSE, late |-> FALSE]

Init ==
    /\ store \in [Object -> Content]
    /\ warm \in [Replica -> {newAvatarPlaceholder(f) : f \in Image \cup {NoFile}}]
    /\ get \in [Reader -> [pc : {"idle"}, at : Replica, obj : Object, size : {"absent"}]]
    /\ faults = 0

-------------------------------------------------------------------------------

Fault(kind) ==
    /\ kind \in FaultKinds
    /\ faults < MaxFaults
    /\ faults' = faults + 1

\* A call of the prewarm: after its timeout it can only fail.
WarmCall(r, result) ==
    \/ result = "ok" /\ ~warm[r].late /\ UNCHANGED faults
    \/ result = "error" /\ warm[r].late /\ UNCHANGED faults
    \/ result = "error" /\ ~warm[r].late /\ Fault("s3")
    \/ result = "unsure" /\ Fault("unsure")

\* On to the next variant, whatever became of this one.
Advance(t, err, skip) ==
    [t EXCEPT !.pc = IF t.obj = Objects THEN "up" ELSE "stat",
              !.obj = IF t.obj = Objects THEN @ ELSE @ + 1,
              !.errs = @ \/ err,
              !.skipped = @ \/ skip]

\* Mutant of Missing: an object that is there is taken to be complete.
MissingKey(content) == content = "absent"

Missing(content) == content \in {"absent", "empty"}

shouldUpload(r) ==
    /\ warm[r].pc = "stat"
    /\ \E result \in {"ok", "error"} :
         /\ WarmCall(r, result)
         /\ warm' = [warm EXCEPT ![r] =
                CASE result = "error" -> Advance(warm[r], FALSE, TRUE)
                  [] result = "ok" /\ Missing(store[warm[r].obj]) -> [@ EXCEPT !.pc = "put"]
                  [] OTHER -> Advance(warm[r], FALSE, FALSE)]
    /\ UNCHANGED <<store, get>>

PutObject(r) ==
    /\ warm[r].pc = "put"
    /\ \E result \in {"ok", "error", "unsure"} :
         /\ WarmCall(r, result)
         /\ store' = IF result = "error" THEN store
                     ELSE [store EXCEPT ![warm[r].obj] = warm[r].file]
         /\ warm' = [warm EXCEPT ![r] = Advance(warm[r], result # "ok", FALSE)]
    /\ UNCHANGED get

\* Mutant of PrewarmTimesOut: the prewarm runs under the context of the process.
PrewarmUnbounded(r) == FALSE /\ UNCHANGED vars

PrewarmTimesOut(r) ==
    /\ warm[r].pc # "up"
    /\ ~warm[r].late
    /\ warm' = [warm EXCEPT ![r].late = TRUE]
    /\ UNCHANGED <<store, get, faults>>

\* A replica dies, or is replaced by one with another file, at any time.
Restart(r) ==
    /\ Fault("restart")
    /\ \E f \in Image \cup {NoFile} :
         warm' = [warm EXCEPT ![r] = newAvatarPlaceholder(f)]
    /\ get' = [g \in Reader |-> IF get[g].at = r /\ get[g].pc = "stream"
                                THEN [get[g] EXCEPT !.pc = "broken"] ELSE get[g]]
    /\ UNCHANGED store

-------------------------------------------------------------------------------

\* The object is found (StatObject announces its length), or the variant is
\* rendered in memory.
buildPayload(g) ==
    LET r == get[g].at IN
    /\ get[g].pc = "idle"
    /\ warm[r].pc = "up"
    /\ \/ /\ ~configured(r)
          /\ get' = [get EXCEPT ![g].pc = "notFound"]
          /\ UNCHANGED faults
       \/ /\ configured(r)
          /\ store[get[g].obj] # "absent"
          /\ get' = [get EXCEPT ![g].pc = "stream", ![g].size = store[get[g].obj]]
          /\ UNCHANGED faults
       \/ /\ configured(r)
          /\ \/ store[get[g].obj] = "absent" /\ UNCHANGED faults
             \/ Fault("s3")
          /\ get' = [get EXCEPT ![g].pc = "served", ![g].size = warm[r].file]
    /\ UNCHANGED <<store, warm>>

\* The body must have the announced length.
streamImagePayload(g) ==
    /\ get[g].pc = "stream"
    /\ \/ /\ get' = [get EXCEPT ![g].pc =
                CASE get[g].size = "empty" -> "blank"
                  [] get[g].size = store[get[g].obj] -> "served"
                  [] OTHER -> "broken"]
          /\ UNCHANGED faults
       \/ /\ Fault("s3")
          /\ get' = [get EXCEPT ![g].pc = "broken"]
    /\ UNCHANGED <<store, warm>>

-------------------------------------------------------------------------------

WarmStep(r) == shouldUpload(r) \/ PutObject(r)

Next ==
    \/ \E r \in Replica : WarmStep(r) \/ PrewarmTimesOut(r) \/ Restart(r)
    \/ \E g \in Reader : buildPayload(g) \/ streamImagePayload(g)

Spec == Init /\ [][Next]_vars

\* S3 may hang: a call is only sure to return once its context has ended.
Fairness ==
    \A r \in Replica :
        /\ WF_vars(PrewarmTimesOut(r))
        /\ WF_vars(warm[r].late /\ WarmStep(r))

FairSpec == Spec /\ Fairness

-------------------------------------------------------------------------------
(* Properties *)

\* The prewarm of r has gone well so far: no upload and no stat has failed.
Unharmed(r) == configured(r) /\ ~warm[r].errs /\ ~warm[r].skipped

\* ensureInS3 returned nil, and no stat failed on the way.
Clean(r) == warm[r].pc = "up" /\ Unharmed(r)

\* After a clean prewarm every variant is in the bucket and not empty, whatever
\* the other replicas upload, leave half done or overwrite, then and later
\* (EnsurePlaceholderInS3: missing and zero-byte objects are uploaded).
CleanPrewarmStores ==
    \A r \in Replica : Clean(r) => \A o \in Object : store[o] \in Image

\* No GET at a replica with a clean prewarm answers with an empty image: what
\* StatObject announced is never the length of a zero-byte object.
StreamsNeverBlank ==
    \A g \in Reader :
        get[g].pc = "stream" /\ Clean(get[g].at) => get[g].size \in Image

\* Every prewarm ends, although S3 may hang (placeholderPrewarmTimeout).  Of what
\* comes before it this says nothing: ensureBucket asks the same S3 under main's
\* context, without that timeout.
PrewarmEnds == \A r \in Replica : <>(warm[r].pc = "up")

-------------------------------------------------------------------------------
(* The inductive invariant behind CleanPrewarmStores.                       *)

\* The prewarm of r is past o.
Past(r, o) == warm[r].pc = "up" \/ o < warm[r].obj

PastIsStored ==
    \A r \in Replica, o \in Object :
        Past(r, o) /\ Unharmed(r) => store[o] \in Image

\* Only a replica with a file has something to upload.
UploadsItsFile == \A r \in Replica : warm[r].pc # "up" => configured(r)

\* No response is under way from a replica that is still starting.
StreamsWhenUp == \A g \in Reader : get[g].pc = "stream" => warm[get[g].at].pc = "up"

IInv ==
    /\ TypeOK
    /\ UploadsItsFile
    /\ PastIsStored
    /\ StreamsWhenUp
    /\ StreamsNeverBlank

===============================================================================
