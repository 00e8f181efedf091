------------------------------ MODULE ImageRead ------------------------------
(***************************************************************************)
(* GET of an avatar's image (AvatarService.GetImage), while AvatarLifecycle *)
(* goes on: the row is read first, then the objects it leads to, and the   *)
(* worker, its rollback or a delete may come in between.                   *)
(***************************************************************************)
EXTENDS AvatarLifecycle

CONSTANT Reader   \* image requests, one each

VARIABLE read     \* where each of them is

readVars == <<vars, read>>

\* wanted: the original or a size.  convert: an output format was asked for.
\* Streaming: the response has begun, with the length Stat gave.
ReadPc == {"idle", "stat", "stream", "fetch",
           "served", "truncated", "notFound", "error"}

Request == [pc : ReadPc, av : Avatar, wanted : Key, convert : BOOLEAN]

\* Only what is stored in the format asked for is streamed.
ReadTypeOK ==
    /\ read \in [Reader -> Request]
    /\ \A r \in Reader :
          read[r].pc \in {"stat", "stream", "truncated"} =>
              read[r].wanted \in Thumb \/ ~read[r].convert

ReadInit ==
    /\ Init
    /\ read \in [Reader -> [pc : {"idle"}, av : Avatar, wanted : Key, convert : BOOLEAN]]

Goes(r, pc) == read' = [read EXCEPT ![r].pc = pc]

\* Mutant of HasStoredImage: the original is streamed in whatever format it has.
HasStoredAnyFormat(r, q) ==
    \/ q.wanted \in Thumb /\ r.status = "completed" /\ q.wanted \in r.thumbs
    \/ q.wanted = Original

\* The row lists the wanted size, or the original is wanted as it is.
HasStoredImage(r, q) ==
    \/ q.wanted \in Thumb /\ r.status = "completed" /\ q.wanted \in r.thumbs
    \/ q.wanted = Original /\ ~q.convert

GetImage(r) ==
    /\ read[r].pc = "idle"
    /\ \E result \in ReadResult :
         LET a == read[r].av IN
         /\ Call("db", result)
         /\ Goes(r, CASE result = "error" -> "error"
                      [] ~Live(row[a]) -> "notFound"
                      [] HasStoredImage(row[a], read[r]) -> "stat"
                      [] OTHER -> "fetch")
    /\ UNCHANGED <<row, s3, serverVars, queueVars, workerVars>>

\* A miss and a failure both lead to the original.  GetObject sends nothing
\* before the first read of the body, so it cannot miss.
tryStoredThumbnail(r) ==
    /\ read[r].pc = "stat"
    /\ \E result \in ReadResult :
         /\ Call("s3", result)
         /\ Goes(r, IF result = "ok" /\ read[r].wanted \in s3[read[r].av]
                    THEN "stream" ELSE "fetch")
    /\ UNCHANGED <<row, s3, serverVars, queueVars, workerVars>>

streamImagePayload(r) ==
    /\ read[r].pc = "stream"
    /\ \E result \in ReadResult :
         /\ Call("s3", result)
         /\ Goes(r, IF result = "ok" /\ read[r].wanted \in s3[read[r].av]
                    THEN "served" ELSE "truncated")
    /\ UNCHANGED <<row, s3, serverVars, queueVars, workerVars>>

\* renderAvatarVariant gives an image that does not decode back as it is, unless
\* it has to be converted.
Renders(a, convert) == a \notin Broken \/ ~convert

buildFromOriginal(r) ==
    /\ read[r].pc = "fetch"
    /\ \E result \in ReadResult :
         LET a == read[r].av IN
         /\ Call("s3", result)
         /\ Goes(r, IF result = "ok" /\ Original \in s3[a] /\ Renders(a, read[r].convert)
                    THEN "served" ELSE "error")
    /\ UNCHANGED <<row, s3, serverVars, queueVars, workerVars>>

ReadStep(r) ==
    \/ GetImage(r)
    \/ tryStoredThumbnail(r)
    \/ streamImagePayload(r)
    \/ buildFromOriginal(r)

ReadNext ==
    \/ Next /\ UNCHANGED read
    \/ \E r \in Reader : ReadStep(r)

ReadSpec == ReadInit /\ [][ReadNext]_readVars

-------------------------------------------------------------------------------
(* Properties *)

Broke == {"error", "truncated"}

\* A GET of an acknowledged avatar gets an error, or a response that breaks off
\* after its headers, only because the call it makes fails, because the avatar
\* has been deleted meanwhile, or because it asks to convert what does not
\* decode: the worker, its rollbacks and the rollbacks of delete requests never
\* take away the object a reader was led to.
ReadFailsOnlyIfDeleted ==
    [][\A r \in Reader : read[r].pc \notin Broke /\ read'[r].pc \in Broke =>
          LET a == read[r].av IN
          \/ faults' # faults
          \/ ~Acked(a)
          \/ ~Live(row[a])
          \/ a \in Broken /\ read[r].convert]_readVars

-------------------------------------------------------------------------------
(* The invariant behind ReadFailsOnlyIfDeleted.                             *)

\* Who was led to a thumbnail was led there by a row that stays completed.
LedByCompletedRow ==
    \A r \in Reader :
        read[r].pc \in {"stat", "stream"} /\ read[r].wanted \in Thumb =>
            row[read[r].av].status = "completed"

===============================================================================
