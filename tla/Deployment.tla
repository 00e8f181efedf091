----------------------------- MODULE Deployment -----------------------------
(***************************************************************************)
(* Server and worker processes together: they share the configuration, the *)
(* bucket, the broker and its queues, start in any order, fail, are told to *)
(* stop or die, and are started again.                                     *)
(***************************************************************************)
EXTENDS ServerProcess, WorkerProcess

vars == <<config, phase, opened, providers, step, signalled, bucket, declared,
          queue, fate, faults, at, pc, ready, failed, loop, msg>>

TypeOK ==
    /\ config \in Configs
    /\ phase \in [Process -> Phase]
    /\ opened \in [Process -> SUBSET Resource]
    /\ providers \in [Process -> 0 .. Providers]
    /\ step \in [Process -> Nat \ {0}]
    /\ signalled \in [Process -> BOOLEAN]
    /\ bucket \in BOOLEAN
    /\ declared \subseteq Declaration
    /\ queue \subseteq Copy
    /\ fate \subseteq Fate
    /\ faults \in FaultLog
    /\ at \in [Request -> Server \cup {NoServer}]
    /\ pc \in [Request -> RequestPc]
    /\ \A q \in Request : pc[q] # "idle" => at[q] \in Server
    /\ ready \in [Worker -> BOOLEAN]
    /\ failed \in [Worker -> BOOLEAN]
    /\ loop \in [Worker \X Operation -> {"off", "idle", "ended"} \cup Working]
    /\ msg \in [Worker \X Operation -> Message \cup {NoMessage}]
    /\ \A l \in Worker \X Operation : loop[l] \in Working => msg[l] # NoMessage

\* A new installation: no bucket, no queues, every process about to start.
Init ==
    /\ config \in Configs
    /\ phase = [p \in Process |-> "telemetry"]
    /\ opened = [p \in Process |-> {}]
    /\ providers = [p \in Process |-> 0]
    /\ step = [p \in Process |-> 1]
    /\ signalled = [p \in Process |-> FALSE]
    /\ bucket = FALSE
    /\ declared = {}
    /\ queue = {}
    /\ fate = {}
    /\ faults = <<>>
    /\ at = [q \in Request |-> NoServer]
    /\ pc = [q \in Request |-> "idle"]
    /\ ready = [w \in Worker |-> FALSE]
    /\ failed = [w \in Worker |-> FALSE]
    /\ loop = [l \in Worker \X Operation |-> "off"]
    /\ msg = [l \in Worker \X Operation |-> NoMessage]

\* What both programs do.
Starting(p) ==
    /\ \/ OpenProvider(p) \/ Bootstrapped(p) \/ OpenPool(p) \/ BucketExists(p)
       \/ MakeBucket(p) \/ Dial(p) \/ DeclareNext(p) \/ CloseProvider(p) \/ Restart(p)
    /\ UNCHANGED <<serverVars, workerVars>>

ServerMain(s) ==
    /\ \/ Connected(s) \/ Start(s) \/ Shutdown(s) \/ ClosePublisher(s)
       \/ ClosePostgres(s) \/ Exit(s)
    /\ UNCHANGED workerVars

\* Besides main: the goroutine that shuts the HTTP server down, the probes, and
\* the heartbeats.
ServerOther(s) == (DrainTimesOut(s) \/ GetHealth(s) \/ Notice(s)) /\ UNCHANGED workerVars

ServerFault(s) == (ServerCrash(s) \/ ServerDrop(s)) /\ UNCHANGED workerVars

NewRequest(s, q) == Accept(s, q) /\ UNCHANGED workerVars

Statement(q) == (Write(q) \/ Undo(q)) /\ UNCHANGED workerVars

Handling(q) == (Acquire(q) \/ Publish(q) \/ PublishBlindly(q)) /\ UNCHANGED workerVars

WorkerMain(w) ==
    /\ \/ ListenHealth(w) \/ OpenUploadChannel(w) \/ TopologyDeclared(w)
       \/ OpenDeleteChannel(w) \/ Consume(w) \/ Wait(w) \/ CloseApp(w) \/ Stop(w)
       \/ ClosePool(w) /\ UNCHANGED workerVars
       \/ \E op \in Operation : CloseChannel(w, op)
    /\ UNCHANGED serverVars

LoopStep(w, op) ==
    /\ \/ Receive(w, op) \/ LoopEnds(w, op) \/ JobDone(w, op) \/ JobFails(w, op)
       \/ op = "upload" /\ RollsBack(w)
    /\ UNCHANGED serverVars

\* Apart from LoopStep, because nothing makes it happen.
RollbackEnds(w) == RolledBack(w) /\ UNCHANGED serverVars

WorkerOther(w) == (Watch(w) \/ StopHealth(w)) /\ UNCHANGED serverVars

WorkerFault(w) ==
    /\ \/ WorkerCrash(w) \/ WorkerDrop(w)
       \/ \E op \in Operation : ChannelDies(w, op)
    /\ UNCHANGED serverVars

Sigterm(p) == Signal(p) /\ UNCHANGED <<serverVars, workerVars>>

Expiry(c) == RetryExpires(c) /\ UNCHANGED <<serverVars, workerVars>>

Next ==
    \/ \E p \in Process : Starting(p) \/ Sigterm(p)
    \/ \E s \in Server : ServerMain(s) \/ ServerOther(s) \/ ServerFault(s)
    \/ \E s \in Server, q \in Request : NewRequest(s, q)
    \/ \E q \in Request : Handling(q) \/ Statement(q)
    \/ \E w \in Worker : WorkerMain(w) \/ WorkerOther(w) \/ WorkerFault(w) \/ RollbackEnds(w)
    \/ \E w \in Worker, op \in Operation : LoopStep(w, op)
    \/ \E c \in queue : Expiry(c)

Spec == Init /\ [][Next]_vars

\* Goroutines run, the orchestrator restarts and probes, and the broker expires
\* retries.  A statement may never end: only DrainTimesOut gets rid of it.  Nor
\* may a rollback, which nothing gets rid of but the end of the process.
Fairness ==
    /\ \A s \in Server : /\ WF_vars(Starting(s) \/ ServerMain(s))
                         /\ WF_vars(ServerOther(s))
    /\ \A q \in Request : WF_vars(Handling(q))
    /\ \A w \in Worker : /\ WF_vars(Starting(w) \/ WorkerMain(w))
                         /\ WF_vars(WorkerOther(w))
    /\ \A w \in Worker, op \in Operation : WF_vars(LoopStep(w, op))
    /\ WF_vars(\E c \in queue : Expiry(c))

FairSpec == Spec /\ Fairness

-----------------------------------------------------------------------------
(* Properties.                                                             *)

\* A process that returns has closed what it opened, on whichever of its return
\* paths.  Two things escape: a session that a request dials after App.Close, and
\* the health listener of a worker that no signal stopped.
NothingLeftOpen ==
    \A p \in Process : phase[p] = "down" =>
        /\ providers[p] = 0
        /\ opened[p] \subseteq IF p \in Server THEN Late ELSE {"listener"}

\* A skipped retry queue: its delay is zero or less.
WithoutDelay(m) ==
    LET delays == config.delays[OpOf[m.req]]
    IN  m.retry \in 1 .. Len(delays) /\ delays[m.retry] <= 0

\* The broker drops a message only where a retry delay of zero or less left out
\* the queue that republishOrDLQ names: never an event from PublishJSON, never
\* one on its way to the DLQ or back from a retry queue.
DroppedOnlyWithoutDelay ==
    \A f \in fate : f.how = "unrouted" => WithoutDelay(f.msg)

Held(q) ==
    \E w \in Worker, op \in Operation :
        /\ loop[<<w, op>>] \in Working
        /\ Consumes(w, op)
        /\ msg[<<w, op>>].req = q

\* A worker's connection or channel is gone; the context of a handler has ended
\* before its job.
ConnectionCut == Happened("drop") \/ Happened("channel")
JobCut == ConnectionCut \/ Happened("signal") \/ Happened("timeout")

\* How an event may end other than handled, and what it takes: a server's session
\* that was lost unnoticed; a job whose context was over; a skipped queue.
Excused(f) ==
    \/ f.how = "lost" /\ Happened("serverDrop")
    \/ f.how = "rejected" /\ JobCut
    \/ f.how = "unrouted" /\ WithoutDelay(f.msg)

Finished(q) == \E f \in fate : f.msg.req = q /\ (f.how = "handled" \/ Excused(f))

\* The event of an answered request is in a queue or at a worker until a worker
\* has handled it, or until one of the three things of Excused has taken it:
\* without a lost session, a job cut short and a skipped queue, none is lost.
AnsweredIsKept ==
    \A q \in Request : pc[q] = "answered" =>
        \/ \E c \in queue : c.msg.req = q
        \/ Held(q)
        \/ Finished(q)

\* No job of a worker, cancelled or not, outlives the pool it writes to.
JobsKeepThePool ==
    \A w \in Worker, op \in Operation :
        loop[<<w, op>>] \in Working => "pool" \in opened[w]

\* The configuration is one the programs can start with.
CanStart ==
    /\ CatalogOK
    /\ \A op \in Operation : \A i \in DOMAIN config.delays[op] :
           config.delays[op][i] <= MaxTTL

ServerUp(s) == phase[s] = "serving" /\ StatusOK(s)

WorkerUp(w) ==
    Healthy(w) /\ \A op \in Operation : Consumes(w, op) /\ loop[<<w, op>>] # "ended"

\* Postgres and S3 answer the calls of a rollback at some point.
RollbacksEnd == \A w \in Worker : []<>(loop[<<w, "upload">>] \notin Undoing)

\* Whatever fails at start-up or later, and whoever wins the race for the
\* bucket, all processes end up working, unless a rollback hangs.
AllComeUp ==
    CanStart /\ RollbacksEnd =>
        <>[](/\ \A s \in Server : ServerUp(s)
             /\ \A w \in Worker : WorkerUp(w))

\* A server that is told to stop is gone at some point, even if a statement of a
\* request hangs.  A worker is, unless a rollback hangs: nothing cancels it, and
\* Run waits for it.
SignalledExits ==
    /\ \A s \in Server : signalled[s] ~> phase[s] = "down"
    /\ RollbacksEnd => \A w \in Worker : signalled[w] ~> phase[w] = "down"

\* A worker that has lost one of its two loops does not go on looking healthy,
\* unless a rollback hangs in the other.
HalfWorkerEnds ==
    RollbacksEnd =>
        \A w \in Worker :
            (Healthy(w) /\ \E op \in Operation : loop[<<w, op>>] = "ended") ~> ~Healthy(w)

Disposed(q) == Finished(q) \/ \E c \in queue : c.in.kind = "dlq" /\ c.msg.req = q

\* The event of an answered request is handled, ends in its DLQ, or is taken by
\* one of the three things of Excused, although workers stop, die and come back,
\* and retries go through the broker.  A rollback that hangs keeps it.
AnsweredIsSettled ==
    RollbacksEnd => \A q \in Request : pc[q] = "answered" ~> Disposed(q)

-----------------------------------------------------------------------------
(* The inductive invariant.                                                *)

SessionPhase == {"health", "uploadCh", "declare", "deleteCh", "consume", "consuming",
                 "closeDeleteCh", "closeUploadCh", "closeSession"}

\* What a process may hold open where it is.
HoldsWhatItOpened ==
    /\ \A p \in Process :
          /\ "pool" \in opened[p]
                <=> phase[p] \notin {"telemetry", "pool", "closeTelemetry", "down"}
          /\ phase[p] = "down" => providers[p] = 0
    /\ \A s \in Server :
          /\ opened[s] \subseteq {"pool"} \cup Early \cup Late
          /\ opened[s] \cap Early # {} =>
                phase[s] \in {"declare", "prewarm", "serving", "closeSession"}
          /\ opened[s] \cap Late # {} =>
                phase[s] \in {"closePool", "closeTelemetry", "down"}
    /\ \A w \in Worker :
          /\ opened[w] \subseteq {"pool", "listener", "session", "uploadCh", "deleteCh"}
          /\ "session" \in opened[w] => phase[w] \in SessionPhase
          /\ "uploadCh" \in opened[w] =>
                phase[w] \in SessionPhase \ {"health", "uploadCh", "closeSession"}
          /\ "deleteCh" \in opened[w] =>
                phase[w] \in {"consume", "consuming", "closeDeleteCh"}

LoopsRunWhileConsuming ==
    \A w \in Worker, op \in Operation :
        loop[<<w, op>>] \in {"idle"} \cup Working => phase[w] = "consuming"

\* Only a process that listens, or has not yet returned, has requests.
RequestsEndWithServer ==
    \A s \in Server : InFlight(s) # {} =>
        phase[s] \in {"serving", "closeSession", "closePool", "closeTelemetry"}

\* A message is counted within its list of delays, in a queue of its operation.
Counted(op, m) ==
    /\ m \in Message
    /\ op = OpOf[m.req]
    /\ m.retry <= Len(config.delays[op])

MessagesCounted ==
    /\ \A c \in queue : Counted(c.in.op, c.msg)
    /\ \A w \in Worker, op \in Operation :
          loop[<<w, op>>] \in Working => Counted(op, msg[<<w, op>>])

\* Calls of DeclareTopology that have been passed have been accepted.
DeclaredSoFar ==
    \A p \in Process : phase[p] \in {"health", "uploadCh", "declare"} =>
        \A i \in DOMAIN DeclareTopology(config.delays) :
            LET d == DeclareTopology(config.delays)[i]
            IN  i < step[p] /\ ~Skipped(config.delays, d) => d \in declared

\* Nothing is published before one process has declared the whole topology.
TopologyBeforeUse ==
    \/ Topology \subseteq declared
    \/ /\ \A p \in Process :
             phase[p] \notin {"prewarm", "serving", "deleteCh", "consume", "consuming"}
       /\ \A q \in Request : pc[q] \in {"idle", "answered", "failed", "cut"}
       /\ queue = {}

\* Where a worker has what it opened, unless it has lost it.
Needs(r) ==
    CASE r = "session"  -> {"health", "uploadCh", "declare", "deleteCh", "consume", "consuming"}
      [] r = "uploadCh" -> {"declare", "deleteCh", "consume", "consuming"}
      [] r = "deleteCh" -> {"consume", "consuming"}

\* What is gone, cut short or out of reach has its fault in the log.
FaultsExplain ==
    /\ \A p \in Process : signalled[p] => Happened("signal")
    /\ \A s \in Server : Dead(s) => Happened("serverDrop")
    /\ \A w \in Worker :
          /\ failed[w] => ConnectionCut
          /\ \A r \in {"session", "uploadCh", "deleteCh"} :
                phase[w] \in Needs(r) /\ r \notin opened[w] => ConnectionCut
          /\ loop[<<w, "upload">>] = "undoLate" => JobCut
    /\ \A f \in fate : f.how \in {"lost", "rejected"} => Excused(f)

IInv ==
    /\ HoldsWhatItOpened
    /\ LoopsRunWhileConsuming
    /\ RequestsEndWithServer
    /\ FaultsExplain
    /\ MessagesCounted
    /\ DeclaredSoFar
    /\ TopologyBeforeUse

==============================================================================
