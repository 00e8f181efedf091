------------------------------ MODULE Processes ------------------------------
(***************************************************************************)
(* What the two programs, cmd/server and cmd/worker, have in common: the   *)
(* order in which a process opens what it needs and closes it again, on    *)
(* every return path, and the things its start-up changes outside of it:   *)
(* the bucket and the queue topology.                                      *)
(*                                                                         *)
(* A process has one main goroutine; phase says where it is.  The close*   *)
(* phases stand for deferred calls and for the clean-up in error returns:  *)
(* a failure jumps to the first of them that is due.                       *)
(***************************************************************************)
EXTENDS QueueTopology

CONSTANTS
    Server,     \* server replicas
    Worker,     \* worker replicas
    Request,    \* uploads and deletes that clients may send
    OpOf,       \* which of the two a request is
    Configs,    \* the configurations the processes may be started with
    Providers,  \* telemetry providers that are enabled
    FaultKinds, \* the faults that may happen
    MaxFaults   \* how many of them happen in one behaviour

Process == Server \cup Worker

ASSUME ProcessAssumption ==
    /\ Server \cap Worker = {}
    /\ OpOf \in [Request -> Operation]
    /\ Providers \in Nat
    /\ MaxFaults \in Nat
    /\ \A c \in Configs : c.delays \in Delays

VARIABLES
    config,     \* the configuration file, the same for all processes
    phase,      \* where main is
    opened,     \* what the process holds open
    providers,  \* telemetry providers that are running
    step,       \* the next call of DeclareTopology
    signalled,  \* SIGTERM has arrived: main's context has ended
    bucket,     \* the bucket exists
    declared,   \* the declarations the broker has accepted
    queue,      \* the messages in the queues
    fate,       \* what has become of the messages that left the queues
    faults      \* the faults that have happened so far, in their order

processVars == <<config, phase, opened, providers, step, signalled>>
brokerVars == <<declared, queue, fate>>

StartPhase == {"telemetry", "pool", "bucket", "makeBucket", "dial", "health",
               "uploadCh", "declare", "deleteCh", "consume", "prewarm"}
RunPhase == {"serving", "consuming"}
ClosePhase == {"closeDeleteCh", "closeUploadCh", "closeSession", "closePool",
               "closeTelemetry"}
Phase == StartPhase \cup RunPhase \cup ClosePhase \cup {"down"}

\* session is an AMQP connection (with its channel, in the server); lateSession
\* is one that a request dials after App.Close has closed the publisher.  The
\* dead ones are lost, but IsClosed does not know that yet.
Resource == {"pool", "listener", "uploadCh", "deleteCh", "session", "deadSession",
             "lateSession", "deadLateSession"}

Early == {"session", "deadSession"}
Late == {"lateSession", "deadLateSession"}

\* An event with the value of its x-retry-count header.
Message == [req : Request, retry : 0 .. MaxRetries]

\* A message in a queue.  No message is ever in two: a request publishes once,
\* and a delivery goes back only when its channel is gone.
Copy == [in : Queue, msg : Message]

\* Handled by a worker, dropped by the broker, rejected without requeue, or
\* written to a session that was gone.
Fate == [msg : Message, how : {"handled", "unrouted", "rejected", "lost"}]

FaultLog == {log \in Seq(FaultKinds) : Len(log) <= MaxFaults}

Goto(p, next) == phase' = [phase EXCEPT ![p] = next]
Open(p, r) == opened' = [opened EXCEPT ![p] = @ \cup {r}]
Close(p, rs) == opened' = [opened EXCEPT ![p] = @ \ rs]

Fault(kind) ==
    /\ kind \in FaultKinds
    /\ Len(faults) < MaxFaults
    /\ faults' = Append(faults, kind)

Happened(kind) == \E i \in DOMAIN faults : faults[i] = kind

\* A call under main's context, which fails for certain once that has ended.
Call(p, ok) ==
    \/ ok /\ ~signalled[p] /\ UNCHANGED faults
    \/ ~ok /\ signalled[p] /\ UNCHANGED faults
    \/ ~ok /\ ~signalled[p] /\ Fault("startup")

\* A call on the AMQP session.
SessionCall(p, ok) ==
    \/ ok /\ "session" \in opened[p] /\ UNCHANGED faults
    \/ ~ok /\ "session" \notin opened[p] /\ UNCHANGED faults
    \/ ~ok /\ "session" \in opened[p] /\ Fault("startup")

-----------------------------------------------------------------------------
(* Configuration.                                                          *)

DefaultPresets ==
    LET sizes == <<64, 128, 256, 512, 100, 300>>
    IN  [i \in 1 .. 6 |-> [label |-> sizes[i], pixels |-> sizes[i]]]

\* Normalize runs in config.Load, so that Catalog never sees an empty list.
Normalize(presets) == IF presets = <<>> THEN DefaultPresets ELSE presets

EmptyLabel == 0

\* Catalog refuses the presets or keeps their order; a label is a number here.
Catalog(presets) ==
    /\ presets # <<>>
    /\ \A i \in DOMAIN presets : presets[i].label # EmptyLabel /\ presets[i].pixels > 0
    /\ \A i, j \in DOMAIN presets : presets[i].label = presets[j].label => i = j

CatalogOK == Catalog(Normalize(config.presets))

-----------------------------------------------------------------------------
(* Opening.                                                                *)

\* Bootstrap starts the enabled providers one by one.  When one cannot be built
\* it shuts down the others and main returns.
OpenProvider(p) ==
    /\ phase[p] = "telemetry"
    /\ providers[p] < Providers
    /\ \/ /\ providers' = [providers EXCEPT ![p] = @ + 1]
          /\ UNCHANGED <<phase, faults>>
       \/ /\ Fault("startup")
          /\ Goto(p, "closeTelemetry")
          /\ UNCHANGED providers
    /\ UNCHANGED <<config, opened, step, signalled, bucket, brokerVars>>

Bootstrapped(p) ==
    /\ phase[p] = "telemetry"
    /\ providers[p] = Providers
    /\ Goto(p, "pool")
    /\ UNCHANGED <<config, opened, providers, step, signalled, bucket,
                   brokerVars, faults>>

\* postgres.New: a pool that cannot be pinged is closed before it returns.
OpenPool(p) ==
    /\ phase[p] = "pool"
    /\ \E ok \in BOOLEAN :
         /\ Call(p, ok)
         /\ Goto(p, IF ok THEN "bucket" ELSE "closeTelemetry")
         /\ IF ok THEN Open(p, "pool") ELSE UNCHANGED opened
    /\ UNCHANGED <<config, providers, step, signalled, bucket, brokerVars>>

\* The worker builds the catalog before it dials, the server after.
AfterBucket(p) == IF p \in Worker /\ ~CatalogOK THEN "closePool" ELSE "dial"

\* Mutant of AfterCheck: the bucket is made without looking.
AfterNoCheck(p, ok) == IF ok THEN "makeBucket" ELSE "closePool"

AfterCheck(p, ok) ==
    CASE ~ok -> "closePool"
      [] ok /\ bucket -> AfterBucket(p)
      [] OTHER -> "makeBucket"

\* ensureBucket looks for the bucket ...
BucketExists(p) ==
    /\ phase[p] = "bucket"
    /\ \E ok \in BOOLEAN :
         /\ Call(p, ok)
         /\ Goto(p, AfterCheck(p, ok))
    /\ UNCHANGED <<config, opened, providers, step, signalled, bucket, brokerVars>>

\* ... and makes it.  The store refuses to make a bucket that exists, so that a
\* process that loses a race does not start.
MakeBucket(p) ==
    /\ phase[p] = "makeBucket"
    /\ \E ok \in BOOLEAN :
         /\ Call(p, ok)
         /\ Goto(p, IF ok /\ ~bucket THEN AfterBucket(p) ELSE "closePool")
         /\ bucket' = (bucket \/ ok)
    /\ UNCHANGED <<config, opened, providers, step, signalled, brokerVars>>

\* DialContext (and, in the server, Channel: a connection whose channel cannot
\* be opened is closed again).
Dial(p) ==
    /\ phase[p] = "dial"
    /\ \E ok \in BOOLEAN :
         /\ Call(p, ok)
         /\ Goto(p, CASE ~ok -> "closePool"
                      [] ok /\ p \in Server -> "declare"
                      [] OTHER -> "health")
         /\ IF ok THEN Open(p, "session") ELSE UNCHANGED opened
    /\ step' = [step EXCEPT ![p] = 1]
    /\ UNCHANGED <<config, providers, signalled, bucket, brokerVars>>

NextCall(p) == DeclareTopology(config.delays)[step[p]]

\* Mutant of TopologyDone: one call too few.
TopologyDoneEarly(p) == step[p] >= Len(DeclareTopology(config.delays))

TopologyDone(p) == step[p] > Len(DeclareTopology(config.delays))

\* The worker is left with its channel to close; connect closes the session.
DeclareFails(p) ==
    /\ Goto(p, IF p \in Server THEN "closePool" ELSE "closeUploadCh")
    /\ IF p \in Server THEN Close(p, Early) ELSE UNCHANGED opened
    /\ UNCHANGED <<step, declared>>

\* One call of DeclareTopology.
DeclareNext(p) ==
    /\ phase[p] = "declare"
    /\ ~TopologyDone(p)
    /\ LET d == NextCall(p) IN
         \/ /\ Skipped(config.delays, d)
            /\ step' = [step EXCEPT ![p] = @ + 1]
            /\ UNCHANGED <<phase, opened, declared, faults>>
         \/ /\ Rejected(config.delays, d)
            /\ DeclareFails(p)
            /\ UNCHANGED faults
         \/ /\ ~Skipped(config.delays, d)
            /\ ~Rejected(config.delays, d)
            /\ \E ok \in BOOLEAN :
                 /\ SessionCall(p, ok)
                 /\ IF ok THEN /\ declared' = declared \cup {d}
                               /\ step' = [step EXCEPT ![p] = @ + 1]
                               /\ UNCHANGED <<phase, opened>>
                          ELSE DeclareFails(p)
    /\ UNCHANGED <<config, providers, signalled, bucket, queue, fate>>

-----------------------------------------------------------------------------
(* Closing.                                                                *)

\* The providers are shut down in reverse order, each with a timeout.
CloseProvider(p) ==
    /\ phase[p] = "closeTelemetry"
    /\ providers[p] > 0
    /\ providers' = [providers EXCEPT ![p] = @ - 1]
    /\ UNCHANGED <<config, phase, opened, step, signalled, bucket, brokerVars, faults>>

\* pgxpool.Close hands out no more connections and waits for those in use.
ClosePool(p) ==
    /\ phase[p] = "closePool"
    /\ Goto(p, "closeTelemetry")
    /\ Close(p, {"pool"})
    /\ UNCHANGED <<config, providers, step, signalled, bucket, brokerVars, faults>>

-----------------------------------------------------------------------------
(* The world around a process.                                             *)

Signal(p) ==
    /\ phase[p] # "down"
    /\ ~signalled[p]
    /\ Fault("signal")
    /\ signalled' = [signalled EXCEPT ![p] = TRUE]
    /\ UNCHANGED <<config, phase, opened, providers, step, bucket, brokerVars>>

\* The orchestrator starts every process again, whatever its exit code.
Restart(p) ==
    /\ phase[p] = "down"
    /\ Goto(p, "telemetry")
    /\ opened' = [opened EXCEPT ![p] = {}]
    /\ signalled' = [signalled EXCEPT ![p] = FALSE]
    /\ step' = [step EXCEPT ![p] = 1]
    /\ UNCHANGED <<config, providers, bucket, brokerVars, faults>>

\* A publisher sends m to q, which may not be there; left is what the queues
\* hold without m.
Send(left, q, m) ==
    IF Reaches(declared, q)
    THEN queue' = left \cup {[in |-> q, msg |-> m]} /\ UNCHANGED fate
    ELSE queue' = left /\ fate' = fate \cup {[msg |-> m, how |-> "unrouted"]}

\* The TTL of a retry queue dead-letters a message to the main queue, through
\* the exchange.
RetryExpires(c) ==
    /\ c \in queue
    /\ c.in.kind = "retry"
    /\ Send(queue \ {c}, Main(c.in.op), c.msg)
    /\ UNCHANGED <<processVars, bucket, declared, faults>>

==============================================================================
