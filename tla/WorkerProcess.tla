---------------------------- MODULE WorkerProcess ----------------------------
(***************************************************************************)
(* A worker replica: App.Run and Close, the two consumer loops, the        *)
(* watcher of the connection and the health server (internal/worker), with *)
(* cmd/worker around them.                                                 *)
(*                                                                         *)
(* The loops and the watcher are one errgroup: the first error ends the    *)
(* context of all, and Run returns when both loops have ended.             *)
(***************************************************************************)
EXTENDS Processes

CONSTANTS
    Poison,     \* requests whose job fails whenever it is tried
    NoMessage

ASSUME WorkerAssumption == Poison \subseteq Request /\ NoMessage \notin Message

VARIABLES
    ready,      \* App.ready
    failed,     \* the errgroup has an error
    loop,       \* what each consumer loop does
    msg         \* the delivery it handles

workerVars == <<ready, failed, loop, msg>>

Channel(op) == IF op = "upload" THEN "uploadCh" ELSE "deleteCh"

Consumes(w, op) == Channel(op) \in opened[w]

\* gctx has ended.
GroupDone(w) == signalled[w] \/ failed[w]

\* Healthy, which GET /health answers with.
Healthy(w) == "session" \in opened[w] /\ ready[w]

\* A loop that handles a delivery: its job runs, or an upload rolls back, in time
\* or after the context of the handler has ended.
Undoing == {"undo", "undoLate"}
Working == {"busy"} \cup Undoing

\* Mutant of Unacked: deliveries are acknowledged when they are received.
AutoAcked(w, ops) == {}

\* What the broker has delivered to w and has no answer for.
Unacked(w, ops) ==
    {[in |-> Main(op), msg |-> msg[<<w, op>>]] :
        op \in {o \in ops : loop[<<w, o>>] \in Working /\ Consumes(w, o)}}

\* Channels close: the broker requeues their deliveries.
Requeued(w, ops) == queue \cup Unacked(w, ops)

-----------------------------------------------------------------------------
(* Run, up to g.Wait.                                                      *)

ListenHealth(w) ==
    /\ phase[w] = "health"
    /\ \E ok \in BOOLEAN :
         /\ Call(w, ok)
         /\ Goto(w, IF ok THEN "uploadCh" ELSE "closeSession")
         /\ IF ok THEN Open(w, "listener") ELSE UNCHANGED opened
    /\ UNCHANGED <<config, providers, step, signalled, bucket, brokerVars, workerVars>>

\* The upload channel and its Qos.
OpenUploadChannel(w) ==
    /\ phase[w] = "uploadCh"
    /\ \E ok \in BOOLEAN :
         /\ SessionCall(w, ok)
         /\ Goto(w, IF ok THEN "declare" ELSE "closeSession")
         /\ IF ok THEN Open(w, "uploadCh") ELSE UNCHANGED opened
    /\ UNCHANGED <<config, providers, step, signalled, bucket, brokerVars, workerVars>>

TopologyDeclared(w) ==
    /\ phase[w] = "declare"
    /\ TopologyDone(w)
    /\ Goto(w, "deleteCh")
    /\ UNCHANGED <<config, opened, providers, step, signalled, bucket,
                   brokerVars, faults, workerVars>>

OpenDeleteChannel(w) ==
    /\ phase[w] = "deleteCh"
    /\ \E ok \in BOOLEAN :
         /\ SessionCall(w, ok)
         /\ Goto(w, IF ok THEN "consume" ELSE "closeUploadCh")
         /\ IF ok THEN Open(w, "deleteCh") ELSE UNCHANGED opened
    /\ UNCHANGED <<config, providers, step, signalled, bucket, brokerVars, workerVars>>

\* Both Consume calls, ready, and the two loops.
Consume(w) ==
    /\ phase[w] = "consume"
    /\ \E ok \in BOOLEAN :
         /\ SessionCall(w, ok)
         /\ Goto(w, IF ok THEN "consuming" ELSE "closeDeleteCh")
         /\ ready' = [ready EXCEPT ![w] = ok]
         /\ loop' = [l \in Worker \X Operation |->
                        IF ok /\ l[1] = w THEN "idle" ELSE loop[l]]
    /\ UNCHANGED <<config, opened, providers, step, signalled, bucket,
                   brokerVars, failed, msg>>

-----------------------------------------------------------------------------
(* The errgroup.                                                           *)

\* The watcher hears from NotifyClose.
Watch(w) ==
    /\ phase[w] = "consuming"
    /\ "session" \notin opened[w]
    /\ ~GroupDone(w)
    /\ failed' = [failed EXCEPT ![w] = TRUE]
    /\ UNCHANGED <<processVars, bucket, brokerVars, faults, ready, loop, msg>>

\* select may take a delivery although the context has ended.
Receive(w, op) ==
    /\ loop[<<w, op>>] = "idle"
    /\ Consumes(w, op)
    /\ \E c \in queue :
         /\ c.in = Main(op)
         /\ queue' = queue \ {c}
         /\ msg' = [msg EXCEPT ![<<w, op>>] = c.msg]
    /\ loop' = [loop EXCEPT ![<<w, op>>] = "busy"]
    /\ UNCHANGED <<processVars, bucket, declared, fate, faults, ready, failed>>

\* Mutant of LoopError: a loop whose deliveries have ended returns nil.
LoopReturnsNil(w, op) == FALSE

\* The deliveries of a closed channel have ended.
LoopError(w, op) == ~Consumes(w, op)

LoopEnds(w, op) ==
    /\ loop[<<w, op>>] = "idle"
    /\ GroupDone(w) \/ ~Consumes(w, op)
    /\ loop' = [loop EXCEPT ![<<w, op>>] = "ended"]
    /\ failed' = [failed EXCEPT ![w] = @ \/ LoopError(w, op)]
    /\ UNCHANGED <<processVars, bucket, brokerVars, faults, ready, msg>>

\* Mutant of Settled: the delivery has been cleared before it is answered.
SettledCleared(w, op, how) == fate \cup {[msg |-> NoMessage, how |-> how]}

Settled(w, op, how) == fate \cup {[msg |-> msg[<<w, op>>], how |-> how]}

\* The job succeeds and the delivery is acknowledged, if the broker still waits
\* for that.
JobDone(w, op) ==
    /\ loop[<<w, op>>] = "busy"
    /\ msg[<<w, op>>].req \notin Poison
    /\ fate' = Settled(w, op, "handled")
    /\ loop' = [loop EXCEPT ![<<w, op>>] = "idle"]
    /\ msg' = [msg EXCEPT ![<<w, op>>] = NoMessage]
    /\ UNCHANGED <<processVars, bucket, declared, queue, faults, ready, failed>>

\* Mutant of Republish: the delivery is given back to the queue instead.
Requeue(op, m) == queue' = queue \cup {[in |-> Main(op), msg |-> m]} /\ UNCHANGED fate

\* republishOrDLQ and the Ack after it.
Republish(op, m) ==
    LET q == RetryTarget(config.delays, op, m.retry)
    IN  Send(queue, q, IF q.kind = "dlq" THEN m ELSE [m EXCEPT !.retry = @ + 1])

\* Why a job fails: by itself, or because its context is over, with the group or
\* after ConsumerHandleTimeout.
Breaks(w, op, over) ==
    \/ over /\ GroupDone(w) /\ UNCHANGED faults
    \/ over /\ ~GroupDone(w) /\ Fault("timeout")
    \/ /\ ~over /\ ~GroupDone(w)
       /\ IF msg[<<w, op>>].req \in Poison THEN UNCHANGED faults ELSE Fault("job")

\* What becomes of the delivery of a failed job.  A context that is over fails
\* republishOrDLQ as well, and the delivery is rejected without requeue.
GiveUp(w, op, over) ==
    /\ CASE ~Consumes(w, op) -> UNCHANGED <<queue, fate>>
         [] Consumes(w, op) /\ over -> fate' = Settled(w, op, "rejected") /\ UNCHANGED queue
         [] OTHER -> Republish(op, msg[<<w, op>>])
    /\ loop' = [loop EXCEPT ![<<w, op>>] = "idle"]
    /\ msg' = [msg EXCEPT ![<<w, op>>] = NoMessage]

\* A job that fails with nothing to undo.
JobFails(w, op) ==
    /\ loop[<<w, op>>] = "busy"
    /\ \E over \in BOOLEAN : Breaks(w, op, over) /\ GiveUp(w, op, over)
    /\ UNCHANGED <<processVars, bucket, declared, ready, failed>>

\* An upload job that fails with something to undo ...
RollsBack(w) ==
    /\ loop[<<w, "upload">>] = "busy"
    /\ \E over \in BOOLEAN :
         /\ Breaks(w, "upload", over)
         /\ loop' = [loop EXCEPT ![<<w, "upload">>] = IF over THEN "undoLate" ELSE "undo"]
    /\ UNCHANGED <<processVars, bucket, brokerVars, ready, failed, msg>>

\* ... and returns when it has.  Nothing cancels the rollback, and it has no
\* timeout: the context of the handler may end meanwhile.
RolledBack(w) ==
    /\ loop[<<w, "upload">>] \in Undoing
    /\ LET late == loop[<<w, "upload">>] = "undoLate" \/ GroupDone(w)
       IN  \/ late /\ GiveUp(w, "upload", TRUE) /\ UNCHANGED faults
           \/ ~late /\ GiveUp(w, "upload", TRUE) /\ Fault("timeout")
           \/ ~late /\ GiveUp(w, "upload", FALSE) /\ UNCHANGED faults
    /\ UNCHANGED <<processVars, bucket, declared, ready, failed>>

-----------------------------------------------------------------------------
(* The end of Run, and of the process.                                     *)

\* Mutant of Waited: Run returns as soon as the group has an error.
WaitedForContext(w) == GroupDone(w)

Waited(w) == \A op \in Operation : loop[<<w, op>>] = "ended"

\* g.Wait returns.
Wait(w) ==
    /\ phase[w] = "consuming"
    /\ Waited(w)
    /\ Goto(w, "closeDeleteCh")
    /\ UNCHANGED <<config, opened, providers, step, signalled, bucket,
                   brokerVars, faults, workerVars>>

CloseChannel(w, op) ==
    /\ phase[w] = IF op = "delete" THEN "closeDeleteCh" ELSE "closeUploadCh"
    /\ Goto(w, IF op = "delete" THEN "closeUploadCh" ELSE "closeSession")
    /\ Close(w, {Channel(op)})
    /\ queue' = Requeued(w, {op})
    /\ UNCHANGED <<config, providers, step, signalled, bucket, declared, fate,
                   faults, workerVars>>

\* App.Close.
CloseApp(w) ==
    /\ phase[w] = "closeSession"
    /\ Goto(w, "closePool")
    /\ Close(w, {"session"})
    /\ ready' = [ready EXCEPT ![w] = FALSE]
    /\ UNCHANGED <<config, providers, step, signalled, bucket, brokerVars,
                   faults, failed, loop, msg>>

\* The health server stops on SIGTERM, whatever main does.
StopHealth(w) ==
    /\ signalled[w]
    /\ "listener" \in opened[w]
    /\ phase[w] # "down"
    /\ Close(w, {"listener"})
    /\ UNCHANGED <<config, phase, providers, step, signalled, bucket,
                   brokerVars, faults, workerVars>>

\* A process that is gone, or a new one: nothing runs.
NothingRuns(w) ==
    /\ ready' = [ready EXCEPT ![w] = FALSE]
    /\ failed' = [failed EXCEPT ![w] = FALSE]
    /\ loop' = [l \in Worker \X Operation |-> IF l[1] = w THEN "off" ELSE loop[l]]
    /\ msg' = [l \in Worker \X Operation |-> IF l[1] = w THEN NoMessage ELSE msg[l]]

Stop(w) ==
    /\ phase[w] = "closeTelemetry"
    /\ providers[w] = 0
    /\ Goto(w, "down")
    /\ NothingRuns(w)
    /\ UNCHANGED <<config, opened, providers, step, signalled, bucket,
                   brokerVars, faults>>

WorkerCrash(w) ==
    /\ phase[w] # "down"
    /\ Fault("crash")
    /\ Goto(w, "down")
    /\ opened' = [opened EXCEPT ![w] = {}]
    /\ providers' = [providers EXCEPT ![w] = 0]
    /\ queue' = Requeued(w, Operation)
    /\ NothingRuns(w)
    /\ UNCHANGED <<config, step, signalled, bucket, declared, fate>>

\* The connection is lost with its channels, and the broker requeues what it has
\* no answer for.  The worker learns of it later, in Watch and LoopEnds.
WorkerDrop(w) ==
    /\ "session" \in opened[w]
    /\ phase[w] # "down"
    /\ Fault("drop")
    /\ Close(w, {"session", "uploadCh", "deleteCh"})
    /\ queue' = Requeued(w, Operation)
    /\ UNCHANGED <<config, phase, providers, step, signalled, bucket, declared,
                   fate, workerVars>>

\* The broker closes one channel, or cancels its consumer.
ChannelDies(w, op) ==
    /\ phase[w] = "consuming"
    /\ Consumes(w, op)
    /\ Fault("channel")
    /\ Close(w, {Channel(op)})
    /\ queue' = Requeued(w, {op})
    /\ UNCHANGED <<config, phase, providers, step, signalled, bucket, declared,
                   fate, workerVars>>

==============================================================================
