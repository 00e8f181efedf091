---------------------------- MODULE ServerProcess ----------------------------
(***************************************************************************)
(* A server replica: serverapp.New and Close, httpserver.Run and cmd/server *)
(* around them, with the requests that are in flight when it stops.        *)
(*                                                                         *)
(* SIGTERM makes e.Start return while Shutdown still waits for requests in *)
(* another goroutine, which nobody waits for: main closes the publisher    *)
(* and the pool under the requests and exits.                              *)
(***************************************************************************)
EXTENDS Processes, FiniteSets

CONSTANTS
    MaxConns,   \* PoolMaxConns
    NoServer

ASSUME ServerAssumption == MaxConns \in Nat \ {0} /\ NoServer \notin Server

VARIABLES
    at,         \* the replica that serves a request
    pc          \* what its handler does

serverVars == <<at, pc>>

\* In "writing" and "undoing" the handler has a connection of the pool.
RequestPc == {"idle", "write", "writing", "publish", "undo", "undoing",
              "answered", "failed", "cut"}

InFlight(s) == {q \in Request : at[q] = s /\ pc[q] \in
                   {"write", "writing", "publish", "undo", "undoing"}}

Busy(s) == {q \in InFlight(s) : pc[q] \in {"writing", "undoing"}}

PoolOpen(s) == "pool" \in opened[s] /\ phase[s] # "closePool"

Handler(q, next) == pc' = [pc EXCEPT ![q] = next]

-----------------------------------------------------------------------------
(* main.                                                                   *)

\* Mutant of AfterConnect: the catalog error returns without pub.Close.
AfterConnectLeaks(s) == IF CatalogOK THEN "prewarm" ELSE "closePool"

AfterConnect(s) == IF CatalogOK THEN "prewarm" ELSE "closeSession"

\* DeclareTopology has returned nil in connect; New goes on to the catalog.
Connected(s) ==
    /\ phase[s] = "declare"
    /\ TopologyDone(s)
    /\ Goto(s, AfterConnect(s))
    /\ UNCHANGED <<config, opened, providers, step, signalled, bucket,
                   brokerVars, faults, serverVars>>

\* The prewarm has a timeout and its errors are only logged; then e.Start
\* listens.
Start(s) ==
    /\ phase[s] = "prewarm"
    /\ \/ Goto(s, "serving") /\ UNCHANGED faults
       \/ Goto(s, "closeSession") /\ Fault("startup")
    /\ UNCHANGED <<config, opened, providers, step, signalled, bucket,
                   brokerVars, serverVars>>

\* Shutdown has been called: the listener is closed and e.Start returns.
Shutdown(s) ==
    /\ phase[s] = "serving"
    /\ signalled[s]
    /\ Goto(s, "closeSession")
    /\ UNCHANGED <<config, opened, providers, step, signalled, bucket,
                   brokerVars, faults, serverVars>>

ClosePublisher(s) ==
    /\ phase[s] = "closeSession"
    /\ Goto(s, "closePool")
    /\ Close(s, Early)
    /\ UNCHANGED <<config, providers, step, signalled, bucket, brokerVars,
                   faults, serverVars>>

ClosePostgres(s) ==
    /\ Busy(s) = {}
    /\ ClosePool(s)
    /\ UNCHANGED serverVars

\* Mutant of DrainEnds: the handlers are left alone after the 15 seconds.
DrainGivesUp(s) == UNCHANGED pc

\* e.Close after a failed Shutdown: the connections are closed, the contexts of
\* their requests end, and the pool gets its connections back.
DrainEnds(s) == pc' = [q \in Request |-> IF q \in InFlight(s) THEN "cut" ELSE pc[q]]

\* The 15 seconds of Shutdown are over.
DrainTimesOut(s) ==
    /\ phase[s] \in {"closeSession", "closePool", "closeTelemetry"}
    /\ InFlight(s) # {}
    /\ DrainEnds(s)
    /\ UNCHANGED <<processVars, bucket, brokerVars, faults, at>>

\* os.Exit: what is still in flight is lost.
Exit(s) ==
    /\ phase[s] = "closeTelemetry"
    /\ providers[s] = 0
    /\ Goto(s, "down")
    /\ pc' = [q \in Request |-> IF q \in InFlight(s) THEN "cut" ELSE pc[q]]
    /\ UNCHANGED <<config, opened, providers, step, signalled, bucket,
                   brokerVars, faults, at>>

\* The process is killed.
ServerCrash(s) ==
    /\ phase[s] # "down"
    /\ Fault("crash")
    /\ Goto(s, "down")
    /\ opened' = [opened EXCEPT ![s] = {}]
    /\ providers' = [providers EXCEPT ![s] = 0]
    /\ pc' = [q \in Request |-> IF q \in InFlight(s) THEN "cut" ELSE pc[q]]
    /\ UNCHANGED <<config, step, signalled, bucket, brokerVars, at>>

Lost(r) ==
    CASE r = "session" -> "deadSession"
      [] r = "lateSession" -> "deadLateSession"
      [] OTHER -> r

\* The session that the publisher has is up, or gone without its knowledge.
Live(s) == opened[s] \cap {"session", "lateSession"} # {}
Dead(s) == opened[s] \cap {"deadSession", "deadLateSession"} # {}

\* The broker or the network ends the session.
ServerDrop(s) ==
    /\ Live(s)
    /\ phase[s] # "down"
    /\ Fault("serverDrop")
    /\ opened' = [opened EXCEPT ![s] = {Lost(r) : r \in @}]
    /\ UNCHANGED <<config, phase, providers, step, signalled, bucket,
                   brokerVars, serverVars>>

\* Heartbeats that stay away, or a failed write, close the connection: from now
\* on IsClosed says so.
Notice(s) ==
    /\ Dead(s)
    /\ phase[s] # "down"
    /\ Close(s, {"deadSession", "deadLateSession"})
    /\ UNCHANGED <<config, phase, providers, step, signalled, bucket,
                   brokerVars, faults, serverVars>>

-----------------------------------------------------------------------------
(* The requests.                                                           *)

Accept(s, q) ==
    /\ phase[s] = "serving"
    /\ pc[q] = "idle"
    /\ at' = [at EXCEPT ![q] = s]
    /\ Handler(q, "write")
    /\ UNCHANGED <<processVars, bucket, brokerVars, faults>>

\* The handler takes a connection of the pool to insert or soft-delete its row,
\* or to undo that.  A closed pool gives it an error instead.
Acquire(q) ==
    /\ pc[q] \in {"write", "undo"}
    /\ IF PoolOpen(at[q])
       THEN /\ Cardinality(Busy(at[q])) < MaxConns
            /\ Handler(q, IF pc[q] = "write" THEN "writing" ELSE "undoing")
       ELSE Handler(q, "failed")
    /\ UNCHANGED <<processVars, bucket, brokerVars, faults, at>>

\* The statement ends and gives the connection back.
Write(q) ==
    /\ pc[q] = "writing"
    /\ \/ Handler(q, "publish") /\ UNCHANGED faults
       \/ Handler(q, "failed") /\ Fault("db")
    /\ UNCHANGED <<processVars, bucket, brokerVars, at>>

Undo(q) ==
    /\ pc[q] = "undoing"
    /\ Handler(q, "failed")
    /\ UNCHANGED <<processVars, bucket, brokerVars, faults, at>>

\* What a whole DeclareTopology declares.
Topology ==
    {d \in {DeclareTopology(config.delays)[i] : i \in DOMAIN DeclareTopology(config.delays)} :
        ~Skipped(config.delays, d)}

\* The session of a request that is still in flight after App.Close.
NewSession(s) ==
    IF phase[s] \in {"closePool", "closeTelemetry"} THEN "lateSession" ELSE "session"

\* reconnectIfNeeded: a new session, the topology included, unless IsClosed says
\* that there is one.  Nothing tells it that Close was called.
Reconnect(s, ok) ==
    \/ /\ ok /\ Live(s)
       /\ UNCHANGED <<opened, declared, faults>>
    \/ /\ ok /\ ~Live(s)
       /\ Open(s, NewSession(s))
       /\ declared' = declared \cup Topology
       /\ UNCHANGED faults
    \/ /\ ~ok
       /\ Fault("publish")
       /\ UNCHANGED <<opened, declared>>

FirstEvent(q) == [req |-> q, retry |-> 0]

\* PublishJSON, and what the handler answers.
Publish(q) ==
    /\ pc[q] = "publish"
    /\ ~Dead(at[q])
    /\ \E ok \in BOOLEAN :
         /\ Reconnect(at[q], ok)
         /\ Handler(q, IF ok THEN "answered" ELSE "undo")
         /\ IF ok THEN Send(queue, Main(OpOf[q]), FirstEvent(q))
                  ELSE UNCHANGED <<queue, fate>>
    /\ UNCHANGED <<config, phase, providers, step, signalled, bucket, at>>

\* The same on a session that is gone: without confirms, a write that the
\* connection takes is a success, although the broker never has the event.
PublishBlindly(q) ==
    /\ pc[q] = "publish"
    /\ Dead(at[q])
    /\ \/ /\ Handler(q, "answered")
          /\ fate' = fate \cup {[msg |-> FirstEvent(q), how |-> "lost"]}
       \/ Handler(q, "undo") /\ UNCHANGED fate
    /\ UNCHANGED <<processVars, bucket, declared, queue, faults, at>>

\* GET /health goes through the publisher too, and heals its session.  On one
\* that is gone without notice it waits for an answer.
GetHealth(s) ==
    /\ phase[s] = "serving"
    /\ ~Dead(s)
    /\ \E ok \in BOOLEAN : Reconnect(s, ok)
    /\ UNCHANGED <<config, phase, providers, step, signalled, bucket, queue,
                   fate, serverVars>>

\* usecase.Health.Status: the pool answers, the bucket is there, the session is up.
StatusOK(s) == PoolOpen(s) /\ bucket /\ Live(s)

==============================================================================
