------------------------------ MODULE Publisher ------------------------------
(***************************************************************************)
(* The AMQP publisher of a server replica (repository/rabbitmq): one       *)
(* session behind a mutex, shared by the requests that publish, the health *)
(* probes and Close.  A call locks the mutex, re-establishes the session   *)
(* through the circuit breaker if it has to, and uses it.                  *)
(*                                                                         *)
(* The connection a call is setting up is a local variable of connect, so  *)
(* the call's pc stands for it.                                            *)
(***************************************************************************)
EXTENDS CircuitBreaker, FiniteSets

CONSTANTS
    Caller,     \* goroutines that use the publisher
    NoCaller,   \* nobody holds the mutex
    Ops,        \* the methods they call
    FaultKinds, \* the faults that may happen
    MaxFaults   \* how many of them happen in one behaviour

ASSUME OpsAssumption == Ops \subseteq {"publish", "health", "close"}

ASSUME CallerAssumption == NoCaller \notin Caller

ASSUME MaxFaultsAssumption == MaxFaults \in Nat

VARIABLES
    sess,       \* p.conn and p.ch
    b,          \* the circuit breaker p.cb
    mu,         \* who holds p.mu
    pc,         \* where each call is
    op,         \* the method it is in
    expired,    \* its context has ended
    late,       \* dials that go on although their caller has left
    orphans,    \* connections that were open when everybody had left them
    faults      \* faults that have happened

callVars == <<pc, op, expired>>
dialVars == <<late, orphans>>
vars == <<sess, b, mu, pc, op, expired, late, orphans, faults>>

\* none: nil.  up: usable.  dead: gone at the broker, not noticed yet.
\* chClosed, connClosed: what IsClosed reports.
Session == {"none", "up", "dead", "chClosed", "connClosed"}

CallPc == {"idle", "lock", "session", "connect", "dial", "channel", "declare",
           "use"}

\* A call that is inside fn of cb.Execute, in connect, or holds p.mu.
Executing == {"dial", "channel", "declare"}
Connecting == Executing \cup {"connect"}
Holding == Connecting \cup {"session", "use"}

TypeOK ==
    /\ sess \in Session
    /\ b \in Breaker
    /\ mu \in Caller \cup {NoCaller}
    /\ pc \in [Caller -> CallPc]
    /\ op \in [Caller -> {"publish", "health", "close"}]
    /\ expired \in [Caller -> BOOLEAN]
    /\ late \in Nat
    /\ orphans \in Nat
    /\ faults \in 0 .. MaxFaults

\* NewPublisher has connected.
Init ==
    /\ sess = "up"
    /\ b = New
    /\ mu = NoCaller
    /\ pc = [g \in Caller |-> "idle"]
    /\ op \in [Caller -> Ops]
    /\ expired = [g \in Caller |-> FALSE]
    /\ late = 0
    /\ orphans = 0
    /\ faults = 0

Fault(kind) ==
    /\ kind \in FaultKinds
    /\ faults < MaxFaults
    /\ faults' = faults + 1

Goto(g, p) == pc' = [pc EXCEPT ![g] = p]

\* Mutant: a return that leaves the mutex locked.
ReturnLocked(g) == Goto(g, "idle") /\ mu' = mu

\* Every return runs the deferred Unlock.
Return(g) == Goto(g, "idle") /\ mu' = NoCaller

-------------------------------------------------------------------------------
(* A call *)

\* ctx.Err() is checked first; a call whose context has ended does nothing.
Start(g) ==
    /\ pc[g] = "idle"
    /\ Goto(g, "lock")
    /\ \E o \in Ops : op' = [op EXCEPT ![g] = o]
    /\ expired' = [expired EXCEPT ![g] = FALSE]
    /\ UNCHANGED <<sess, b, mu, late, orphans, faults>>

Lock(g) ==
    /\ pc[g] = "lock"
    /\ mu = NoCaller
    /\ mu' = g
    /\ Goto(g, "session")
    /\ UNCHANGED <<sess, b, op, expired, late, orphans, faults>>

\* Mutant: Close does not take the mutex.
CloseSessionUnlocked(g) ==
    /\ pc[g] = "lock"
    /\ op[g] = "close"
    /\ sess' = "none"
    /\ Goto(g, "idle")
    /\ UNCHANGED <<b, mu, op, expired, late, orphans, faults>>

CloseSession(g) ==
    /\ pc[g] = "session"
    /\ op[g] = "close"
    /\ sess' = "none"
    /\ Return(g)
    /\ UNCHANGED <<b, op, expired, late, orphans, faults>>

\* Mutant: a connection whose channel is closed is not closed.
closeLockedChannelOnly == IF sess = "chClosed" THEN sess ELSE "none"

\* What closeLocked leaves behind.
closeLocked == "none"

\* Neither IsClosed() says so.
LooksOpen == sess \in {"up", "dead"}

reconnectIfNeeded(g) ==
    /\ pc[g] = "session"
    /\ op[g] # "close"
    /\ \/ expired[g] /\ Return(g) /\ UNCHANGED sess
       \/ ~expired[g] /\ LooksOpen /\ Goto(g, "use") /\ UNCHANGED <<sess, mu>>
       \/ /\ ~expired[g]
          /\ ~LooksOpen
          /\ sess' = closeLocked
          /\ Goto(g, "connect")
          /\ UNCHANGED mu
    /\ UNCHANGED <<b, op, expired, late, orphans, faults>>

\* The breaker lets the call dial, or turns it away.
connect(g) ==
    /\ pc[g] = "connect"
    /\ \/ expired[g] /\ Return(g) /\ UNCHANGED b
       \/ ~expired[g] /\ Admits(b) /\ Goto(g, "dial") /\ UNCHANGED <<b, mu>>
       \/ ~expired[g] /\ ~Admits(b) /\ b' = Rejection(b) /\ Return(g)
    /\ UNCHANGED <<sess, op, expired, late, orphans, faults>>

\* fn has returned an error: the breaker counts it, and connect returns it.
ConnectFails(g) ==
    /\ b' = Failure(b)
    /\ Return(g)

\* select: the dial's result, or the end of the context.  The dial of a context
\* that has ended is cancelled while it connects, but not once it is
\* in the AMQP handshake; it may also just have succeeded.
DialContext(g) ==
    /\ pc[g] = "dial"
    /\ \/ Goto(g, "channel") /\ UNCHANGED <<b, mu, late, orphans, faults>>
       \/ Fault("dial") /\ ConnectFails(g) /\ UNCHANGED dialVars
       \/ /\ expired[g]
          /\ ConnectFails(g)
          /\ \/ UNCHANGED dialVars
             \/ late' = late + 1 /\ orphans' = orphans
             \/ orphans' = orphans + 1 /\ late' = late
          /\ UNCHANGED faults
    /\ UNCHANGED <<sess, op, expired>>

\* Both error paths close the new connection.
OpenChannel(g) ==
    /\ pc[g] = "channel"
    /\ \/ ~expired[g] /\ Goto(g, "declare") /\ UNCHANGED <<b, mu, faults>>
       \/ expired[g] /\ ConnectFails(g) /\ UNCHANGED faults
       \/ Fault("channel") /\ ConnectFails(g)
    /\ UNCHANGED <<sess, op, expired, late, orphans>>

\* Mutant: connect assigns p.conn and p.ch before DeclareTopology.
DeclareTopologyAdopted(g) ==
    /\ pc[g] = "declare"
    /\ sess' = "up"
    /\ \/ /\ b' = Success(b)
          /\ Goto(g, "use")
          /\ UNCHANGED <<mu, faults>>
       \/ Fault("channel") /\ ConnectFails(g)
    /\ UNCHANGED <<op, expired, late, orphans>>

DeclareTopology(g) ==
    /\ pc[g] = "declare"
    /\ \/ /\ sess' = "up"
          /\ b' = Success(b)
          /\ Goto(g, "use")
          /\ UNCHANGED <<mu, faults>>
       \/ Fault("channel") /\ ConnectFails(g) /\ UNCHANGED sess
    /\ UNCHANGED <<op, expired, late, orphans>>

\* A write to a connection the broker has dropped succeeds or fails; either way
\* the call returns.  The broker closes the channel of a publish to an
\* exchange that no longer exists.
PublishWithContext(g) ==
    /\ pc[g] = "use"
    /\ op[g] = "publish"
    /\ Return(g)
    /\ \/ UNCHANGED <<sess, faults>>
       \/ ~expired[g] /\ sess = "up" /\ Fault("channel") /\ sess' = "chClosed"
    /\ UNCHANGED <<b, op, expired, late, orphans>>

\* A call that waits for the broker's answer: a dead session answers
\* when the missed heartbeats have closed it.  A missing queue closes the channel.
QueueDeclarePassive(g) ==
    /\ pc[g] = "use"
    /\ op[g] = "health"
    /\ sess # "dead"
    /\ Return(g)
    /\ \/ UNCHANGED <<sess, faults>>
       \/ sess = "up" /\ Fault("channel") /\ sess' = "chClosed"
    /\ UNCHANGED <<b, op, expired, late, orphans>>

-------------------------------------------------------------------------------
(* What happens around the calls *)

\* The client has gone, or a timeout; Close uses its context for logging only.
Expire(g) ==
    /\ pc[g] # "idle"
    /\ op[g] # "close"
    /\ ~expired[g]
    /\ Fault("expire")
    /\ expired' = [expired EXCEPT ![g] = TRUE]
    /\ UNCHANGED <<sess, b, mu, pc, op, late, orphans>>

\* The broker restarts or the network fails ...
Drop ==
    /\ sess \in {"up", "chClosed"}
    /\ Fault("drop")
    /\ sess' = IF sess = "up" THEN "dead" ELSE "connClosed"
    /\ UNCHANGED <<b, mu, pc, op, expired, late, orphans>>

\* ... and the client notices, by the missed heartbeats at the latest.
Notice ==
    /\ sess = "dead"
    /\ sess' = "connClosed"
    /\ UNCHANGED <<b, mu, pc, op, expired, late, orphans, faults>>

\* A dial without a caller ends; DialContext drops its result.
LateDial ==
    /\ late > 0
    /\ late' = late - 1
    /\ orphans' \in {orphans, orphans + 1}
    /\ UNCHANGED <<sess, b, mu, pc, op, expired, faults>>

TimePasses ==
    /\ ~b.cooled
    /\ b' = Elapse(b)
    /\ UNCHANGED <<sess, mu, pc, op, expired, late, orphans, faults>>

\* What a goroutine does once it has the mutex, until it gives it back.
Run(g) ==
    \/ CloseSession(g)
    \/ reconnectIfNeeded(g)
    \/ connect(g)
    \/ DialContext(g)
    \/ OpenChannel(g)
    \/ DeclareTopology(g)
    \/ PublishWithContext(g)
    \/ QueueDeclarePassive(g)

Environment == Drop \/ Notice \/ LateDial \/ TimePasses

Next ==
    \/ \E g \in Caller : Start(g) \/ Lock(g) \/ Run(g) \/ Expire(g)
    \/ Environment

Spec == Init /\ [][Next]_vars

\* A goroutine that holds the mutex runs; every wait in it is bounded (the dial
\* by 30 s, the answers of the broker by the heartbeat).  A Go mutex goes to
\* whoever has waited for more than a millisecond, so nobody starves.
\* Health probes keep coming.
FairSpec ==
    /\ Spec
    /\ WF_vars(Notice)
    /\ WF_vars(TimePasses)
    /\ \A g \in Caller : WF_vars(Start(g)) /\ SF_vars(Lock(g)) /\ WF_vars(Run(g))

-------------------------------------------------------------------------------
(* Properties *)

\* PublishJSON and Health use p.ch without a nil check after reconnectIfNeeded
\* has returned nil: whatever Close, other calls and failed reconnects do
\* meanwhile, there is a channel.
NeverUsesNil == \A g \in Caller : pc[g] = "use" => sess # "none"

\* While Publisher.connect sets up a connection the publisher has no other: it
\* never overwrites p.conn, so that Close can close every session it adopted.
OneSession == \A g \in Caller : pc[g] \in Connecting => sess = "none"

\* The circuit is closed exactly while it has counted fewer than Threshold
\* failures.  CircuitBreaker.Execute does not ensure this for callers that
\* overlap; Publisher.connect does by calling it under p.mu only.
BreakerCountsFailures == b.state = "closed" <=> b.failureCount < Threshold

\* A circuit that is open or half-open never belongs to a replica with a session,
\* so a recovered session is not lost to a stale decision of the breaker
\* (Publisher.connect, CircuitBreaker.Execute).
OpenOnlyWithoutSession == b.state # "closed" => sess = "none"

\* Whoever holds p.mu is the one goroutine past Lock.
MutexHeld == \A g \in Caller : pc[g] \in Holding <=> mu = g

\* Nobody opens the circuit under a call that the breaker has let through.
AdmittedNotOpen == \A g \in Caller : pc[g] \in Executing => b.state # "open"

\* What p.mu gives each method of Publisher and CircuitBreaker.Execute.
MutexInv ==
    /\ TypeOK
    /\ MutexHeld
    /\ AdmittedNotOpen
    /\ NeverUsesNil
    /\ OneSession
    /\ BreakerCountsFailures
    /\ OpenOnlyWithoutSession

\* The calls under way whose context has ended.
Abandoning == {g \in Caller : pc[g] # "idle" /\ expired[g]}

\* Each of them may leave one dial behind in DialContext, and nothing else leaves
\* any: what leaks is bounded by the contexts that have ended.
LeaksCounted ==
    /\ IsFiniteSet(Abandoning)
    /\ late + orphans + Cardinality(Abandoning) <= faults

\* The inductive invariant of PublisherProofs.
IInv == MutexInv /\ LeaksCounted

\* Every call of PublishJSON, Health and Close returns, although one of them may
\* dial, or wait for a dead session's answer, while it holds p.mu.
CallsReturn == \A g \in Caller : pc[g] = "lock" ~> pc[g] = "idle"

Closing == \E g \in Caller : pc[g] # "idle" /\ op[g] = "close"

\* When faults and calls of Close stop, the replica gets its session back and
\* keeps it: the health probes that Publisher.reconnectIfNeeded turns into
\* dials get past an open circuit and past probes that have timed out.
SessionComesBack == ([]<>Closing) \/ <>[](sess = "up")

\* DialContext "cancels when ctx is done": a caller whose context ends while it
\* dials leaves no open connection behind.
CancelledDialLeavesNothing == orphans = 0

\* The invariant behind CancelledDialLeavesNothing where no context ends: no call
\* leaves DialContext before its dial does.
NobodyLeaves == Abandoning = {} /\ late = 0 /\ orphans = 0

===============================================================================
