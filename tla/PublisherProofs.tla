--------------------------- MODULE PublisherProofs ---------------------------
(***************************************************************************)
(* What the publisher's mutex gives: the session and the breaker agree at  *)
(* every step, for any number of callers and any faults.  And what the     *)
(* mutex does not give: how much abandoned dials can leave behind.         *)
(***************************************************************************)
EXTENDS Publisher, CircuitBreakerProofs, FiniteSetTheorems

\* Initially there is a session and nobody uses it.
LEMMA InitMutexInv == Init => MutexInv
  <1> SUFFICES ASSUME Init PROVE MutexInv
    OBVIOUS
  <1>1. TypeOK
    <2>1. op \in [Caller -> {"publish", "health", "close"}]
      BY OpsAssumption DEF Init
    <2> QED
      BY <2>1, NewSound, MaxFaultsAssumption DEF Init, TypeOK, Session, CallPc
  <1>2. BreakerCountsFailures /\ OpenOnlyWithoutSession
    BY NewSound DEF Init, BreakerCountsFailures, OpenOnlyWithoutSession, Sound
  <1>3. MutexHeld /\ AdmittedNotOpen /\ NeverUsesNil /\ OneSession
    BY CallerAssumption DEF Init, MutexHeld, AdmittedNotOpen, NeverUsesNil,
       OneSession, Holding, Connecting, Executing
  <1> QED
    BY <1>1, <1>2, <1>3 DEF MutexInv

\* A fault is counted within its bound.
LEMMA FaultBound ==
  ASSUME TypeOK, NEW kind, Fault(kind)
  PROVE  faults' \in 0 .. MaxFaults
  BY MaxFaultsAssumption DEF TypeOK, Fault

\* A call that fails in fn returns, and leaves the breaker sound.
LEMMA ConnectFailsSound ==
  ASSUME MutexInv, NEW g \in Caller, ConnectFails(g)
  PROVE  /\ b' \in Breaker
         /\ Sound(b')
         /\ pc' = [pc EXCEPT ![g] = "idle"]
         /\ mu' = NoCaller
  <1>1. b \in Breaker /\ Sound(b)
    BY DEF MutexInv, TypeOK, BreakerCountsFailures, Sound
  <1>2. b' \in Breaker /\ Sound(b')
    BY <1>1, FailureSound DEF ConnectFails
  <1> QED
    BY <1>2 DEF ConnectFails, Return, Goto

(***************************************************************************)
(* A step of one call.  It has the mutex before the step (or finds it      *)
(* free, or does not need it), so the other calls are outside and only     *)
(* its own pc and what it leaves in mu, sess and b matter.                 *)
(***************************************************************************)
LEMMA CallStep ==
  ASSUME MutexInv,
         NEW g \in Caller, NEW p \in CallPc,
         pc' = [pc EXCEPT ![g] = p],
         sess' \in Session, b' \in Breaker, Sound(b'),
         mu' \in Caller \cup {NoCaller},
         op' \in [Caller -> {"publish", "health", "close"}],
         expired' \in [Caller -> BOOLEAN],
         late' \in Nat, orphans' \in Nat, faults' \in 0 .. MaxFaults,
         \* the mutex
         \/ mu \in {g, NoCaller} /\ mu' = (IF p \in Holding THEN g ELSE NoCaller)
         \/ mu' = mu /\ pc[g] \notin Holding /\ p \notin Holding /\ sess' = sess /\ b' = b,
         \* the session and the breaker, as this call leaves them
         p \in Executing => b'.state # "open",
         p = "use" => sess' # "none",
         p \in Connecting => sess' = "none",
         b'.state # "closed" => sess' = "none"
  PROVE  MutexInv'
  <1>1. /\ pc \in [Caller -> CallPc]
        /\ \A h \in Caller : pc'[h] = IF h = g THEN p ELSE pc[h]
    BY DEF MutexInv, TypeOK
  <1>2. TypeOK'
    BY <1>1 DEF MutexInv, TypeOK
  <1>3. /\ BreakerCountsFailures'
        /\ OpenOnlyWithoutSession'
    BY DEF BreakerCountsFailures, OpenOnlyWithoutSession, Sound
  <1>4. ASSUME mu \in {g, NoCaller}, mu' = (IF p \in Holding THEN g ELSE NoCaller)
        PROVE  /\ MutexHeld'
               /\ \A h \in Caller \ {g} : pc'[h] \notin Holding
    <2>1. \A h \in Caller \ {g} : pc[h] \notin Holding
      BY <1>4, CallerAssumption DEF MutexInv, MutexHeld
    <2> QED
      BY <1>1, <1>4, <2>1, CallerAssumption DEF MutexHeld
  <1>5. ASSUME mu \in {g, NoCaller}, mu' = (IF p \in Holding THEN g ELSE NoCaller)
        PROVE  AdmittedNotOpen' /\ NeverUsesNil' /\ OneSession'
    BY <1>1, <1>4, <1>5 DEF AdmittedNotOpen, NeverUsesNil, OneSession,
       Holding, Connecting, Executing
  <1>6. ASSUME mu' = mu, pc[g] \notin Holding, p \notin Holding, sess' = sess, b' = b
        PROVE  MutexHeld' /\ AdmittedNotOpen' /\ NeverUsesNil' /\ OneSession'
    <2>1. MutexHeld'
      BY <1>1, <1>6 DEF MutexInv, MutexHeld
    <2>2. AdmittedNotOpen' /\ NeverUsesNil' /\ OneSession'
      BY <1>1, <1>6 DEF MutexInv, AdmittedNotOpen, NeverUsesNil, OneSession,
         Holding, Connecting, Executing
    <2> QED
      BY <2>1, <2>2
  <1> QED
    BY <1>2, <1>3, <1>4, <1>5, <1>6 DEF MutexInv

-------------------------------------------------------------------------------

\* Start and Lock keep the invariant.
LEMMA EnterStep ==
  ASSUME MutexInv, NEW g \in Caller, Start(g) \/ Lock(g)
  PROVE  MutexInv'
  <1>1. /\ TypeOK /\ b \in Breaker /\ Sound(b)
        /\ pc[g] \in Holding <=> mu = g
        /\ b.state # "closed" => sess = "none"
    BY DEF MutexInv, TypeOK, BreakerCountsFailures, MutexHeld, OpenOnlyWithoutSession, Sound
  <1>2. CASE Start(g)
    <2>1. PICK o \in Ops : op' = [op EXCEPT ![g] = o]
      BY <1>2 DEF Start
    <2>2. op' \in [Caller -> {"publish", "health", "close"}]
      BY <1>1, <2>1, OpsAssumption DEF TypeOK
    <2>3. expired' \in [Caller -> BOOLEAN]
      BY <1>1, <1>2 DEF Start, TypeOK
    <2>4. pc' = [pc EXCEPT ![g] = "lock"] /\ pc[g] \notin Holding
      BY <1>2 DEF Start, Goto, Holding, Connecting, Executing
    <2>5. "lock" \in CallPc /\ "lock" \notin Holding /\ "lock" \notin Connecting
          /\ "lock" \notin Executing /\ "lock" # "use"
      BY DEF CallPc, Holding, Connecting, Executing
    <2>6. UNCHANGED <<sess, b, mu, late, orphans, faults>>
      BY <1>2 DEF Start
    <2> QED
      BY <1>1, <2>2, <2>3, <2>4, <2>5, <2>6, CallStep DEF TypeOK
  <1>3. CASE Lock(g)
    <2>1. pc' = [pc EXCEPT ![g] = "session"] /\ mu = NoCaller /\ mu' = g
      BY <1>3 DEF Lock, Goto
    <2>2. "session" \in CallPc /\ "session" \in Holding /\ "session" \notin Connecting
          /\ "session" \notin Executing /\ "session" # "use"
      BY DEF CallPc, Holding, Connecting, Executing
    <2>3. UNCHANGED <<sess, b, op, expired, late, orphans, faults>>
      BY <1>3 DEF Lock
    <2> QED
      BY <1>1, <2>1, <2>2, <2>3, CallStep DEF TypeOK
  <1> QED
    BY <1>2, <1>3

\* A call that holds the mutex keeps the invariant until it gives it back.
LEMMA RunStep ==
  ASSUME MutexInv, NEW g \in Caller, Run(g)
  PROVE  MutexInv'
  <1> DEFINE Leaves(p) ==
        /\ pc' = [pc EXCEPT ![g] = p]
        /\ mu' = IF p = "idle" THEN NoCaller ELSE g
  <1>1. /\ TypeOK /\ b \in Breaker /\ Sound(b)
        /\ pc[g] \in Holding <=> mu = g
        /\ pc[g] \in Executing => b.state # "open"
        /\ pc[g] \in Connecting => sess = "none"
        /\ pc[g] = "use" => sess # "none"
        /\ b.state # "closed" => sess = "none"
    BY DEF MutexInv, TypeOK, BreakerCountsFailures, MutexHeld, AdmittedNotOpen,
       OneSession, NeverUsesNil, OpenOnlyWithoutSession, Sound
  <1>2. pc[g] \in Holding /\ mu = g
    BY <1>1 DEF Run, CloseSession, reconnectIfNeeded, connect, DialContext,
       OpenChannel, DeclareTopology, PublishWithContext, QueueDeclarePassive,
       Holding, Connecting, Executing
  <1>3. op' = op /\ expired' = expired
    BY DEF Run, CloseSession, reconnectIfNeeded, connect, DialContext,
       OpenChannel, DeclareTopology, PublishWithContext, QueueDeclarePassive
  <1>4. late' \in Nat /\ orphans' \in Nat
    BY <1>1 DEF Run, CloseSession, reconnectIfNeeded, connect, DialContext,
       OpenChannel, DeclareTopology, PublishWithContext, QueueDeclarePassive,
       TypeOK, dialVars
  <1>5. faults' \in 0 .. MaxFaults
    BY <1>1, FaultBound DEF Run, CloseSession, reconnectIfNeeded, connect, DialContext,
       OpenChannel, DeclareTopology, PublishWithContext, QueueDeclarePassive, TypeOK
  \* What a step of the call has to show.
  <1>6. ASSUME NEW p \in {"idle", "connect", "dial", "channel", "declare", "use"},
               Leaves(p), sess' \in Session, b' \in Breaker, Sound(b'),
               p \in Executing => b'.state # "open",
               p = "use" => sess' # "none",
               p \in Connecting => sess' = "none",
               b'.state # "closed" => sess' = "none"
        PROVE  MutexInv'
    <2>1. p \in CallPc /\ (p \in Holding <=> p # "idle")
      BY <1>6 DEF CallPc, Holding, Connecting, Executing
    <2> QED
      BY <1>1, <1>2, <1>3, <1>4, <1>5, <1>6, <2>1, CallStep DEF TypeOK
  <1>7. ASSUME ConnectFails(g), sess' = sess, pc[g] \in Executing
        PROVE  MutexInv'
    <2>1. b' \in Breaker /\ Sound(b') /\ Leaves("idle")
      BY <1>2, <1>7, ConnectFailsSound
    <2>2. sess = "none"
      BY <1>1, <1>7 DEF Connecting
    <2> QED
      BY <1>1, <1>6, <1>7, <2>1, <2>2 DEF TypeOK, Connecting, Executing
  <1>8. CASE CloseSession(g)
    BY <1>1, <1>6, <1>8 DEF CloseSession, Return, Goto, Session, Connecting, Executing
  <1>9. CASE reconnectIfNeeded(g)
    <2>1. CASE Return(g) /\ UNCHANGED sess
      BY <1>1, <1>6, <1>9, <2>1 DEF reconnectIfNeeded, Return, Goto, TypeOK,
         Connecting, Executing
    <2>2. CASE LooksOpen /\ Goto(g, "use") /\ UNCHANGED <<sess, mu>>
      BY <1>1, <1>2, <1>6, <1>9, <2>2 DEF reconnectIfNeeded, LooksOpen, Goto, TypeOK,
         Connecting, Executing
    <2>3. CASE sess' = closeLocked /\ Goto(g, "connect") /\ UNCHANGED mu
      BY <1>1, <1>2, <1>6, <1>9, <2>3 DEF reconnectIfNeeded, closeLocked, Goto,
         Session, Executing
    <2> QED
      BY <1>9, <2>1, <2>2, <2>3 DEF reconnectIfNeeded
  <1>10. CASE connect(g)
    <2>1. sess = "none" /\ sess' = sess
      BY <1>1, <1>10 DEF connect, Connecting
    <2>2. CASE Return(g) /\ UNCHANGED b
      BY <1>1, <1>6, <2>1, <2>2 DEF Return, Goto, TypeOK, Connecting, Executing
    <2>3. CASE Admits(b) /\ Goto(g, "dial") /\ UNCHANGED <<b, mu>>
      BY <1>1, <1>2, <1>6, <2>1, <2>3 DEF Admits, Goto, TypeOK, Connecting, Executing
    <2>4. CASE ~Admits(b) /\ b' = Rejection(b) /\ Return(g)
      <3>1. b' \in Breaker /\ Sound(b')
        BY <1>1, <2>4, RejectionSound
      <3> QED
        BY <1>1, <1>6, <2>1, <2>4, <3>1 DEF Return, Goto, TypeOK, Connecting, Executing
    <2> QED
      BY <1>10, <2>2, <2>3, <2>4 DEF connect
  <1>11. CASE DialContext(g)
    <2>1. sess' = sess /\ pc[g] \in Executing
      BY <1>11 DEF DialContext, Executing
    <2>2. CASE Goto(g, "channel") /\ UNCHANGED <<b, mu>>
      BY <1>1, <1>2, <1>6, <2>1, <2>2 DEF Goto, TypeOK, Connecting, Executing
    <2> QED
      BY <1>7, <1>11, <2>1, <2>2 DEF DialContext
  <1>12. CASE OpenChannel(g)
    <2>1. sess' = sess /\ pc[g] \in Executing
      BY <1>12 DEF OpenChannel, Executing
    <2>2. CASE Goto(g, "declare") /\ UNCHANGED <<b, mu>>
      BY <1>1, <1>2, <1>6, <2>1, <2>2 DEF Goto, TypeOK, Connecting, Executing
    <2> QED
      BY <1>7, <1>12, <2>1, <2>2 DEF OpenChannel
  <1>13. CASE DeclareTopology(g)
    <2>1. pc[g] \in Executing
      BY <1>13 DEF DeclareTopology, Executing
    <2>2. CASE sess' = "up" /\ b' = Success(b) /\ Goto(g, "use") /\ UNCHANGED mu
      <3>1. b' \in Breaker /\ Sound(b') /\ b'.state = "closed"
        BY <1>1, <2>1, <2>2, SuccessSound DEF Admits
      <3> QED
        BY <1>2, <1>6, <2>2, <3>1 DEF Goto, Session, Connecting, Executing
    <2> QED
      BY <1>7, <1>13, <2>1, <2>2 DEF DeclareTopology
  <1>14. CASE PublishWithContext(g)
    <2>1. sess # "none" /\ sess' \in Session /\ sess' # "none"
      BY <1>1, <1>14 DEF PublishWithContext, TypeOK, Session
    <2> QED
      BY <1>1, <1>6, <1>14, <2>1 DEF PublishWithContext, Return, Goto, TypeOK,
         Connecting, Executing
  <1>15. CASE QueueDeclarePassive(g)
    <2>1. sess # "none" /\ sess' \in Session /\ sess' # "none"
      BY <1>1, <1>15 DEF QueueDeclarePassive, TypeOK, Session
    <2> QED
      BY <1>1, <1>6, <1>15, <2>1 DEF QueueDeclarePassive, Return, Goto, TypeOK,
         Connecting, Executing
  <1> QED
    BY <1>8, <1>9, <1>10, <1>11, <1>12, <1>13, <1>14, <1>15 DEF Run

\* What happens around the calls neither gives nor takes a session.
LEMMA EnvironmentStep ==
  ASSUME MutexInv, Environment \/ (\E g \in Caller : Expire(g))
  PROVE  MutexInv'
  <1>1. /\ UNCHANGED <<mu, pc, op>>
        /\ sess' \in Session
        /\ sess' = "none" <=> sess = "none"
    BY DEF MutexInv, TypeOK, Environment, Drop, Notice, LateDial, TimePasses, Expire, Session
  <1>2. b' \in Breaker /\ b'.state = b.state /\ b'.failureCount = b.failureCount
    BY ElapseSound DEF MutexInv, TypeOK, Environment, Drop, Notice, LateDial, TimePasses, Expire
  <1>3. late' \in Nat /\ orphans' \in Nat
    BY DEF MutexInv, TypeOK, Environment, Drop, Notice, LateDial, TimePasses, Expire
  <1>4. faults' \in 0 .. MaxFaults
    BY FaultBound DEF MutexInv, TypeOK, Environment, Drop, Notice, LateDial, TimePasses, Expire
  <1>5. expired' \in [Caller -> BOOLEAN]
    BY DEF MutexInv, TypeOK, Environment, Drop, Notice, LateDial, TimePasses, Expire
  <1>6. TypeOK'
    BY <1>1, <1>2, <1>3, <1>4, <1>5 DEF MutexInv, TypeOK
  <1>7. /\ MutexHeld' /\ AdmittedNotOpen' /\ NeverUsesNil' /\ OneSession'
        /\ BreakerCountsFailures' /\ OpenOnlyWithoutSession'
    BY <1>1, <1>2 DEF MutexInv, MutexHeld, AdmittedNotOpen, NeverUsesNil, OneSession,
       BreakerCountsFailures, OpenOnlyWithoutSession
  <1> QED
    BY <1>6, <1>7 DEF MutexInv

\* Every step keeps the invariant.
LEMMA NextMutexInv == MutexInv /\ [Next]_vars => MutexInv'
  <1>1. ASSUME MutexInv, UNCHANGED vars
        PROVE  MutexInv'
    BY <1>1 DEF vars, MutexInv, TypeOK, MutexHeld, AdmittedNotOpen, NeverUsesNil, OneSession,
       BreakerCountsFailures, OpenOnlyWithoutSession
  <1> QED
    BY <1>1, EnterStep, RunStep, EnvironmentStep DEF Next

-------------------------------------------------------------------------------
(* What a call can leave behind.                                           *)

\* How leaks (l + o) and calls about to leak (n) may change while each of them
\* remains paid for by a fault (f).
LEMMA StillCounted ==
  ASSUME NEW l \in Nat, NEW o \in Nat, NEW n \in Nat, NEW f \in Nat,
         NEW l1 \in Nat, NEW o1 \in Nat, NEW n1 \in Nat, NEW f1 \in Nat,
         l + o + n <= f, f1 >= f,
         \/ l1 + o1 <= l + o /\ n1 <= n
         \/ l1 + o1 <= l + o + 1 /\ n1 + 1 = n
         \/ l1 + o1 <= l + o /\ n1 <= n + 1 /\ f1 = f + 1
  PROVE  l1 + o1 + n1 <= f1
  OBVIOUS

\* A step keeps the count that leaks no more than it abandons, and abandons only
\* by a fault.
LEMMA LeaksMove ==
  ASSUME TypeOK, LeaksCounted,
         NEW l \in Nat, NEW o \in Nat, NEW f \in Nat, late' = l, orphans' = o, faults' = f,
         \/ /\ Abandoning' \subseteq Abandoning
            /\ l + o <= late + orphans /\ f >= faults
         \/ \E g \in Abandoning : /\ Abandoning' = Abandoning \ {g}
                                  /\ l + o <= late + orphans + 1 /\ f >= faults
         \/ \E g : /\ Abandoning' = Abandoning \cup {g}
                   /\ l + o <= late + orphans /\ f = faults + 1
  PROVE  LeaksCounted'
  <1> DEFINE n == Cardinality(Abandoning)
             m == Cardinality(Abandoning')
  <1>1. /\ IsFiniteSet(Abandoning) /\ n \in Nat
        /\ late \in Nat /\ orphans \in Nat /\ faults \in Nat
        /\ late + orphans + n <= faults
    BY FS_CardinalityType DEF LeaksCounted, TypeOK
  <1>2. /\ IsFiniteSet(Abandoning') /\ f >= faults
        /\ \/ l + o <= late + orphans /\ m <= n
           \/ l + o <= late + orphans + 1 /\ m + 1 = n
           \/ l + o <= late + orphans /\ m <= n + 1 /\ f = faults + 1
    <2>1. CASE Abandoning' \subseteq Abandoning /\ l + o <= late + orphans /\ f >= faults
      BY <1>1, <2>1, FS_Subset
    <2>2. ASSUME NEW g \in Abandoning, Abandoning' = Abandoning \ {g},
                 l + o <= late + orphans + 1, f >= faults
          PROVE  IsFiniteSet(Abandoning') /\ m + 1 = n
      <3>1. IsFiniteSet(Abandoning') /\ m = n - 1
        BY <1>1, <2>2, FS_RemoveElement
      <3> QED
        BY <1>1, <3>1
    <2>3. ASSUME NEW g, Abandoning' = Abandoning \cup {g},
                 l + o <= late + orphans, f = faults + 1
          PROVE  IsFiniteSet(Abandoning') /\ m <= n + 1 /\ f >= faults
      <3>1. IsFiniteSet(Abandoning') /\ m \in {n, n + 1}
        BY <1>1, <2>3, FS_AddElement
      <3> QED
        BY <1>1, <2>3, <3>1
    <2> QED
      BY <2>1, <2>2, <2>3
  <1>3. m \in Nat
    BY <1>2, FS_CardinalityType
  <1>4. l + o + m <= f
    <2> HIDE DEF n, m
    <2> QED
      BY <1>1, <1>2, <1>3, StillCounted
  <1> QED
    BY <1>2, <1>4 DEF LeaksCounted

\* A call that returns abandons nothing any more, and no other call notices.
LEMMA CallsMove ==
  ASSUME TypeOK, NEW g \in Caller, Start(g) \/ Lock(g) \/ Run(g)
  PROVE  /\ Abandoning' \subseteq Abandoning
         /\ g \in Abandoning /\ pc'[g] = "idle" => Abandoning' = Abandoning \ {g}
  <1>t. pc \in [Caller -> CallPc] /\ expired \in [Caller -> BOOLEAN]
    BY DEF TypeOK
  <1>1. CASE Start(g)
    BY <1>1, <1>t DEF Start, Goto, Abandoning
  <1>2. CASE Lock(g) \/ Run(g)
    <2>1. PICK p : pc' = [pc EXCEPT ![g] = p]
      BY <1>2
         DEF Lock, Run, CloseSession, reconnectIfNeeded, connect, DialContext, OpenChannel,
             DeclareTopology, PublishWithContext, QueueDeclarePassive, ConnectFails, Return, Goto
    <2>2. UNCHANGED expired /\ pc[g] # "idle"
      BY <1>2
         DEF Lock, Run, CloseSession, reconnectIfNeeded, connect, DialContext, OpenChannel,
             DeclareTopology, PublishWithContext, QueueDeclarePassive
    <2> QED
      BY <1>t, <2>1, <2>2 DEF Abandoning
  <1> QED
    BY <1>1, <1>2

\* A call leaks only in DialContext, where its context has ended and it returns.
LEMMA CallLeaks ==
  ASSUME TypeOK, NEW g \in Caller, Start(g) \/ Lock(g) \/ Run(g),
         ~(late' = late /\ orphans' = orphans)
  PROVE  /\ g \in Abandoning /\ pc'[g] = "idle"
         /\ \/ late' = late + 1 /\ orphans' = orphans
            \/ late' = late /\ orphans' = orphans + 1
  <1>t. pc \in [Caller -> CallPc]
    BY DEF TypeOK
  <1>1. DialContext(g) /\ ~(late' = late /\ orphans' = orphans)
    BY DEF Start, Lock, Run, CloseSession, reconnectIfNeeded, connect, OpenChannel,
           DeclareTopology, PublishWithContext, QueueDeclarePassive
  <1>2. /\ pc[g] = "dial" /\ expired[g] /\ ConnectFails(g)
        /\ \/ late' = late + 1 /\ orphans' = orphans
           \/ late' = late /\ orphans' = orphans + 1
    BY <1>1 DEF DialContext, dialVars
  <1> QED
    BY <1>t, <1>2 DEF Abandoning, ConnectFails, Return, Goto

LEMMA NextLeaksCounted == TypeOK /\ TypeOK' /\ LeaksCounted /\ [Next]_vars => LeaksCounted'
  <1> SUFFICES ASSUME TypeOK, TypeOK', LeaksCounted, [Next]_vars PROVE LeaksCounted'
    OBVIOUS
  <1>t. /\ late \in Nat /\ orphans \in Nat /\ faults \in Nat
        /\ pc \in [Caller -> CallPc] /\ expired \in [Caller -> BOOLEAN]
    BY DEF TypeOK
  <1>n. PICK l \in Nat, o \in Nat, f \in Nat : late' = l /\ orphans' = o /\ faults' = f
    BY DEF TypeOK
  <1>f. f = faults \/ f = faults + 1
    BY <1>n DEF Next, Start, Lock, Run, Expire, Environment, CloseSession, reconnectIfNeeded,
       connect, DialContext, OpenChannel, DeclareTopology, PublishWithContext,
       QueueDeclarePassive, Drop, Notice, LateDial, TimePasses, Fault, vars
  <1>g. f >= faults
    BY <1>t, <1>f
  <1>1. ASSUME NEW g \in Caller, Start(g) \/ Lock(g) \/ Run(g)
        PROVE  LeaksCounted'
    <2>1. CASE late' = late /\ orphans' = orphans
      <3>1. Abandoning' \subseteq Abandoning /\ l + o <= late + orphans
        BY <1>t, <1>n, <1>1, <2>1, CallsMove
      <3> QED
        BY <1>n, <1>g, <3>1, LeaksMove
    <2>2. CASE ~(late' = late /\ orphans' = orphans)
      <3>1. g \in Abandoning /\ Abandoning' = Abandoning \ {g}
        BY <1>1, <2>2, CallsMove, CallLeaks
      <3>2. \/ l = late + 1 /\ o = orphans
            \/ l = late /\ o = orphans + 1
        BY <1>n, <1>1, <2>2, CallLeaks
      <3>3. l + o <= late + orphans + 1
        BY <1>t, <3>2
      <3> QED
        BY <1>n, <1>g, <3>1, <3>3, LeaksMove
    <2> QED
      BY <2>1, <2>2
  <1>2. ASSUME NEW g \in Caller, Expire(g)
        PROVE  LeaksCounted'
    <2>1. Abandoning' = Abandoning \cup {g}
      BY <1>t, <1>2 DEF Expire, Abandoning
    <2>2. l = late /\ o = orphans /\ f = faults + 1
      BY <1>n, <1>2 DEF Expire, Fault
    <2>3. l + o <= late + orphans
      BY <1>t, <2>2
    <2> QED
      BY <1>n, <2>1, <2>2, <2>3, LeaksMove
  <1>3. CASE Environment \/ UNCHANGED vars
    <2>1. Abandoning' = Abandoning
      BY <1>3 DEF Environment, Drop, Notice, LateDial, TimePasses, vars, Abandoning
    <2>2. \/ l = late /\ o = orphans
          \/ late > 0 /\ l = late - 1 /\ o \in {orphans, orphans + 1}
      BY <1>n, <1>3 DEF Environment, Drop, Notice, LateDial, TimePasses, vars
    <2>3. l + o <= late + orphans
      BY <1>t, <2>2
    <2> QED
      BY <1>n, <1>g, <2>1, <2>3, LeaksMove
  <1> QED
    BY <1>1, <1>2, <1>3 DEF Next

LEMMA InitLeaksCounted == Init => LeaksCounted
  <1> SUFFICES ASSUME Init PROVE LeaksCounted
    OBVIOUS
  <1>1. Abandoning = {}
    BY DEF Init, Abandoning
  <1> QED
    BY <1>1, FS_EmptySet DEF Init, LeaksCounted

-------------------------------------------------------------------------------

\* The mutex keeps session, breaker and calls in step, and what leaks is counted
\* (Publisher, all methods).
THEOREM Invariant == Spec => []IInv
  <1>1. MutexInv => TypeOK
    BY DEF MutexInv
  <1>2. MutexInv' => TypeOK'
    BY DEF MutexInv
  <1> QED
    BY <1>1, <1>2, InitMutexInv, NextMutexInv, InitLeaksCounted, NextLeaksCounted, PTL
       DEF Spec, IInv

\* The variables keep their types.
THEOREM TypeCorrect == Spec => []TypeOK
  <1>1. IInv => TypeOK
    BY DEF IInv, MutexInv
  <1> QED
    BY <1>1, Invariant, PTL

\* PublishJSON and Health never use a nil channel.
THEOREM ChannelAtHand == Spec => []NeverUsesNil
  <1>1. IInv => NeverUsesNil
    BY DEF IInv, MutexInv
  <1> QED
    BY <1>1, Invariant, PTL

\* connect never replaces a session that is still referred to.
THEOREM SingleSession == Spec => []OneSession
  <1>1. IInv => OneSession
    BY DEF IInv, MutexInv
  <1> QED
    BY <1>1, Invariant, PTL

\* The breaker counts right because connect runs under the mutex.
THEOREM BreakerExact == Spec => []BreakerCountsFailures
  <1>1. IInv => BreakerCountsFailures
    BY DEF IInv, MutexInv
  <1> QED
    BY <1>1, Invariant, PTL

\* A replica with a session has a closed circuit.
THEOREM OpenMeansNoSession == Spec => []OpenOnlyWithoutSession
  <1>1. IInv => OpenOnlyWithoutSession
    BY DEF IInv, MutexInv
  <1> QED
    BY <1>1, Invariant, PTL

\* DialContext leaves at most one connection behind for each context that has
\* ended: no failed dial, lost session, Close or health probe leaves any.
THEOREM LeaksBounded == Spec => [](late + orphans <= faults)
  <1>1. IInv => late + orphans <= faults
    <2> SUFFICES ASSUME IInv PROVE late + orphans <= faults
      OBVIOUS
    <2>1. late \in Nat /\ orphans \in Nat /\ faults \in Nat
      BY DEF IInv, MutexInv, TypeOK
    <2>2. /\ late + orphans + Cardinality(Abandoning) <= faults
          /\ Cardinality(Abandoning) \in Nat
      BY FS_CardinalityType DEF IInv, LeaksCounted
    <2> QED
      BY <2>1, <2>2
  <1> QED
    BY <1>1, Invariant, PTL

\* And where no context ends DialContext keeps what its comment says: its caller
\* leaves no open connection behind.
THEOREM PatientDialsLeaveNothing ==
  ASSUME "expire" \notin FaultKinds PROVE Spec => []CancelledDialLeavesNothing
  <1>1. Init => NobodyLeaves
    BY DEF Init, NobodyLeaves, Abandoning
  <1>2. TypeOK /\ NobodyLeaves /\ [Next]_vars => NobodyLeaves'
    <2> SUFFICES ASSUME TypeOK, NobodyLeaves, [Next]_vars PROVE NobodyLeaves'
      OBVIOUS
    <2>1. ASSUME NEW g \in Caller, Start(g) \/ Lock(g) \/ Run(g)
          PROVE  NobodyLeaves'
      BY <2>1, CallsMove, CallLeaks DEF NobodyLeaves
    <2>2. ASSUME NEW g \in Caller, Expire(g)
          PROVE  FALSE
      BY <2>2 DEF Expire, Fault
    <2>3. CASE Environment \/ UNCHANGED vars
      <3>1. Abandoning' = Abandoning
        BY <2>3 DEF Environment, Drop, Notice, LateDial, TimePasses, vars, Abandoning
      <3>2. UNCHANGED <<late, orphans>>
        BY <2>3 DEF Environment, Drop, Notice, LateDial, TimePasses, vars, NobodyLeaves
      <3> QED
        BY <3>1, <3>2 DEF NobodyLeaves
    <2> QED
      BY <2>1, <2>2, <2>3 DEF Next
  <1>3. NobodyLeaves => CancelledDialLeavesNothing
    BY DEF NobodyLeaves, CancelledDialLeavesNothing
  <1> QED
    BY <1>1, <1>2, <1>3, TypeCorrect, PTL DEF Spec

===============================================================================
