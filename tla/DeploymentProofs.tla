-------------------------- MODULE DeploymentProofs --------------------------
(***************************************************************************)
(* Proofs about Deployment, for any replicas, requests, configurations and *)
(* faults.                                                                 *)
(***************************************************************************)
EXTENDS Deployment, SequenceTheorems, TLAPS

-----------------------------------------------------------------------------
(* The calls of DeclareTopology.                                           *)

LEMMA RetryCalls ==
    ASSUME NEW delays \in Delays, NEW op \in Operation
    PROVE  /\ declareRetryQueues(delays, op) \in Seq(Declaration)
           /\ Len(declareRetryQueues(delays, op)) = Len(delays[op])
           /\ \A i \in 1 .. Len(delays[op]) :
                 declareRetryQueues(delays, op)[i] = QueueDeclare(Retry(op, i - 1))
<1> DEFINE call(i) == QueueDeclare([kind |-> "retry", op |-> op, n |-> i - 1])
           s == [i \in 1 .. Len(delays[op]) |-> call(i)]
<1>1. Len(delays[op]) \in Nat /\ Len(delays[op]) <= MaxRetries
  BY DEF Delays
<1>2. \A i \in 1 .. Len(delays[op]) : call(i) \in Declaration
  BY <1>1, TopologyAssumption DEF Declaration, QueueDeclare, Queue
<1>3. s \in Seq(Declaration) /\ Len(s) = Len(delays[op])
  BY <1>1, <1>2
<1>4. QED BY <1>1, <1>3 DEF declareRetryQueues, Retry

\* The whole list is its four parts, one after the other.
LEMMA Calls ==
    ASSUME NEW delays \in Delays
    PROVE  LET up == Len(delays["upload"])
               del == Len(delays["delete"])
               all == DeclareTopology(delays)
           IN  /\ all \in Seq(Declaration)
               /\ Len(all) = 9 + up + del
               /\ up \in Nat /\ del \in Nat
               /\ all[3] = QueueBind(Main("upload"))
               /\ all[5] = QueueBind(Main("delete"))
               /\ \A i \in 1 .. up : all[5 + i] = QueueDeclare(Retry("upload", i - 1))
               /\ \A i \in 1 .. del : all[5 + up + i] = QueueDeclare(Retry("delete", i - 1))
               /\ all[7 + up + del] = QueueBind(DLQ("upload"))
               /\ all[9 + up + del] = QueueBind(DLQ("delete"))
<1> DEFINE head == << Exchange,
                      QueueDeclare(Main("upload")), QueueBind(Main("upload")),
                      QueueDeclare(Main("delete")), QueueBind(Main("delete")) >>
           up == declareRetryQueues(delays, "upload")
           del == declareRetryQueues(delays, "delete")
           tail == << QueueDeclare(DLQ("upload")), QueueBind(DLQ("upload")),
                      QueueDeclare(DLQ("delete")), QueueBind(DLQ("delete")) >>
<1>1. \A op \in Operation : /\ Main(op) \in Queue
                            /\ DLQ(op) \in Queue
  BY TopologyAssumption DEF Queue, Main, DLQ
<1>2. \A q \in Queue : QueueDeclare(q) \in Declaration /\ QueueBind(q) \in Declaration
  BY DEF Declaration, QueueDeclare, QueueBind
<1>3. head \in Seq(Declaration) /\ Len(head) = 5
  BY <1>1, <1>2 DEF Declaration, Operation
<1>4. tail \in Seq(Declaration) /\ Len(tail) = 4
  BY <1>1, <1>2 DEF Operation
<1>5. /\ up \in Seq(Declaration) /\ Len(up) = Len(delays["upload"])
      /\ \A i \in 1 .. Len(up) : up[i] = QueueDeclare(Retry("upload", i - 1))
  BY RetryCalls DEF Operation
<1>6. /\ del \in Seq(Declaration) /\ Len(del) = Len(delays["delete"])
      /\ \A i \in 1 .. Len(del) : del[i] = QueueDeclare(Retry("delete", i - 1))
  BY RetryCalls DEF Operation
<1>7. /\ head[3] = QueueBind(Main("upload")) /\ head[5] = QueueBind(Main("delete"))
      /\ tail[2] = QueueBind(DLQ("upload")) /\ tail[4] = QueueBind(DLQ("delete"))
  OBVIOUS
<1>8. DeclareTopology(delays) = ((head \o up) \o del) \o tail
  BY DEF DeclareTopology
<1> HIDE DEF head, up, del, tail
<1> DEFINE two == head \o up
           three == two \o del
           all == three \o tail
<1>12. Len(up) \in Nat /\ Len(del) \in Nat BY <1>5, <1>6
<1>9. /\ two \in Seq(Declaration)
      /\ Len(two) = 5 + Len(up)
      /\ \A i \in 1 .. 5 + Len(up) : two[i] = IF i <= 5 THEN head[i] ELSE up[i - 5]
  <2>1. /\ two \in Seq(Declaration)
        /\ Len(two) = Len(head) + Len(up)
        /\ \A i \in 1 .. Len(head) + Len(up) :
              two[i] = IF i <= Len(head) THEN head[i] ELSE up[i - Len(head)]
    <3>1. head \in Seq(Declaration) /\ up \in Seq(Declaration)
      BY <1>3, <1>5
    <3>2. QED BY <3>1, ConcatProperties
  <2>2. QED BY <2>1, <1>3
<1> HIDE DEF two
<1>10. /\ three \in Seq(Declaration)
       /\ Len(three) = 5 + Len(up) + Len(del)
       /\ \A i \in 1 .. 5 + Len(up) + Len(del) :
             three[i] = IF i <= 5 + Len(up) THEN two[i] ELSE del[i - (5 + Len(up))]
  <2>1. two \in Seq(Declaration) /\ del \in Seq(Declaration) BY <1>6, <1>9
  <2>2. /\ three \in Seq(Declaration)
        /\ Len(three) = Len(two) + Len(del)
        /\ \A i \in 1 .. Len(two) + Len(del) :
              three[i] = IF i <= Len(two) THEN two[i] ELSE del[i - Len(two)]
    BY <2>1, ConcatProperties
  <2>3. Len(two) = 5 + Len(up) BY <1>9
  <2> HIDE DEF three
  <2>4. QED BY <2>2, <2>3
<1> HIDE DEF three
<1>11. /\ all \in Seq(Declaration)
       /\ Len(all) = 9 + Len(up) + Len(del)
       /\ \A i \in 1 .. 9 + Len(up) + Len(del) :
             all[i] = IF i <= 5 + Len(up) + Len(del) THEN three[i]
                      ELSE tail[i - (5 + Len(up) + Len(del))]
  <2>1. three \in Seq(Declaration) /\ tail \in Seq(Declaration) BY <1>4, <1>10
  <2>2. /\ all \in Seq(Declaration)
        /\ Len(all) = Len(three) + Len(tail)
        /\ \A i \in 1 .. Len(three) + Len(tail) :
              all[i] = IF i <= Len(three) THEN three[i] ELSE tail[i - Len(three)]
    BY <2>1, ConcatProperties
  <2>3. /\ Len(three) = 5 + Len(up) + Len(del)
        /\ Len(three) + Len(tail) = 9 + Len(up) + Len(del)
    BY <1>4, <1>10, <1>12
  <2> HIDE DEF all
  <2>4. QED BY <2>2, <2>3
<1>17. all = DeclareTopology(delays) BY <1>8 DEF two, three
<1> HIDE DEF all
<1>13. \A i \in 1 .. 5 : all[i] = head[i]
  BY <1>9, <1>10, <1>11, <1>12
<1>14. \A i \in 1 .. Len(up) : all[5 + i] = up[i]
  BY <1>9, <1>10, <1>11, <1>12
<1>15. \A i \in 1 .. Len(del) : all[5 + Len(up) + i] = del[i]
  BY <1>10, <1>11, <1>12
<1>16. \A i \in 1 .. 4 : all[5 + Len(up) + Len(del) + i] = tail[i]
  BY <1>11, <1>12
<1>19. /\ all[3] = QueueBind(Main("upload"))
       /\ all[5] = QueueBind(Main("delete"))
  BY <1>13, <1>7
<1>20. /\ all[7 + Len(up) + Len(del)] = QueueBind(DLQ("upload"))
       /\ all[9 + Len(up) + Len(del)] = QueueBind(DLQ("delete"))
  <2>1. /\ all[5 + Len(up) + Len(del) + 2] = tail[2]
        /\ all[5 + Len(up) + Len(del) + 4] = tail[4]
    BY <1>16
  <2>2. /\ 5 + Len(up) + Len(del) + 2 = 7 + Len(up) + Len(del)
        /\ 5 + Len(up) + Len(del) + 4 = 9 + Len(up) + Len(del)
    BY <1>12
  <2>3. QED BY <2>1, <2>2, <1>7
<1>21. QED BY <1>5, <1>6, <1>12, <1>14, <1>15, <1>17, <1>11, <1>19, <1>20

\* The configuration's delays never change their type.
LEMMA ConfigDelays == TypeOK => config.delays \in Delays
BY ProcessAssumption DEF TypeOK

\* A whole topology has every queue a publisher may name, but for the retry
\* queues whose delay is zero or less.
LEMMA InTopology ==
    ASSUME TypeOK, NEW op \in Operation
    PROVE  /\ Topology \subseteq Declaration
           /\ QueueBind(Main(op)) \in Topology
           /\ QueueBind(DLQ(op)) \in Topology
           /\ \A n \in 0 .. Len(config.delays[op]) - 1 :
                 config.delays[op][n + 1] > 0 => QueueDeclare(Retry(op, n)) \in Topology
<1> DEFINE delays == config.delays
           all == DeclareTopology(delays)
           up == Len(delays["upload"])
           del == Len(delays["delete"])
<1>1. delays \in Delays BY ConfigDelays
<1> HIDE DEF delays
<1>2. /\ all \in Seq(Declaration)
      /\ Len(all) = 9 + up + del
      /\ up \in Nat /\ del \in Nat
      /\ all[3] = QueueBind(Main("upload"))
      /\ all[5] = QueueBind(Main("delete"))
      /\ \A i \in 1 .. up : all[5 + i] = QueueDeclare(Retry("upload", i - 1))
      /\ \A i \in 1 .. del : all[5 + up + i] = QueueDeclare(Retry("delete", i - 1))
      /\ all[7 + up + del] = QueueBind(DLQ("upload"))
      /\ all[9 + up + del] = QueueBind(DLQ("delete"))
  BY <1>1, Calls
<1>3. Topology = {d \in {all[i] : i \in DOMAIN all} : ~Skipped(delays, d)}
  BY DEF Topology, delays
<1> HIDE DEF all, up, del
<1>4. DOMAIN all = 1 .. (9 + up + del) /\ \A i \in DOMAIN all : all[i] \in Declaration
  <2>1. DOMAIN all = 1 .. Len(all) /\ \A i \in 1 .. Len(all) : all[i] \in Declaration
    BY <1>2
  <2>2. Len(all) = 9 + up + del BY <1>2
  <2>3. QED BY <2>1, <2>2
<1>11. /\ up \in Nat /\ del \in Nat /\ DOMAIN all = 1 .. (9 + up + del)
       /\ op = "upload" => Len(delays[op]) = up
       /\ op = "delete" => Len(delays[op]) = del
  BY <1>2, <1>4 DEF up, del
<1>5. Topology \subseteq Declaration
  BY <1>3, <1>4
<1>6. \A o \in Operation : /\ ~Skipped(delays, QueueBind(Main(o)))
                           /\ ~Skipped(delays, QueueBind(DLQ(o)))
  BY DEF Skipped, QueueBind, Main, DLQ
<1>7. QueueBind(Main(op)) \in Topology
  <2>1. 3 \in DOMAIN all /\ 5 \in DOMAIN all BY <1>11
  <2>2. QED BY <2>1, <1>2, <1>3, <1>6 DEF Operation
<1>8. QueueBind(DLQ(op)) \in Topology
  <2>1. 7 + up + del \in DOMAIN all /\ 9 + up + del \in DOMAIN all BY <1>11
  <2>2. QED BY <2>1, <1>2, <1>3, <1>6 DEF Operation
<1>9. ASSUME NEW n \in 0 .. Len(delays[op]) - 1, delays[op][n + 1] > 0
      PROVE  QueueDeclare(Retry(op, n)) \in Topology
  <2>1. delays[op][n + 1] \in Int
    BY <1>1 DEF Delays
  <2>2. ~Skipped(delays, QueueDeclare(Retry(op, n)))
    BY <1>9, <2>1 DEF Skipped, TTL, QueueDeclare, Retry
  <2>3. \E i \in DOMAIN all : all[i] = QueueDeclare(Retry(op, n))
    <3>1. CASE op = "upload"
      <4>1. n + 1 \in 1 .. up /\ (n + 1) - 1 = n BY <3>1, <1>11
      <4>2. all[5 + (n + 1)] = QueueDeclare(Retry(op, n)) BY <4>1, <3>1, <1>2
      <4>3. 5 + (n + 1) \in DOMAIN all BY <4>1, <1>11
      <4>4. QED BY <4>2, <4>3
    <3>2. CASE op = "delete"
      <4>1. n + 1 \in 1 .. del /\ (n + 1) - 1 = n BY <3>2, <1>11
      <4>2. all[5 + up + (n + 1)] = QueueDeclare(Retry(op, n)) BY <4>1, <3>2, <1>2
      <4>3. 5 + up + (n + 1) \in DOMAIN all BY <4>1, <1>11
      <4>4. QED BY <4>2, <4>3
    <3>3. QED BY <3>1, <3>2 DEF Operation
  <2>4. QED BY <2>2, <2>3, <1>3
<1>10. QED BY <1>5, <1>7, <1>8, <1>9 DEF delays

-----------------------------------------------------------------------------
(* Type correctness.                                                       *)

LEMMA InitType == Init => TypeOK
<1> SUFFICES ASSUME Init PROVE TypeOK
  OBVIOUS
<1>1. /\ config \in Configs
      /\ phase \in [Process -> Phase]
      /\ opened \in [Process -> SUBSET Resource]
      /\ step \in [Process -> Nat \ {0}]
      /\ signalled \in [Process -> BOOLEAN]
  BY DEF Init, Phase, StartPhase
<1>2. providers \in [Process -> 0 .. Providers] /\ faults \in FaultLog
  BY ProcessAssumption DEF Init, FaultLog
<1>3. /\ bucket \in BOOLEAN
      /\ declared \subseteq Declaration /\ queue \subseteq Copy /\ fate \subseteq Fate
  BY DEF Init
<1>4. /\ at \in [Request -> Server \cup {NoServer}]
      /\ pc \in [Request -> RequestPc]
      /\ \A q \in Request : pc[q] # "idle" => at[q] \in Server
  BY DEF Init, RequestPc
<1>5. /\ ready \in [Worker -> BOOLEAN] /\ failed \in [Worker -> BOOLEAN]
      /\ loop \in [Worker \X Operation -> {"off", "idle", "ended"} \cup Working]
      /\ msg \in [Worker \X Operation -> Message \cup {NoMessage}]
      /\ \A l \in Worker \X Operation : loop[l] \in Working => msg[l] # NoMessage
  BY DEF Init, Working, Undoing
<1>6. QED BY <1>1, <1>2, <1>3, <1>4, <1>5 DEF TypeOK

\* A fault is counted within its bound.
LEMMA FaultBound ==
    ASSUME TypeOK, NEW kind
    PROVE  /\ Fault(kind) => faults' \in FaultLog
           /\ UNCHANGED faults => faults' \in FaultLog
<1>1. faults \in Seq(FaultKinds) /\ Len(faults) \in Nat /\ Len(faults) <= MaxFaults
  BY DEF TypeOK, FaultLog
<1>2. ASSUME Fault(kind) PROVE faults' \in FaultLog
  <2>1. /\ kind \in FaultKinds /\ faults' = Append(faults, kind)
        /\ Len(faults) < MaxFaults
    BY <1>2 DEF Fault
  <2>2. faults' \in Seq(FaultKinds) /\ Len(faults') = Len(faults) + 1
    BY <1>1, <2>1
  <2>3. QED BY <1>1, <2>1, <2>2, ProcessAssumption DEF FaultLog
<1>3. QED BY <1>2 DEF TypeOK

LEMMA CallBound ==
    ASSUME TypeOK, NEW p, NEW ok, Call(p, ok) \/ SessionCall(p, ok)
    PROVE  faults' \in FaultLog
BY FaultBound DEF Call, SessionCall

\* A message that is sent lands in a queue or in fate.
LEMMA SendType ==
    ASSUME TypeOK, NEW left \in SUBSET Copy, NEW q \in Queue, NEW m \in Message,
           Send(left, q, m)
    PROVE  queue' \subseteq Copy /\ fate' \subseteq Fate
BY DEF Send, TypeOK, Copy, Fate

LEMMA QueuesType ==
    ASSUME NEW op \in Operation
    PROVE  Main(op) \in Queue /\ DLQ(op) \in Queue
BY TopologyAssumption DEF Queue, Main, DLQ

LEMMA StartingType ==
    ASSUME TypeOK, NEW p \in Process, Starting(p)
    PROVE  TypeOK'
<1> USE DEF serverVars, workerVars, brokerVars, Goto, Open, Close,
            Phase, StartPhase, RunPhase, ClosePhase
<1>1. UNCHANGED <<at, pc, ready, failed, loop, msg>>
  BY DEF Starting
<1>2. CASE OpenProvider(p)
  <2>1. faults' \in FaultLog BY <1>2, FaultBound DEF OpenProvider
  <2>2. providers' \in [Process -> 0 .. Providers]
    <3>1. providers[p] \in 0 .. Providers BY DEF TypeOK
    <3>2. providers[p] < Providers BY <1>2 DEF OpenProvider
    <3>3. providers[p] + 1 \in 0 .. Providers BY <3>1, <3>2, ProcessAssumption
    <3>4. \/ providers' = providers
          \/ providers' = [providers EXCEPT ![p] = providers[p] + 1]
      BY <1>2 DEF OpenProvider
    <3>5. QED BY <3>3, <3>4 DEF TypeOK
  <2>3. phase' \in [Process -> Phase] BY <1>2 DEF TypeOK, OpenProvider
  <2>4. UNCHANGED <<config, opened, step, signalled, bucket, declared, queue, fate>>
    BY <1>2 DEF OpenProvider
  <2>5. QED BY <1>1, <2>1, <2>2, <2>3, <2>4 DEF TypeOK
<1>3. CASE Bootstrapped(p)
  BY <1>1, <1>3 DEF TypeOK, Bootstrapped
<1>4. CASE OpenPool(p)
  <2>1. faults' \in FaultLog BY <1>4, CallBound DEF OpenPool
  <2>2. QED BY <1>1, <1>4, <2>1 DEF TypeOK, OpenPool, Resource
<1>5. CASE BucketExists(p)
  <2>1. faults' \in FaultLog BY <1>5, CallBound DEF BucketExists
  <2>2. \A ok \in BOOLEAN : AfterCheck(p, ok) \in Phase
    BY DEF AfterCheck, AfterBucket
  <2>3. QED BY <1>1, <1>5, <2>1, <2>2 DEF TypeOK, BucketExists
<1>6. CASE MakeBucket(p)
  <2>1. faults' \in FaultLog BY <1>6, CallBound DEF MakeBucket
  <2>2. AfterBucket(p) \in Phase
    BY DEF AfterBucket
  <2>3. QED BY <1>1, <1>6, <2>1, <2>2 DEF TypeOK, MakeBucket
<1>7. CASE Dial(p)
  <2>1. faults' \in FaultLog BY <1>7, CallBound DEF Dial
  <2>2. QED BY <1>1, <1>7, <2>1 DEF TypeOK, Dial, Resource
<1>8. CASE DeclareNext(p)
  <2>1. faults' \in FaultLog
    BY <1>8, CallBound, FaultBound DEF DeclareNext
  <2>2. step' \in [Process -> Nat \ {0}]
    BY <1>8 DEF TypeOK, DeclareNext, DeclareFails
  <2>3. phase' \in [Process -> Phase] /\ opened' \in [Process -> SUBSET Resource]
    <3>1. \/ phase' = phase /\ opened' = opened
          \/ DeclareFails(p)
      BY <1>8 DEF DeclareNext
    <3>2. QED BY <3>1 DEF TypeOK, DeclareFails
  <2>4. ~TopologyDone(p) => NextCall(p) \in Declaration
    <3>1. step[p] \in Nat \ {0} BY DEF TypeOK
    <3>2. DeclareTopology(config.delays) \in Seq(Declaration)
      BY Calls, ConfigDelays
    <3>3. QED BY <3>1, <3>2 DEF TopologyDone, NextCall
  <2>5. declared' \subseteq Declaration
    BY <1>8, <2>4 DEF TypeOK, DeclareNext, DeclareFails
  <2>6. UNCHANGED <<config, providers, signalled, bucket, queue, fate>>
    BY <1>8 DEF DeclareNext
  <2>7. QED BY <1>1, <2>1, <2>2, <2>3, <2>5, <2>6 DEF TypeOK
<1>9. CASE CloseProvider(p)
  BY <1>1, <1>9, ProcessAssumption DEF TypeOK, CloseProvider
<1>10. CASE Restart(p)
  BY <1>1, <1>10 DEF TypeOK, Restart
<1>11. QED
  BY <1>2, <1>3, <1>4, <1>5, <1>6, <1>7, <1>8, <1>9, <1>10 DEF Starting

\* A reconnect opens a session at most.
LEMMA ReconnectType ==
    ASSUME TypeOK, NEW s \in Server, NEW ok \in BOOLEAN, Reconnect(s, ok)
    PROVE  /\ opened' \in [Process -> SUBSET Resource]
           /\ declared' \subseteq Declaration
           /\ faults' \in FaultLog
<1>1. faults' \in FaultLog
  BY FaultBound DEF Reconnect
<1>2. s \in Process
  BY DEF Process
<1>3. \/ opened' = opened
      \/ opened' = [opened EXCEPT ![s] = @ \cup {NewSession(s)}]
  BY DEF Reconnect, Open
<1>4. Topology \subseteq Declaration
  BY InTopology DEF Operation
<1>5. opened' \in [Process -> SUBSET Resource]
  <2>1. NewSession(s) \in Resource
    BY DEF NewSession, Resource
  <2>2. QED BY <1>2, <1>3, <2>1 DEF TypeOK
<1>6. declared' \subseteq Declaration
  BY <1>4 DEF TypeOK, Reconnect
<1>7. QED BY <1>1, <1>5, <1>6

LEMMA ServerType ==
    ASSUME TypeOK, NEW s \in Server,
           ServerMain(s) \/ ServerOther(s) \/ ServerFault(s)
    PROVE  TypeOK'
<1> USE DEF serverVars, workerVars, brokerVars, processVars, Goto, Close,
            Phase, StartPhase, RunPhase, ClosePhase, RequestPc
<1>1. s \in Process /\ UNCHANGED <<ready, failed, loop, msg>>
  BY DEF Process, ServerMain, ServerOther, ServerFault
<1>2. CASE Connected(s)
  BY <1>1, <1>2 DEF TypeOK, Connected, AfterConnect
<1>3. CASE Start(s)
  <2>1. faults' \in FaultLog BY <1>3, FaultBound DEF Start
  <2>2. QED BY <1>1, <1>3, <2>1 DEF TypeOK, Start
<1>4. CASE Shutdown(s)
  BY <1>1, <1>4 DEF TypeOK, Shutdown
<1>5. CASE ClosePublisher(s)
  BY <1>1, <1>5 DEF TypeOK, ClosePublisher
<1>6. CASE ClosePostgres(s)
  BY <1>1, <1>6 DEF TypeOK, ClosePostgres, ClosePool
<1>7. CASE Exit(s)
  BY <1>1, <1>7 DEF TypeOK, Exit, InFlight
<1>8. CASE DrainTimesOut(s)
  BY <1>1, <1>8 DEF TypeOK, DrainTimesOut, DrainEnds, InFlight
<1>9. CASE GetHealth(s)
  <2>1. /\ opened' \in [Process -> SUBSET Resource]
        /\ declared' \subseteq Declaration
        /\ faults' \in FaultLog
    BY <1>9, ReconnectType DEF GetHealth
  <2>2. QED BY <1>1, <1>9, <2>1 DEF TypeOK, GetHealth
<1>10. CASE ServerCrash(s)
  <2>1. faults' \in FaultLog BY <1>10, FaultBound DEF ServerCrash
  <2>2. QED BY <1>1, <1>10, <2>1, ProcessAssumption DEF TypeOK, ServerCrash, InFlight
<1>11. CASE ServerDrop(s)
  <2>1. faults' \in FaultLog BY <1>11, FaultBound DEF ServerDrop
  <2>2. \A r \in Resource : Lost(r) \in Resource BY DEF Lost, Resource
  <2>3. {Lost(r) : r \in opened[s]} \subseteq Resource BY <1>1, <2>2 DEF TypeOK
  <2>4. QED BY <1>1, <1>11, <2>1, <2>3 DEF TypeOK, ServerDrop
<1>12. CASE Notice(s)
  BY <1>1, <1>12 DEF TypeOK, Notice
<1>13. QED
  BY <1>2, <1>3, <1>4, <1>5, <1>6, <1>7, <1>8, <1>9, <1>10, <1>11, <1>12
     DEF ServerMain, ServerOther, ServerFault

LEMMA RequestType ==
    ASSUME TypeOK, NEW q \in Request,
           (\E s \in Server : NewRequest(s, q)) \/ Statement(q) \/ Handling(q)
    PROVE  TypeOK'
<1> USE DEF serverVars, workerVars, brokerVars, processVars, Handler, RequestPc
<1>1. UNCHANGED <<ready, failed, loop, msg>>
  BY DEF NewRequest, Statement, Handling
<1>2. ASSUME NEW s \in Server, Accept(s, q) PROVE TypeOK'
  BY <1>1, <1>2 DEF TypeOK, Accept
<1>3. CASE Acquire(q)
  BY <1>1, <1>3 DEF TypeOK, Acquire
<1>4. CASE Write(q)
  <2>1. faults' \in FaultLog BY <1>4, FaultBound DEF Write
  <2>2. QED BY <1>1, <1>4, <2>1 DEF TypeOK, Write
<1>5. CASE Undo(q)
  BY <1>1, <1>5 DEF TypeOK, Undo
<1>6. CASE Publish(q)
  <2>1. at[q] \in Server BY <1>6 DEF TypeOK, Publish
  <2>2. /\ opened' \in [Process -> SUBSET Resource]
        /\ declared' \subseteq Declaration
        /\ faults' \in FaultLog
    BY <1>6, <2>1, ReconnectType DEF Publish
  <2>3. queue' \subseteq Copy /\ fate' \subseteq Fate
    <3>1. queue \in SUBSET Copy /\ fate \subseteq Fate BY DEF TypeOK
    <3>2. Main(OpOf[q]) \in Queue /\ FirstEvent(q) \in Message
      BY ProcessAssumption, TopologyAssumption, QueuesType DEF Message, FirstEvent
    <3>3. \/ UNCHANGED <<queue, fate>>
          \/ Send(queue, Main(OpOf[q]), FirstEvent(q))
      BY <1>6 DEF Publish
    <3>4. QED BY <3>1, <3>2, <3>3, SendType
  <2>4. /\ pc' \in [Request -> RequestPc]
        /\ \A r \in Request : pc'[r] # "idle" => at'[r] \in Server
    BY <1>6 DEF TypeOK, Publish
  <2>5. UNCHANGED <<config, phase, providers, step, signalled, bucket, at>>
    BY <1>6 DEF Publish
  <2>6. QED BY <1>1, <2>2, <2>3, <2>4, <2>5 DEF TypeOK
<1>7. CASE PublishBlindly(q)
  <2>1. FirstEvent(q) \in Message
    BY TopologyAssumption DEF Message, FirstEvent
  <2>2. fate' \subseteq Fate
    BY <1>7, <2>1 DEF PublishBlindly, TypeOK, Fate
  <2>3. QED BY <1>1, <1>7, <2>2 DEF TypeOK, PublishBlindly
<1>8. QED
  BY <1>2, <1>3, <1>4, <1>5, <1>6, <1>7 DEF NewRequest, Statement, Handling

\* What goes back to the queues are messages of the main queues.
LEMMA RequeuedType ==
    ASSUME TypeOK, NEW w \in Worker, NEW ops \in SUBSET Operation
    PROVE  Requeued(w, ops) \subseteq Copy
<1>1. ASSUME NEW op \in Operation, loop[<<w, op>>] \in Working
      PROVE  [in |-> Main(op), msg |-> msg[<<w, op>>]] \in Copy
  <2>1. <<w, op>> \in Worker \X Operation OBVIOUS
  <2>2. msg[<<w, op>>] \in Message BY <1>1, <2>1 DEF TypeOK
  <2>3. QED BY <2>2, QueuesType DEF Copy
<1>2. Unacked(w, ops) \subseteq Copy
  BY <1>1 DEF Unacked
<1>3. QED BY <1>2 DEF Requeued, TypeOK

LEMMA WorkerMainType ==
    ASSUME TypeOK, NEW w \in Worker, WorkerMain(w)
    PROVE  TypeOK'
<1> USE DEF serverVars, workerVars, brokerVars, processVars, Goto, Open, Close,
            Phase, StartPhase, RunPhase, ClosePhase, Resource
<1>1. w \in Process /\ UNCHANGED <<at, pc>>
  BY DEF Process, WorkerMain
<1>2. CASE ListenHealth(w)
  <2>1. faults' \in FaultLog BY <1>2, CallBound DEF ListenHealth
  <2>2. QED BY <1>1, <1>2, <2>1 DEF TypeOK, ListenHealth
<1>3. CASE OpenUploadChannel(w)
  <2>1. faults' \in FaultLog BY <1>3, CallBound DEF OpenUploadChannel
  <2>2. QED BY <1>1, <1>3, <2>1 DEF TypeOK, OpenUploadChannel
<1>4. CASE TopologyDeclared(w)
  BY <1>1, <1>4 DEF TypeOK, TopologyDeclared
<1>5. CASE OpenDeleteChannel(w)
  <2>1. faults' \in FaultLog BY <1>5, CallBound DEF OpenDeleteChannel
  <2>2. QED BY <1>1, <1>5, <2>1 DEF TypeOK, OpenDeleteChannel
<1>6. CASE Consume(w)
  <2>1. faults' \in FaultLog BY <1>6, CallBound DEF Consume
  <2>2. PICK ok \in BOOLEAN :
            /\ Goto(w, IF ok THEN "consuming" ELSE "closeDeleteCh")
            /\ ready' = [ready EXCEPT ![w] = ok]
            /\ loop' = [l \in Worker \X Operation |->
                          IF ok /\ l[1] = w THEN "idle" ELSE loop[l]]
    BY <1>6 DEF Consume
  <2>3. phase' \in [Process -> Phase] /\ ready' \in [Worker -> BOOLEAN]
    BY <2>2, <1>1 DEF TypeOK
  <2>4. /\ loop' \in [Worker \X Operation -> {"off", "idle", "ended"} \cup Working]
        /\ \A l \in Worker \X Operation : loop'[l] \in Working => loop[l] \in Working
    BY <2>2 DEF TypeOK, Working, Undoing
  <2>5. UNCHANGED <<config, opened, providers, step, signalled, bucket,
                    brokerVars, failed, msg>>
    BY <1>6 DEF Consume
  <2>6. QED BY <1>1, <2>1, <2>3, <2>4, <2>5 DEF TypeOK
<1>7. CASE Wait(w)
  BY <1>1, <1>7 DEF TypeOK, Wait
<1>8. CASE CloseApp(w)
  BY <1>1, <1>8 DEF TypeOK, CloseApp
<1>9. CASE Stop(w)
  BY <1>1, <1>9 DEF TypeOK, Stop, NothingRuns, Working, Undoing
<1>10. CASE ClosePool(w) /\ UNCHANGED workerVars
  BY <1>1, <1>10 DEF TypeOK, ClosePool
<1>11. ASSUME NEW op \in Operation, CloseChannel(w, op) PROVE TypeOK'
  <2>1. queue' \subseteq Copy BY <1>11, RequeuedType DEF CloseChannel
  <2>2. QED BY <1>1, <1>11, <2>1 DEF TypeOK, CloseChannel
<1>12. QED
  BY <1>2, <1>3, <1>4, <1>5, <1>6, <1>7, <1>8, <1>9, <1>10, <1>11 DEF WorkerMain

\* The target of a failed event is a queue, and its count stays in range.
LEMMA RepublishType ==
    ASSUME TypeOK, NEW op \in Operation, NEW m \in Message, Republish(op, m)
    PROVE  queue' \subseteq Copy /\ fate' \subseteq Fate
<1>1. config.delays \in Delays
  BY ConfigDelays
<1>2. Len(config.delays[op]) \in Nat /\ Len(config.delays[op]) <= MaxRetries
  BY <1>1 DEF Delays
<1>3. m.retry \in 0 .. MaxRetries /\ m.req \in Request
  BY DEF Message
<1>4. CASE m.retry >= Len(config.delays[op])
  <2>1. RetryTarget(config.delays, op, m.retry) = DLQ(op)
    BY <1>4 DEF RetryTarget
  <2>2. Send(queue, DLQ(op), m)
    BY <2>1 DEF Republish, DLQ
  <2>3. QED BY <2>2, QueuesType, SendType DEF TypeOK
<1>5. CASE m.retry < Len(config.delays[op])
  <2>1. RetryTarget(config.delays, op, m.retry) = Retry(op, m.retry)
    BY <1>2, <1>3, <1>5 DEF RetryTarget
  <2>2. Send(queue, Retry(op, m.retry), [m EXCEPT !.retry = @ + 1])
    BY <2>1 DEF Republish, Retry
  <2>3. [m EXCEPT !.retry = @ + 1] \in Message
    BY <1>2, <1>3, <1>5, TopologyAssumption DEF Message
  <2>4. Retry(op, m.retry) \in Queue
    BY <1>3 DEF Queue, Retry
  <2>5. QED BY <2>2, <2>3, <2>4, SendType DEF TypeOK
<1>6. QED
  BY <1>2, <1>3, <1>4, <1>5, TopologyAssumption

\* The end of a failed job, with or without a rollback before it ...
GivingUp(w, op) == JobFails(w, op) \/ (op = "upload" /\ RolledBack(w))

\* ... and the steps of a loop, whether something makes them happen or not.
LoopMoves(w, op) == LoopStep(w, op) \/ (op = "upload" /\ RollbackEnds(w))

LEMMA LoopCases ==
    ASSUME NEW w \in Worker, NEW op \in Operation, LoopMoves(w, op)
    PROVE  /\ \/ Receive(w, op) \/ LoopEnds(w, op) \/ JobDone(w, op) \/ GivingUp(w, op)
              \/ op = "upload" /\ RollsBack(w)
           /\ UNCHANGED <<at, pc>>
BY DEF LoopMoves, LoopStep, RollbackEnds, GivingUp, serverVars

LEMMA GivesUp ==
    ASSUME NEW w \in Worker, NEW op \in Operation, GivingUp(w, op)
    PROVE  /\ loop[<<w, op>>] \in Working
           /\ \E over \in BOOLEAN : GiveUp(w, op, over)
           /\ UNCHANGED <<processVars, bucket, declared, ready, failed>>
           /\ UNCHANGED faults \/ Fault("timeout") \/ Fault("job")
<1>1. CASE JobFails(w, op)
  BY <1>1 DEF JobFails, Breaks, Working
<1>2. CASE op = "upload" /\ RolledBack(w)
  BY <1>2 DEF RolledBack, Working
<1>3. QED BY <1>1, <1>2 DEF GivingUp

\* A job that gives up because its context is over has one that is.
LEMMA GivesUpLate ==
    ASSUME NEW w \in Worker, NEW op \in Operation, GivingUp(w, op)
    PROVE  \E over \in BOOLEAN :
              /\ GiveUp(w, op, over)
              /\ over => \/ GroupDone(w) \/ Fault("timeout")
                         \/ loop[<<w, "upload">>] = "undoLate"
<1>1. CASE JobFails(w, op)
  BY <1>1 DEF JobFails, Breaks
<1>2. CASE op = "upload" /\ RolledBack(w)
  BY <1>2 DEF RolledBack
<1>3. QED BY <1>1, <1>2 DEF GivingUp

LEMMA GivenUp ==
    ASSUME NEW w, NEW op, NEW over \in BOOLEAN, GiveUp(w, op, over)
    PROVE  /\ \/ ~Consumes(w, op) /\ UNCHANGED <<queue, fate>>
              \/ over /\ fate' = Settled(w, op, "rejected") /\ UNCHANGED queue
              \/ ~over /\ Republish(op, msg[<<w, op>>])
           /\ loop' = [loop EXCEPT ![<<w, op>>] = "idle"]
           /\ msg' = [msg EXCEPT ![<<w, op>>] = NoMessage]
BY DEF GiveUp

\* What a step of a loop leaves alone.
LEMMA LoopFrame ==
    ASSUME NEW w \in Worker, NEW op \in Operation, LoopMoves(w, op)
    PROVE  UNCHANGED <<config, phase, opened, providers, step, signalled, bucket,
                       declared, at, pc, ready>>
<1> USE DEF processVars
<1>1. CASE GivingUp(w, op)
  BY <1>1, GivesUp, LoopCases
<1>2. CASE Receive(w, op) \/ LoopEnds(w, op) \/ JobDone(w, op)
  BY <1>2, LoopCases DEF Receive, LoopEnds, JobDone, brokerVars
<1>3. CASE RollsBack(w)
  BY <1>3, LoopCases DEF RollsBack, brokerVars
<1>4. QED BY <1>1, <1>2, <1>3, LoopCases

\* A step of a loop is about its own delivery, and keeps that unless it ends it.
LEMMA LoopMoved ==
    ASSUME TypeOK, NEW w \in Worker, NEW op \in Operation, LoopMoves(w, op)
    PROVE  /\ loop[<<w, op>>] \in {"idle"} \cup Working
           /\ \A l \in Worker \X Operation :
                 l # <<w, op>> => loop'[l] = loop[l] /\ msg'[l] = msg[l]
           /\ \/ Receive(w, op)
              \/ loop'[<<w, op>>] \in Working =>
                    loop[<<w, op>>] \in Working /\ msg'[<<w, op>>] = msg[<<w, op>>]
<1> USE DEF TypeOK, Working, Undoing
<1>1. <<w, op>> \in Worker \X Operation
  OBVIOUS
<1>2. CASE Receive(w, op)
  BY <1>1, <1>2 DEF Receive
<1>3. CASE LoopEnds(w, op)
  BY <1>1, <1>3 DEF LoopEnds
<1>4. CASE JobDone(w, op)
  BY <1>1, <1>4 DEF JobDone
<1>5. CASE GivingUp(w, op)
  <2>1. PICK over \in BOOLEAN : GiveUp(w, op, over)
    BY <1>5, GivesUp
  <2>2. /\ loop' = [loop EXCEPT ![<<w, op>>] = "idle"]
        /\ msg' = [msg EXCEPT ![<<w, op>>] = NoMessage]
    BY <2>1, GivenUp
  <2>3. loop[<<w, op>>] \in Working
    BY <1>5, GivesUp
  <2>4. QED BY <1>1, <2>2, <2>3
<1>6. CASE op = "upload" /\ RollsBack(w)
  BY <1>1, <1>6 DEF RollsBack
<1>7. QED BY <1>2, <1>3, <1>4, <1>5, <1>6, LoopCases

LEMMA LoopType ==
    ASSUME TypeOK, NEW w \in Worker, NEW op \in Operation, LoopMoves(w, op)
    PROVE  TypeOK'
<1> USE DEF Working, Undoing
<1>1. <<w, op>> \in Worker \X Operation /\ UNCHANGED <<at, pc>>
  BY LoopFrame
<1>2. CASE Receive(w, op)
  <2>1. PICK c \in queue : /\ queue' = queue \ {c}
                           /\ msg' = [msg EXCEPT ![<<w, op>>] = c.msg]
    BY <1>2 DEF Receive
  <2>2. c.msg \in Message BY DEF TypeOK, Copy
  <2>3. c.msg # NoMessage BY <2>2, WorkerAssumption
  <2>4. queue' \subseteq Copy BY <2>1 DEF TypeOK
  <2>5. /\ msg' \in [Worker \X Operation -> Message \cup {NoMessage}]
        /\ loop' \in [Worker \X Operation -> {"off", "idle", "ended"} \cup Working]
    BY <1>2, <2>1, <2>2 DEF TypeOK, Receive
  <2>6. \A l \in Worker \X Operation : loop'[l] \in Working => msg'[l] # NoMessage
    BY <1>1, <1>2, <2>1, <2>3 DEF TypeOK, Receive
  <2>7. UNCHANGED <<processVars, bucket, declared, fate, faults, ready, failed>>
    BY <1>2 DEF Receive
  <2>8. QED BY <1>1, <2>4, <2>5, <2>6, <2>7 DEF TypeOK, processVars
<1>3. CASE LoopEnds(w, op)
  BY <1>1, <1>3 DEF TypeOK, LoopEnds, LoopError, processVars, brokerVars
<1>4. /\ loop' = [loop EXCEPT ![<<w, op>>] = "idle"]
      /\ msg' = [msg EXCEPT ![<<w, op>>] = NoMessage]
      =>
      /\ msg' \in [Worker \X Operation -> Message \cup {NoMessage}]
      /\ loop' \in [Worker \X Operation -> {"off", "idle", "ended"} \cup Working]
      /\ \A l \in Worker \X Operation : loop'[l] \in Working => msg'[l] # NoMessage
  BY <1>1 DEF TypeOK
<1>5. ASSUME loop[<<w, op>>] \in Working PROVE msg[<<w, op>>] \in Message
  BY <1>1, <1>5 DEF TypeOK
<1>6. ASSUME loop[<<w, op>>] \in Working, NEW how \in {"handled", "rejected"}
      PROVE  Settled(w, op, how) \subseteq Fate
  BY <1>5, <1>6 DEF Settled, Fate, TypeOK
<1>7. CASE JobDone(w, op)
  <2>1. fate' \subseteq Fate
    BY <1>6, <1>7 DEF JobDone
  <2>2. /\ UNCHANGED <<processVars, bucket, declared, queue, faults, ready, failed>>
        /\ loop' = [loop EXCEPT ![<<w, op>>] = "idle"]
        /\ msg' = [msg EXCEPT ![<<w, op>>] = NoMessage]
    BY <1>7 DEF JobDone
  <2>3. QED BY <1>1, <1>4, <2>1, <2>2 DEF TypeOK, processVars
<1>8. CASE GivingUp(w, op)
  <2>1. faults' \in FaultLog
    BY <1>8, FaultBound, GivesUp
  <2>2. PICK m \in Message : m = msg[<<w, op>>]
    BY <1>5, <1>8, GivesUp
  <2>3. PICK over \in BOOLEAN : GiveUp(w, op, over)
    BY <1>8, GivesUp
  <2>4. queue' \subseteq Copy /\ fate' \subseteq Fate
    <3>1. CASE Republish(op, m) BY <3>1, RepublishType
    <3>2. CASE (fate' = Settled(w, op, "rejected") \/ fate' = fate) /\ queue' = queue
      <4>1. Settled(w, op, "rejected") \subseteq Fate BY <1>6, <1>8, GivesUp
      <4>2. QED BY <3>2, <4>1 DEF TypeOK
    <3>3. QED BY <2>2, <2>3, <3>1, <3>2, GivenUp
  <2>5. /\ UNCHANGED <<processVars, bucket, declared, ready, failed>>
        /\ loop' = [loop EXCEPT ![<<w, op>>] = "idle"]
        /\ msg' = [msg EXCEPT ![<<w, op>>] = NoMessage]
    BY <1>8, <2>3, GivesUp, GivenUp
  <2>6. QED BY <1>1, <1>4, <2>1, <2>4, <2>5 DEF TypeOK, processVars
<1>9. CASE op = "upload" /\ RollsBack(w)
  <2>1. faults' \in FaultLog
    BY <1>9, FaultBound DEF RollsBack, Breaks
  <2>2. PICK over \in BOOLEAN :
            loop' = [loop EXCEPT ![<<w, op>>] = IF over THEN "undoLate" ELSE "undo"]
    BY <1>9 DEF RollsBack
  <2>3. /\ UNCHANGED <<processVars, bucket, brokerVars, ready, failed, msg>>
        /\ loop[<<w, op>>] \in Working
    BY <1>9 DEF RollsBack
  <2>4. /\ loop' \in [Worker \X Operation -> {"off", "idle", "ended"} \cup Working]
        /\ \A l \in Worker \X Operation : loop'[l] \in Working => msg'[l] # NoMessage
    BY <1>1, <2>2, <2>3 DEF TypeOK
  <2>5. QED BY <1>1, <2>1, <2>3, <2>4 DEF TypeOK, processVars, brokerVars
<1>10. QED BY <1>2, <1>3, <1>7, <1>8, <1>9, LoopCases

LEMMA WorkerOtherType ==
    ASSUME TypeOK, NEW w \in Worker, WorkerOther(w) \/ WorkerFault(w)
    PROVE  TypeOK'
<1> USE DEF serverVars, workerVars, brokerVars, processVars, Goto, Close, Phase
<1>1. w \in Process /\ UNCHANGED <<at, pc>>
  BY DEF Process, WorkerOther, WorkerFault
<1>2. CASE Watch(w)
  BY <1>1, <1>2 DEF TypeOK, Watch
<1>3. CASE StopHealth(w)
  BY <1>1, <1>3 DEF TypeOK, StopHealth
<1>4. CASE WorkerCrash(w)
  <2>1. faults' \in FaultLog /\ queue' \subseteq Copy
    BY <1>4, FaultBound, RequeuedType DEF WorkerCrash
  <2>2. /\ phase' \in [Process -> Phase]
        /\ opened' \in [Process -> SUBSET Resource]
        /\ providers' \in [Process -> 0 .. Providers]
    BY <1>1, <1>4, ProcessAssumption DEF TypeOK, WorkerCrash
  <2>3. /\ ready' \in [Worker -> BOOLEAN] /\ failed' \in [Worker -> BOOLEAN]
        /\ loop' \in [Worker \X Operation -> {"off", "idle", "ended"} \cup Working]
        /\ msg' \in [Worker \X Operation -> Message \cup {NoMessage}]
        /\ \A l \in Worker \X Operation : loop'[l] \in Working => msg'[l] # NoMessage
    BY <1>4 DEF TypeOK, WorkerCrash, NothingRuns, Working, Undoing
  <2>4. UNCHANGED <<config, step, signalled, bucket, declared, fate>>
    BY <1>4 DEF WorkerCrash
  <2>5. QED BY <1>1, <2>1, <2>2, <2>3, <2>4 DEF TypeOK
<1>5. CASE WorkerDrop(w)
  <2>1. faults' \in FaultLog /\ queue' \subseteq Copy
    BY <1>5, FaultBound, RequeuedType DEF WorkerDrop
  <2>2. QED BY <1>1, <1>5, <2>1 DEF TypeOK, WorkerDrop
<1>6. ASSUME NEW op \in Operation, ChannelDies(w, op) PROVE TypeOK'
  <2>1. faults' \in FaultLog /\ queue' \subseteq Copy
    BY <1>6, FaultBound, RequeuedType DEF ChannelDies
  <2>2. QED BY <1>1, <1>6, <2>1 DEF TypeOK, ChannelDies
<1>7. QED
  BY <1>2, <1>3, <1>4, <1>5, <1>6 DEF WorkerOther, WorkerFault

LEMMA WorldType ==
    ASSUME TypeOK,
           (\E p \in Process : Sigterm(p)) \/ (\E c \in queue : Expiry(c))
    PROVE  TypeOK'
<1> USE DEF serverVars, workerVars, brokerVars, processVars
<1>1. ASSUME NEW p \in Process, Sigterm(p) PROVE TypeOK'
  <2>1. faults' \in FaultLog BY <1>1, FaultBound DEF Sigterm, Signal
  <2>2. QED BY <1>1, <2>1 DEF TypeOK, Sigterm, Signal
<1>2. ASSUME NEW c \in queue, Expiry(c) PROVE TypeOK'
  <2>1. /\ Send(queue \ {c}, Main(c.in.op), c.msg)
        /\ UNCHANGED <<processVars, bucket, declared, faults, serverVars, workerVars>>
    BY <1>2 DEF Expiry, RetryExpires
  <2>2. c.msg \in Message /\ c.in \in Queue /\ c.in.op \in Operation
    BY DEF TypeOK, Copy, Queue
  <2>3. queue \ {c} \in SUBSET Copy BY DEF TypeOK
  <2>4. queue' \subseteq Copy /\ fate' \subseteq Fate
    BY <2>1, <2>2, <2>3, QueuesType, SendType
  <2>5. QED BY <2>1, <2>4 DEF TypeOK
<1>3. QED BY <1>1, <1>2

LEMMA TypeStep == TypeOK /\ [Next]_vars => TypeOK'
<1> SUFFICES ASSUME TypeOK, [Next]_vars PROVE TypeOK'
  OBVIOUS
<1>1. CASE UNCHANGED vars
  BY <1>1 DEF TypeOK, vars
<1>2. CASE Next
  BY <1>2, StartingType, ServerType, RequestType, WorkerMainType, LoopType,
     WorkerOtherType, WorldType DEF Next, LoopMoves, Operation
<1>3. QED BY <1>1, <1>2

\* Every variable keeps its type: no phase, call or count of DeclareTopology, of
\* the shutdown or of republishOrDLQ leaves its range.
THEOREM TypeCorrect == Spec => []TypeOK
BY InitType, TypeStep, PTL DEF Spec

-----------------------------------------------------------------------------
(* The inductive invariant.                                                *)

LEMMA InitInv == Init => IInv
<1> SUFFICES ASSUME Init PROVE IInv
  OBVIOUS
<1>1. HoldsWhatItOpened
  BY DEF Init, HoldsWhatItOpened, Process
<1>2. LoopsRunWhileConsuming /\ MessagesCounted
  BY DEF Init, LoopsRunWhileConsuming, MessagesCounted, Working, Undoing
<1>3. DeclaredSoFar /\ TopologyBeforeUse
  BY DEF Init, DeclaredSoFar, TopologyBeforeUse
<1>4. RequestsEndWithServer
  BY DEF Init, RequestsEndWithServer, InFlight
<1>5. FaultsExplain
  <2>1. \A p \in Process : ~signalled[p] /\ phase[p] = "telemetry" /\ opened[p] = {}
    BY DEF Init
  <2>2. \A w \in Worker : ~failed[w] /\ loop[<<w, "upload">>] = "off"
    BY DEF Init, Operation
  <2>3. fate = {}
    BY DEF Init
  <2>4. QED BY <2>1, <2>2, <2>3 DEF FaultsExplain, Needs, Dead, Process
<1>6. QED BY <1>1, <1>2, <1>3, <1>4, <1>5 DEF IInv

\* What a process holds open, step by step.
LEMMA HoldsStarting ==
    ASSUME TypeOK, HoldsWhatItOpened, NEW p \in Process, Starting(p)
    PROVE  HoldsWhatItOpened'
<1> USE ProcessAssumption DEF Goto, Open, Close, TypeOK, HoldsWhatItOpened,
            SessionPhase, Process, Early, Late
<1>1. CASE OpenProvider(p)
  BY <1>1 DEF OpenProvider
<1>2. CASE Bootstrapped(p)
  BY <1>2 DEF Bootstrapped
<1>3. CASE OpenPool(p)
  BY <1>3 DEF OpenPool
<1>4. CASE BucketExists(p)
  BY <1>4 DEF BucketExists, AfterCheck, AfterBucket
<1>5. CASE MakeBucket(p)
  BY <1>5 DEF MakeBucket, AfterBucket
<1>6. CASE Dial(p)
  BY <1>6 DEF Dial
<1>7. CASE DeclareNext(p)
  <2>1. /\ UNCHANGED providers /\ phase[p] = "declare"
        /\ UNCHANGED <<phase, opened>> \/ DeclareFails(p)
    BY <1>7 DEF DeclareNext
  <2>2. CASE UNCHANGED <<phase, opened>>
    BY <2>1, <2>2
  <2>3. CASE DeclareFails(p)
    <3>1. CASE p \in Server
      BY <2>1, <2>3, <3>1 DEF DeclareFails
    <3>2. CASE p \notin Server
      BY <2>1, <2>3, <3>2 DEF DeclareFails
    <3>3. QED BY <3>1, <3>2
  <2>4. QED BY <2>1, <2>2, <2>3
<1>8. CASE CloseProvider(p)
  BY <1>8 DEF CloseProvider
<1>9. CASE Restart(p)
  BY <1>9 DEF Restart
<1>10. QED
  BY <1>1, <1>2, <1>3, <1>4, <1>5, <1>6, <1>7, <1>8, <1>9 DEF Starting

\* A session that a request or a probe dials.
LEMMA HoldsReconnect ==
    ASSUME TypeOK, HoldsWhatItOpened, NEW s \in Server,
           phase[s] \in {"serving", "closeSession", "closePool", "closeTelemetry"},
           UNCHANGED <<phase, providers>>,
           \/ opened' = opened
           \/ opened' = [opened EXCEPT ![s] = @ \cup {NewSession(s)}]
    PROVE  HoldsWhatItOpened'
<1> USE ProcessAssumption DEF HoldsWhatItOpened, SessionPhase, Process
<1>1. \A p \in Process : "pool" \in opened'[p] <=> "pool" \in opened[p]
  <2>1. /\ opened \in [Process -> SUBSET Resource]
        /\ s \in Process /\ NewSession(s) # "pool"
    BY DEF TypeOK, NewSession
  <2>2. QED BY <2>1
<1>2. ASSUME NEW r \in Server
      PROVE  /\ opened'[r] \subseteq {"pool"} \cup Early \cup Late
             /\ opened'[r] \cap Early # {} =>
                   phase[r] \in {"declare", "prewarm", "serving", "closeSession"}
             /\ opened'[r] \cap Late # {} =>
                   phase[r] \in {"closePool", "closeTelemetry", "down"}
  <2>1. CASE s = r
    <3>1. opened'[s] \in {opened[s], opened[s] \cup {NewSession(s)}}
      BY DEF TypeOK
    <3>2. NewSession(s) = IF phase[s] \in {"closePool", "closeTelemetry"}
                          THEN "lateSession" ELSE "session"
      BY DEF NewSession
    <3>3. QED BY <2>1, <3>1, <3>2 DEF Early, Late
  <2>2. CASE s # r
    BY <2>2 DEF TypeOK
  <2>3. QED BY <2>1, <2>2
<1>3. \A w \in Worker : opened'[w] = opened[w]
  BY DEF TypeOK
<1>4. QED BY <1>1, <1>2, <1>3

LEMMA HoldsServer ==
    ASSUME TypeOK, HoldsWhatItOpened, NEW s \in Server,
           ServerMain(s) \/ ServerOther(s) \/ ServerFault(s)
    PROVE  HoldsWhatItOpened'
<1> USE ProcessAssumption DEF Goto, Open, Close, TypeOK, HoldsWhatItOpened,
            SessionPhase, Process, processVars, Early, Late
<1>1. CASE Connected(s) \/ Start(s) \/ Shutdown(s)
  <2>1. PICK next \in {"prewarm", "serving", "closeSession"} :
            /\ UNCHANGED <<opened, providers>>
            /\ phase[s] \in {"declare", "prewarm", "serving"}
            /\ phase' = [phase EXCEPT ![s] = next]
    BY <1>1 DEF Connected, AfterConnect, Start, Shutdown
  <2>2. \A p \in Process : p # s => phase'[p] = phase[p]
    BY <2>1
  <2>3. phase'[s] = next
    BY <2>1
  <2>4. \A p \in Process : "pool" \in opened'[p]
           <=> phase'[p] \notin {"telemetry", "pool", "closeTelemetry", "down"}
    BY <2>1, <2>2, <2>3
  <2>5. \A r \in Server :
           /\ opened'[r] \cap Early # {} =>
                 phase'[r] \in {"declare", "prewarm", "serving", "closeSession"}
           /\ opened'[r] \cap Late # {} =>
                 phase'[r] \in {"closePool", "closeTelemetry", "down"}
    BY <2>1, <2>2, <2>3
  <2>6. \A w \in Worker : phase'[w] = phase[w]
    BY <2>2
  <2>7. QED BY <2>1, <2>2, <2>3, <2>4, <2>5, <2>6
<1>2. CASE ClosePublisher(s)
  BY <1>2 DEF ClosePublisher
<1>3. CASE ClosePostgres(s)
  BY <1>3 DEF ClosePostgres, ClosePool
<1>4. CASE Exit(s)
  BY <1>4 DEF Exit
<1>5. CASE DrainTimesOut(s)
  BY <1>5 DEF DrainTimesOut
<1>6. CASE GetHealth(s)
  <2>1. /\ UNCHANGED <<phase, providers>> /\ phase[s] = "serving"
        /\ \/ opened' = opened
           \/ opened' = [opened EXCEPT ![s] = @ \cup {NewSession(s)}]
    BY <1>6 DEF GetHealth, Reconnect
  <2>2. QED BY <2>1, HoldsReconnect
<1>7. CASE ServerCrash(s)
  BY <1>7 DEF ServerCrash
<1>8. CASE ServerDrop(s)
  BY <1>8 DEF ServerDrop, Lost
<1>9. CASE Notice(s)
  BY <1>9 DEF Notice
<1>10. QED
  BY <1>1, <1>2, <1>3, <1>4, <1>5, <1>6, <1>7, <1>8, <1>9
     DEF ServerMain, ServerOther, ServerFault

LEMMA HoldsRequest ==
    ASSUME TypeOK, HoldsWhatItOpened, RequestsEndWithServer, NEW q \in Request,
           (\E s \in Server : NewRequest(s, q)) \/ Statement(q) \/ Handling(q)
    PROVE  HoldsWhatItOpened'
<1>1. CASE Publish(q)
  <2>1. at[q] \in Server
    BY <1>1 DEF TypeOK, Publish
  <2>2. phase' = phase /\ providers' = providers
    BY <1>1 DEF Publish
  <2>3. \/ opened' = opened
        \/ opened' = [opened EXCEPT ![at[q]] = @ \cup {NewSession(at[q])}]
    BY <1>1 DEF Publish, Reconnect, Open
  <2>4. phase[at[q]] \in {"serving", "closeSession", "closePool", "closeTelemetry"}
    BY <1>1, <2>1 DEF RequestsEndWithServer, InFlight, Publish
  <2>5. QED BY <2>1, <2>2, <2>3, <2>4, HoldsReconnect
<1>2. ASSUME ~Publish(q) PROVE UNCHANGED <<phase, opened, providers>>
  BY <1>2 DEF NewRequest, Accept, Statement, Write, Undo, Handling, Acquire,
     PublishBlindly, processVars
<1>3. QED BY <1>1, <1>2 DEF HoldsWhatItOpened

LEMMA HoldsWorker ==
    ASSUME TypeOK, HoldsWhatItOpened, NEW w \in Worker,
           WorkerMain(w) \/ WorkerOther(w) \/ WorkerFault(w)
    PROVE  HoldsWhatItOpened'
<1> USE ProcessAssumption DEF Goto, Open, Close, TypeOK, HoldsWhatItOpened,
            SessionPhase, Process, processVars
<1>1. CASE ListenHealth(w)
  BY <1>1 DEF ListenHealth
<1>2. CASE OpenUploadChannel(w)
  BY <1>2 DEF OpenUploadChannel
<1>3. CASE TopologyDeclared(w)
  BY <1>3 DEF TopologyDeclared
<1>4. CASE OpenDeleteChannel(w)
  BY <1>4 DEF OpenDeleteChannel
<1>5. CASE Consume(w)
  BY <1>5 DEF Consume
<1>6. CASE Wait(w)
  BY <1>6 DEF Wait
<1>7. CASE CloseApp(w)
  BY <1>7 DEF CloseApp
<1>8. CASE Stop(w)
  BY <1>8 DEF Stop
<1>9. CASE ClosePool(w)
  BY <1>9 DEF ClosePool
<1>10. ASSUME NEW op \in Operation, CloseChannel(w, op) PROVE HoldsWhatItOpened'
  BY <1>10 DEF CloseChannel, Channel, Operation
<1>11. CASE Watch(w)
  BY <1>11 DEF Watch
<1>12. CASE StopHealth(w)
  BY <1>12 DEF StopHealth
<1>13. CASE WorkerCrash(w)
  BY <1>13 DEF WorkerCrash
<1>14. CASE WorkerDrop(w)
  BY <1>14 DEF WorkerDrop
<1>15. ASSUME NEW op \in Operation, ChannelDies(w, op) PROVE HoldsWhatItOpened'
  BY <1>15 DEF ChannelDies, Channel, Operation
<1>16. QED
  BY <1>1, <1>2, <1>3, <1>4, <1>5, <1>6, <1>7, <1>8, <1>9, <1>10, <1>11, <1>12,
     <1>13, <1>14, <1>15 DEF WorkerMain, WorkerOther, WorkerFault

\* A loop runs only while main waits for it.
LEMMA LoopsStep ==
    ASSUME TypeOK, LoopsRunWhileConsuming, [Next]_vars
    PROVE  LoopsRunWhileConsuming'
<1> USE ProcessAssumption DEF LoopsRunWhileConsuming, TypeOK, Process, Goto, workerVars,
            serverVars, processVars
<1>1. CASE UNCHANGED vars
  BY <1>1 DEF vars
<1>2. ASSUME NEW p \in Process, Starting(p) PROVE LoopsRunWhileConsuming'
  <2>1. loop' = loop /\ phase[p] \notin {"consuming"}
    BY <1>2 DEF Starting, OpenProvider, Bootstrapped, OpenPool, BucketExists,
       MakeBucket, Dial, DeclareNext, CloseProvider, Restart
  <2>2. \A w \in Worker : phase'[w] = phase[w] \/ w = p
    BY <1>2 DEF Starting, OpenProvider, Bootstrapped, OpenPool, BucketExists,
       MakeBucket, Dial, DeclareNext, DeclareFails, CloseProvider, Restart
  <2>3. QED BY <2>1, <2>2
<1>3. ASSUME NEW s \in Server, ServerMain(s) \/ ServerOther(s) \/ ServerFault(s)
      PROVE  LoopsRunWhileConsuming'
  <2>1. loop' = loop
    BY <1>3 DEF ServerMain, ServerOther, ServerFault
  <2>2. \A w \in Worker : phase'[w] = phase[w]
    BY <1>3 DEF ServerMain, Connected, Start, Shutdown, ClosePublisher, ClosePostgres,
       ClosePool, Exit, ServerOther, DrainTimesOut, GetHealth, ServerFault,
       ServerCrash, ServerDrop, Notice
  <2>3. QED BY <2>1, <2>2
<1>4. ASSUME NEW q \in Request,
             (\E s \in Server : NewRequest(s, q)) \/ Statement(q) \/ Handling(q)
      PROVE  LoopsRunWhileConsuming'
  <2>1. UNCHANGED <<loop, phase>>
    BY <1>4 DEF NewRequest, Accept, Statement, Write, Undo, Handling, Acquire, Publish,
     PublishBlindly
  <2>2. QED BY <2>1
<1>5. ASSUME NEW w \in Worker, WorkerMain(w) PROVE LoopsRunWhileConsuming'
  <2>1. CASE Consume(w)
    <3>1. PICK ok \in BOOLEAN :
              /\ phase' = [phase EXCEPT ![w] = IF ok THEN "consuming" ELSE "closeDeleteCh"]
              /\ loop' = [l \in Worker \X Operation |->
                            IF ok /\ l[1] = w THEN "idle" ELSE loop[l]]
      BY <2>1 DEF Consume
    <3>2. phase[w] = "consume" BY <2>1 DEF Consume
    <3>3. QED BY <3>1, <3>2
  <2>2. CASE Wait(w)
    BY <2>2 DEF Wait, Waited, Working, Undoing
  <2>3. CASE Stop(w)
    BY <2>3 DEF Stop, NothingRuns, Working, Undoing
  <2>4. ASSUME ~Consume(w), ~Wait(w), ~Stop(w) PROVE LoopsRunWhileConsuming'
    <3>1. loop' = loop /\ phase[w] # "consuming"
      BY <1>5, <2>4 DEF WorkerMain, ListenHealth, OpenUploadChannel, TopologyDeclared,
         OpenDeleteChannel, CloseApp, ClosePool, CloseChannel
    <3>2. \A v \in Worker : phase'[v] = phase[v] \/ v = w
      BY <1>5, <2>4 DEF WorkerMain, ListenHealth, OpenUploadChannel, TopologyDeclared,
         OpenDeleteChannel, CloseApp, ClosePool, CloseChannel
    <3>3. QED BY <3>1, <3>2
  <2>5. QED BY <2>1, <2>2, <2>3, <2>4
<1>6. ASSUME NEW w \in Worker, NEW op \in Operation, LoopMoves(w, op)
      PROVE  LoopsRunWhileConsuming'
  <2>1. phase' = phase
    BY <1>6, LoopFrame
  <2>2. \A l \in Worker \X Operation :
           loop'[l] \in {"idle"} \cup Working => loop[l] \in {"idle"} \cup Working
    BY <1>6, LoopMoved
  <2>3. QED BY <2>1, <2>2
<1>7. ASSUME NEW w \in Worker, WorkerOther(w) \/ WorkerFault(w)
      PROVE  LoopsRunWhileConsuming'
  <2>1. CASE WorkerCrash(w)
    BY <2>1 DEF WorkerCrash, NothingRuns, Working, Undoing
  <2>2. ASSUME ~WorkerCrash(w) PROVE UNCHANGED <<loop, phase>>
    BY <1>7, <2>2 DEF WorkerOther, Watch, StopHealth, WorkerFault, WorkerDrop, ChannelDies
  <2>3. QED BY <2>1, <2>2
<1>8. ASSUME (\E p \in Process : Sigterm(p)) \/ (\E c \in queue : Expiry(c))
      PROVE  LoopsRunWhileConsuming'
  <2>1. UNCHANGED <<loop, phase>>
    BY <1>8 DEF Sigterm, Signal, Expiry, RetryExpires
  <2>2. QED BY <2>1
<1>9. QED
  BY <1>1, <1>2, <1>3, <1>4, <1>5, <1>6, <1>7, <1>8 DEF Next, LoopMoves, Operation

LEMMA HoldsStep ==
    ASSUME TypeOK, HoldsWhatItOpened, RequestsEndWithServer, [Next]_vars
    PROVE  HoldsWhatItOpened'
<1>1. ASSUME UNCHANGED <<phase, opened, providers>> PROVE HoldsWhatItOpened'
  BY <1>1 DEF HoldsWhatItOpened
<1>2. CASE UNCHANGED vars
  BY <1>1, <1>2 DEF vars
<1>3. ASSUME NEW w \in Worker, NEW op \in Operation, LoopMoves(w, op)
      PROVE  UNCHANGED <<phase, opened, providers>>
  BY <1>3, LoopFrame
<1>4. ASSUME (\E p \in Process : Sigterm(p)) \/ (\E c \in queue : Expiry(c))
      PROVE  UNCHANGED <<phase, opened, providers>>
  BY <1>4 DEF Sigterm, Signal, Expiry, RetryExpires, processVars
<1>5. QED
  BY <1>1, <1>2, <1>3, <1>4, HoldsStarting, HoldsServer, HoldsRequest, HoldsWorker DEF Next, LoopMoves, Operation

\* No step changes the configuration, nor takes a declaration back.
LEMMA DeclaredStays ==
    ASSUME [Next]_vars
    PROVE  config' = config /\ declared \subseteq declared'
<1> USE DEF brokerVars, processVars, serverVars, workerVars
<1>1. CASE UNCHANGED vars
  BY <1>1 DEF vars
<1>2. ASSUME NEW p \in Process, Starting(p) \/ Sigterm(p)
      PROVE  config' = config /\ declared \subseteq declared'
  BY <1>2 DEF Starting, OpenProvider, Bootstrapped, OpenPool, BucketExists, MakeBucket,
     Dial, DeclareNext, DeclareFails, CloseProvider, Restart, Sigterm, Signal
<1>3. ASSUME NEW s \in Server, ServerMain(s) \/ ServerOther(s) \/ ServerFault(s)
      PROVE  config' = config /\ declared \subseteq declared'
  BY <1>3 DEF ServerMain, Connected, Start, Shutdown, ClosePublisher, ClosePostgres,
     ClosePool, Exit, ServerOther, DrainTimesOut, GetHealth, Reconnect, ServerFault,
     ServerCrash, ServerDrop, Notice
<1>4. ASSUME NEW q \in Request,
             (\E s \in Server : NewRequest(s, q)) \/ Statement(q) \/ Handling(q)
      PROVE  config' = config /\ declared \subseteq declared'
  BY <1>4 DEF NewRequest, Accept, Statement, Write, Undo, Handling, Acquire, Publish,
     PublishBlindly,
     Reconnect
<1>5. ASSUME NEW w \in Worker, WorkerMain(w)
      PROVE  config' = config /\ declared \subseteq declared'
  BY <1>5 DEF WorkerMain, ListenHealth, OpenUploadChannel, TopologyDeclared,
     OpenDeleteChannel, Consume, Wait, CloseApp, Stop, ClosePool, CloseChannel
<1>6. ASSUME NEW w \in Worker, WorkerOther(w) \/ WorkerFault(w)
      PROVE  config' = config /\ declared \subseteq declared'
  BY <1>6 DEF WorkerOther, Watch, StopHealth, WorkerFault, WorkerCrash, WorkerDrop,
     ChannelDies
<1>7. ASSUME NEW w \in Worker, NEW op \in Operation, LoopMoves(w, op)
      PROVE  config' = config /\ declared \subseteq declared'
  BY <1>7, LoopFrame
<1>8. ASSUME NEW c \in queue, Expiry(c)
      PROVE  config' = config /\ declared \subseteq declared'
  BY <1>8 DEF Expiry, RetryExpires
<1>9. QED
  BY <1>1, <1>2, <1>3, <1>4, <1>5, <1>6, <1>7, <1>8 DEF Next, LoopMoves, Operation

\* A step leaves the deliveries that are being handled alone, starts none and
\* may end some, unless a loop receives one.
LEMMA BusyStays ==
    ASSUME TypeOK, [Next]_vars,
           \A w \in Worker, op \in Operation : ~Receive(w, op)
    PROVE  \A l \in Worker \X Operation :
              loop'[l] \in Working => loop[l] \in Working /\ msg'[l] = msg[l]
<1> USE DEF workerVars, TypeOK
<1>1. ASSUME UNCHANGED <<loop, msg>>
      PROVE  \A l \in Worker \X Operation :
                loop'[l] \in Working => loop[l] \in Working /\ msg'[l] = msg[l]
  BY <1>1
<1>2. ASSUME NEW p \in Process, Starting(p) \/ Sigterm(p)
      PROVE  UNCHANGED <<loop, msg>>
  BY <1>2 DEF Starting, Sigterm
<1>3. ASSUME NEW s \in Server, ServerMain(s) \/ ServerOther(s) \/ ServerFault(s)
      PROVE  UNCHANGED <<loop, msg>>
  BY <1>3 DEF ServerMain, ServerOther, ServerFault
<1>4. ASSUME NEW q \in Request,
             (\E s \in Server : NewRequest(s, q)) \/ Statement(q) \/ Handling(q)
      PROVE  UNCHANGED <<loop, msg>>
  BY <1>4 DEF NewRequest, Statement, Handling
<1>5. ASSUME NEW w \in Worker, WorkerMain(w) \/ WorkerOther(w) \/ WorkerFault(w)
      PROVE  \A l \in Worker \X Operation :
                loop'[l] \in Working => loop[l] \in Working /\ msg'[l] = msg[l]
  <2>1. CASE Consume(w)
    BY <2>1 DEF Consume, Working, Undoing
  <2>2. CASE Stop(w) \/ WorkerCrash(w)
    BY <2>2 DEF Stop, WorkerCrash, NothingRuns, Working, Undoing
  <2>3. ASSUME ~Consume(w), ~Stop(w), ~WorkerCrash(w)
        PROVE  UNCHANGED <<loop, msg>>
    BY <1>5, <2>3 DEF WorkerMain, ListenHealth, OpenUploadChannel, TopologyDeclared,
       OpenDeleteChannel, CloseApp, CloseChannel, Wait, WorkerOther, Watch, StopHealth,
       WorkerFault, WorkerDrop, ChannelDies
  <2>4. QED BY <1>1, <2>1, <2>2, <2>3
<1>6. ASSUME NEW w \in Worker, NEW op \in Operation, LoopMoves(w, op)
      PROVE  \A l \in Worker \X Operation :
                loop'[l] \in Working => loop[l] \in Working /\ msg'[l] = msg[l]
  <2>1. ~Receive(w, op)
    OBVIOUS
  <2>2. /\ \A l \in Worker \X Operation :
              l # <<w, op>> => loop'[l] = loop[l] /\ msg'[l] = msg[l]
        /\ loop'[<<w, op>>] \in Working =>
              loop[<<w, op>>] \in Working /\ msg'[<<w, op>>] = msg[<<w, op>>]
    BY <1>6, <2>1, LoopMoved
  <2>3. QED BY <2>2
<1>7. ASSUME NEW c \in queue, Expiry(c) PROVE UNCHANGED <<loop, msg>>
  BY <1>7 DEF Expiry
<1>8. CASE UNCHANGED vars
  BY <1>8 DEF vars
<1>9. QED
  BY <1>1, <1>2, <1>3, <1>4, <1>5, <1>6, <1>7, <1>8 DEF Next, LoopMoves, Operation

\* The steps that change what is in the queues: a publisher sends, the broker
\* requeues, or a loop receives.
LEMMA QueueSteps ==
    ASSUME TypeOK, [Next]_vars
    PROVE  \/ queue' \subseteq queue
           \/ \E q \in Request : Publish(q)
           \/ \E w \in Worker, ops \in SUBSET Operation : queue' = Requeued(w, ops)
           \/ \E w \in Worker, op \in Operation : GivingUp(w, op)
           \/ \E c \in queue : RetryExpires(c)
<1> USE DEF brokerVars, workerVars, serverVars
<1>1. CASE UNCHANGED vars
  BY <1>1 DEF vars
<1>2. ASSUME NEW p \in Process, Starting(p) \/ Sigterm(p) PROVE queue' = queue
  BY <1>2 DEF Starting, OpenProvider, Bootstrapped, OpenPool, BucketExists, MakeBucket,
     Dial, DeclareNext, CloseProvider, Restart, Sigterm, Signal
<1>3. ASSUME NEW s \in Server, ServerMain(s) \/ ServerOther(s) \/ ServerFault(s)
      PROVE  queue' = queue
  BY <1>3 DEF ServerMain, Connected, Start, Shutdown, ClosePublisher, ClosePostgres,
     ClosePool, Exit, ServerOther, DrainTimesOut, GetHealth, ServerFault,
     ServerCrash, ServerDrop, Notice
<1>4. ASSUME NEW q \in Request,
             (\E s \in Server : NewRequest(s, q)) \/ Statement(q) \/ Handling(q)
      PROVE  queue' = queue \/ Publish(q)
  BY <1>4 DEF NewRequest, Accept, Statement, Write, Undo, Handling, Acquire,
     PublishBlindly
<1>5. ASSUME NEW w \in Worker, WorkerMain(w) \/ WorkerOther(w) \/ WorkerFault(w)
      PROVE  queue' = queue \/ \E ops \in SUBSET Operation : queue' = Requeued(w, ops)
  <2>1. ASSUME NEW op \in Operation, CloseChannel(w, op) \/ ChannelDies(w, op)
        PROVE  queue' = Requeued(w, {op})
    BY <2>1 DEF CloseChannel, ChannelDies
  <2>2. ASSUME WorkerCrash(w) \/ WorkerDrop(w) PROVE queue' = Requeued(w, Operation)
    BY <2>2 DEF WorkerCrash, WorkerDrop
  <2>3. ASSUME ~WorkerCrash(w), ~WorkerDrop(w),
               \A op \in Operation : ~CloseChannel(w, op) /\ ~ChannelDies(w, op)
        PROVE  queue' = queue
    BY <1>5, <2>3 DEF WorkerMain, ListenHealth, OpenUploadChannel, TopologyDeclared,
       OpenDeleteChannel, Consume, Wait, CloseApp, Stop, ClosePool, WorkerOther, Watch,
       StopHealth, WorkerFault
  <2>4. QED BY <2>1, <2>2, <2>3
<1>6. ASSUME NEW w \in Worker, NEW op \in Operation, LoopMoves(w, op)
      PROVE  queue' \subseteq queue \/ GivingUp(w, op)
  BY <1>6, LoopCases DEF Receive, LoopEnds, JobDone, RollsBack
<1>7. ASSUME NEW c \in queue, Expiry(c) PROVE RetryExpires(c)
  BY <1>7 DEF Expiry
<1>8. QED
  BY <1>1, <1>2, <1>3, <1>4, <1>5, <1>6, <1>7 DEF Next, LoopMoves, Operation

\* What a publisher sends is counted if its message is.
LEMMA SendCounted ==
    ASSUME MessagesCounted, NEW left \in SUBSET queue, NEW q, NEW m,
           Counted(q.op, m), Send(left, q, m)
    PROVE  \A c \in queue' : Counted(c.in.op, c.msg)
BY DEF MessagesCounted, Send

LEMMA RepublishCounted ==
    ASSUME TypeOK, MessagesCounted, NEW op \in Operation, NEW m \in Message,
           Counted(op, m), Republish(op, m)
    PROVE  \A c \in queue' : Counted(c.in.op, c.msg)
<1>1. Len(config.delays[op]) \in Nat
  BY ConfigDelays DEF Delays
<1>2. m.retry \in 0 .. MaxRetries
  BY DEF Message
<1>3. CASE m.retry >= Len(config.delays[op])
  <2>1. Send(queue, DLQ(op), m) /\ DLQ(op).op = op
    BY <1>3 DEF Republish, RetryTarget, DLQ
  <2>2. QED BY <2>1, SendCounted
<1>4. CASE m.retry < Len(config.delays[op])
  <2>1. RetryTarget(config.delays, op, m.retry) = Retry(op, m.retry)
    BY <1>1, <1>2, <1>4 DEF RetryTarget
  <2>2. Send(queue, Retry(op, m.retry), [m EXCEPT !.retry = @ + 1])
    BY <2>1 DEF Republish, Retry
  <2>3. /\ [m EXCEPT !.retry = @ + 1].req = m.req
        /\ [m EXCEPT !.retry = @ + 1].retry = m.retry + 1
        /\ Retry(op, m.retry).op = op
    BY DEF Message, Retry
  <2>4. [m EXCEPT !.retry = @ + 1] \in Message
    <3>1. m.retry + 1 \in 0 .. MaxRetries
      BY <1>1, <1>2, <1>4, ConfigDelays, TopologyAssumption DEF Delays
    <3>2. QED BY <3>1 DEF Message
  <2>5. Counted(op, [m EXCEPT !.retry = @ + 1])
    BY <1>1, <1>2, <1>4, <2>3, <2>4 DEF Counted
  <2>6. QED BY <2>2, <2>3, <2>5, SendCounted
<1>5. QED BY <1>1, <1>2, <1>3, <1>4, TopologyAssumption

LEMMA CountedStep ==
    ASSUME TypeOK, MessagesCounted, [Next]_vars
    PROVE  MessagesCounted'
<1>1. config' = config
  BY DeclaredStays
<1>2. \A c \in queue' : Counted(c.in.op, c.msg)
  <2>1. CASE queue' \subseteq queue
    BY <2>1 DEF MessagesCounted
  <2>2. ASSUME NEW q \in Request, Publish(q)
        PROVE  \A c \in queue' : Counted(c.in.op, c.msg)
    <3>1. \/ queue' = queue
          \/ Send(queue, Main(OpOf[q]), FirstEvent(q))
      BY <2>2 DEF Publish
    <3>2. Len(config.delays[OpOf[q]]) \in Nat
      BY ConfigDelays, ProcessAssumption DEF Delays
    <3>3. Counted(Main(OpOf[q]).op, FirstEvent(q))
      BY <3>2, TopologyAssumption DEF Counted, Main, Message, FirstEvent
    <3>4. CASE Send(queue, Main(OpOf[q]), FirstEvent(q))
      BY <3>3, <3>4, SendCounted
    <3>5. QED BY <3>1, <3>4 DEF MessagesCounted
  <2>3. ASSUME NEW w \in Worker, NEW ops \in SUBSET Operation, queue' = Requeued(w, ops)
        PROVE  \A c \in queue' : Counted(c.in.op, c.msg)
    <3>1. ASSUME NEW c \in Unacked(w, ops) PROVE Counted(c.in.op, c.msg)
      <4>1. PICK op \in Operation : /\ loop[<<w, op>>] \in Working
                                    /\ c = [in |-> Main(op), msg |-> msg[<<w, op>>]]
        BY <3>1 DEF Unacked
      <4>2. QED BY <4>1 DEF MessagesCounted, Main
    <3>2. QED BY <2>3, <3>1 DEF Requeued, MessagesCounted
  <2>4. ASSUME NEW w \in Worker, NEW op \in Operation, GivingUp(w, op)
        PROVE  \A c \in queue' : Counted(c.in.op, c.msg)
    <3>1. loop[<<w, op>>] \in Working /\ <<w, op>> \in Worker \X Operation
      BY <2>4, GivesUp
    <3>2. PICK m \in Message : m = msg[<<w, op>>]
      BY <3>1 DEF TypeOK
    <3>3. Counted(op, m)
      BY <3>1, <3>2 DEF MessagesCounted
    <3>4. queue' = queue \/ Republish(op, m)
      BY <2>4, <3>2, GivesUp, GivenUp
    <3>5. QED BY <3>3, <3>4, RepublishCounted DEF MessagesCounted
  <2>5. ASSUME NEW c \in queue, RetryExpires(c)
        PROVE  \A d \in queue' : Counted(d.in.op, d.msg)
    <3>1. Send(queue \ {c}, Main(c.in.op), c.msg)
      BY <2>5 DEF RetryExpires
    <3>2. Counted(Main(c.in.op).op, c.msg)
      BY DEF MessagesCounted, Main
    <3>3. QED BY <3>1, <3>2, SendCounted
  <2>6. QED BY <2>1, <2>2, <2>3, <2>4, <2>5, QueueSteps
<1>3. \A w \in Worker, op \in Operation :
         loop'[<<w, op>>] \in Working => Counted(op, msg'[<<w, op>>])
  <2>1. CASE \A w \in Worker, op \in Operation : ~Receive(w, op)
    BY <2>1, BusyStays DEF MessagesCounted
  <2>2. ASSUME NEW w \in Worker, NEW op \in Operation, Receive(w, op)
        PROVE  \A v \in Worker, o \in Operation :
                  loop'[<<v, o>>] \in Working => Counted(o, msg'[<<v, o>>])
    <3>1. PICK c \in queue : /\ c.in = Main(op)
                             /\ msg' = [msg EXCEPT ![<<w, op>>] = c.msg]
      BY <2>2 DEF Receive
    <3>2. Counted(op, c.msg)
      BY <3>1 DEF MessagesCounted, Main
    <3>3. loop' = [loop EXCEPT ![<<w, op>>] = "busy"]
      BY <2>2 DEF Receive
    <3>4. QED BY <3>1, <3>2, <3>3 DEF MessagesCounted, TypeOK
  <2>3. QED BY <2>1, <2>2
<1>4. QED
  BY <1>1, <1>2, <1>3 DEF MessagesCounted, Counted

\* A process on its way to or in DeclareTopology has come to it with step 1, or
\* has made the call it was at.
LEMMA CallsPassed ==
    ASSUME TypeOK, [Next]_vars, NEW p \in Process,
           phase'[p] \in {"health", "uploadCh", "declare"}
    PROVE  \/ phase[p] \in {"health", "uploadCh", "declare"} /\ step'[p] = step[p]
           \/ step'[p] = 1
           \/ DeclareNext(p)
<1> USE ProcessAssumption DEF Goto, TypeOK, Process, processVars, serverVars, workerVars
<1>1. CASE UNCHANGED vars
  BY <1>1 DEF vars
<1>2. ASSUME NEW r \in Process, Starting(r)
      PROVE  \/ phase[p] \in {"health", "uploadCh", "declare"} /\ step'[p] = step[p]
             \/ step'[p] = 1
             \/ DeclareNext(p)
  <2>1. CASE Dial(r)
    BY <2>1 DEF Dial
  <2>2. CASE DeclareNext(r) /\ r # p
    BY <2>2 DEF DeclareNext, DeclareFails
  <2>3. CASE OpenProvider(r) \/ Bootstrapped(r) \/ OpenPool(r)
    BY <2>3 DEF OpenProvider, Bootstrapped, OpenPool
  <2>4. CASE BucketExists(r)
    BY <2>4 DEF BucketExists, AfterCheck, AfterBucket
  <2>5. CASE MakeBucket(r)
    BY <2>5 DEF MakeBucket, AfterBucket
  <2>6. CASE CloseProvider(r) \/ Restart(r)
    BY <2>6 DEF CloseProvider, Restart
  <2>7. QED BY <1>2, <2>1, <2>2, <2>3, <2>4, <2>5, <2>6 DEF Starting
<1>3. ASSUME NEW s \in Server, ServerMain(s) \/ ServerOther(s) \/ ServerFault(s)
      PROVE  phase[p] \in {"health", "uploadCh", "declare"} /\ step'[p] = step[p]
  BY <1>3 DEF ServerMain, Connected, Start, Shutdown, ClosePublisher, ClosePostgres,
     ClosePool, Exit, ServerOther, DrainTimesOut, GetHealth, ServerFault,
     ServerCrash, ServerDrop, Notice
<1>4. ASSUME NEW q \in Request,
             (\E s \in Server : NewRequest(s, q)) \/ Statement(q) \/ Handling(q)
      PROVE  UNCHANGED <<phase, step>>
  BY <1>4 DEF NewRequest, Accept, Statement, Write, Undo, Handling, Acquire, Publish,
     PublishBlindly
<1>5. ASSUME NEW w \in Worker, WorkerMain(w)
      PROVE  phase[p] \in {"health", "uploadCh", "declare"} /\ step'[p] = step[p]
  BY <1>5 DEF WorkerMain, ListenHealth, OpenUploadChannel, TopologyDeclared,
     OpenDeleteChannel, Consume, Wait, CloseApp, Stop, ClosePool, CloseChannel
<1>6. ASSUME NEW w \in Worker, WorkerOther(w) \/ WorkerFault(w)
      PROVE  phase[p] \in {"health", "uploadCh", "declare"} /\ step'[p] = step[p]
  BY <1>6 DEF WorkerOther, Watch, StopHealth, WorkerFault, WorkerCrash, WorkerDrop,
     ChannelDies
<1>7. ASSUME NEW w \in Worker, NEW op \in Operation, LoopMoves(w, op)
      PROVE  UNCHANGED <<phase, step>>
  BY <1>7, LoopFrame
<1>8. ASSUME (\E r \in Process : Sigterm(r)) \/ (\E c \in queue : Expiry(c))
      PROVE  UNCHANGED <<phase, step>>
  BY <1>8 DEF Sigterm, Signal, Expiry, RetryExpires
<1>9. QED
  BY <1>1, <1>2, <1>3, <1>4, <1>5, <1>6, <1>7, <1>8 DEF Next, LoopMoves, Operation

LEMMA SoFarStep ==
    ASSUME TypeOK, DeclaredSoFar, [Next]_vars
    PROVE  DeclaredSoFar'
<1> DEFINE all == DeclareTopology(config.delays)
<1>1. config' = config /\ declared \subseteq declared'
  BY DeclaredStays
<1>2. all \in Seq(Declaration) /\ Len(all) \in Nat /\ DOMAIN all = 1 .. Len(all)
  <2>1. all \in Seq(Declaration) BY Calls, ConfigDelays
  <2> HIDE DEF all
  <2>2. QED BY <2>1
<1> HIDE DEF all
<1>3. ASSUME NEW p \in Process, phase'[p] \in {"health", "uploadCh", "declare"},
             NEW i \in DOMAIN all, i < step'[p], ~Skipped(config.delays, all[i])
      PROVE  all[i] \in declared'
  <2>1. CASE phase[p] \in {"health", "uploadCh", "declare"} /\ step'[p] = step[p]
    BY <1>1, <1>3, <2>1 DEF DeclaredSoFar, all
  <2>2. CASE step'[p] = 1
    BY <1>2, <1>3, <2>2
  <2>3. CASE DeclareNext(p)
    <3>1. phase[p] = "declare" /\ step[p] \in Nat \ {0}
      BY <2>3 DEF DeclareNext, TypeOK
    <3>2. CASE i < step[p]
      BY <1>1, <1>3, <3>1, <3>2 DEF DeclaredSoFar, all
    <3>3. CASE ~(i < step[p])
      <4>1. \/ step'[p] = step[p] + 1 /\ Skipped(config.delays, NextCall(p))
            \/ step'[p] = step[p] + 1 /\ declared' = declared \cup {NextCall(p)}
            \/ step' = step
        BY <2>3, <3>1 DEF DeclareNext, DeclareFails, TypeOK
      <4>2. i = step[p]
        BY <1>2, <1>3, <3>1, <3>3, <4>1
      <4>3. NextCall(p) = all[i]
        BY <4>2 DEF NextCall, all
      <4>4. QED BY <1>2, <1>3, <3>1, <3>3, <4>1, <4>3
    <3>4. QED BY <3>2, <3>3
  <2>4. QED BY <1>3, <2>1, <2>2, <2>3, CallsPassed
<1>4. QED BY <1>1, <1>3 DEF DeclaredSoFar, all

\* A process that is through with its calls has declared the whole topology.
LEMMA DoneDeclares ==
    ASSUME TypeOK, DeclaredSoFar, NEW p \in Process,
           phase[p] = "declare", TopologyDone(p)
    PROVE  Topology \subseteq declared
<1> DEFINE all == DeclareTopology(config.delays)
<1>1. all \in Seq(Declaration) /\ Len(all) \in Nat /\ DOMAIN all = 1 .. Len(all)
  <2>1. all \in Seq(Declaration) BY Calls, ConfigDelays
  <2> HIDE DEF all
  <2>2. QED BY <2>1
<1>2. step[p] \in Nat /\ step[p] > Len(all)
  BY DEF TypeOK, TopologyDone
<1> HIDE DEF all
<1>3. ASSUME NEW i \in DOMAIN all, ~Skipped(config.delays, all[i])
      PROVE  all[i] \in declared
  <2>1. i < step[p] BY <1>1, <1>2
  <2>2. QED BY <1>3, <2>1 DEF DeclaredSoFar, all
<1>4. QED BY <1>3 DEF Topology, all

LEMMA BeforeUseStep ==
    ASSUME TypeOK, LoopsRunWhileConsuming, DeclaredSoFar, TopologyBeforeUse, [Next]_vars
    PROVE  TopologyBeforeUse'
<1> DEFINE Using == {"prewarm", "serving", "deleteCh", "consume", "consuming"}
           Waiting == {"idle", "answered", "failed", "cut"}
<1>1. config' = config /\ declared \subseteq declared'
  BY DeclaredStays
<1>2. Topology' = Topology
  BY <1>1 DEF Topology
<1>3. CASE Topology \subseteq declared
  BY <1>1, <1>2, <1>3 DEF TopologyBeforeUse
<1>4. CASE /\ \A p \in Process : phase[p] \notin Using
           /\ \A q \in Request : pc[q] \in Waiting
           /\ queue = {}
           /\ \A p \in Process : ~(phase[p] = "declare" /\ TopologyDone(p))
  <2> USE <1>4
  <2>1. ASSUME NEW w \in Worker, NEW op \in Operation PROVE loop[<<w, op>>] \notin Working
    <3>1. phase[w] # "consuming"
      BY DEF Process
    <3>2. QED BY <3>1 DEF LoopsRunWhileConsuming
  <2>2. queue' = {}
    <3>1. \A q \in Request : ~Publish(q)
      BY DEF Publish
    <3>2. \A w \in Worker, ops \in SUBSET Operation : Requeued(w, ops) = {}
      BY <2>1 DEF Requeued, Unacked
    <3>3. \A w \in Worker, op \in Operation : ~GivingUp(w, op)
      BY <2>1, GivesUp
    <3>4. QED BY <3>1, <3>2, <3>3, QueueSteps
  <2> USE DEF processVars, serverVars, workerVars, Goto, Process
  <2>3. \A p \in Process : phase'[p] \notin Using
    <3>1. CASE UNCHANGED vars
      BY <3>1 DEF vars
    <3>2. ASSUME NEW r \in Process, Starting(r) PROVE \A p \in Process : phase'[p] \notin Using
      <4>1. CASE OpenProvider(r) \/ Bootstrapped(r) \/ OpenPool(r) \/ CloseProvider(r)
        BY <4>1 DEF TypeOK, OpenProvider, Bootstrapped, OpenPool, CloseProvider
      <4>2. CASE BucketExists(r)
        BY <4>2 DEF TypeOK, BucketExists, AfterCheck, AfterBucket
      <4>3. CASE MakeBucket(r) \/ Dial(r) \/ Restart(r)
        BY <4>3 DEF TypeOK, MakeBucket, AfterBucket, Dial, Restart
      <4>4. CASE DeclareNext(r)
        BY <4>4 DEF TypeOK, DeclareNext, DeclareFails
      <4>5. QED BY <3>2, <4>1, <4>2, <4>3, <4>4 DEF Starting
    <3>3. ASSUME NEW s \in Server, ServerMain(s) \/ ServerOther(s) \/ ServerFault(s)
          PROVE  \A p \in Process : phase'[p] \notin Using
      BY <3>3 DEF TypeOK, ServerMain, Connected, Start, Shutdown, ClosePublisher,
         ClosePostgres, ClosePool, Exit, ServerOther, DrainTimesOut, GetHealth,
         ServerFault, ServerCrash, ServerDrop, Notice
    <3>4. ASSUME NEW q \in Request,
                 (\E s \in Server : NewRequest(s, q)) \/ Statement(q) \/ Handling(q)
          PROVE  phase' = phase
      BY <3>4 DEF NewRequest, Accept, Statement, Write, Undo, Handling, Acquire, Publish,
     PublishBlindly
    <3>5. ASSUME NEW w \in Worker, WorkerMain(w)
          PROVE  \A p \in Process : phase'[p] \notin Using
      <4>1. CASE ListenHealth(w) \/ OpenUploadChannel(w) \/ TopologyDeclared(w)
        BY <3>5, <4>1 DEF TypeOK, ListenHealth, OpenUploadChannel, TopologyDeclared
      <4>2. CASE OpenDeleteChannel(w) \/ Consume(w) \/ Wait(w)
        BY <3>5, <4>2 DEF TypeOK, OpenDeleteChannel, Consume, Wait
      <4>3. CASE ~(ListenHealth(w) \/ OpenUploadChannel(w) \/ TopologyDeclared(w)
                   \/ OpenDeleteChannel(w) \/ Consume(w) \/ Wait(w))
        BY <3>5, <4>3 DEF TypeOK, WorkerMain, CloseApp, Stop, ClosePool, CloseChannel
      <4>4. QED BY <4>1, <4>2, <4>3
    <3>6. ASSUME NEW w \in Worker, WorkerOther(w) \/ WorkerFault(w)
          PROVE  \A p \in Process : phase'[p] \notin Using
      BY <3>6 DEF TypeOK, WorkerOther, Watch, StopHealth, WorkerFault, WorkerCrash,
         WorkerDrop, ChannelDies
    <3>7. ASSUME NEW w \in Worker, NEW op \in Operation, LoopMoves(w, op)
          PROVE  phase' = phase
      BY <3>7, LoopFrame
    <3>8. ASSUME (\E r \in Process : Sigterm(r)) \/ (\E c \in queue : Expiry(c))
          PROVE  phase' = phase
      BY <3>8 DEF Sigterm, Signal, Expiry, RetryExpires
    <3>9. QED BY <3>1, <3>2, <3>3, <3>4, <3>5, <3>6, <3>7, <3>8 DEF Next, LoopMoves, Operation
  <2>4. \A q \in Request : pc'[q] \in Waiting
    <3>1. CASE UNCHANGED vars
      BY <3>1 DEF vars
    <3>2. ASSUME NEW r \in Process, Starting(r) \/ Sigterm(r) PROVE pc' = pc
      BY <3>2 DEF Starting, Sigterm
    <3>3. ASSUME NEW s \in Server, ServerMain(s) \/ ServerOther(s) \/ ServerFault(s)
          PROVE  pc' = pc \/ DrainEnds(s)
      BY <3>3 DEF ServerMain, Connected, Start, Shutdown, ClosePublisher,
         ClosePostgres, ClosePool, Exit, ServerOther, DrainTimesOut, GetHealth,
         ServerFault, ServerCrash, ServerDrop, Notice, DrainEnds
    <3>4. \A q \in Request : /\ \A s \in Server : ~NewRequest(s, q)
                             /\ ~Statement(q)
                             /\ ~Handling(q)
      BY DEF NewRequest, Accept, Statement, Write, Undo, Handling, Acquire, Publish,
     PublishBlindly
    <3>5. ASSUME NEW w \in Worker, WorkerMain(w) \/ WorkerOther(w) \/ WorkerFault(w)
          PROVE  pc' = pc
      BY <3>5 DEF WorkerMain, WorkerOther, WorkerFault
    <3>6. ASSUME NEW w \in Worker, NEW op \in Operation, LoopMoves(w, op)
          PROVE  pc' = pc
      BY <3>6, LoopFrame
    <3>7. ~ \E c \in queue : Expiry(c)
      OBVIOUS
    <3>8. QED BY <3>1, <3>2, <3>3, <3>4, <3>5, <3>6, <3>7
                 DEF Next, DrainEnds, LoopMoves, Operation
  <2>5. QED BY <2>2, <2>3, <2>4 DEF TopologyBeforeUse
<1>5. QED
  BY <1>3, <1>4, DoneDeclares DEF TopologyBeforeUse

\* Requests come in while the server listens, and are gone when the process is.
LEMMA RequestsStep ==
    ASSUME TypeOK, RequestsEndWithServer, [Next]_vars
    PROVE  RequestsEndWithServer'
<1> DEFINE Fine(s) == InFlight(s) # {} =>
               phase[s] \in {"serving", "closeSession", "closePool", "closeTelemetry"}
<1> USE ProcessAssumption DEF RequestsEndWithServer, Process, Goto, processVars,
        serverVars, workerVars
<1>1. ASSUME UNCHANGED <<at, pc>>, NEW s \in Server, phase'[s] = phase[s]
      PROVE  Fine(s)'
  BY <1>1 DEF InFlight
<1>2. CASE UNCHANGED vars
  BY <1>1, <1>2 DEF vars
<1>3. ASSUME NEW p \in Process, Starting(p) PROVE \A s \in Server : Fine(s)'
  <2>1. UNCHANGED <<at, pc>>
    BY <1>3 DEF Starting
  <2>2. phase'[p] \in {"closeTelemetry"} \/ phase[p] \notin
           {"serving", "closeSession", "closePool", "closeTelemetry"}
    BY <1>3 DEF TypeOK, Starting, OpenProvider, Bootstrapped, OpenPool, BucketExists,
       MakeBucket, Dial, DeclareNext, CloseProvider, Restart
  <2>3. \A s \in Server : phase'[s] = phase[s] \/ s = p
    BY <1>3 DEF TypeOK, Starting, OpenProvider, Bootstrapped, OpenPool, BucketExists,
       MakeBucket, Dial, DeclareNext, DeclareFails, CloseProvider, Restart
  <2>4. ASSUME NEW s \in Server PROVE Fine(s)'
    BY <2>1, <2>2, <2>3 DEF InFlight
  <2>5. QED BY <2>4
<1>4. ASSUME NEW r \in Server, ServerMain(r) \/ ServerOther(r) \/ ServerFault(r),
             NEW s \in Server
      PROVE  Fine(s)'
  <2>1. CASE Connected(r) \/ Start(r) \/ Shutdown(r)
    BY <2>1 DEF TypeOK, Connected, AfterConnect, Start, Shutdown, InFlight
  <2>2. CASE ClosePublisher(r) \/ ClosePostgres(r)
    BY <2>2 DEF TypeOK, ClosePublisher, ClosePostgres, ClosePool, InFlight
  <2>3. CASE DrainTimesOut(r)
    BY <2>3 DEF TypeOK, DrainTimesOut, DrainEnds, InFlight
  <2>4. CASE Exit(r) \/ ServerCrash(r)
    <3>1. /\ phase' = [phase EXCEPT ![r] = "down"] /\ at' = at
          /\ pc' = [q \in Request |-> IF q \in InFlight(r) THEN "cut" ELSE pc[q]]
      BY <2>4 DEF Exit, ServerCrash
    <3>2. InFlight(s)' = IF s = r THEN {} ELSE InFlight(s)
      BY <3>1 DEF InFlight
    <3>3. s # r => phase'[s] = phase[s]
      BY <3>1 DEF TypeOK
    <3>4. QED BY <3>2, <3>3
  <2>5. CASE GetHealth(r) \/ Notice(r) \/ ServerDrop(r)
    BY <1>1, <2>5 DEF GetHealth, Notice, ServerDrop
  <2>6. QED
    BY <1>4, <2>1, <2>2, <2>3, <2>4, <2>5 DEF ServerMain, ServerOther, ServerFault
<1>5. ASSUME NEW q \in Request,
             (\E s \in Server : NewRequest(s, q)) \/ Statement(q) \/ Handling(q),
             NEW s \in Server
      PROVE  Fine(s)'
  <2>1. ASSUME NEW r \in Server, NewRequest(r, q) PROVE Fine(s)'
    BY <2>1 DEF TypeOK, NewRequest, Accept, Handler, InFlight
  <2>2. CASE Statement(q) \/ Handling(q)
    <3>1. UNCHANGED <<phase, at>> /\ q \in InFlight(at[q])
          /\ \A r \in Request : r # q => pc'[r] = pc[r]
      BY <2>2 DEF TypeOK, Statement, Write, Undo, Handling, Acquire, Publish,
         PublishBlindly, Handler, InFlight
    <3>2. InFlight(s)' # {} => InFlight(s) # {}
      BY <3>1 DEF InFlight
    <3>3. QED BY <3>1, <3>2
  <2>3. QED BY <1>5, <2>1, <2>2
<1>6. ASSUME NEW w \in Worker, WorkerMain(w) \/ WorkerOther(w) \/ WorkerFault(w),
             NEW s \in Server
      PROVE  Fine(s)'
  <2>1. UNCHANGED <<at, pc>>
    BY <1>6 DEF WorkerMain, WorkerOther, WorkerFault
  <2>2. phase'[s] = phase[s]
    <3>1. w # s
      OBVIOUS
    <3>2. CASE WorkerMain(w)
      BY <3>1, <3>2 DEF TypeOK, WorkerMain, ListenHealth, OpenUploadChannel,
         TopologyDeclared, OpenDeleteChannel, Consume, Wait, CloseApp, Stop, ClosePool,
         CloseChannel
    <3>3. CASE WorkerOther(w) \/ WorkerFault(w)
      BY <3>1, <3>3 DEF TypeOK, WorkerOther, Watch, StopHealth, WorkerFault, WorkerCrash,
         WorkerDrop, ChannelDies
    <3>4. QED BY <1>6, <3>2, <3>3
  <2>3. QED BY <1>1, <2>1, <2>2
<1>7. ASSUME NEW w \in Worker, NEW op \in Operation, LoopMoves(w, op), NEW s \in Server
      PROVE  Fine(s)'
  BY <1>1, <1>7, LoopFrame
<1>8. ASSUME (\E p \in Process : Sigterm(p)) \/ (\E c \in queue : Expiry(c)),
             NEW s \in Server
      PROVE  Fine(s)'
  BY <1>1, <1>8 DEF Sigterm, Signal, Expiry, RetryExpires
<1>9. QED
  BY <1>1, <1>2, <1>3, <1>4, <1>5, <1>6, <1>7, <1>8 DEF Next, LoopMoves, Operation

\* A fault that has happened has happened ...
LEMMA LoggedStays ==
    ASSUME TypeOK, NEW kind, faults' = faults \/ (\E k : Fault(k)), Happened(kind)
    PROVE  Happened(kind)'
<1>1. faults \in Seq(FaultKinds)
  BY DEF TypeOK, FaultLog
<1>2. PICK i \in DOMAIN faults : faults[i] = kind
  BY DEF Happened
<1>3. ASSUME NEW k, Fault(k) PROVE i \in DOMAIN faults' /\ faults'[i] = faults[i]
  <2>1. faults' = Append(faults, k) /\ k \in FaultKinds
    BY <1>3 DEF Fault
  <2>2. QED BY <1>1, <2>1
<1>4. QED BY <1>2, <1>3 DEF Happened

\* ... and one that happens is in the log.
LEMMA Logged ==
    ASSUME TypeOK, NEW kind, Fault(kind)
    PROVE  Happened(kind)'
<1>1. faults \in Seq(FaultKinds)
  BY DEF TypeOK, FaultLog
<1>2. kind \in FaultKinds /\ faults' = Append(faults, kind)
  BY DEF Fault
<1>3. Len(faults) + 1 \in DOMAIN faults' /\ faults'[Len(faults) + 1] = kind
  BY <1>1, <1>2
<1>4. QED BY <1>3 DEF Happened

\* The log of faults only grows.
LEMMA FaultsStay ==
    ASSUME TypeOK, [Next]_vars
    PROVE  \A kind : Happened(kind) => Happened(kind)'
<1> USE DEF workerVars, serverVars
<1>1. faults' = faults \/ \E k : Fault(k)
  <2>1. CASE UNCHANGED vars
    BY <2>1 DEF vars
  <2>2. ASSUME NEW p \in Process, Starting(p) \/ Sigterm(p)
        PROVE  faults' = faults \/ \E k : Fault(k)
    BY <2>2 DEF Starting, OpenProvider, Bootstrapped, OpenPool, BucketExists, MakeBucket,
       Dial, DeclareNext, Call, SessionCall, CloseProvider, Restart, Sigterm, Signal
  <2>3. ASSUME NEW s \in Server, ServerMain(s) \/ ServerOther(s) \/ ServerFault(s)
        PROVE  faults' = faults \/ \E k : Fault(k)
    BY <2>3 DEF ServerMain, Connected, Start, Shutdown, ClosePublisher, ClosePostgres,
       ClosePool, Exit, ServerOther, DrainTimesOut, GetHealth, Reconnect, ServerFault,
       ServerCrash, ServerDrop, Notice
  <2>4. ASSUME NEW q \in Request,
               (\E s \in Server : NewRequest(s, q)) \/ Statement(q) \/ Handling(q)
        PROVE  faults' = faults \/ \E k : Fault(k)
    BY <2>4 DEF NewRequest, Accept, Statement, Write, Undo, Handling, Acquire, Publish,
       PublishBlindly, Reconnect
  <2>5. ASSUME NEW w \in Worker, WorkerMain(w) \/ WorkerOther(w) \/ WorkerFault(w)
        PROVE  faults' = faults \/ \E k : Fault(k)
    BY <2>5 DEF WorkerMain, ListenHealth, OpenUploadChannel, TopologyDeclared,
       OpenDeleteChannel, Consume, Call, SessionCall, Wait, CloseApp, Stop, ClosePool,
       CloseChannel, WorkerOther, Watch, StopHealth, WorkerFault, WorkerCrash,
       WorkerDrop, ChannelDies
  <2>6. ASSUME NEW w \in Worker, NEW op \in Operation, LoopMoves(w, op)
        PROVE  faults' = faults \/ \E k : Fault(k)
    BY <2>6, LoopCases, GivesUp DEF Receive, LoopEnds, JobDone, RollsBack, Breaks
  <2>7. ASSUME NEW c \in queue, Expiry(c) PROVE faults' = faults \/ \E k : Fault(k)
    BY <2>7 DEF Expiry, RetryExpires
  <2>8. QED
    BY <2>1, <2>2, <2>3, <2>4, <2>5, <2>6, <2>7 DEF Next, LoopMoves, Operation
<1>2. QED BY <1>1, LoggedStays

\* How a process comes to be signalled ...
LEMMA SignalledBy ==
    ASSUME TypeOK, [Next]_vars, NEW p \in Process, signalled'[p]
    PROVE  signalled[p] \/ Fault("signal")
<1> USE DEF processVars, serverVars, workerVars
<1>1. CASE UNCHANGED vars
  BY <1>1 DEF vars
<1>2. ASSUME NEW r \in Process, Starting(r) PROVE signalled[p]
  BY <1>2 DEF TypeOK, Starting, OpenProvider, Bootstrapped, OpenPool, BucketExists,
     MakeBucket, Dial, DeclareNext, CloseProvider, Restart
<1>3. ASSUME NEW r \in Process, Sigterm(r) PROVE Fault("signal")
  BY <1>3 DEF Sigterm, Signal
<1>4. ASSUME NEW s \in Server, ServerMain(s) \/ ServerOther(s) \/ ServerFault(s)
      PROVE  signalled[p]
  BY <1>4 DEF ServerMain, Connected, Start, Shutdown, ClosePublisher, ClosePostgres,
     ClosePool, Exit, ServerOther, DrainTimesOut, GetHealth, ServerFault, ServerCrash,
     ServerDrop, Notice
<1>5. ASSUME NEW q \in Request,
             (\E s \in Server : NewRequest(s, q)) \/ Statement(q) \/ Handling(q)
      PROVE  signalled[p]
  BY <1>5 DEF NewRequest, Accept, Statement, Write, Undo, Handling, Acquire, Publish,
     PublishBlindly
<1>6. ASSUME NEW w \in Worker, WorkerMain(w) \/ WorkerOther(w) \/ WorkerFault(w)
      PROVE  signalled[p]
  BY <1>6 DEF WorkerMain, ListenHealth, OpenUploadChannel, TopologyDeclared,
     OpenDeleteChannel, Consume, Wait, CloseApp, Stop, ClosePool, CloseChannel,
     WorkerOther, Watch, StopHealth, WorkerFault, WorkerCrash, WorkerDrop, ChannelDies
<1>7. ASSUME NEW w \in Worker, NEW op \in Operation, LoopMoves(w, op) PROVE signalled[p]
  BY <1>7, LoopFrame
<1>8. ASSUME NEW c \in queue, Expiry(c) PROVE signalled[p]
  BY <1>8 DEF Expiry, RetryExpires
<1>9. QED
  BY <1>1, <1>2, <1>3, <1>4, <1>5, <1>6, <1>7, <1>8 DEF Next, LoopMoves, Operation

\* ... a server's session to be dead ...
LEMMA DeadBy ==
    ASSUME TypeOK, [Next]_vars, NEW s \in Server, Dead(s)'
    PROVE  Dead(s) \/ Fault("serverDrop")
<1> USE ProcessAssumption DEF TypeOK, Process, Open, Close, processVars, serverVars,
        workerVars, Dead
<1>1. CASE UNCHANGED vars
  BY <1>1 DEF vars
<1>2. ASSUME NEW r \in Process, Starting(r) PROVE Dead(s)
  <2>1. CASE OpenPool(r) \/ Dial(r) \/ Restart(r)
    BY <2>1 DEF OpenPool, Dial, Restart
  <2>2. CASE DeclareNext(r)
    BY <2>2 DEF DeclareNext, DeclareFails
  <2>3. ASSUME ~OpenPool(r), ~Dial(r), ~Restart(r), ~DeclareNext(r)
        PROVE  opened' = opened
    BY <1>2, <2>3 DEF Starting, OpenProvider, Bootstrapped, BucketExists, MakeBucket,
       CloseProvider
  <2>4. QED BY <2>1, <2>2, <2>3
<1>3. ASSUME NEW r \in Server, ServerMain(r) PROVE Dead(s)
  BY <1>3 DEF ServerMain, Connected, Start, Shutdown, ClosePublisher, ClosePostgres,
     ClosePool, Exit
<1>4. ASSUME NEW r \in Server, ServerOther(r) \/ ServerCrash(r) PROVE Dead(s)
  <2>1. CASE GetHealth(r)
    <3>1. opened' = opened \/ opened' = [opened EXCEPT ![r] = @ \cup {NewSession(r)}]
      BY <2>1 DEF GetHealth, Reconnect
    <3>2. NewSession(r) \notin {"deadSession", "deadLateSession"}
      BY DEF NewSession
    <3>3. QED BY <3>1, <3>2
  <2>2. CASE DrainTimesOut(r) \/ Notice(r) \/ ServerCrash(r)
    BY <2>2 DEF DrainTimesOut, Notice, ServerCrash
  <2>3. QED BY <1>4, <2>1, <2>2 DEF ServerOther
<1>5. ASSUME NEW r \in Server, ServerDrop(r) PROVE Fault("serverDrop")
  BY <1>5 DEF ServerDrop
<1>6. ASSUME NEW q \in Request,
             (\E r \in Server : NewRequest(r, q)) \/ Statement(q) \/ Handling(q)
      PROVE  Dead(s)
  <2>1. CASE Publish(q)
    <3>1. opened' = opened \/ opened' = [opened EXCEPT ![at[q]] = @ \cup {NewSession(at[q])}]
      BY <2>1 DEF Publish, Reconnect
    <3>2. NewSession(at[q]) \notin {"deadSession", "deadLateSession"}
      BY DEF NewSession
    <3>3. at[q] \in Server
      BY <2>1 DEF Publish
    <3>4. QED BY <3>1, <3>2, <3>3
  <2>2. ASSUME ~Publish(q) PROVE opened' = opened
    BY <1>6, <2>2 DEF NewRequest, Accept, Statement, Write, Undo, Handling, Acquire,
       PublishBlindly
  <2>3. QED BY <2>1, <2>2
<1>7. ASSUME NEW w \in Worker, WorkerMain(w) PROVE Dead(s)
  <2>1. w # s
    OBVIOUS
  <2>2. opened'[s] = opened[s]
    BY <1>7, <2>1 DEF WorkerMain, ListenHealth, OpenUploadChannel, TopologyDeclared,
       OpenDeleteChannel, Consume, Wait, CloseApp, Stop, ClosePool, CloseChannel
  <2>3. QED BY <2>2
<1>8. ASSUME NEW w \in Worker, WorkerOther(w) \/ WorkerFault(w) PROVE Dead(s)
  <2>1. w # s
    OBVIOUS
  <2>2. opened'[s] = opened[s]
    BY <1>8, <2>1 DEF WorkerOther, Watch, StopHealth, WorkerFault, WorkerCrash,
       WorkerDrop, ChannelDies
  <2>3. QED BY <2>2
<1>9. ASSUME NEW w \in Worker, NEW op \in Operation, LoopMoves(w, op) PROVE Dead(s)
  BY <1>9, LoopFrame
<1>10. ASSUME (\E p \in Process : Sigterm(p)) \/ (\E c \in queue : Expiry(c))
       PROVE  Dead(s)
  BY <1>10 DEF Sigterm, Signal, Expiry, RetryExpires
<1>11. QED
  BY <1>1, <1>2, <1>3, <1>4, <1>5, <1>6, <1>7, <1>8, <1>9, <1>10
     DEF Next, ServerFault, LoopMoves, Operation

\* ... an errgroup to have an error ...
LEMMA FailedBy ==
    ASSUME TypeOK, [Next]_vars, NEW w \in Worker, failed'[w]
    PROVE  \/ failed[w]
           \/ Watch(w)
           \/ \E op \in Operation : LoopEnds(w, op) /\ ~Consumes(w, op)
<1> USE DEF TypeOK, workerVars, serverVars
<1>1. CASE UNCHANGED vars
  BY <1>1 DEF vars
<1>2. ASSUME NEW p \in Process, Starting(p) \/ Sigterm(p) PROVE failed[w]
  BY <1>2 DEF Starting, Sigterm
<1>3. ASSUME NEW s \in Server, ServerMain(s) \/ ServerOther(s) \/ ServerFault(s)
      PROVE  failed[w]
  BY <1>3 DEF ServerMain, ServerOther, ServerFault
<1>4. ASSUME NEW q \in Request,
             (\E s \in Server : NewRequest(s, q)) \/ Statement(q) \/ Handling(q)
      PROVE  failed[w]
  BY <1>4 DEF NewRequest, Statement, Handling
<1>5. ASSUME NEW v \in Worker, WorkerMain(v) \/ WorkerOther(v) \/ WorkerFault(v)
      PROVE  failed[w] \/ Watch(w)
  <2>1. CASE Watch(v)
    BY <2>1 DEF Watch
  <2>2. CASE Stop(v) \/ WorkerCrash(v)
    BY <2>2 DEF Stop, WorkerCrash, NothingRuns
  <2>3. ASSUME ~Watch(v), ~Stop(v), ~WorkerCrash(v) PROVE failed' = failed
    BY <1>5, <2>3 DEF WorkerMain, ListenHealth, OpenUploadChannel, TopologyDeclared,
       OpenDeleteChannel, Consume, CloseApp, CloseChannel, Wait, WorkerOther, StopHealth,
       WorkerFault, WorkerDrop, ChannelDies
  <2>4. QED BY <2>1, <2>2, <2>3
<1>6. ASSUME NEW v \in Worker, NEW op \in Operation, LoopMoves(v, op)
      PROVE  failed[w] \/ (LoopEnds(w, op) /\ ~Consumes(w, op))
  <2>1. CASE LoopEnds(v, op)
    BY <2>1 DEF LoopEnds, LoopError
  <2>2. ASSUME ~LoopEnds(v, op) PROVE failed' = failed
    BY <1>6, <2>2, LoopCases, GivesUp DEF Receive, JobDone, RollsBack
  <2>3. QED BY <2>1, <2>2
<1>7. ASSUME NEW c \in queue, Expiry(c) PROVE failed[w]
  BY <1>7 DEF Expiry
<1>8. QED
  BY <1>1, <1>2, <1>3, <1>4, <1>5, <1>6, <1>7 DEF Next, LoopMoves, Operation

\* ... a rollback to be late ...
LEMMA LateBy ==
    ASSUME TypeOK, [Next]_vars, NEW w \in Worker, loop'[<<w, "upload">>] = "undoLate"
    PROVE  loop[<<w, "upload">>] = "undoLate" \/ GroupDone(w) \/ Fault("timeout")
<1>0. ASSUME NEW v \in Worker, NEW op \in Operation, LoopMoves(v, op),
             NEW l \in Worker \X Operation, l # <<v, op>>
      PROVE  loop'[l] = loop[l]
  BY <1>0, LoopMoved
<1> USE DEF TypeOK, workerVars, serverVars
<1>1. CASE UNCHANGED vars
  BY <1>1 DEF vars
<1>2. ASSUME NEW p \in Process, Starting(p) \/ Sigterm(p) PROVE loop' = loop
  BY <1>2 DEF Starting, Sigterm
<1>3. ASSUME NEW s \in Server, ServerMain(s) \/ ServerOther(s) \/ ServerFault(s)
      PROVE  loop' = loop
  BY <1>3 DEF ServerMain, ServerOther, ServerFault
<1>4. ASSUME NEW q \in Request,
             (\E s \in Server : NewRequest(s, q)) \/ Statement(q) \/ Handling(q)
      PROVE  loop' = loop
  BY <1>4 DEF NewRequest, Statement, Handling
<1>5. <<w, "upload">> \in Worker \X Operation
  BY DEF Operation
<1>6. ASSUME NEW v \in Worker, WorkerMain(v) \/ WorkerOther(v) \/ WorkerFault(v)
      PROVE  loop[<<w, "upload">>] = "undoLate"
  <2>1. CASE Consume(v)
    BY <1>5, <2>1 DEF Consume
  <2>2. CASE Stop(v) \/ WorkerCrash(v)
    BY <1>5, <2>2 DEF Stop, WorkerCrash, NothingRuns
  <2>3. ASSUME ~Consume(v), ~Stop(v), ~WorkerCrash(v) PROVE loop' = loop
    <3>1. CASE WorkerMain(v)
      BY <2>3, <3>1 DEF WorkerMain, ListenHealth, OpenUploadChannel, TopologyDeclared,
         OpenDeleteChannel, CloseApp, CloseChannel, Wait
    <3>2. CASE WorkerOther(v) \/ WorkerFault(v)
      BY <2>3, <3>2 DEF WorkerOther, Watch, StopHealth, WorkerFault, WorkerDrop, ChannelDies
    <3>3. QED BY <1>6, <3>1, <3>2
  <2>4. QED BY <2>1, <2>2, <2>3
<1>7. ASSUME NEW v \in Worker, NEW op \in Operation, LoopMoves(v, op)
      PROVE  loop[<<w, "upload">>] = "undoLate" \/ GroupDone(w) \/ Fault("timeout")
  <2>1. CASE <<v, op>> # <<w, "upload">>
    BY <1>0, <1>5, <1>7, <2>1
  <2>2. CASE v = w /\ op = "upload"
    <3>1. CASE RollsBack(w)
      <4>1. PICK over \in BOOLEAN :
                /\ Breaks(w, "upload", over)
                /\ loop' = [loop EXCEPT ![<<w, "upload">>] =
                                            IF over THEN "undoLate" ELSE "undo"]
        BY <3>1 DEF RollsBack
      <4>2. over
        BY <1>5, <4>1
      <4>3. QED BY <4>1, <4>2 DEF Breaks
    <3>2. CASE Receive(w, op) \/ LoopEnds(w, op) \/ JobDone(w, op)
      BY <1>5, <2>2, <3>2 DEF Receive, LoopEnds, JobDone
    <3>3. CASE GivingUp(w, op)
      <4>1. loop' = [loop EXCEPT ![<<w, op>>] = "idle"]
        BY <3>3, GivesUp, GivenUp
      <4>2. QED BY <1>5, <2>2, <4>1
    <3>4. QED BY <1>7, <2>2, <3>1, <3>2, <3>3, LoopCases
  <2>3. QED BY <2>1, <2>2
<1>8. ASSUME NEW c \in queue, Expiry(c) PROVE loop' = loop
  BY <1>8 DEF Expiry
<1>9. QED
  BY <1>1, <1>2, <1>3, <1>4, <1>6, <1>7, <1>8 DEF Next, LoopMoves, Operation

\* ... and a worker to be without what it needs.
LEMMA MissingBy ==
    ASSUME TypeOK, [Next]_vars, NEW w \in Worker,
           NEW r \in {"session", "uploadCh", "deleteCh"},
           phase'[w] \in Needs(r), r \notin opened'[w]
    PROVE  \/ phase[w] \in Needs(r) /\ r \notin opened[w]
           \/ Fault("drop") \/ Fault("channel")
<1> DEFINE Missing == phase[w] \in Needs(r) /\ r \notin opened[w]
<1>1. \A ph \in Needs(r) :
          /\ ph \in {"health", "uploadCh", "declare", "deleteCh", "consume", "consuming"}
          /\ ph \in {"health", "uploadCh"} => r = "session"
  BY DEF Needs
<1>2. {"health", "uploadCh", "declare", "deleteCh", "consume", "consuming"}
          \subseteq Needs("session")
  BY DEF Needs
<1>3. ASSUME phase'[w] = phase[w], opened'[w] = opened[w] PROVE Missing
  BY <1>3
<1> USE ProcessAssumption DEF TypeOK, Process, Goto, Open, Close, processVars, serverVars,
        workerVars
<1>4. CASE UNCHANGED vars
  BY <1>3, <1>4 DEF vars
<1>5. ASSUME NEW p \in Process, Starting(p) PROVE Missing
  <2>1. CASE p # w
    <3>1. phase'[w] = phase[w] /\ opened'[w] = opened[w]
      BY <1>5, <2>1 DEF Starting, OpenProvider, Bootstrapped, OpenPool, BucketExists,
         MakeBucket, Dial, DeclareNext, DeclareFails, CloseProvider, Restart
    <3>2. QED BY <1>3, <3>1
  <2>2. CASE p = w
    <3>1. CASE OpenProvider(w) \/ Bootstrapped(w) \/ OpenPool(w) \/ CloseProvider(w)
               \/ Restart(w)
      <4>1. UNCHANGED <<phase, opened>> \/ phase'[w] \in {"closeTelemetry", "pool",
                                                        "bucket", "telemetry"}
        BY <3>1 DEF OpenProvider, Bootstrapped, OpenPool, CloseProvider, Restart
      <4>2. QED BY <1>3, <1>1, <4>1
    <3>2. CASE BucketExists(w) \/ MakeBucket(w)
      <4>1. phase'[w] \in {"closePool", "dial", "makeBucket"}
        BY <3>2 DEF BucketExists, MakeBucket, AfterCheck, AfterBucket
      <4>2. QED BY <1>1, <4>1
    <3>3. CASE Dial(w)
      <4>1. \/ phase'[w] = "closePool"
            \/ phase'[w] = "health" /\ "session" \in opened'[w]
        BY <3>3 DEF Dial
      <4>2. QED BY <1>1, <4>1
    <3>4. CASE DeclareNext(w)
      <4>1. UNCHANGED <<phase, opened>> \/ phase'[w] = "closeUploadCh"
        BY <3>4 DEF DeclareNext, DeclareFails
      <4>2. QED BY <1>3, <4>1 DEF Needs
    <3>5. QED BY <1>5, <2>2, <3>1, <3>2, <3>3, <3>4 DEF Starting
  <2>3. QED BY <2>1, <2>2
<1>6. ASSUME NEW s \in Server, ServerMain(s) \/ ServerOther(s) \/ ServerFault(s)
      PROVE  Missing
  <2>1. s # w
    OBVIOUS
  <2>2. CASE ServerMain(s)
    <3>1. phase'[w] = phase[w] /\ opened'[w] = opened[w]
      BY <2>1, <2>2 DEF ServerMain, Connected, Start, Shutdown, ClosePublisher,
         ClosePostgres, ClosePool, Exit
    <3>2. QED BY <1>3, <3>1
  <2>3. CASE ServerOther(s) \/ ServerFault(s)
    <3>1. phase'[w] = phase[w] /\ opened'[w] = opened[w]
      BY <2>1, <2>3 DEF ServerOther, DrainTimesOut, GetHealth, Reconnect, Notice,
         ServerFault, ServerCrash, ServerDrop
    <3>2. QED BY <1>3, <3>1
  <2>4. QED BY <1>6, <2>2, <2>3
<1>7. ASSUME NEW q \in Request,
             (\E s \in Server : NewRequest(s, q)) \/ Statement(q) \/ Handling(q)
      PROVE  Missing
  <2>1. phase' = phase
    BY <1>7 DEF NewRequest, Accept, Statement, Write, Undo, Handling, Acquire, Publish,
       PublishBlindly
  <2>2. opened'[w] = opened[w]
    <3>1. CASE Publish(q)
      <4>1. at[q] \in Server /\ at[q] # w BY <3>1 DEF Publish
      <4>2. QED BY <3>1, <4>1 DEF Publish, Reconnect
    <3>2. ASSUME ~Publish(q) PROVE opened' = opened
      BY <1>7, <3>2 DEF NewRequest, Accept, Statement, Write, Undo, Handling, Acquire,
         PublishBlindly
    <3>3. QED BY <3>1, <3>2
  <2>3. QED BY <1>3, <2>1, <2>2
<1>8. ASSUME NEW v \in Worker, WorkerMain(v) PROVE Missing
  <2>1. CASE v # w
    <3>1. phase'[w] = phase[w]
      BY <1>8, <2>1 DEF WorkerMain, ListenHealth, OpenUploadChannel, TopologyDeclared,
         OpenDeleteChannel, Consume, Wait, CloseApp, Stop, ClosePool, CloseChannel
    <3>2. opened'[w] = opened[w]
      <4>1. CASE ListenHealth(v) \/ OpenUploadChannel(v) \/ OpenDeleteChannel(v)
        BY <2>1, <4>1 DEF ListenHealth, OpenUploadChannel, OpenDeleteChannel
      <4>2. CASE \/ CloseApp(v) \/ ClosePool(v)
                 \/ \E op \in Operation : CloseChannel(v, op)
        BY <2>1, <4>2 DEF CloseApp, ClosePool, CloseChannel
      <4>3. CASE TopologyDeclared(v) \/ Consume(v) \/ Wait(v) \/ Stop(v)
        BY <4>3 DEF TopologyDeclared, Consume, Wait, Stop
      <4>4. QED BY <1>8, <4>1, <4>2, <4>3 DEF WorkerMain
    <3>3. QED BY <1>3, <3>1, <3>2
  <2>2. CASE v = w
    <3>1. CASE ListenHealth(w)
      <4>1. /\ phase[w] = "health" /\ phase'[w] \in {"uploadCh", "closeSession"}
            /\ opened[w] \subseteq opened'[w]
        BY <3>1 DEF ListenHealth
      <4>2. QED BY <1>1, <1>2, <4>1
    <3>2. CASE OpenUploadChannel(w)
      <4>1. /\ phase[w] = "uploadCh" /\ phase'[w] \in {"declare", "closeSession"}
            /\ opened[w] \subseteq opened'[w]
            /\ phase'[w] = "declare" => "uploadCh" \in opened'[w]
        BY <3>2 DEF OpenUploadChannel
      <4>2. QED BY <1>1, <1>2, <4>1 DEF Needs
    <3>3. CASE TopologyDeclared(w)
      BY <3>3 DEF TopologyDeclared, Needs
    <3>4. CASE OpenDeleteChannel(w)
      BY <3>4 DEF OpenDeleteChannel, Needs
    <3>5. CASE Consume(w)
      BY <3>5 DEF Consume, Needs
    <3>6. ASSUME ~ListenHealth(w), ~OpenUploadChannel(w), ~TopologyDeclared(w),
                 ~OpenDeleteChannel(w), ~Consume(w)
          PROVE  phase'[w] \in {"closeDeleteCh", "closeUploadCh", "closeSession",
                                "closePool", "closeTelemetry", "down"}
      BY <1>8, <2>2, <3>6 DEF WorkerMain, Wait, CloseApp, Stop, ClosePool, CloseChannel
    <3>7. QED BY <3>1, <3>2, <3>3, <3>4, <3>5, <3>6 DEF Needs
  <2>3. QED BY <2>1, <2>2
<1>9. ASSUME NEW v \in Worker, WorkerOther(v) PROVE Missing
  BY <1>9 DEF WorkerOther, Watch, StopHealth
<1>10. ASSUME NEW v \in Worker, WorkerFault(v)
      PROVE  Missing \/ Fault("drop") \/ Fault("channel")
  <2>1. CASE WorkerCrash(v)
    <3>1. CASE v = w
      BY <2>1, <3>1 DEF WorkerCrash, Needs
    <3>2. CASE v # w
      BY <1>3, <2>1, <3>2 DEF WorkerCrash
    <3>3. QED BY <3>1, <3>2
  <2>2. CASE WorkerDrop(v)
    BY <2>2 DEF WorkerDrop
  <2>3. ASSUME NEW op \in Operation, ChannelDies(v, op) PROVE Fault("channel")
    BY <2>3 DEF ChannelDies
  <2>4. QED BY <1>10, <2>1, <2>2, <2>3 DEF WorkerFault
<1>11. ASSUME NEW v \in Worker, NEW op \in Operation, LoopMoves(v, op) PROVE Missing
  BY <1>3, <1>11, LoopFrame
<1>12. ASSUME (\E p \in Process : Sigterm(p)) \/ (\E c \in queue : Expiry(c))
       PROVE  Missing
  BY <1>3, <1>12 DEF Sigterm, Signal, Expiry, RetryExpires
<1>13. QED
  BY <1>3, <1>4, <1>5, <1>6, <1>7, <1>8, <1>9, <1>10, <1>11, <1>12
     DEF Next, LoopMoves, Operation

\* What a job that is over, and one that gives up for that, has in the log.
LEMMA OverIsCut ==
    ASSUME TypeOK, FaultsExplain, [Next]_vars, NEW w \in Worker,
           GroupDone(w) \/ Fault("timeout") \/ loop[<<w, "upload">>] = "undoLate"
    PROVE  JobCut'
<1>1. \A kind : Happened(kind) => Happened(kind)'
  BY FaultsStay
<1>2. CASE GroupDone(w)
  BY <1>1, <1>2 DEF GroupDone, FaultsExplain, JobCut, ConnectionCut, Process
<1>3. CASE Fault("timeout")
  BY <1>3, Logged DEF JobCut
<1>4. CASE loop[<<w, "upload">>] = "undoLate"
  BY <1>1, <1>4 DEF FaultsExplain, JobCut, ConnectionCut
<1>5. QED BY <1>2, <1>3, <1>4

\* What is added to fate besides what workers handle and the broker drops.
LEMMA FateBy ==
    ASSUME TypeOK, [Next]_vars, NEW f \in fate', f \notin fate,
           f.how \in {"lost", "rejected"}
    PROVE  \/ f.how = "lost" /\ \E q \in Request : PublishBlindly(q)
           \/ /\ f.how = "rejected"
              /\ \E w \in Worker : \/ GroupDone(w) \/ Fault("timeout")
                                   \/ loop[<<w, "upload">>] = "undoLate"
<1> USE DEF brokerVars, workerVars, serverVars
<1>1. ASSUME NEW left, NEW q, NEW m, Send(left, q, m) PROVE FALSE
  <2>1. fate' \subseteq fate \cup {[msg |-> m, how |-> "unrouted"]}
    BY <1>1 DEF Send
  <2>2. QED BY <2>1
<1>2. CASE UNCHANGED vars
  BY <1>2 DEF vars
<1>3. ASSUME NEW p \in Process, Starting(p) \/ Sigterm(p) PROVE fate' = fate
  BY <1>3 DEF Starting, OpenProvider, Bootstrapped, OpenPool, BucketExists, MakeBucket,
     Dial, DeclareNext, CloseProvider, Restart, Sigterm, Signal
<1>4. ASSUME NEW s \in Server, ServerMain(s) \/ ServerOther(s) \/ ServerFault(s)
      PROVE  fate' = fate
  BY <1>4 DEF ServerMain, Connected, Start, Shutdown, ClosePublisher, ClosePostgres,
     ClosePool, Exit, ServerOther, DrainTimesOut, GetHealth, ServerFault,
     ServerCrash, ServerDrop, Notice
<1>5. ASSUME NEW q \in Request,
             (\E s \in Server : NewRequest(s, q)) \/ Statement(q) \/ Handling(q)
      PROVE  \/ f.how = "lost" /\ \E r \in Request : PublishBlindly(r)
             \/ fate' = fate
  <2>1. CASE Publish(q)
    <3>1. fate' = fate \/ Send(queue, Main(OpOf[q]), FirstEvent(q))
      BY <2>1 DEF Publish
    <3>2. QED BY <1>1, <3>1
  <2>2. CASE PublishBlindly(q)
    <3>1. fate' \subseteq fate \cup {[msg |-> FirstEvent(q), how |-> "lost"]}
      BY <2>2 DEF PublishBlindly
    <3>2. QED BY <2>2, <3>1
  <2>3. ASSUME ~Publish(q), ~PublishBlindly(q) PROVE fate' = fate
    BY <1>5, <2>3 DEF NewRequest, Accept, Statement, Write, Undo, Handling, Acquire
  <2>4. QED BY <2>1, <2>2, <2>3
<1>6. ASSUME NEW w \in Worker, WorkerMain(w) \/ WorkerOther(w) \/ WorkerFault(w)
      PROVE  fate' = fate
  BY <1>6 DEF WorkerMain, ListenHealth, OpenUploadChannel, TopologyDeclared,
     OpenDeleteChannel, Consume, Wait, CloseApp, Stop, ClosePool, CloseChannel,
     WorkerOther, Watch, StopHealth, WorkerFault, WorkerCrash, WorkerDrop, ChannelDies
<1>7. ASSUME NEW w \in Worker, NEW op \in Operation, LoopMoves(w, op)
      PROVE  /\ f.how = "rejected"
             /\ \/ GroupDone(w) \/ Fault("timeout")
                \/ loop[<<w, "upload">>] = "undoLate"
  <2>1. CASE Receive(w, op) \/ LoopEnds(w, op) \/ RollsBack(w)
    BY <2>1 DEF Receive, LoopEnds, RollsBack
  <2>2. CASE JobDone(w, op)
    BY <2>2 DEF JobDone, Settled
  <2>3. CASE GivingUp(w, op)
    <3>1. PICK over \in BOOLEAN :
              /\ GiveUp(w, op, over)
              /\ over => \/ GroupDone(w) \/ Fault("timeout")
                         \/ loop[<<w, "upload">>] = "undoLate"
      BY <2>3, GivesUpLate
    <3>2. \/ fate' = fate
          \/ over /\ fate' = Settled(w, op, "rejected")
          \/ Republish(op, msg[<<w, op>>])
      BY <3>1, GivenUp
    <3>3. ~Republish(op, msg[<<w, op>>])
      BY <1>1 DEF Republish
    <3>4. QED BY <3>1, <3>2, <3>3 DEF Settled
  <2>4. QED BY <1>7, <2>1, <2>2, <2>3, LoopCases
<1>8. ASSUME NEW c \in queue, Expiry(c) PROVE FALSE
  BY <1>1, <1>8 DEF Expiry, RetryExpires
<1>9. QED
  BY <1>2, <1>3, <1>4, <1>5, <1>6, <1>7, <1>8 DEF Next, LoopMoves, Operation

LEMMA ExplainedStep ==
    ASSUME TypeOK, LoopsRunWhileConsuming, FaultsExplain, [Next]_vars
    PROVE  FaultsExplain'
<1>1. \A kind : Happened(kind) => Happened(kind)'
  BY FaultsStay
<1>2. ConnectionCut => ConnectionCut'
  BY <1>1 DEF ConnectionCut
<1>3. JobCut => JobCut'
  BY <1>1, <1>2 DEF JobCut
<1>4. ASSUME NEW p \in Process, signalled'[p] PROVE Happened("signal")'
  BY <1>1, <1>4, SignalledBy, Logged DEF FaultsExplain
<1>5. ASSUME NEW s \in Server, Dead(s)' PROVE Happened("serverDrop")'
  BY <1>1, <1>5, DeadBy, Logged DEF FaultsExplain
<1>6. ASSUME NEW w \in Worker, failed'[w] PROVE ConnectionCut'
  <2>1. CASE failed[w]
    BY <1>2, <2>1 DEF FaultsExplain
  <2>2. CASE Watch(w)
    BY <1>2, <2>2 DEF Watch, FaultsExplain, Needs
  <2>3. ASSUME NEW op \in Operation, LoopEnds(w, op), ~Consumes(w, op)
        PROVE  ConnectionCut'
    <3>1. phase[w] = "consuming"
      BY <2>3 DEF LoopEnds, LoopsRunWhileConsuming
    <3>2. Channel(op) \in {"uploadCh", "deleteCh"} /\ Channel(op) \notin opened[w]
      BY <2>3 DEF Channel, Consumes
    <3>3. QED BY <1>2, <3>1, <3>2 DEF FaultsExplain, Needs
  <2>4. QED BY <1>6, <2>1, <2>2, <2>3, FailedBy
<1>7. ASSUME NEW w \in Worker, NEW r \in {"session", "uploadCh", "deleteCh"},
             phase'[w] \in Needs(r), r \notin opened'[w]
      PROVE  ConnectionCut'
  <2>1. CASE phase[w] \in Needs(r) /\ r \notin opened[w]
    BY <1>2, <2>1 DEF FaultsExplain
  <2>2. CASE Fault("drop") \/ Fault("channel")
    BY <2>2, Logged DEF ConnectionCut
  <2>3. QED BY <1>7, <2>1, <2>2, MissingBy
<1>8. ASSUME NEW w \in Worker, loop'[<<w, "upload">>] = "undoLate" PROVE JobCut'
  BY <1>8, LateBy, OverIsCut
<1>9. ASSUME NEW f \in fate', f.how \in {"lost", "rejected"} PROVE Excused(f)'
  <2>1. CASE f \in fate
    <3>1. Excused(f) BY <1>9, <2>1 DEF FaultsExplain
    <3>2. QED BY <1>1, <1>3, <1>9, <3>1 DEF Excused
  <2>2. CASE f \notin fate
    <3>1. ASSUME NEW q \in Request, PublishBlindly(q) PROVE Happened("serverDrop")'
      <4>1. at[q] \in Server /\ Dead(at[q])
        BY <3>1 DEF TypeOK, PublishBlindly
      <4>2. QED BY <1>1, <4>1 DEF FaultsExplain
    <3>2. QED BY <1>9, <2>2, <3>1, FateBy, OverIsCut DEF Excused
  <2>3. QED BY <2>1, <2>2
<1>10. QED BY <1>4, <1>5, <1>6, <1>7, <1>8, <1>9 DEF FaultsExplain, Needs

LEMMA InvStep == TypeOK /\ IInv /\ [Next]_vars => IInv'
BY HoldsStep, LoopsStep, RequestsStep, ExplainedStep, CountedStep, SoFarStep, BeforeUseStep
   DEF IInv

\* What a process holds follows from where it is, loops run only while main
\* waits for them, what is gone or cut short has its fault in the log, messages
\* are counted within their delays, and the topology is complete before anything
\* is published or consumed.
THEOREM Invariant == Spec => []IInv
BY InitInv, InvStep, TypeCorrect, PTL DEF Spec

-----------------------------------------------------------------------------
(* The safety properties.                                                  *)

\* The return paths of both programs, whatever failed and wherever they were,
\* close what was opened: pool, channels, the worker's session and the session
\* that a server dialled before App.Close, dead or alive.
THEOREM ReturnsClosed == Spec => []NothingLeftOpen
<1>1. TypeOK /\ IInv => NothingLeftOpen
  <2> SUFFICES ASSUME TypeOK, IInv, NEW p \in Process, phase[p] = "down"
               PROVE  /\ providers[p] = 0
                      /\ opened[p] \subseteq IF p \in Server THEN Late ELSE {"listener"}
    BY DEF NothingLeftOpen
  <2>1. providers[p] = 0 /\ "pool" \notin opened[p]
    BY DEF IInv, HoldsWhatItOpened
  <2>2. opened[p] \subseteq Resource
    BY DEF TypeOK
  <2>3. CASE p \in Server
    BY <2>1, <2>3 DEF IInv, HoldsWhatItOpened, Early, Late
  <2>4. CASE p \notin Server
    <3>1. p \in Worker BY <2>4 DEF Process
    <3>2. /\ opened[p] \cap {"session", "uploadCh", "deleteCh"} = {}
          /\ opened[p] \subseteq {"pool", "listener", "session", "uploadCh", "deleteCh"}
      BY <3>1 DEF IInv, HoldsWhatItOpened, SessionPhase
    <3>3. QED BY <2>1, <2>4, <3>2
  <2>5. QED BY <2>1, <2>3, <2>4
<1>2. QED BY <1>1, TypeCorrect, Invariant, PTL

\* g.Wait holds the pool open for jobs whose context has long ended.
THEOREM PoolOutlivesJobs == Spec => []JobsKeepThePool
<1>1. IInv => JobsKeepThePool
  BY DEF IInv, HoldsWhatItOpened, LoopsRunWhileConsuming, JobsKeepThePool, Process
<1>2. QED BY <1>1, Invariant, PTL

\* What reaches fate, and how.
LEMMA FateSteps ==
    ASSUME TypeOK, [Next]_vars
    PROVE  \/ /\ fate \subseteq fate'
              /\ \A f \in fate' : f \in fate \/ f.how # "unrouted"
           \/ \E q \in Request :
                 Publish(q) /\ Send(queue, Main(OpOf[q]), FirstEvent(q))
           \/ \E w \in Worker, op \in Operation :
                 GivingUp(w, op) /\ Republish(op, msg[<<w, op>>])
           \/ \E c \in queue : RetryExpires(c)
<1> USE DEF brokerVars, workerVars, serverVars
<1>1. CASE UNCHANGED vars
  BY <1>1 DEF vars
<1>2. ASSUME NEW p \in Process, Starting(p) \/ Sigterm(p) PROVE fate' = fate
  BY <1>2 DEF Starting, OpenProvider, Bootstrapped, OpenPool, BucketExists, MakeBucket,
     Dial, DeclareNext, CloseProvider, Restart, Sigterm, Signal
<1>3. ASSUME NEW s \in Server, ServerMain(s) \/ ServerOther(s) \/ ServerFault(s)
      PROVE  fate' = fate
  BY <1>3 DEF ServerMain, Connected, Start, Shutdown, ClosePublisher, ClosePostgres,
     ClosePool, Exit, ServerOther, DrainTimesOut, GetHealth, ServerFault,
     ServerCrash, ServerDrop, Notice
<1>4. ASSUME NEW q \in Request,
             (\E s \in Server : NewRequest(s, q)) \/ Statement(q) \/ Handling(q)
      PROVE  \/ /\ fate \subseteq fate'
                /\ \A f \in fate' : f \in fate \/ f.how # "unrouted"
             \/ Publish(q) /\ Send(queue, Main(OpOf[q]), FirstEvent(q))
  BY <1>4 DEF NewRequest, Accept, Statement, Write, Undo, Handling, Acquire, Publish,
     PublishBlindly
<1>5. ASSUME NEW w \in Worker, WorkerMain(w) \/ WorkerOther(w) \/ WorkerFault(w)
      PROVE  fate' = fate
  BY <1>5 DEF WorkerMain, ListenHealth, OpenUploadChannel, TopologyDeclared,
     OpenDeleteChannel, Consume, Wait, CloseApp, Stop, ClosePool, CloseChannel,
     WorkerOther, Watch, StopHealth, WorkerFault, WorkerCrash, WorkerDrop, ChannelDies
<1>6. ASSUME NEW w \in Worker, NEW op \in Operation, LoopMoves(w, op)
      PROVE  \/ /\ fate \subseteq fate'
                /\ \A f \in fate' : f \in fate \/ f.how # "unrouted"
             \/ GivingUp(w, op) /\ Republish(op, msg[<<w, op>>])
  <2>1. CASE Receive(w, op) \/ LoopEnds(w, op) \/ RollsBack(w)
    BY <2>1 DEF Receive, LoopEnds, RollsBack
  <2>2. CASE JobDone(w, op)
    BY <2>2 DEF JobDone, Settled
  <2>3. CASE GivingUp(w, op)
    <3>1. PICK over \in BOOLEAN : GiveUp(w, op, over)
      BY <2>3, GivesUp
    <3>2. \/ UNCHANGED fate
          \/ fate' = Settled(w, op, "rejected")
          \/ Republish(op, msg[<<w, op>>])
      BY <3>1, GivenUp
    <3>3. QED BY <2>3, <3>2 DEF Settled
  <2>4. QED BY <1>6, <2>1, <2>2, <2>3, LoopCases
<1>7. ASSUME NEW c \in queue, Expiry(c) PROVE RetryExpires(c)
  BY <1>7 DEF Expiry
<1>8. QED
  BY <1>1, <1>2, <1>3, <1>4, <1>5, <1>6, <1>7 DEF Next, LoopMoves, Operation

\* Once the topology is there, what is sent to a queue of it is not dropped.
LEMMA SendReaches ==
    ASSUME NEW left, NEW q, NEW m, Reaches(declared, q), Send(left, q, m)
    PROVE  fate' = fate
BY DEF Send

LEMMA DroppedStep ==
    ASSUME TypeOK, IInv, DroppedOnlyWithoutDelay, [Next]_vars
    PROVE  DroppedOnlyWithoutDelay'
<1>1. config' = config
  BY DeclaredStays
<1>2. ASSUME \A f \in fate' : f \in fate \/ f.how # "unrouted"
      PROVE  DroppedOnlyWithoutDelay'
  BY <1>1, <1>2 DEF DroppedOnlyWithoutDelay, WithoutDelay
<1>3. ASSUME NEW op \in Operation, Topology \subseteq declared
      PROVE  Reaches(declared, Main(op)) /\ Reaches(declared, DLQ(op))
  BY <1>3, InTopology DEF Reaches, Main, DLQ
<1>4. ASSUME NEW q \in Request, Publish(q),
             Send(queue, Main(OpOf[q]), FirstEvent(q))
      PROVE  DroppedOnlyWithoutDelay'
  <2>1. Topology \subseteq declared
    BY <1>4 DEF IInv, TopologyBeforeUse, Publish
  <2>2. OpOf[q] \in Operation
    BY ProcessAssumption
  <2>3. fate' = fate
    BY <1>3, <1>4, <2>1, <2>2, SendReaches
  <2>4. QED BY <1>2, <2>3
<1>5. ASSUME NEW c \in queue, RetryExpires(c)
      PROVE  DroppedOnlyWithoutDelay'
  <2>1. Topology \subseteq declared
    BY DEF IInv, TopologyBeforeUse
  <2>2. c.in.op \in Operation
    BY DEF TypeOK, Copy, Queue
  <2>3. Send(queue \ {c}, Main(c.in.op), c.msg)
    BY <1>5 DEF RetryExpires
  <2>4. fate' = fate
    BY <1>3, <2>1, <2>2, <2>3, SendReaches
  <2>5. QED BY <1>2, <2>4
<1>6. ASSUME NEW w \in Worker, NEW op \in Operation, GivingUp(w, op),
             Republish(op, msg[<<w, op>>])
      PROVE  DroppedOnlyWithoutDelay'
  <2>1. loop[<<w, op>>] \in Working /\ phase[w] = "consuming"
    BY <1>6, GivesUp DEF IInv, LoopsRunWhileConsuming
  <2>2. Topology \subseteq declared
    BY <2>1 DEF IInv, TopologyBeforeUse, Process
  <2>3. PICK m \in Message : m = msg[<<w, op>>]
    BY <2>1 DEF IInv, MessagesCounted, Counted
  <2>4. op = OpOf[m.req]
    BY <2>1, <2>3 DEF IInv, MessagesCounted, Counted
  <2>5. m.retry \in Nat /\ Len(config.delays[op]) \in Nat
    BY ConfigDelays, TopologyAssumption DEF Message, Delays
  <2>6. CASE m.retry >= Len(config.delays[op])
    <3>1. Send(queue, DLQ(op), m)
      BY <1>6, <2>3, <2>6 DEF Republish, RetryTarget, DLQ
    <3>2. fate' = fate
      BY <1>3, <2>2, <3>1, SendReaches
    <3>3. QED BY <1>2, <3>2
  <2>7. CASE m.retry < Len(config.delays[op])
    <3>1. RetryTarget(config.delays, op, m.retry) = Retry(op, m.retry)
      BY <2>5, <2>7 DEF RetryTarget
    <3>2. Send(queue, Retry(op, m.retry), [m EXCEPT !.retry = @ + 1])
      BY <1>6, <2>3, <3>1 DEF Republish, Retry
    <3>3. m.retry \in 0 .. Len(config.delays[op]) - 1
      BY <2>5, <2>7
    <3>4. CASE config.delays[op][m.retry + 1] > 0
      <4>1. QueueDeclare(Retry(op, m.retry)) \in Topology
        BY <3>3, <3>4, InTopology
      <4>2. Reaches(declared, Retry(op, m.retry))
        BY <2>2, <4>1 DEF Reaches, Retry
      <4>3. fate' = fate
        BY <3>2, <4>2, SendReaches
      <4>4. QED BY <1>2, <4>3
    <3>5. CASE ~(config.delays[op][m.retry + 1] > 0)
      <4>1. config.delays[op][m.retry + 1] \in Int
        <5>1. config.delays[op] \in Seq(Int)
          BY ConfigDelays DEF Delays
        <5>2. m.retry + 1 \in 1 .. Len(config.delays[op])
          BY <2>5, <3>3
        <5>3. QED BY <5>1, <5>2
      <4>2. config.delays[op][m.retry + 1] <= 0
        BY <3>5, <4>1
      <4>3. fate' \subseteq fate \cup {[msg |-> [m EXCEPT !.retry = @ + 1], how |-> "unrouted"]}
        BY <3>2 DEF Send
      <4>4. /\ [m EXCEPT !.retry = @ + 1].req = m.req
            /\ [m EXCEPT !.retry = @ + 1].retry = m.retry + 1
        BY DEF Message
      <4>5. m.retry + 1 \in 1 .. Len(config.delays[op])
        BY <2>5, <3>3
      <4>6. ASSUME NEW f \in fate', f.how = "unrouted"
            PROVE  WithoutDelay(f.msg)
        <5>1. CASE f \in fate
          BY <4>6, <5>1 DEF DroppedOnlyWithoutDelay
        <5>2. CASE f = [msg |-> [m EXCEPT !.retry = @ + 1], how |-> "unrouted"]
          <6>1. f.msg.req = m.req /\ f.msg.retry = m.retry + 1
            BY <4>4, <5>2
          <6>2. QED BY <2>4, <4>2, <4>5, <6>1 DEF WithoutDelay
        <5>3. QED BY <4>3, <5>1, <5>2
      <4>7. QED BY <1>1, <4>6 DEF DroppedOnlyWithoutDelay, WithoutDelay
    <3>6. QED BY <3>4, <3>5
  <2>8. QED BY <2>5, <2>6, <2>7
<1>7. QED
  BY <1>2, <1>4, <1>5, <1>6, FateSteps

\* Names, bindings and counts of the two publishers and of DeclareTopology
\* agree, in whatever state the processes that declare them are.
THEOREM NothingElseDropped == Spec => []DroppedOnlyWithoutDelay
<1>1. Init => DroppedOnlyWithoutDelay
  BY DEF Init, DroppedOnlyWithoutDelay
<1>2. TypeOK /\ IInv /\ DroppedOnlyWithoutDelay /\ [Next]_vars => DroppedOnlyWithoutDelay'
  BY DroppedStep
<1>3. QED BY <1>1, <1>2, TypeCorrect, Invariant, PTL DEF Spec

\* A message that is sent is in a queue or has a fate.
LEMMA SendKeeps ==
    ASSUME NEW left, NEW dest, NEW m, Send(left, dest, m)
    PROVE  /\ fate \subseteq fate'
           /\ left \subseteq queue'
           /\ (\E c \in queue' : c.msg = m) \/ (\E f \in fate' : f.msg = m)
<1>1. CASE Reaches(declared, dest)
  <2>1. queue' = left \cup {[in |-> dest, msg |-> m]} /\ fate' = fate
    BY <1>1 DEF Send
  <2>2. [in |-> dest, msg |-> m] \in queue' /\ [in |-> dest, msg |-> m].msg = m
    BY <2>1
  <2>3. QED BY <2>1, <2>2
<1>2. CASE ~Reaches(declared, dest)
  <2>1. queue' = left /\ fate' = fate \cup {[msg |-> m, how |-> "unrouted"]}
    BY <1>2 DEF Send
  <2>2. [msg |-> m, how |-> "unrouted"] \in fate' /\ [msg |-> m, how |-> "unrouted"].msg = m
    BY <2>1
  <2>3. QED BY <2>1, <2>2
<1>3. QED BY <1>1, <1>2

LEMMA RepublishKeeps ==
    ASSUME NEW op \in Operation, NEW m \in Message, Republish(op, m)
    PROVE  /\ fate \subseteq fate'
           /\ queue \subseteq queue'
           /\ (\E c \in queue' : c.msg.req = m.req) \/ (\E f \in fate' : f.msg.req = m.req)
<1>1. PICK n : /\ n = m \/ n = [m EXCEPT !.retry = @ + 1]
               /\ \E dest : Send(queue, dest, n)
  BY DEF Republish
<1>2. n.req = m.req
  BY <1>1 DEF Message
<1>3. QED BY <1>1, <1>2, SendKeeps

\* fate only grows.
LEMMA FateStays ==
    ASSUME TypeOK, [Next]_vars
    PROVE  fate \subseteq fate'
<1>1. ASSUME NEW w \in Worker, NEW op \in Operation, Republish(op, msg[<<w, op>>])
      PROVE  fate \subseteq fate'
  BY <1>1, SendKeeps DEF Republish
<1>2. ASSUME NEW c \in queue, RetryExpires(c) PROVE fate \subseteq fate'
  BY <1>2, SendKeeps DEF RetryExpires
<1>3. QED BY <1>1, <1>2, FateSteps, SendKeeps

\* A message leaves the queues for a loop, or with its retry queue.
LEMMA QueueStays ==
    ASSUME TypeOK, [Next]_vars, NEW c \in queue
    PROVE  \/ c \in queue'
           \/ \E w \in Worker, op \in Operation : Receive(w, op) /\ queue' = queue \ {c}
                                        /\ msg' = [msg EXCEPT ![<<w, op>>] = c.msg]
           \/ RetryExpires(c)
<1> USE DEF brokerVars, workerVars, serverVars
<1>1. CASE UNCHANGED vars
  BY <1>1 DEF vars
<1>2. ASSUME NEW p \in Process, Starting(p) \/ Sigterm(p) PROVE queue' = queue
  BY <1>2 DEF Starting, OpenProvider, Bootstrapped, OpenPool, BucketExists, MakeBucket,
     Dial, DeclareNext, CloseProvider, Restart, Sigterm, Signal
<1>3. ASSUME NEW s \in Server, ServerMain(s) \/ ServerOther(s) \/ ServerFault(s)
      PROVE  queue' = queue
  BY <1>3 DEF ServerMain, Connected, Start, Shutdown, ClosePublisher, ClosePostgres,
     ClosePool, Exit, ServerOther, DrainTimesOut, GetHealth, ServerFault,
     ServerCrash, ServerDrop, Notice
<1>4. ASSUME NEW q \in Request,
             (\E s \in Server : NewRequest(s, q)) \/ Statement(q) \/ Handling(q)
      PROVE  queue \subseteq queue'
  <2>1. queue' = queue \/ Send(queue, Main(OpOf[q]), FirstEvent(q))
    BY <1>4 DEF NewRequest, Accept, Statement, Write, Undo, Handling, Acquire, Publish,
     PublishBlindly
  <2>2. QED BY <2>1, SendKeeps
<1>5. ASSUME NEW w \in Worker, WorkerMain(w) \/ WorkerOther(w) \/ WorkerFault(w)
      PROVE  queue \subseteq queue'
  BY <1>5 DEF WorkerMain, ListenHealth, OpenUploadChannel, TopologyDeclared,
     OpenDeleteChannel, Consume, Wait, CloseApp, Stop, ClosePool, CloseChannel,
     WorkerOther, Watch, StopHealth, WorkerFault, WorkerCrash, WorkerDrop, ChannelDies,
     Requeued
<1>6. ASSUME NEW w \in Worker, NEW op \in Operation, LoopMoves(w, op)
      PROVE  \/ c \in queue'
             \/ Receive(w, op) /\ queue' = queue \ {c}
                  /\ msg' = [msg EXCEPT ![<<w, op>>] = c.msg]
  <2>1. CASE Receive(w, op)
    <3>1. PICK d \in queue : /\ queue' = queue \ {d}
                             /\ msg' = [msg EXCEPT ![<<w, op>>] = d.msg]
      BY <2>1 DEF Receive
    <3>2. CASE d = c BY <2>1, <3>1, <3>2
    <3>3. CASE d # c BY <3>1, <3>3
    <3>4. QED BY <3>2, <3>3
  <2>2. CASE LoopEnds(w, op) \/ JobDone(w, op) \/ RollsBack(w)
    BY <2>2 DEF LoopEnds, JobDone, RollsBack
  <2>3. CASE GivingUp(w, op)
    <3>1. queue' = queue \/ Republish(op, msg[<<w, op>>])
      BY <2>3, GivesUp, GivenUp
    <3>2. QED BY <3>1, SendKeeps DEF Republish
  <2>4. QED BY <1>6, <2>1, <2>2, <2>3, LoopCases
<1>7. ASSUME NEW d \in queue, Expiry(d)
      PROVE  c \in queue' \/ RetryExpires(c)
  <2>1. Send(queue \ {d}, Main(d.in.op), d.msg) /\ RetryExpires(d)
    BY <1>7 DEF Expiry, RetryExpires
  <2>2. queue \ {d} \subseteq queue'
    BY <2>1, SendKeeps
  <2>3. QED BY <2>1, <2>2
<1>8. QED
  BY <1>1, <1>2, <1>3, <1>4, <1>5, <1>6, <1>7 DEF Next, LoopMoves, Operation

\* What becomes of a delivery that the broker still waits for.
LEMMA HeldMoves ==
    ASSUME TypeOK, IInv, [Next]_vars, NEW w \in Worker, NEW op \in Operation,
           loop[<<w, op>>] \in Working, Consumes(w, op)
    PROVE  \/ /\ loop'[<<w, op>>] \in Working
              /\ Consumes(w, op)'
              /\ msg'[<<w, op>>] = msg[<<w, op>>]
           \/ \E c \in queue' : c.msg = msg[<<w, op>>]
           \/ JobDone(w, op) \/ GivingUp(w, op)
<1> DEFINE Stays == /\ loop'[<<w, op>>] \in Working
                    /\ Consumes(w, op)'
                    /\ msg'[<<w, op>>] = msg[<<w, op>>]
           Moves == \E c \in queue' : c.msg = msg[<<w, op>>]
<1> USE ProcessAssumption
<1>1. /\ phase[w] = "consuming" /\ w \in Process /\ w \notin Server
      /\ Channel(op) \in opened[w]
      /\ Channel(op) \in {"uploadCh", "deleteCh"}
      /\ <<w, op>> \in Worker \X Operation
  BY DEF IInv, LoopsRunWhileConsuming, Process, Consumes, Channel
<1>2. ASSUME UNCHANGED <<loop, msg>>, Channel(op) \in opened'[w] PROVE Stays
  BY <1>2 DEF Consumes
<1>3. ASSUME NEW ops \in SUBSET Operation, op \in ops, queue' = Requeued(w, ops)
      PROVE  Moves
  <2>1. [in |-> Main(op), msg |-> msg[<<w, op>>]] \in queue'
    BY <1>3 DEF Requeued, Unacked
  <2>2. QED BY <2>1
<1> HIDE DEF Moves
<1> USE DEF Goto, Open, Close, processVars, serverVars, workerVars
<1>4. CASE UNCHANGED vars
  BY <1>1, <1>2, <1>4 DEF vars
<1>5. ASSUME NEW p \in Process, Starting(p) PROVE Stays
  <2>1. p # w
    BY <1>1, <1>5 DEF Starting, OpenProvider, Bootstrapped, OpenPool, BucketExists,
       MakeBucket, Dial, DeclareNext, CloseProvider, Restart
  <2>2. opened'[w] = opened[w]
    BY <1>1, <1>5, <2>1 DEF TypeOK, Starting, OpenProvider, Bootstrapped, OpenPool,
       BucketExists, MakeBucket, Dial, DeclareNext, DeclareFails, CloseProvider, Restart
  <2>3. UNCHANGED <<loop, msg>> BY <1>5 DEF Starting
  <2>4. QED BY <1>1, <1>2, <2>2, <2>3
<1>6. ASSUME NEW s \in Server, ServerMain(s) \/ ServerOther(s) \/ ServerFault(s)
      PROVE  Stays
  <2>1. opened'[w] = opened[w]
    BY <1>1, <1>6 DEF TypeOK, ServerMain, Connected, Start, Shutdown, ClosePublisher,
       ClosePostgres, ClosePool, Exit, ServerOther, DrainTimesOut, GetHealth, Reconnect,
       ServerFault, ServerCrash, ServerDrop, Notice
  <2>2. UNCHANGED <<loop, msg>> BY <1>6 DEF ServerMain, ServerOther, ServerFault
  <2>3. QED BY <1>1, <1>2, <2>1, <2>2
<1>7. ASSUME NEW q \in Request,
             (\E s \in Server : NewRequest(s, q)) \/ Statement(q) \/ Handling(q)
      PROVE  Stays
  <2>1. opened'[w] = opened[w]
    <3>1. CASE Publish(q)
      <4>1. at[q] \in Server BY <3>1 DEF TypeOK, Publish
      <4>2. \/ opened' = opened
            \/ opened' = [opened EXCEPT ![at[q]] = @ \cup {NewSession(at[q])}]
        BY <3>1 DEF Publish, Reconnect
      <4>3. QED BY <1>1, <4>1, <4>2 DEF TypeOK
    <3>2. ASSUME ~Publish(q) PROVE opened' = opened
      BY <1>7, <3>2 DEF NewRequest, Accept, Statement, Write, Undo, Handling, Acquire,
     PublishBlindly
    <3>3. QED BY <3>1, <3>2
  <2>2. UNCHANGED <<loop, msg>> BY <1>7 DEF NewRequest, Statement, Handling
  <2>3. QED BY <1>1, <1>2, <2>1, <2>2
<1>8. ASSUME NEW v \in Worker, v # w, WorkerMain(v) \/ WorkerOther(v) \/ WorkerFault(v)
      PROVE  Stays
  <2>1. opened'[w] = opened[w]
    <3>1. CASE WorkerMain(v)
      <4>1. CASE ListenHealth(v) \/ OpenUploadChannel(v) \/ OpenDeleteChannel(v)
        BY <1>1, <1>8, <4>1 DEF TypeOK, ListenHealth, OpenUploadChannel,
           OpenDeleteChannel
      <4>2. CASE TopologyDeclared(v) \/ Consume(v) \/ Wait(v) \/ Stop(v)
        BY <4>2 DEF TopologyDeclared, Consume, Wait, Stop
      <4>3. CASE CloseApp(v) \/ ClosePool(v)
        BY <1>1, <1>8, <4>3 DEF TypeOK, CloseApp, ClosePool
      <4>4. ASSUME NEW o \in Operation, CloseChannel(v, o) PROVE opened'[w] = opened[w]
        BY <1>1, <1>8, <4>4 DEF TypeOK, CloseChannel
      <4>5. QED BY <3>1, <4>1, <4>2, <4>3, <4>4 DEF WorkerMain
    <3>2. CASE WorkerOther(v)
      BY <1>1, <1>8, <3>2 DEF TypeOK, WorkerOther, Watch, StopHealth
    <3>3. CASE WorkerFault(v)
      BY <1>1, <1>8, <3>3 DEF TypeOK, WorkerFault, WorkerCrash, WorkerDrop, ChannelDies
    <3>4. QED BY <1>8, <3>1, <3>2, <3>3
  <2>2. loop'[<<w, op>>] = loop[<<w, op>>] /\ msg'[<<w, op>>] = msg[<<w, op>>]
    <3>1. CASE Consume(v)
      BY <1>1, <1>8, <3>1 DEF TypeOK, Consume
    <3>2. CASE Stop(v) \/ WorkerCrash(v)
      BY <1>1, <1>8, <3>2 DEF TypeOK, Stop, WorkerCrash, NothingRuns
    <3>3. ASSUME ~Consume(v), ~Stop(v), ~WorkerCrash(v) PROVE UNCHANGED <<loop, msg>>
      BY <1>8, <3>3 DEF WorkerMain, ListenHealth, OpenUploadChannel, TopologyDeclared,
         OpenDeleteChannel, CloseApp, CloseChannel, Wait, WorkerOther, Watch, StopHealth,
         WorkerFault, WorkerDrop, ChannelDies
    <3>4. QED BY <3>1, <3>2, <3>3
  <2>3. QED BY <1>1, <2>1, <2>2 DEF Consumes
<1>9. ASSUME WorkerMain(w) PROVE Stays
  <2>1. Wait(w)
    BY <1>1, <1>9 DEF WorkerMain, ListenHealth, OpenUploadChannel, TopologyDeclared,
       OpenDeleteChannel, Consume, CloseApp, Stop, ClosePool, CloseChannel
  <2>2. QED BY <2>1 DEF Wait, Waited, Working, Undoing
<1>10. ASSUME WorkerOther(w) \/ WorkerFault(w) PROVE Stays \/ Moves
  <2>1. CASE Watch(w)
    BY <1>1, <1>2, <2>1 DEF Watch
  <2>2. CASE StopHealth(w)
    BY <1>1, <1>2, <2>2 DEF TypeOK, StopHealth
  <2>3. CASE WorkerCrash(w) \/ WorkerDrop(w)
    BY <1>3, <2>3 DEF WorkerCrash, WorkerDrop
  <2>4. ASSUME NEW o \in Operation, ChannelDies(w, o) PROVE Stays \/ Moves
    <3>1. CASE o = op
      BY <1>3, <2>4, <3>1 DEF ChannelDies
    <3>2. CASE o # op
      <4>1. Channel(o) # Channel(op) BY <3>2 DEF Channel, Operation
      <4>2. QED BY <1>1, <1>2, <2>4, <4>1 DEF TypeOK, ChannelDies
    <3>3. QED BY <3>1, <3>2
  <2>5. QED BY <1>10, <2>1, <2>2, <2>3, <2>4 DEF WorkerOther, WorkerFault
<1>11. ASSUME NEW v \in Worker, NEW o \in Operation, LoopMoves(v, o)
       PROVE  Stays \/ JobDone(w, op) \/ GivingUp(w, op)
  <2>1. opened' = opened
    BY <1>11, LoopFrame
  <2>2. CASE v # w \/ o # op
    <3>1. <<v, o>> # <<w, op>> BY <2>2
    <3>2. loop'[<<w, op>>] = loop[<<w, op>>] /\ msg'[<<w, op>>] = msg[<<w, op>>]
      BY <1>1, <1>11, <3>1, LoopMoved
    <3>3. QED BY <2>1, <3>2 DEF Consumes
  <2>3. CASE v = w /\ o = op
    <3>1. CASE op = "upload" /\ RollsBack(w)
      <4>1. loop'[<<w, op>>] \in Working /\ msg' = msg
        BY <1>1, <3>1 DEF TypeOK, RollsBack, Working, Undoing
      <4>2. QED BY <2>1, <4>1 DEF Consumes
    <3>2. ~Receive(w, op) /\ ~LoopEnds(w, op)
      BY DEF Receive, LoopEnds, Working, Undoing
    <3>3. QED BY <1>11, <2>3, <3>1, <3>2, LoopCases
  <2>4. QED BY <2>2, <2>3
<1>12. ASSUME (\E p \in Process : Sigterm(p)) \/ (\E c \in queue : Expiry(c))
       PROVE  Stays
  <2>1. UNCHANGED <<loop, msg, opened>>
    BY <1>12 DEF Sigterm, Signal, Expiry, RetryExpires
  <2>2. QED BY <1>1, <1>2, <2>1
<1>13. QED
  BY <1>4, <1>5, <1>6, <1>7, <1>8, <1>9, <1>10, <1>11, <1>12
     DEF Next, Moves, LoopMoves, Operation

\* Only PublishJSON makes a request answered, and its event goes out with that.
LEMMA AnsweredBy ==
    ASSUME TypeOK, [Next]_vars, NEW q \in Request,
           pc[q] # "answered", pc'[q] = "answered"
    PROVE  \/ Publish(q) /\ Send(queue, Main(OpOf[q]), FirstEvent(q))
           \/ fate' = fate \cup {[msg |-> FirstEvent(q), how |-> "lost"]}
<1> USE DEF TypeOK, serverVars, processVars, Handler
<1>1. CASE UNCHANGED vars
  BY <1>1 DEF vars
<1>2. ASSUME NEW r \in Process, Starting(r) \/ Sigterm(r) PROVE FALSE
  BY <1>2 DEF Starting, Sigterm
<1>3. ASSUME NEW s \in Server, ServerMain(s) \/ ServerOther(s) \/ ServerFault(s)
      PROVE  FALSE
  <2>1. pc' = pc \/ DrainEnds(s)
    BY <1>3 DEF ServerMain, Connected, Start, Shutdown, ClosePublisher,
       ClosePostgres, ClosePool, Exit, ServerOther, DrainTimesOut, GetHealth,
       ServerFault, ServerCrash, ServerDrop, Notice, DrainEnds
  <2>2. QED BY <2>1 DEF DrainEnds
<1>4. ASSUME NEW r \in Request,
             (\E s \in Server : NewRequest(s, r)) \/ Statement(r) \/ Acquire(r)
      PROVE  FALSE
  BY <1>4 DEF NewRequest, Accept, Statement, Write, Undo, Acquire
<1>5. ASSUME NEW r \in Request, Publish(r)
      PROVE  Publish(q) /\ Send(queue, Main(OpOf[q]), FirstEvent(q))
  <2>1. PICK ok \in BOOLEAN :
            /\ pc' = [pc EXCEPT ![r] = IF ok THEN "answered" ELSE "undo"]
            /\ ok => Send(queue, Main(OpOf[r]), FirstEvent(r))
    BY <1>5 DEF Publish
  <2>2. r = q /\ ok BY <2>1
  <2>3. QED BY <1>5, <2>1, <2>2
<1>6. ASSUME NEW r \in Request, PublishBlindly(r)
      PROVE  fate' = fate \cup {[msg |-> FirstEvent(q), how |-> "lost"]}
  BY <1>6 DEF PublishBlindly
<1>7. ASSUME NEW w \in Worker, WorkerMain(w) \/ WorkerOther(w) \/ WorkerFault(w)
      PROVE  FALSE
  BY <1>7 DEF WorkerMain, WorkerOther, WorkerFault
<1>8. ASSUME NEW w \in Worker, NEW op \in Operation, LoopMoves(w, op) PROVE FALSE
  BY <1>8, LoopFrame
<1>9. ASSUME NEW c \in queue, Expiry(c) PROVE FALSE
  BY <1>9 DEF Expiry
<1>10. QED
  BY <1>1, <1>2, <1>3, <1>4, <1>5, <1>6, <1>7, <1>8, <1>9
     DEF Next, Handling, LoopMoves, Operation

\* The event of an answered request is somewhere, or has a fate.
Accounted ==
    \A q \in Request : pc[q] = "answered" =>
        \/ \E c \in queue : c.msg.req = q
        \/ Held(q)
        \/ \E f \in fate : f.msg.req = q

LEMMA KeptStep ==
    ASSUME TypeOK, IInv, Accounted, [Next]_vars
    PROVE  Accounted'
<1> DEFINE Kept(q) == \/ \E c \in queue' : c.msg.req = q
                      \/ Held(q)'
                      \/ \E f \in fate' : f.msg.req = q
<1> SUFFICES ASSUME NEW q \in Request, pc'[q] = "answered"
             PROVE  Kept(q)
  BY DEF Accounted
<1>1. ASSUME NEW f \in fate, f.msg.req = q PROVE Kept(q)
  BY <1>1, FateStays
<1>2. ASSUME NEW c \in queue, c.msg.req = q PROVE Kept(q)
  <2>1. CASE c \in queue'
    BY <1>2, <2>1
  <2>2. ASSUME NEW w \in Worker, NEW op \in Operation, Receive(w, op),
               msg' = [msg EXCEPT ![<<w, op>>] = c.msg]
        PROVE  Held(q)'
    <3>1. <<w, op>> \in Worker \X Operation OBVIOUS
    <3>2. loop'[<<w, op>>] \in Working /\ msg'[<<w, op>>] = c.msg
      BY <2>2, <3>1 DEF TypeOK, Receive, Working
    <3>3. Consumes(w, op)'
      BY <2>2 DEF Receive, Consumes, processVars
    <3>4. QED BY <1>2, <3>2, <3>3 DEF Held
  <2>3. CASE RetryExpires(c)
    BY <1>2, <2>3, SendKeeps DEF RetryExpires
  <2>4. QED BY <2>1, <2>2, <2>3, QueueStays
<1>3. ASSUME NEW w \in Worker, NEW op \in Operation,
             loop[<<w, op>>] \in Working, Consumes(w, op), msg[<<w, op>>].req = q
      PROVE  Kept(q)
  <2>1. CASE /\ loop'[<<w, op>>] \in Working /\ Consumes(w, op)'
             /\ msg'[<<w, op>>] = msg[<<w, op>>]
    <3>1. Held(q)' BY <1>3, <2>1 DEF Held
    <3>2. QED BY <3>1
  <2>2. CASE \E c \in queue' : c.msg = msg[<<w, op>>]
    BY <1>3, <2>2
  <2>3. ASSUME NEW how, fate' = Settled(w, op, how) PROVE Kept(q)
    <3>1. [msg |-> msg[<<w, op>>], how |-> how] \in fate'
      BY <2>3 DEF Settled
    <3>2. QED BY <1>3, <3>1
  <2>4. CASE JobDone(w, op)
    BY <2>3, <2>4 DEF JobDone
  <2>5. CASE GivingUp(w, op)
    <3>1. PICK m \in Message : m = msg[<<w, op>>]
      BY <1>3 DEF IInv, MessagesCounted, Counted
    <3>2. fate' = Settled(w, op, "rejected") \/ Republish(op, m)
      <4>1. PICK over \in BOOLEAN : GiveUp(w, op, over)
        BY <2>5, GivesUp
      <4>2. QED BY <1>3, <3>1, <4>1, GivenUp
    <3>3. QED BY <1>3, <2>3, <3>1, <3>2, RepublishKeeps
  <2>6. QED BY <1>3, <2>1, <2>2, <2>4, <2>5, HeldMoves
<1>4. CASE pc[q] = "answered"
  BY <1>1, <1>2, <1>3, <1>4 DEF Accounted, Held
<1>5. CASE pc[q] # "answered"
  <2>1. FirstEvent(q).req = q
    BY DEF FirstEvent
  <2>2. CASE Send(queue, Main(OpOf[q]), FirstEvent(q))
    BY <2>1, <2>2, SendKeeps
  <2>3. CASE fate' = fate \cup {[msg |-> FirstEvent(q), how |-> "lost"]}
    <3>1. [msg |-> FirstEvent(q), how |-> "lost"] \in fate' BY <2>3
    <3>2. QED BY <2>1, <3>1
  <2>4. QED BY <1>5, <2>2, <2>3, AnsweredBy
<1>6. QED BY <1>4, <1>5

\* Whatever has a fate is handled or excused.
OnlyExcused == \A f \in fate : f.how = "handled" \/ Excused(f)

LEMMA FatesExcused == Spec => []OnlyExcused
<1>1. ASSUME TypeOK, IInv, DroppedOnlyWithoutDelay, NEW f \in fate
      PROVE  f.how = "handled" \/ Excused(f)
  <2>1. f.how \in {"handled", "unrouted", "rejected", "lost"}
    BY <1>1 DEF TypeOK, Fate
  <2>2. CASE f.how \in {"lost", "rejected"}
    BY <1>1, <2>2 DEF IInv, FaultsExplain
  <2>3. CASE f.how = "unrouted"
    BY <1>1, <2>3 DEF DroppedOnlyWithoutDelay, Excused
  <2>4. QED BY <2>1, <2>2, <2>3
<1>2. TypeOK /\ IInv /\ DroppedOnlyWithoutDelay => OnlyExcused
  BY <1>1 DEF OnlyExcused
<1>3. QED BY <1>2, TypeCorrect, Invariant, NothingElseDropped, PTL

\* No stop, crash, closed channel, retry or restart makes the event of an
\* answered request vanish.  It takes a server's session that is lost before
\* the server notices, a job whose context is over, or a delay of zero or less.
THEOREM NothingAnsweredIsLost == Spec => []AnsweredIsKept
<1>1. Init => Accounted
  BY DEF Init, Accounted
<1>2. TypeOK /\ IInv /\ Accounted /\ [Next]_vars => Accounted'
  BY KeptStep
<1>3. OnlyExcused /\ Accounted => AnsweredIsKept
  BY DEF OnlyExcused, Accounted, AnsweredIsKept, Finished
<1>4. QED
  BY <1>1, <1>2, <1>3, TypeCorrect, Invariant, FatesExcused, PTL DEF Spec

\* Nothing takes a message out of a dead-letter queue.
LEMMA ParkedStays ==
    ASSUME TypeOK, [Next]_vars, NEW c \in queue, c.in.kind = "dlq"
    PROVE  c \in queue'
<1>1. ASSUME NEW w \in Worker, NEW op \in Operation, Receive(w, op), queue' = queue \ {c}
      PROVE  FALSE
  <2>1. PICK d \in queue : d.in = Main(op) /\ queue' = queue \ {d}
    BY <1>1 DEF Receive
  <2>2. d = c BY <1>1, <2>1
  <2>3. QED BY <2>1, <2>2 DEF Main
<1>2. ~RetryExpires(c)
  BY DEF RetryExpires
<1>3. QED BY <1>1, <1>2, QueueStays

\* What has become of an event stays so: nothing takes an event out of its DLQ,
\* and what workers and the broker have done is not undone by what fails later.
\* AnsweredIsSettled says that every answered request gets there.
THEOREM DisposalIsFinal ==
    ASSUME NEW q \in Request
    PROVE  Spec => [](Disposed(q) => []Disposed(q))
<1>1. TypeOK /\ OnlyExcused' /\ [Next]_vars /\ Disposed(q) => Disposed(q)'
  <2> SUFFICES ASSUME TypeOK, OnlyExcused', [Next]_vars, Disposed(q)
               PROVE  Disposed(q)'
    OBVIOUS
  <2>1. ASSUME NEW f \in fate, f.msg.req = q PROVE Disposed(q)'
    <3>1. f \in fate'
      BY FateStays
    <3>2. QED BY <2>1, <3>1 DEF OnlyExcused, Disposed, Finished
  <2>2. ASSUME NEW c \in queue, c.in.kind = "dlq", c.msg.req = q PROVE Disposed(q)'
    BY <2>2, ParkedStays DEF Disposed
  <2>3. QED BY <2>1, <2>2 DEF Disposed, Finished
<1>2. QED BY <1>1, TypeCorrect, FatesExcused, PTL DEF Spec

==============================================================================
