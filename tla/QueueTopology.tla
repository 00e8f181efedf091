---------------------------- MODULE QueueTopology ----------------------------
(***************************************************************************)
(* The exchange, the queues and the bindings that DeclareTopology          *)
(* (internal/repository/rabbitmq/topology.go) declares, call by call, and  *)
(* the queues that the two publishers (PublishJSON, republishOrDLQ) name.  *)
(* The names are made in two packages that do not share them.              *)
(***************************************************************************)
EXTENDS Integers, Sequences

CONSTANTS
    MaxTTL,     \* math.MaxInt32, the longest retry delay
    MaxRetries  \* no list of delays is longer

ASSUME TopologyAssumption == MaxTTL \in Nat \ {0} /\ MaxRetries \in Nat

\* UploadRetryDelaysMS and DeleteRetryDelaysMS.
Operation == {"upload", "delete"}
Delays == {d \in [Operation -> Seq(Int)] : \A op \in Operation : Len(d[op]) <= MaxRetries}

Queue == [kind : {"main", "retry", "dlq"}, op : Operation, n : 0 .. MaxRetries]
Main(op) == [kind |-> "main", op |-> op, n |-> 0]
DLQ(op) == [kind |-> "dlq", op |-> op, n |-> 0]

\* Mutant of Retry: the declaration and the publisher count from 0 and from 1.
RetryFromOne(op, n) == [kind |-> "retry", op |-> op, n |-> n + 1]

\* retryQueueName: the names republishOrDLQ publishes to.
Retry(op, n) == [kind |-> "retry", op |-> op, n |-> n]

\* A call on the channel: ExchangeDeclare, QueueDeclare or QueueBind.
Exchange == [call |-> "exchange", queue |-> [kind |-> "none"]]
QueueDeclare(q) == [call |-> "queue", queue |-> q]
QueueBind(q) == [call |-> "bind", queue |-> q]
Declaration == [call : {"queue", "bind"}, queue : Queue] \cup {Exchange}

\* The loop of declareRetryQueues, the skipped indices included.
declareRetryQueues(delays, op) ==
    [i \in 1 .. Len(delays[op]) |->
        QueueDeclare([kind |-> "retry", op |-> op, n |-> i - 1])]

DeclareTopology(delays) ==
    << Exchange,
       QueueDeclare(Main("upload")), QueueBind(Main("upload")),
       QueueDeclare(Main("delete")), QueueBind(Main("delete")) >>
    \o declareRetryQueues(delays, "upload")
    \o declareRetryQueues(delays, "delete")
    \o << QueueDeclare(DLQ("upload")), QueueBind(DLQ("upload")),
          QueueDeclare(DLQ("delete")), QueueBind(DLQ("delete")) >>

\* The delay a retry queue is declared with.
TTL(delays, d) == delays[d.queue.op][d.queue.n + 1]

\* The loop passes over a delay of zero or less ...
Skipped(delays, d) == d.queue.kind = "retry" /\ TTL(delays, d) <= 0

\* ... and gives up on one that does not fit an int32.
Rejected(delays, d) == d.queue.kind = "retry" /\ TTL(delays, d) > MaxTTL

\* republishOrDLQ: where a failed event goes, given its x-retry-count.
RetryTarget(delays, op, retries) ==
    IF retries >= Len(delays[op]) THEN DLQ(op) ELSE Retry(op, retries)

\* Retry queues are addressed by name through the default exchange, the others
\* by routing key.  The broker drops what it cannot route; nobody asks for
\* returns (mandatory is false).
Reaches(declared, q) ==
    IF q.kind = "retry" THEN QueueDeclare(q) \in declared
                        ELSE QueueBind(q) \in declared

==============================================================================
