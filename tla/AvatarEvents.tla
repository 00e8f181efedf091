----------------------------- MODULE AvatarEvents -----------------------------
(***************************************************************************)
(* The events the server publishes and the worker consumes                 *)
(* (internal/models/events.go), and the queues that carry them.            *)
(*                                                                         *)
(* RabbitMQ itself is not under src/.  A queue is a bag, a function from    *)
(* events to the number of copies: several consumers, redelivery and        *)
(* dead-lettering make the order in which events are handled arbitrary.     *)
(***************************************************************************)
EXTENDS Naturals, AvatarRow

CONSTANTS
    Avatar,     \* avatar ids
    MaxRetry,   \* number of configured retry delays (upload and delete)
    NoEvent     \* placeholder of an idle consumer

ASSUME MaxRetryAssumption == MaxRetry \in Nat

Op == {"upload", "delete"}

\* An event in flight: its body (avatar and keys) and the x-retry-count header.
\* An upload event carries the key of the original.
Event == [op : Op, av : Avatar, retry : 0 .. MaxRetry, keys : {{Original}, Key}]

ASSUME NoEventAssumption == NoEvent \notin Event

AvatarUploadEvent(a) == [op |-> "upload", av |-> a, retry |-> 0, keys |-> {Original}]

AvatarDeleteEvent(a, keys) == [op |-> "delete", av |-> a, retry |-> 0, keys |-> keys]

EmptyQueue == [e \in Event |-> 0]

Put(q, e) == [q EXCEPT ![e] = @ + 1]

Take(q, e) == [q EXCEPT ![e] = @ - 1]

\* republishOrDLQ: the delays are used up, so the event goes to the DLQ.
RetriesExhausted(e) == e.retry >= MaxRetry

\* Mutant of NextAttempt: the x-retry-count header is copied unchanged.
NextAttemptUncounted(e) == e

NextAttempt(e) == [e EXCEPT !.retry = @ + 1]

==============================================================================
