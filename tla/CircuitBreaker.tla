---------------------------- MODULE CircuitBreaker ----------------------------
(***************************************************************************)
(* The circuit breaker of pkg/circuitbreaker as a value: its fields, and   *)
(* what Execute does to them before and after the call it wraps.           *)
(* checkIsOpened reads the fields without the lock and Execute writes them *)
(* one by one; neither can be seen halfway, because Execute is called only *)
(* by Publisher.connect, under the publisher's own mutex.                  *)
(***************************************************************************)
EXTENDS Naturals

CONSTANT Threshold  \* failures that open the circuit; New makes it positive

ASSUME ThresholdAssumption == Threshold \in Nat \ {0}

State == {"closed", "open", "halfOpen"}

\* cooled: more than Cooldown has passed since lastStateChange.
Breaker == [state : State, failureCount : Nat, cooled : BOOLEAN]

New == [state |-> "closed", failureCount |-> 0, cooled |-> FALSE]

\* Time passes.
Elapse(b) == [b EXCEPT !.cooled = TRUE]

\* checkIsOpened lets the call through ...
Admits(b) == b.state # "open"

\* Mutant: nobody leaves the open state.
RejectionForGood(b) == b

\* ... or rejects it.  Once the cooldown is over the next call is a probe.
Rejection(b) ==
    IF b.cooled THEN [b EXCEPT !.state = "halfOpen", !.cooled = FALSE] ELSE b

\* The failure just counted opens the circuit.
Trips(b) == b.state = "halfOpen" \/ b.failureCount + 1 >= Threshold

\* The wrapped call has failed: failureCount++, and perhaps StateOpen.
Failure(b) ==
    IF Trips(b)
    THEN [state |-> "open", failureCount |-> b.failureCount + 1, cooled |-> FALSE]
    ELSE [b EXCEPT !.failureCount = @ + 1]

\* Mutant: the probe's success does not clear the count.
SuccessKeepsCount(b) ==
    IF b.state = "halfOpen" THEN [b EXCEPT !.state = "closed"] ELSE b

\* Mutant: a success takes one off the count, whatever it is.
SuccessDecays(b) == [b EXCEPT !.failureCount = @ - 1]

\* It has succeeded: a half-open circuit closes, a closed one forgives a failure.
Success(b) ==
    CASE b.state = "halfOpen" ->
            [b EXCEPT !.state = "closed", !.failureCount = 0]
      [] b.state = "closed" /\ b.failureCount > 0 ->
            [b EXCEPT !.failureCount = @ - 1]
      [] OTHER -> b

===============================================================================
