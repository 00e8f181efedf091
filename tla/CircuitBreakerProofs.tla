------------------------- MODULE CircuitBreakerProofs -------------------------
(* What the parts of CircuitBreaker.Execute do to the breaker. *)
EXTENDS CircuitBreaker, TLAPS

\* A closed breaker is one with failures to spare.
Sound(b) == b.state = "closed" <=> b.failureCount < Threshold

\* New returns a closed, sound breaker.
LEMMA NewSound == New \in Breaker /\ New.state = "closed" /\ Sound(New)
  BY ThresholdAssumption DEF New, Breaker, State, Sound

\* A failure leaves a sound breaker sound.
LEMMA FailureSound ==
  ASSUME NEW b \in Breaker, Sound(b)
  PROVE  Failure(b) \in Breaker /\ Sound(Failure(b))
  <1>1. CASE Trips(b)
    BY <1>1, ThresholdAssumption DEF Failure, Trips, Breaker, State, Sound
  <1>2. CASE ~Trips(b)
    <2>1. /\ Failure(b) \in Breaker
          /\ Failure(b).state = b.state
          /\ Failure(b).failureCount = b.failureCount + 1
      BY <1>2 DEF Failure, Breaker
    <2> QED
      BY <1>2, <2>1, ThresholdAssumption DEF Trips, Breaker, State, Sound
  <1> QED
    BY <1>1, <1>2

\* A success of a call that was let through leaves a sound breaker sound and closed.
LEMMA SuccessSound ==
  ASSUME NEW b \in Breaker, Sound(b), Admits(b)
  PROVE  Success(b) \in Breaker /\ Sound(Success(b)) /\ Success(b).state = "closed"
  <1>1. CASE b.state = "halfOpen"
    <2>1. Success(b) = [b EXCEPT !.state = "closed", !.failureCount = 0]
      BY <1>1 DEF Success
    <2>2. Success(b).state = "closed" /\ Success(b).failureCount = 0
      BY <2>1 DEF Breaker
    <2>3. "closed" \in State /\ 0 \in Nat
      BY DEF State
    <2>4. Success(b) \in Breaker
      BY <2>1, <2>3 DEF Breaker
    <2> QED
      BY <2>2, <2>4, ThresholdAssumption DEF Sound
  <1>2. CASE b.state = "closed" /\ b.failureCount > 0
    <2>1. Success(b) = [b EXCEPT !.failureCount = b.failureCount - 1]
      BY <1>2 DEF Success
    <2>2. Success(b).state = "closed" /\ Success(b).failureCount = b.failureCount - 1
      BY <1>2, <2>1 DEF Breaker
    <2>3. Success(b) \in Breaker
      BY <1>2, <2>1 DEF Breaker
    <2> QED
      BY <1>2, <2>2, <2>3, ThresholdAssumption DEF Breaker, Sound
  <1>3. CASE b.state = "closed" /\ ~(b.failureCount > 0)
    <2>1. Success(b) = b
      BY <1>3 DEF Success
    <2> QED
      BY <1>3, <2>1
  <1> QED
    BY <1>1, <1>2, <1>3 DEF Admits, Breaker, State

\* Time does not touch the state or the count.
LEMMA ElapseSound ==
  ASSUME NEW b \in Breaker
  PROVE  /\ Elapse(b) \in Breaker
         /\ Elapse(b).state = b.state
         /\ Elapse(b).failureCount = b.failureCount
  BY DEF Elapse, Breaker

\* A rejected call leaves a sound breaker sound and not closed.
LEMMA RejectionSound ==
  ASSUME NEW b \in Breaker, Sound(b), ~Admits(b)
  PROVE  /\ Rejection(b) \in Breaker
         /\ Sound(Rejection(b))
         /\ Rejection(b).state # "closed"
  <1>1. CASE b.cooled
    <2>1. Rejection(b) = [b EXCEPT !.state = "halfOpen", !.cooled = FALSE]
      BY <1>1 DEF Rejection
    <2>2. Rejection(b).state = "halfOpen" /\ Rejection(b).failureCount = b.failureCount
      BY <2>1 DEF Breaker
    <2>3. "halfOpen" \in State
      BY DEF State
    <2>4. Rejection(b) \in Breaker
      BY <2>1, <2>3 DEF Breaker
    <2> QED
      BY <2>2, <2>4 DEF Sound, Admits
  <1>2. CASE ~b.cooled
    BY <1>2 DEF Rejection, Admits
  <1> QED
    BY <1>1, <1>2

===============================================================================
