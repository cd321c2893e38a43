----------------------- MODULE ProviderCircuitBreaker -----------------------
(***************************************************************************)
(* The per-provider circuit breaker of the quote adapters,                 *)
(* packages/adapters/src/resilience/circuit-breaker.ts, as functions on    *)
(* the breaker's four private fields.                                      *)
(*                                                                         *)
(* The clock is abstracted to the time since the last trip: openedAtMs is  *)
(* replaced by sinceOpen = min(now - openedAtMs, Cooldown).  The code only *)
(* ever compares that difference with cooldownMs, so nothing is lost by    *)
(* saturating it.  failures saturates at FailureThreshold for the same     *)
(* reason: it is only compared with the threshold and reset to zero.       *)
(***************************************************************************)
EXTENDS Naturals

CONSTANTS
    FailureThreshold,   \* consecutive failures that trip the breaker
    Cooldown            \* ticks an open breaker waits before it half-opens

ASSUME BreakerAssumption ==
    /\ FailureThreshold \in Nat \ {0}
    /\ Cooldown \in Nat \ {0}

BreakerState == {"closed", "open", "half_open"}

Breaker == [state     : BreakerState,
            failures  : 0 .. FailureThreshold,
            sinceOpen : 0 .. Cooldown,
            inFlight  : BOOLEAN]

\* A breaker as CircuitBreakerRegistry.forProvider creates it.
NewBreaker == [state |-> "closed", failures |-> 0, sinceOpen |-> 0, inFlight |-> FALSE]

\* Mutant: the cooldown alone no longer half-opens the breaker.
MaybeEnterHalfOpenBelowThreshold(b) ==
    IF b.state = "open" /\ b.sinceOpen >= Cooldown /\ b.failures < FailureThreshold
      THEN [b EXCEPT !.state = "half_open", !.inFlight = FALSE]
      ELSE b

MaybeEnterHalfOpen(b) ==
    IF b.state = "open" /\ b.sinceOpen >= Cooldown
      THEN [b EXCEPT !.state = "half_open", !.inFlight = FALSE]
      ELSE b

\* Mutant: a half-open breaker admits everybody.
AdmitsAnyHalfOpen(b) == MaybeEnterHalfOpen(b).state # "open"

\* admit() first lets an elapsed cooldown half-open the breaker, then decides
\* on the resulting state.
Admits(b) ==
    LET c == MaybeEnterHalfOpen(b)
    IN  \/ c.state = "closed"
        \/ c.state = "half_open" /\ ~c.inFlight

\* The breaker after admit(), whatever it answered.
Admit(b) ==
    LET c == MaybeEnterHalfOpen(b)
    IN  IF c.state = "half_open" THEN [c EXCEPT !.inFlight = TRUE] ELSE c

\* recordSuccess() has no guard on the state: it closes an open breaker too.
RecordSuccess(b) == NewBreaker

Trip(b) == [b EXCEPT !.state = "open", !.sinceOpen = 0]

\* Mutant: the probe flag is not cleared.
RecordFailureKeepsFlag(b) ==
    LET n == IF b.failures < FailureThreshold THEN b.failures + 1 ELSE b.failures
        c == [b EXCEPT !.failures = n]
    IN  IF b.state = "half_open" \/ n >= FailureThreshold THEN Trip(c) ELSE c

\* recordFailure() trips again, and restarts the cooldown, when already open.
RecordFailure(b) ==
    LET n == IF b.failures < FailureThreshold THEN b.failures + 1 ELSE b.failures
        c == [b EXCEPT !.failures = n, !.inFlight = FALSE]
    IN  IF b.state = "half_open" \/ n >= FailureThreshold THEN Trip(c) ELSE c

\* The passing of one tick of the clock, as the breaker sees it.
AgeBreaker(b) ==
    IF b.state = "open" /\ b.sinceOpen < Cooldown
      THEN [b EXCEPT !.sinceOpen = @ + 1]
      ELSE b
=============================================================================
