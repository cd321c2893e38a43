---------------------------- MODULE ProviderCall ----------------------------
(***************************************************************************)
(* One call of a provider through executeProviderCall                      *)
(* (packages/adapters/src/resilience/execute.ts): attempts one after the   *)
(* other, each raced against a timer, with a backoff in between and a      *)
(* budget over all of it.                                                  *)
(*                                                                         *)
(* The clock counts ticks since the call started.  A timer fires when it   *)
(* is due or up to Slack ticks later.  The code between two awaits takes   *)
(* no time, and neither does recording: both recorders of the repository   *)
(* answer at once and do not fail.  An adapter may settle at any time, in  *)
(* any way, or never, and may ignore the abort signal.                     *)
(***************************************************************************)
EXTENDS Integers

CONSTANTS
    MaxAttempts,    \* policy.retry.maxAttempts
    Timeout,        \* policy.timeoutMs
    Budget,         \* policy.overallTimeoutMs
    InitialDelay,   \* policy.retry.initialDelayMs
    MaxDelay,       \* policy.retry.maxDelayMs
    Multiplier,     \* policy.retry.backoffMultiplier
    JitterPercent,  \* policy.retry.jitter, in percent
    Slack           \* how late a timer may fire

ASSUME PolicyAssumption ==
    /\ MaxAttempts \in Nat \ {0}
    /\ Timeout \in Nat /\ Budget \in Nat /\ Slack \in Nat
    /\ InitialDelay \in Nat /\ MaxDelay \in Nat
    /\ Multiplier \in Nat /\ JitterPercent \in 0 .. 100

Attempts == 1 .. MaxAttempts

Failures == {"retryable", "final"}

Answers == {"resolved", "rejected"}

VARIABLES
    clock,    \* ticks since the call started
    at,       \* the await the call is in, or how it was answered
    attempt,  \* the attempt the loop is at
    due,      \* when the timer of that await is due
    adapter,  \* adapter[a]: the promise of attempt a
    aborted,  \* attempts whose signal was aborted
    records,  \* records[a]: the record of attempt a
    failure   \* how the last attempt that failed did

vars == <<clock, at, attempt, due, adapter, aborted, records, failure>>

TypeOK ==
    /\ clock \in Nat
    /\ at \in {"start", "race", "backoff"} \cup Answers
    /\ attempt \in Attempts
    /\ due \in Nat
    /\ adapter \in [Attempts -> {"none", "pending", "settled"}]
    /\ aborted \subseteq Attempts
    /\ records \in [Attempts -> {"none", "quoted", "failed"}]
    /\ failure \in Failures \cup {"none"}

Init ==
    /\ clock = 0
    /\ at = "start"
    /\ attempt = 1
    /\ due = 0
    /\ adapter = [a \in Attempts |-> "none"]
    /\ aborted = {}
    /\ records = [a \in Attempts |-> "none"]
    /\ failure = "none"

-----------------------------------------------------------------------------
(* Helpers                                                                 *)

Least(x, y) == IF x <= y THEN x ELSE y

Remaining == Budget - clock

\* Mutant: an attempt has its own timeout, whatever is left of the budget.
AttemptTimeoutAlone == Timeout

\* The attempt gets whichever is shorter: its own timeout, or what is left.
AttemptTimeout == Least(Timeout, Remaining)

\* backoffDelayMs: exponential, capped, and jittered by at most the given share
\* of it, rounded.
BackoffDelays(a) ==
    LET capped == Least(InitialDelay * Multiplier ^ (a - 1), MaxDelay)
        spread == capped * JitterPercent + 50
    IN {d \in 0 .. 2 * MaxDelay : 100 * d - 100 * capped \in (0 - spread) .. spread}

\* The top of the loop, for attempt a: a spent budget ends the call.
Enter(a) ==
    IF Remaining <= 0
    THEN at' = "rejected" /\ UNCHANGED <<attempt, due, adapter>>
    ELSE /\ at' = "race"
         /\ attempt' = a
         /\ due' = clock + AttemptTimeout
         /\ adapter' = [adapter EXCEPT ![a] = "pending"]

\* Mutant: one attempt too many.
WillRetryOnceMore(kind) == kind = "retryable" /\ attempt <= MaxAttempts

WillRetry(kind) == kind = "retryable" /\ attempt < MaxAttempts

\* Mutant: a failure is recorded only when it ends the call.
FailedRecordAtLast(kind) == IF WillRetry(kind) THEN records
                            ELSE [records EXCEPT ![attempt] = "failed"]

FailedRecord(kind) == [records EXCEPT ![attempt] = "failed"]

\* The catch clause: record, then back off, unless nothing is left to retry with.
Fail(kind) ==
    /\ records' = FailedRecord(kind)
    /\ failure' = kind
    /\ IF WillRetry(kind)
       THEN \E delay \in BackoffDelays(attempt) :
               IF delay >= Remaining
               THEN at' = "rejected" /\ UNCHANGED due
               ELSE at' = "backoff" /\ due' = clock + delay
       ELSE at' = "rejected" /\ UNCHANGED due

-----------------------------------------------------------------------------
(* The call                                                                *)

Start ==
    /\ at = "start"
    /\ Enter(attempt)
    /\ UNCHANGED <<clock, aborted, records, failure>>

Raced == at = "race" /\ adapter[attempt] = "pending"

Settled(a) == [adapter EXCEPT ![a] = "settled"]

\* The adapter wins the race with a result.
Resolve ==
    /\ Raced
    /\ adapter' = Settled(attempt)
    /\ records' = [records EXCEPT ![attempt] = "quoted"]
    /\ at' = "resolved"
    /\ UNCHANGED <<clock, attempt, due, aborted, failure>>

\* It wins with an error, or with a result that cannot be recorded.
Reject(kind) ==
    /\ Raced
    /\ adapter' = Settled(attempt)
    /\ Fail(kind)
    /\ UNCHANGED <<clock, attempt, aborted>>

\* Mutant: a timed-out attempt is left alone.
TimeOutUnaborted ==
    /\ at = "race"
    /\ clock >= due
    /\ Fail("retryable")
    /\ UNCHANGED <<clock, attempt, adapter, aborted>>

\* The timer wins: the attempt is aborted, and its promise goes on.
TimeOut ==
    /\ at = "race"
    /\ clock >= due
    /\ aborted' = aborted \cup {attempt}
    /\ Fail("retryable")
    /\ UNCHANGED <<clock, attempt, adapter>>

\* Mutant: a spent budget is not noticed after a backoff.
WakeWithin ==
    /\ at = "backoff"
    /\ clock >= due
    /\ Remaining > 0
    /\ Enter(attempt + 1)
    /\ UNCHANGED <<clock, aborted, records, failure>>

\* The backoff is over.
Wake ==
    /\ at = "backoff"
    /\ clock >= due
    /\ Enter(attempt + 1)
    /\ UNCHANGED <<clock, aborted, records, failure>>

-----------------------------------------------------------------------------
(* The environment                                                         *)

\* A promise nobody waits for any more settles.
SettleLate(a) ==
    /\ adapter[a] = "pending"
    /\ ~(at = "race" /\ a = attempt)
    /\ adapter' = Settled(a)
    /\ UNCHANGED <<clock, at, attempt, due, aborted, records, failure>>

Tick ==
    /\ at \in {"race", "backoff"}
    /\ clock < due + Slack
    /\ clock' = clock + 1
    /\ UNCHANGED <<at, attempt, due, adapter, aborted, records, failure>>

Next ==
    \/ Start \/ Resolve \/ TimeOut \/ Wake \/ Tick
    \/ \E kind \in Failures : Reject(kind)
    \/ \E a \in Attempts : SettleLate(a)

Spec == Init /\ [][Next]_vars

\* The event loop runs what is due and time passes; the adapter is not assumed
\* to do anything.
FairSpec ==
    /\ Spec
    /\ WF_vars(Start) /\ WF_vars(TimeOut) /\ WF_vars(Wake) /\ WF_vars(Tick)

-----------------------------------------------------------------------------
(* Properties                                                              *)

\* execute.ts:70: however the timeouts and delays fall, a provider cannot set the
\* latency of the comparison: the call is answered within its budget, and the
\* lateness of its timers does not add up.
WithinBudget == clock <= Budget + Slack

\* execute.ts:72: an attempt that nobody waits for was told to stop, so a retry
\* never runs beside an attempt that was not aborted.
AbandonedIsAborted ==
    \A a \in Attempts : adapter[a] = "pending" => a \in aborted \/ (at = "race" /\ a = attempt)

\* execute.ts:76: every attempt is recorded before the call goes on or is
\* answered, and the answer is the result of an attempt recorded as quoted.
Evidenced ==
    /\ \A a \in Attempts : adapter[a] # "none" =>
          records[a] # "none" \/ (at = "race" /\ a = attempt)
    /\ at = "resolved" <=> \E a \in Attempts : records[a] = "quoted"

\* The call is answered even by an adapter that never settles.
Answered == <>(at \in Answers)
=============================================================================
