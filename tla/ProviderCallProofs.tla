------------------------- MODULE ProviderCallProofs -------------------------
(***************************************************************************)
(* Proofs about ProviderCall, for every retry policy and every lateness of *)
(* the timers: the call is answered within its budget, no attempt is       *)
(* abandoned without being aborted, each leaves its record, and the steps  *)
(* the call has left run out.                                              *)
(*                                                                         *)
(* The budget holds because a timer is never set past it: an attempt's by  *)
(* the minimum, a backoff's by the comparison before it.  So the clock is  *)
(* at most one lateness past a point within the budget.                    *)
(***************************************************************************)
EXTENDS ProviderCall, TLAPS

\* The timer of an await is within the budget and at most Slack late.
TimersWithin ==
    /\ at = "start" => clock = 0
    /\ at \in {"race", "backoff"} => due <= Budget /\ clock <= due + Slack

\* The loop goes on only where an attempt is left, and an attempt it has not
\* reached has left no trace.
LoopExact ==
    /\ at = "backoff" => attempt < MaxAttempts /\ failure = "retryable"
    /\ at = "race" => records[attempt] = "none"
    /\ at = "start" => adapter[attempt] = "none" /\ records[attempt] = "none"
    /\ \A a \in Attempts : a > attempt => adapter[a] = "none" /\ records[a] = "none"

IInv == TypeOK /\ WithinBudget /\ TimersWithin /\ AbandonedIsAborted /\ Evidenced /\ LoopExact

-----------------------------------------------------------------------------
(* What the helpers return                                                 *)

LEMMA AttemptTimeoutProps ==
    ASSUME clock \in Nat, ~(Remaining <= 0)
    PROVE  AttemptTimeout \in Nat /\ clock + AttemptTimeout <= Budget
BY PolicyAssumption DEF AttemptTimeout, Least, Remaining

LEMMA DelayProps ==
    ASSUME NEW a \in Attempts, NEW delay \in BackoffDelays(a), clock \in Nat,
           ~(delay >= Remaining)
    PROVE  clock + delay \in Nat /\ clock + delay <= Budget
<1>1. delay \in 0 .. 2 * MaxDelay
  BY DEF BackoffDelays
<1>2. delay \in Nat
  BY <1>1, PolicyAssumption
<1>3. QED
  BY <1>2, PolicyAssumption DEF Remaining

\* What a failure does, and what it leaves alone.
LEMMA FailProps ==
    ASSUME TypeOK, TimersWithin, at = "race", NEW kind \in Failures, Fail(kind)
    PROVE  /\ records' = [records EXCEPT ![attempt] = "failed"]
           /\ failure' = kind
           /\ \/ at' = "rejected" /\ due' = due
              \/ /\ at' = "backoff"
                 /\ due' \in Nat /\ due' <= Budget /\ clock <= due'
                 /\ kind = "retryable" /\ attempt < MaxAttempts
<1>1. records' = [records EXCEPT ![attempt] = "failed"] /\ failure' = kind
  BY DEF Fail, FailedRecord
<1>2. CASE ~WillRetry(kind)
  BY <1>1, <1>2 DEF Fail
<1>3. CASE WillRetry(kind)
  <2>1. PICK delay \in BackoffDelays(attempt) :
           IF delay >= Remaining
           THEN at' = "rejected" /\ UNCHANGED due
           ELSE at' = "backoff" /\ due' = clock + delay
    BY <1>3 DEF Fail
  <2>2. CASE delay >= Remaining
    BY <1>1, <2>1, <2>2
  <2>3. CASE ~(delay >= Remaining)
    <3>1. clock + delay \in Nat /\ clock + delay <= Budget
      BY <2>3, DelayProps DEF TypeOK
    <3>2. delay \in Nat
      BY PolicyAssumption DEF BackoffDelays
    <3>3. clock <= clock + delay
      BY <3>2 DEF TypeOK
    <3>4. QED
      BY <1>1, <1>3, <2>1, <2>3, <3>1, <3>3 DEF WillRetry
  <2>4. QED
    BY <2>2, <2>3
<1>4. QED
  BY <1>2, <1>3

-----------------------------------------------------------------------------
(* The invariant                                                           *)

LEMMA InitIInv == Init => IInv
<1> SUFFICES ASSUME Init PROVE IInv
  OBVIOUS
<1>1. TypeOK
  BY PolicyAssumption DEF Init, TypeOK, Attempts, Failures, Answers
<1>2. WithinBudget /\ TimersWithin
  BY PolicyAssumption DEF Init, WithinBudget, TimersWithin
<1>3. AbandonedIsAborted
  BY DEF Init, AbandonedIsAborted
<1>4. Evidenced
  BY DEF Init, Evidenced
<1>5. LoopExact
  BY <1>1 DEF Init, LoopExact, TypeOK
<1>6. QED
  BY <1>1, <1>2, <1>3, <1>4, <1>5 DEF IInv

\* The top of the loop, from the start or from a backoff.
LEMMA EnterIInv ==
    ASSUME IInv, NEW a \in Attempts, Enter(a),
           at \in {"start", "backoff"},
           a >= attempt,
           adapter[a] = "none", records[a] = "none",
           \A x \in Attempts : x # a => adapter[x] # "pending" \/ x \in aborted,
           \A x \in Attempts : x # a /\ adapter[x] # "none" => records[x] # "none",
           UNCHANGED <<clock, aborted, records, failure>>
    PROVE  IInv'
<1>1. CASE Remaining <= 0
  <2>1. at' = "rejected" /\ attempt' = attempt /\ due' = due /\ adapter' = adapter
    BY <1>1 DEF Enter
  <2>2. QED
    BY <2>1 DEF IInv, TypeOK, WithinBudget, TimersWithin, AbandonedIsAborted, Evidenced,
                LoopExact, Answers
<1>2. CASE ~(Remaining <= 0)
  <2>1. /\ at' = "race" /\ attempt' = a
        /\ due' = clock + AttemptTimeout
        /\ adapter' = [adapter EXCEPT ![a] = "pending"]
    BY <1>2 DEF Enter
  <2>2. due' \in Nat /\ due' <= Budget /\ clock <= due'
    BY <1>2, <2>1, AttemptTimeoutProps DEF IInv, TypeOK
  <2>3. TypeOK'
    BY <2>1, <2>2 DEF IInv, TypeOK
  <2>4. WithinBudget' /\ TimersWithin'
    BY <2>1, <2>2, PolicyAssumption DEF IInv, TypeOK, WithinBudget, TimersWithin
  <2>5. AbandonedIsAborted'
    BY <2>1 DEF IInv, TypeOK, AbandonedIsAborted
  <2>6. Evidenced'
    BY <2>1 DEF IInv, TypeOK, Evidenced
  <2>7. LoopExact'
    BY <2>1, <2>3 DEF IInv, TypeOK, LoopExact, Attempts
  <2>8. QED
    BY <2>3, <2>4, <2>5, <2>6, <2>7 DEF IInv
<1>3. QED
  BY <1>1, <1>2

\* A failure of the attempt, whoever won the race.
LEMMA FailIInv ==
    ASSUME IInv, at = "race", NEW kind \in Failures, Fail(kind),
           UNCHANGED <<clock, attempt>>,
           \/ adapter' = Settled(attempt) /\ aborted' = aborted
           \/ adapter' = adapter /\ aborted' = aborted \cup {attempt}
    PROVE  IInv'
<1>1. /\ records' = [records EXCEPT ![attempt] = "failed"]
      /\ failure' = kind
      /\ \/ at' = "rejected" /\ due' = due
         \/ /\ at' = "backoff"
            /\ due' \in Nat /\ due' <= Budget /\ clock <= due'
            /\ kind = "retryable" /\ attempt < MaxAttempts
  BY FailProps DEF IInv
<1>2. TypeOK'
  BY <1>1 DEF IInv, TypeOK, Settled, Answers
<1>3. WithinBudget' /\ TimersWithin'
  BY <1>1, PolicyAssumption DEF IInv, TypeOK, WithinBudget, TimersWithin
<1>4. AbandonedIsAborted'
  BY <1>1 DEF IInv, TypeOK, AbandonedIsAborted, Settled
<1>5. Evidenced'
  BY <1>1 DEF IInv, TypeOK, Evidenced, Settled
<1>6. LoopExact'
  <2>1. \A x \in Attempts : x # attempt => adapter'[x] = adapter[x] /\ records'[x] = records[x]
    BY <1>1 DEF IInv, TypeOK, Settled
  <2>2. \A x \in Attempts : x > attempt => x # attempt
    BY DEF IInv, TypeOK, Attempts
  <2>3. attempt' = attempt /\ at' \notin {"start", "race"}
    BY <1>1
  <2>4. at' = "backoff" => attempt' < MaxAttempts /\ failure' = "retryable"
    BY <1>1
  <2>5. \A x \in Attempts : x > attempt => adapter[x] = "none" /\ records[x] = "none"
    BY DEF IInv, LoopExact
  <2>6. QED
    BY <2>1, <2>2, <2>3, <2>4, <2>5 DEF LoopExact
<1>7. QED
  BY <1>2, <1>3, <1>4, <1>5, <1>6 DEF IInv

LEMMA NextIInv == IInv /\ [Next]_vars => IInv'
<1> SUFFICES ASSUME IInv, [Next]_vars PROVE IInv'
  OBVIOUS
<1>1. CASE Start
  <2>1. at = "start" /\ Enter(attempt) /\ UNCHANGED <<clock, aborted, records, failure>>
    BY <1>1 DEF Start
  <2>2. attempt \in Attempts /\ attempt >= attempt
    BY PolicyAssumption DEF IInv, TypeOK, Attempts
  <2>3. adapter[attempt] = "none" /\ records[attempt] = "none"
    BY <2>1 DEF IInv, LoopExact
  <2>4. \A x \in Attempts : adapter[x] # "pending" \/ x \in aborted
    BY <2>1 DEF IInv, AbandonedIsAborted
  <2>5. \A x \in Attempts : adapter[x] # "none" => records[x] # "none"
    BY <2>1 DEF IInv, Evidenced
  <2>6. QED
    BY <2>1, <2>2, <2>3, <2>4, <2>5, EnterIInv
<1>2. CASE Resolve
  <2>1. TypeOK'
    BY <1>2 DEF IInv, TypeOK, Resolve, Raced, Settled, Answers
  <2>2. WithinBudget' /\ TimersWithin'
    BY <1>2 DEF IInv, WithinBudget, TimersWithin, Resolve
  <2>3. AbandonedIsAborted'
    BY <1>2 DEF IInv, TypeOK, AbandonedIsAborted, Resolve, Raced, Settled
  <2>4. Evidenced'
    BY <1>2 DEF IInv, TypeOK, Evidenced, Resolve, Raced, Settled
  <2>5. LoopExact'
    BY <1>2 DEF IInv, TypeOK, LoopExact, Resolve, Raced, Settled, Attempts
  <2>6. QED
    BY <2>1, <2>2, <2>3, <2>4, <2>5 DEF IInv
<1>3. CASE TimeOut
  BY <1>3, FailIInv DEF TimeOut, Failures
<1>4. CASE \E kind \in Failures : Reject(kind)
  BY <1>4, FailIInv DEF Reject, Raced
<1>5. CASE Wake
  <2>1. /\ at = "backoff" /\ Enter(attempt + 1)
        /\ UNCHANGED <<clock, aborted, records, failure>>
    BY <1>5 DEF Wake
  <2>2. attempt + 1 \in Attempts /\ attempt + 1 > attempt
    BY <2>1, PolicyAssumption DEF IInv, TypeOK, LoopExact, Attempts
  <2>3. adapter[attempt + 1] = "none" /\ records[attempt + 1] = "none"
    BY <2>2 DEF IInv, LoopExact
  <2>4. \A x \in Attempts : adapter[x] # "pending" \/ x \in aborted
    BY <2>1 DEF IInv, AbandonedIsAborted
  <2>5. \A x \in Attempts : adapter[x] # "none" => records[x] # "none"
    BY <2>1 DEF IInv, Evidenced
  <2>6. attempt + 1 >= attempt
    BY <2>2 DEF IInv, TypeOK, Attempts
  <2>7. QED
    BY <2>1, <2>2, <2>3, <2>4, <2>5, <2>6, EnterIInv
<1>6. CASE \E a \in Attempts : SettleLate(a)
  <2>1. PICK a \in Attempts : SettleLate(a)
    BY <1>6
  <2>2. /\ adapter[a] = "pending" /\ ~(at = "race" /\ a = attempt)
        /\ adapter' = [adapter EXCEPT ![a] = "settled"]
        /\ UNCHANGED <<clock, at, attempt, due, aborted, records, failure>>
    BY <2>1 DEF SettleLate, Settled
  <2>3. adapter' \in [Attempts -> {"none", "pending", "settled"}]
    BY <2>2 DEF IInv, TypeOK
  <2>4. \A x \in Attempts : adapter'[x] = IF x = a THEN "settled" ELSE adapter[x]
    BY <2>2 DEF IInv, TypeOK
  <2>5. ~(a > attempt) /\ (at = "start" => a # attempt)
    BY <2>2 DEF IInv, LoopExact
  <2>6. TypeOK'
    BY <2>2, <2>3 DEF IInv, TypeOK
  <2>7. WithinBudget' /\ TimersWithin'
    BY <2>2 DEF IInv, WithinBudget, TimersWithin
  <2>8. AbandonedIsAborted' /\ Evidenced'
    BY <2>2, <2>4 DEF IInv, AbandonedIsAborted, Evidenced
  <2>9. LoopExact'
    BY <2>2, <2>4, <2>5 DEF IInv, TypeOK, LoopExact
  <2>10. QED
    BY <2>6, <2>7, <2>8, <2>9 DEF IInv
<1>7. CASE Tick
  BY <1>7, PolicyAssumption DEF Tick, IInv, TypeOK, WithinBudget, TimersWithin,
                               AbandonedIsAborted, Evidenced, LoopExact
<1>8. CASE UNCHANGED vars
  BY <1>8 DEF vars, IInv, TypeOK, WithinBudget, TimersWithin, AbandonedIsAborted, Evidenced,
              LoopExact
<1>9. QED
  BY <1>1, <1>2, <1>3, <1>4, <1>5, <1>6, <1>7, <1>8 DEF Next

LEMMA Invariance == Spec => []IInv
BY InitIInv, NextIInv, PTL DEF Spec

-----------------------------------------------------------------------------
(* The theorems                                                            *)

\* Type correctness, for every policy.
THEOREM TypeCorrect == Spec => []TypeOK
<1>1. IInv => TypeOK
  BY DEF IInv
<1>2. QED
  BY <1>1, Invariance, PTL

\* The call never outlasts its budget by more than one timer's lateness.
THEOREM WithinBudgetHolds == Spec => []WithinBudget
<1>1. IInv => WithinBudget
  BY DEF IInv
<1>2. QED
  BY <1>1, Invariance, PTL

\* An adapter promise nobody waits for was aborted.
THEOREM AbandonedIsAbortedHolds == Spec => []AbandonedIsAborted
<1>1. IInv => AbandonedIsAborted
  BY DEF IInv
<1>2. QED
  BY <1>1, Invariance, PTL

\* Every attempt leaves its record before the call goes on or is answered.
THEOREM EvidencedHolds == Spec => []Evidenced
<1>1. IInv => Evidenced
  BY DEF IInv
<1>2. QED
  BY <1>1, Invariance, PTL

-----------------------------------------------------------------------------
(* How many steps the call has left                                        *)

\* The turns the loop has left, an await at a time.
Turns ==
    CASE at = "start" -> 2 * MaxAttempts + 1
      [] at = "race" -> 2 * (MaxAttempts - attempt) + 2
      [] at = "backoff" -> 2 * (MaxAttempts - attempt) + 1
      [] OTHER -> 0

\* With the ticks its timers leave it.
Rank == IF at \in Answers THEN 0 ELSE Turns + (Budget + Slack - clock)

\* The steps of the call and of its clock.
CallStep ==
    Start \/ Resolve \/ TimeOut \/ Wake \/ Tick \/ \E kind \in Failures : Reject(kind)

\* The steps of the call, by its rank.
AnswersInTime ==
    /\ Rank \in 0 .. Budget + Slack + 2 * MaxAttempts + 1
    /\ Rank = 0 <=> at \in Answers
    /\ Rank' <= Rank
    /\ CallStep => Rank' < Rank

LEMMA RankIs ==
    ASSUME IInv
    PROVE  /\ Rank \in 0 .. Budget + Slack + 2 * MaxAttempts + 1
           /\ Rank = 0 <=> at \in Answers
           /\ at \notin Answers => Rank = Turns + (Budget + Slack - clock) /\ Turns \in Nat \ {0}
<1>1. /\ clock \in 0 .. Budget + Slack /\ attempt \in 1 .. MaxAttempts
      /\ MaxAttempts \in Nat \ {0} /\ Budget \in Nat /\ Slack \in Nat
  BY PolicyAssumption DEF IInv, TypeOK, WithinBudget, Attempts
<1>2. CASE at \in Answers
  BY <1>1, <1>2 DEF Rank
<1>3. CASE at \in {"start", "race", "backoff"}
  <2>1. Turns \in 1 .. 2 * MaxAttempts + 1
    BY <1>1, <1>3 DEF Turns
  <2>2. at \notin Answers
    BY <1>3 DEF Answers
  <2>3. Rank = Turns + (Budget + Slack - clock)
    BY <2>2 DEF Rank
  <2>4. QED
    BY <1>1, <2>1, <2>2, <2>3
<1>4. QED
  BY <1>2, <1>3 DEF IInv, TypeOK

\* The step takes at least one of the steps left.
Falls == Rank' \in Nat /\ Rank' < Rank

\* Answering, or going on to an await with fewer turns at the same time.
LEMMA TurnFalls ==
    ASSUME IInv, at \notin Answers, UNCHANGED clock,
           at' \in Answers \/ (at' \notin Answers /\ Turns' \in Nat /\ Turns' < Turns)
    PROVE  Falls
<1>1. /\ Rank \in Nat \ {0} /\ Turns \in Nat /\ clock \in Nat
      /\ Rank = Turns + (Budget + Slack - clock) /\ Budget \in Nat /\ Slack \in Nat
  BY RankIs, PolicyAssumption DEF IInv, TypeOK
<1>2. CASE at' \in Answers
  BY <1>1, <1>2 DEF Rank, Falls
<1>3. CASE at' \notin Answers /\ Turns' \in Nat /\ Turns' < Turns
  <2>1. Rank' = Turns' + (Budget + Slack - clock)
    BY <1>3 DEF Rank
  <2>2. Budget + Slack - clock \in Nat
    BY <1>1, PolicyAssumption DEF IInv, WithinBudget
  <2>3. \A rest, before, after \in Nat :
            after < before => after + rest \in Nat /\ after + rest < before + rest
    OBVIOUS
  <2>4. QED
    BY <1>1, <1>3, <2>1, <2>2, <2>3 DEF Falls
<1>4. QED
  BY <1>2, <1>3

\* The top of the loop ends the call or starts the attempt.
LEMMA EnterFalls ==
    ASSUME IInv, at \in {"start", "backoff"}, NEW a \in Attempts, Enter(a), UNCHANGED clock,
           at = "start" => a = attempt, at = "backoff" => a = attempt + 1
    PROVE  Falls
<1>1. /\ attempt \in 1 .. MaxAttempts /\ a \in 1 .. MaxAttempts /\ MaxAttempts \in Nat
      /\ at \notin Answers /\ "rejected" \in Answers /\ "race" \notin Answers
  BY PolicyAssumption DEF IInv, TypeOK, Attempts, Answers
<1>2. CASE Remaining <= 0
  BY <1>1, <1>2, TurnFalls DEF Enter
<1>3. CASE ~(Remaining <= 0)
  <2>1. at' = "race" /\ attempt' = a
    BY <1>3 DEF Enter
  <2>2. Turns' = 2 * (MaxAttempts - a) + 2
    BY <2>1 DEF Turns
  <2>3. Turns = IF at = "start" THEN 2 * MaxAttempts + 1 ELSE 2 * (MaxAttempts - attempt) + 1
    BY DEF Turns
  <2>4. Turns' \in Nat /\ Turns' < Turns
    BY <1>1, <2>2, <2>3
  <2>5. QED
    BY <1>1, <2>1, <2>4, TurnFalls
<1>4. QED
  BY <1>2, <1>3

\* A failure ends the call or backs off.
LEMMA FailFalls ==
    ASSUME IInv, at = "race", NEW kind \in Failures, Fail(kind), UNCHANGED <<clock, attempt>>
    PROVE  Falls
<1>1. /\ attempt \in 1 .. MaxAttempts /\ MaxAttempts \in Nat
      /\ at \notin Answers /\ "rejected" \in Answers /\ "backoff" \notin Answers
  BY PolicyAssumption DEF IInv, TypeOK, Attempts, Answers
<1>2. at' \in {"rejected", "backoff"}
  BY FailProps DEF IInv
<1>3. CASE at' = "rejected"
  BY <1>1, <1>3, TurnFalls
<1>4. CASE at' = "backoff"
  <2>1. Turns = 2 * (MaxAttempts - attempt) + 2 /\ Turns' = 2 * (MaxAttempts - attempt) + 1
    BY <1>4 DEF Turns
  <2>2. Turns' \in Nat /\ Turns' < Turns
    BY <1>1, <2>1
  <2>3. QED
    BY <1>1, <1>4, <2>2, TurnFalls
<1>5. QED
  BY <1>2, <1>3, <1>4

LEMMA CallFalls == ASSUME IInv, CallStep PROVE Falls
<1>1. CASE Start
  BY <1>1, EnterFalls DEF Start, IInv, TypeOK
<1>2. CASE Wake
  <2>1. attempt + 1 \in Attempts
    BY <1>2, PolicyAssumption DEF Wake, IInv, TypeOK, LoopExact, Attempts
  <2>2. QED
    BY <1>2, <2>1, EnterFalls DEF Wake
<1>3. CASE Resolve
  BY <1>3, TurnFalls DEF Resolve, Raced, Answers
<1>4. ASSUME NEW kind \in Failures, Reject(kind) PROVE Falls
  BY <1>4, FailFalls DEF Reject, Raced
<1>5. CASE TimeOut
  BY <1>5, FailFalls DEF TimeOut, Failures
<1>6. CASE Tick
  <2>1. /\ at \notin Answers /\ at' = at /\ Turns' = Turns /\ clock' = clock + 1
    BY <1>6 DEF Tick, Turns, Answers
  <2>2. /\ Turns \in Nat /\ clock \in Nat /\ Budget \in Nat /\ Slack \in Nat
        /\ Rank = Turns + (Budget + Slack - clock)
    BY <2>1, RankIs, PolicyAssumption DEF IInv, TypeOK
  <2>3. Rank' = Turns + (Budget + Slack - (clock + 1))
    BY <2>1 DEF Rank
  <2>4. clock + 1 <= Budget + Slack
    BY <1>6, <2>2 DEF Tick, IInv, TypeOK, TimersWithin
  <2>5. QED
    BY <2>2, <2>3, <2>4 DEF Falls
<1>7. QED
  BY <1>1, <1>2, <1>3, <1>4, <1>5, <1>6 DEF CallStep

\* However the provider behaves, the call has at most as many steps as its budget,
\* one lateness and two awaits for each attempt: each of its steps and each tick
\* lowers its rank, a late settlement leaves it, and at zero it is answered.  This is
\* what "answered within its budget" comes to without fairness.
THEOREM CallAnswersInTime == Spec => [][AnswersInTime]_vars
<1>1. IInv /\ [Next]_vars => [AnswersInTime]_vars
  <2> SUFFICES ASSUME IInv, Next PROVE AnswersInTime
    BY DEF vars
  <2>1. Rank \in Nat
    BY RankIs, PolicyAssumption
  <2>2. ASSUME NEW a \in Attempts, SettleLate(a) PROVE Rank' = Rank
    BY <2>2 DEF SettleLate, Rank, Turns
  <2>3. Rank' <= Rank
    <3>1. CASE CallStep
      BY <3>1, <2>1, CallFalls DEF Falls
    <3>2. ASSUME NEW a \in Attempts, SettleLate(a) PROVE Rank' <= Rank
      BY <3>2, <2>1, <2>2
    <3>3. QED
      BY <3>1, <3>2 DEF Next, CallStep
  <2>4. QED
    BY <2>3, RankIs, CallFalls DEF AnswersInTime, Falls
<1>2. QED
  BY <1>1, Invariance, PTL DEF Spec
=============================================================================

