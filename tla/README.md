# Verification of the routing and execution hub

TLA+ models of the parts of this repository whose correctness depends on the
order in which things happen, the TLC instances that check them, and TLAPS
proofs of what matters most for every size of the system.

The program is a TypeScript API (`src/apps/api`) over a core library
(`src/packages/core`), provider adapters (`src/packages/adapters`) and two sets
of stores, in memory and PostgreSQL (`src/packages/persistence`). It routes
payment requests over many providers' quotes, lets AI agents spend within a
policy, and carries an execution through a sandbox partner. It never moves
funds; what it must get right is what it claims about quotes, limits, executions
and fees.

JavaScript runs to completion between awaits. That decides the grain of every
model here: a handler is a process, one step of it ends at one `await` on a
store, a provider or a partner, and between two steps anything else may run:
other requests, timers, webhooks, expiry, midnight, a crash. A step that touches
only process memory is merged with its neighbour; each merge is named below.

## 1. The system

| component | state | operations | what is hard | what makes it correct |
|---|---|---|---|---|
| Circuit breaker (`adapters/resilience/circuit-breaker.ts`) | state, consecutive failures, time of the trip, half-open flag; per provider, in process | admit, recordSuccess, recordFailure, and readers that half-open as a side effect | results of calls from an earlier episode arrive in a later one | no lock-out, one probe, closed exactly below the threshold, recovery |
| Quote cache (`quote-cache.ts`, `core/quotes/quote-freshness.ts`) | an LRU map with timestamps, in process | get (re-inserts), set (evicts) | the provider's clock is not ours; hits re-insert | bounded, one entry per key, never serves past the window |
| Quote wrapper (`with-quote-resilience.ts`) | inflight map over the two above, kill switch | getQuote, probe, supportsNormalized | concurrent misses, the promise's `finally` | single flight |
| Execution orchestration (`core/engine/execution-orchestration-service.ts`) | execution rows; uses mandates, policy, partner instructions, monetization events, receipts | create (idempotent), get (polls), webhook | a dozen awaits, whole-row writes of stale copies, idempotency races, failing writes, crash | nothing unscreened is dispatched; a key names one row; what a row claims is backed; create answers; life cycle |
| Partner instructions, sandbox partner | instruction rows; the partner's own memory | dispatch with failover, poll, webhook | partner memory dies with the process; reports overtake one another | settled only on the partner's word |
| Receipts (`execution-receipt-service.ts`) | receipt rows | issue, verify | check then save; the mandate is read again first | settled means receipted |
| Agent payments (`agent-payment-service.ts`) | payment intents, an exclusive lock per agent | create, get (expires), quote, select, authorize, simulate, gate | two operations do not take the lock; the counted day moves with authorization | the daily limit |
| Routing kill switch (`routes/ops-routing.ts`, `manual-override.ts`) | rows, and an in-process map loaded at boot | engage, release | store first, map later, nothing orders handlers | what an operator shut off stays off |
| Live enablement (`routes/ops-live-enablement.ts`, `pricing-shape-registry.ts`) | rows, and an in-process view replaced from a list | enable, disable, list | lists are hydrated in another order than taken | a withdrawn determination closes its shape |
| Billing (`billing-engine.ts`) | decisions, invoices per organization, period and currency | runs over a period | overlapping runs, decisions recorded meanwhile | every decision is billed once, and marked exactly when it is |
| Fee collection (`collection-service.ts`) | attempts keyed by invoice; the processor | collect, confirm by wire | the processor is called between two writes; two ways to confirm; READ COMMITTED | invoice, attempt and decisions agree; cash is recognized with a payment |
| Provider call (`resilience/execute.ts`) | none across calls | attempts, timeouts, backoff, budget | a timed-out attempt goes on; timers are late | budget kept, nothing abandoned unaborted, everything recorded, an answer |
| Settlement instructions | signed rows, the vault's key generations, a cached ring per process | generate, publish keys, rotate, counter-sign | loads probe generation by generation while others mint; caches | what was signed stays verifiable; processes agree; counter-signed once |
| Identity: login, MFA, OIDC, sessions | user columns, challenges, recovery codes, authorizations, sessions | log in, verify, enroll, confirm, regenerate, callback, log out | find, compare, then consume; whole-column writes | nothing signs in twice; the second factor is asked for |
| Mandates, x402; onboarding; API keys | rows | verify, revoke; invite, review | find, check, delete | see section 6 |
| Everything else | | routing, comparison, scoring, graph search, serialization, OpenAPI, web | pure or read-only | unit tests |

Interactions. A routing request asks each eligible provider through the quote
wrapper; the kill switch excludes a provider or corridor there. The agent routes
move an intent to `ROUTED` and `POLICY_APPROVED`; the execution-intent route
passes the gate of that service. `POST /executions` takes the mandate and the
stored route, reserves against the agent's daily limit, dispatches a partner
instruction, polls it, records a monetization event and issues a receipt; the
partner also calls back by webhook, and `GET /executions/:id` polls again. Two
operator routes change rows whose in-process views the two above read. The
billing engine turns recorded decisions into invoices, fee collection charges
them over the same ledger. Provider calls are what the adapters do when the
quote wrapper calls them. Settlement instructions are signed with a key all
processes read from one vault.

`PROJECT.json` lists every component with its status and every hazard with the
line where it bites.

## 2. Modules

| module | models | over |
|---|---|---|
| `ProviderCircuitBreaker` | the breaker's methods as operators on a record | |
| `QuoteCache` | get, set, freshness, ageing as operators on a sequence | |
| `QuoteResilience` | the wrapper; the state machine of quotes | the two above |
| `QuoteResilienceProofs` | theorems | `QuoteResilience` |
| `SandboxPartner` | the partner simulation as operators | |
| `ExecutionLifecycle` | abstract: what an execution row promises | |
| `SharedLifecycle` | abstract: what is left of that when requests share a row | `ExecutionLifecycle` |
| `ExecutionOrchestration` | create, get, dispatch, polls, webhooks, receipts | `SandboxPartner`; implements `SharedLifecycle`, and `ExecutionLifecycle` where no row is shared |
| `ExecutionOrchestrationProofs` | theorems | `ExecutionOrchestration` |
| `AgentPayments` | intents, the agent's lock, the daily limit | |
| `AgentPaymentsProofs` | theorems | `AgentPayments` |
| `OperatorControls` | kill switch and enablement over their rows | |
| `OperatorControlsProofs` | theorems | `OperatorControls` |
| `RevenueRecognition` | abstract: what the ledger promises of a decision's revenue | |
| `Billing` | decisions, invoices, billing runs | |
| `FeeCollection` | collections and confirmations on that ledger | `Billing`; implements `RevenueRecognition` |
| `FeeCollectionProofs` | theorems, the refinement among them | `FeeCollection` |
| `ProviderCall` | one call: attempts, timers, budget | |
| `ProviderCallProofs` | theorems | `ProviderCall` |
| `InstructionKeys` | key generations, rings, instructions | |
| `InstructionKeysProofs` | theorems | `InstructionKeys` |
| `SignIn` | signing in to one account | |
| `SignInProofs` | theorems | `SignIn` |
| `MC...` | instances for TLC: symmetry sets, how creates share keys | |

Correspondence:

**QuoteResilience.** `cb`, `cache`, `pending`, `engaged` are the code's breaker
fields, the cache map (least recently used first), the inflight map and the
override map. `upstream[k]` and `settled[k]` count the calls of
`inner.getQuote` that run, and those that have settled but whose `finally` has
not run. `getQuote` up to its await is one of `CacheHit`, `JoinPending`,
`RejectOpen`, `StartLoad`; an excluded provider throws before it touches
anything. Time is relative: each timestamp is the ticks since it was taken,
saturating where no comparison can tell larger values apart, so the state is
finite and no bound on time is needed. `LoadUnreadable` is the quote whose instants
do not parse: `cache.set` throws after `recordSuccess`, and the `catch` records a
failure on top of it. `sinceLoad`, `sinceTrip` and `probed` are history: when a key was
last loaded, when a provider's breaker last tripped, and whether the provider has been
called since. `Engage` and `Release` are here only the
in-memory effect; their way through the store is `OperatorControls`.

**ExecutionOrchestration.** `rows`, `instr`, `receipts`, `events` are the
stores, `sim` the partner's memory. `req[r].at` is the await a request is
suspended in, `req[r].copy` the row object it carries and writes back whole:
`Put` is `store.update`. Compliance and the partner's scenario are functions of
the command, chosen at the start. The daily limit is exact (each execution costs
one unit); the policy's other rules may refuse at any time. `settledBy` is
history. The mandate ends, by revocation, by expiry, or by the one after the other, and
the quote expires, at any time. A payload in `Leaking` is one whose `beneficiaryRef` may
occur in the canonical text of the receipt: `RefuseReceipt` is
`assertReceiptHasNoRawPii` throwing for it, after the row is `SETTLED`; whether it does
depends on the text, so the model leaves it open. A crash ends the requests under way;
creates, GETs and webhooks that have not come yet come after the restart, to a partner
that has forgotten its simulations. Three state predicates
name the races the theorems are conditional on: `NoneShared` (no two requests work
on one row), `NoneScreenedTwice` (no two creates take one row through the pipeline
at once) and `OneReserving` (at most one create is between the daily limit and its
reservation).

**AgentPayments.** One agent, intents of one unit. `Enter` takes the lock and
performs the first locked read: waiting for the lock has no state of its own and
the code uses nothing it read before. `Leave`, the `finally` that releases, is
merged with the operation's last write. `Begin` remembers the copy read, `Store`
replaces the row. A `get` changes something only by expiring, so only that is a
process; every other operation's opening `getIntent` is such a request. `QuoteStart`
merges the policy check, two reads whose result the model leaves open, with the write
of `QUOTING` after it: the copy written is the one read before both, and nothing else
of theirs is kept. `QuoteFinish` is the write after the router's answer.
`lapsed`, `day` and `completed` are the passing of `expiresAt`, midnight, and a
history of what was simulated. `NoneOvertaken` says that no request without the lock
holds a copy of an intent that has been simulated meanwhile.

**OperatorControls.** `active` and `enabled` are the rows, `engaged` and `open`
the views. `Engage`/`EngageWrite`/`EngageApply` are the store's `findFirst`, its
write, and the handler's change of the map; likewise the others. `Boot` is what
`createApp` loads, `StoreFails` a rejected call, `CommitUnknown` a commit that is
reported as failed. `Audited` is the await of the audit entry between a handler's change
of the view and its answer: other handlers hydrate their lists there. (A refused enable
also writes an audit entry; it changes nothing afterwards and is merged with
`StoreFails`.) `asserted` and `withdrawn` are history: what has been engaged or withdrawn
and not undone by anyone since. `alone` marks a request no opposite request on its target
overlapped: what two contradicting operators get is the last write in each
place, and the properties do not speak of it. A shape is `withdrawn` when a disable that
is `alone` has hydrated and no other handler still holds a list from before the
disable's write (`StillListed`); with such a list pending the code does not close the
shape for good (section 5).

**Billing, FeeCollection.** One period. A decision is a monetization event, an
invoice is named by its unique key (organization, period, currency), which the
group stands for. `ListDecisions`, `Find` and `Issue` are the awaits of a billing
run; `Issue` is the transaction with its conditional update of the decisions, and
a lost race ends the run as the thrown error does. `FeeCollection` extends it with
the attempts: `Start`, `Begin`, `Collect`, `ConfirmRead` and `ConfirmWrite` are
`collectInvoice`, `StartWire` and `BeginWire` the operator's way to the same two
last steps. `ConfirmRead` and `ConfirmWrite` are apart because `confirmAttempt`
reads the attempt before it holds the row's lock, under READ COMMITTED, and does
not look again; `FailRead` and `FailWrite` because `failAttempt` is two
statements. A restart may change the collection mode. The processor is external:
it answers with a reference or a failure, or it throws and the attempt stays pending.
The flag, the sign-off and the enabled
collector are read once per request and are an input; the wire collector
is the only one the repository enables.

**ProviderCall.** `clock` counts ticks since the call began, `due` is when the
timer of the current await fires, and it may fire up to `Slack` ticks late.
`adapter[a]` outlives the race: an attempt nobody waits for stays `pending` until
it settles, if ever. The timer of an attempt that has settled is cleared only after
the backoff (the `finally` encloses it); when it fires there it aborts an attempt that
is over, which nothing observes, and the model has no step for it. The two recorders of the repository answer at once and do
not fail; a recorder that awaited would need a step of its own.

**InstructionKeys.** `vault` is the sequence of stored generations, `ring[n]` a
process's cache. A load is `Start`, a `Probe` per generation, `Put` when the first
key is minted, and `Loaded`, which replaces the cache whatever it holds by then.
`Rotate` is the same loop with a write at its end. `Store` signs and saves, and
`CounterSign`/`Attach` are the find and the conditional update. A key is a number,
the ring is the list of them; the payload and the signature are left out.

**SignIn.** One account, whose person knows the password and every secret. A
request is a handler at an await: `Login`, `Gate`, `Challenge` or `Issue`;
`Verify`, `ReadSecret`, `Present`, `Redeem`, `Spend`, `Issue`; `Callback`,
`Claim`, `Issue`; `Enroll`, `Pend`; `Confirm`, `Enable`, `Replace`, `Commit`.
`evidence` is what a request was accepted with, and it stays on the session it
opens: that is how the properties speak of what signed in. A recovery code stands
for a set of them; `Replace` and `Commit` are the delete and the commit of the
replacing transaction, and `Locked` is the row lock a redemption waits for.

## 3. Runs

| run | instance | shows |
|---|---|---|
| `quote_resilience` | 1 provider, 2 requests over one cache slot, threshold 2, cooldown 2, window 1, skew 1, lifetimes to 3 | `TypeOK`, `SingleFlight`, `BreakerConsistent`, `OneProbePerTrip`, `CacheBounded`, `ServedWithinWindow`; with fairness `BreakerRecovers`, `ProbeResolves` |
| `orchestration_creates` | 2 creates with a key each or one key over two payloads, a webhook, a payload outside the mandate's scope, one whose receipt may be refused, poll budget 1 | `TypeOK`, `ScreenedBeforeDispatch`, and `FollowsLifecycle`: it implements `ExecutionLifecycle`; with fairness `CreateAnswers` |
| `orchestration_replays` | 2 creates with one key and payload, a GET, poll budget 2, 1 failing write, 1 crash | `KeyNamesOneRow`, `SentIsBacked`, `SettledIsConfirmed`, `SettledHasReceipt`, `FollowsSharedLifecycle`: it implements `SharedLifecycle` |
| `orchestration_limit` | 2 creates, limit 1 | counterexample to `DailyLimitRespected` |
| `orchestration_replay` | 2 creates, one key and payload | counterexample to `OneInstructionPerKey` |
| `agent_limit` | 2 intents, limit 1, 2 locked requests, a quote, a get, midnight, a crash | `TypeOK`, `WithinLimits` |
| `agent_permanent` | the same without crash and midnight | counterexample to `PermanentSpendWithinLimit` |
| `operator_controls` | 1 target, 1 shape, 3 requests of any kind, 2 rows, 2 crashes | `TypeOK`, `EngagedHolds`, `DisableHolds` |
| `fee_collection` | 2 overlapping billing runs over a group of 2 decisions, 2 requests, 2 references, a restart | `TypeOK`, `BilledOnce`, `PaidTogether`, `RealizedIsBacked`, and `RecognizesInOrder`: it implements `RevenueRecognition` |
| `provider_call` | 3 attempts of 4 ticks, a budget of 10, backoffs of 1 to 3 with jitter, timers up to 2 late | `TypeOK`, `WithinBudget`, `AbandonedIsAborted`, `Evidenced`, and with fairness `Answered` |
| `instruction_keys` | 2 processes, 2 requests of any kind, 2 generations, 1 instruction, restarts | `TypeOK`, `StaysVerifiable`, `RingsAgree`, `SignsWithRecent`, `CounterSignedOnce` |
| `sign_in` | 2 requests of any kind, 2 sessions, 2 challenges, 1 authorization, 2 replacements of codes | `TypeOK`, `OneSignInEach`, `SecondFactorHeld` |

Why the bounds are enough to be worth something.

- Breaker: two requests are what it takes to have a load that began before
  the trip settle during a later probe; the threshold of 2 makes "below" and
  "at" distinct after a reset. The proofs remove the bound.
- Cache: with one slot, two keys are enough for every eviction; the window,
  the skew and the lifetimes are chosen so that a quote can be fresh, stale,
  expired, and from the future. The proofs remove the bound.
- Orchestration: every hazard found needs two requests on a row or two rows of
  an agent. `MAX_SETTLEMENT_POLLS` is 8 in the code. In the replays 2 lets one
  request take a row through `SETTLING` to `SETTLED`, and a create that spends them
  leaves its row to the GET or to the replay; in the run with fairness 1 is enough to
  run out. The failing write and the crash may come at any step and bound the
  environment only; the theorems have any number of both, in every kind of request. In
  the run with fairness the payload outside the mandate's scope has one scenario
  (`CreatesSpec`): only a dispatch reads it, and the same run checks that there is none.
- Agent payments: limit 1 with two intents is the smallest instance where the
  limit can be exceeded; two days make a count move from one to the other.
- Operator controls: two rows let a target be engaged, released and engaged
  again; three requests let a list, a disable and an enable interleave, or two
  engagements and a release.

- Fee collection: one group and two decisions, one settled and one not, let a
  decision be recorded before, between and after two runs' lists; two requests
  are a collection against a wire confirmation. The proofs remove the bound.
- Provider call: the shipped policy in ticks of 0.8 seconds. The budget lies
  between two and three timeouts, so it cuts the third attempt or its backoff.
- Instruction keys: two generations are what a rotation needs, and reaching the
  last one is `MAX_KEY_GENERATIONS`.
- Sign-in: two requests make every race of two; a session from the first lets the
  second enroll, confirm or regenerate.

Symmetry is used only in runs without liveness, over sets whose members the
specification does not distinguish.

`CHECK_DEADLOCK FALSE` in all runs but the quotes' and the
orchestration's: intents are created once, a call is answered, codes and ids are
used up, and operators may stop. The orchestration runs check deadlock: `Finished`
is the only stuttering allowed, once every create has answered.

### Fairness

- `Tick`, weakly fair: time passes.
- An upstream call settles. The wrapper itself has no timeout; its caller races every
  quote against one and aborts the signal it passed (`routing-engine.ts:595-610`,
  also `comparison-service.ts:549`, `stablecoin-routing.ts:245`,
  `defi-routing.ts:301`), and an adapter is expected to settle when its signal
  aborts. An adapter that ignores the signal would hold the half-open flag for
  as long as it hangs: `ProbeResolves` depends on that assumption and on nothing
  else that is not in the code.
- `ProviderCall`: the event loop fires a timer that is due and runs what an answer
  resumes, and time passes. Nothing is assumed of the adapter: `Answered` holds
  for one that never settles.
- The `finally` of a settled promise runs; every await of a running request
  returns or throws (`CreateStep`, `SettleStep`).

## 4. Proofs

Every state machine has theorems for every value of its constants; together they
state every safety property the passing runs check. For each of the three findings a
theorem says that without its race the violated property holds, so that the race is
its only cause.

### Quotes

`QuoteResilienceProofs` proves, for every set of providers and requests, every
threshold, cooldown, capacity, window, skew and lifetime:

| theorem | statement |
|---|---|
| `TypeCorrect` | `Spec => []TypeOK` |
| `SingleFlightHolds` | `Spec => []SingleFlight` |
| `BreakerHolds` | `Spec => []BreakerConsistent` |
| `CacheBoundedHolds` | `Spec => []CacheBounded` |
| `ServedWithinWindowHolds` | `Spec => []ServedWithinWindow` |
| `OneProbePerTripHolds` | `Spec => OneProbePerTrip` |

The assumptions are those of the constants (`BreakerAssumption` and the cache's):
naturals, thresholds and capacities of at least one.

The argument. `IInv` is the conjunction of `TypeOK`, `SingleFlight`,
`BreakerConsistent`, `CacheBounded` and `EntryNoYounger`; `BreakerConsistent` is
`ClosedBelowThreshold` and `ProbeOutstanding`.

- The breaker's half is `BreakerSound`: each method, applied to any breaker with
  `BelowThreshold` and `FlagHalfOpen`, returns one with both, whatever episode
  the result that called it belongs to. `ProbeOutstanding` also needs that a step
  which leaves the flag up takes no running call away: a settling load lowers the
  flag of its provider, every other step keeps `upstream` or adds to it.
- `SingleFlight` is inductive by itself only because it counts settled loads whose
  `finally` has not run: the map entry outlives the call.
- `ServedWithinWindow` is not inductive. It speaks of the last load of a key, the
  code of the entry's own timestamp; `EntryNoYounger` relates the two (an entry
  is at least as old as the last load of its key, and ages with it however often
  a hit moves it), and `ServedWithinWindow` follows from it.

The lemmas on `RemoveAt`, `Delete`, `AfterGet`, `AfterSet` and `AgeCache` say what
the cache's methods do to a sequence; the breaker's are finite case analysis.
`OneProbePerTrip` is a property of steps. It needs `IInv` in the state before and two
invariants of their own. `TripTimed`: while a breaker is open its own clock is the time
since the last trip, and a half-open one has sat its cooldown out; a late failure restarts
both clocks at once, and reading an open breaker moves it on only when they have run out
(`BreakerTimed`). `ProbeKnown`: a provider that was called since its last trip has the
half-open flag up, because whatever lowers the flag also trips or closes the breaker. So
a breaker that admits a call has its provider not `probed`.

### Sandbox execution orchestration

`ExecutionOrchestrationProofs` proves, for any creates, gets, webhooks, keys,
payloads, any assignment of them (`Loads`), any limit, poll budget and number of
faults and crashes:

| theorem | statement |
|---|---|
| `TypeCorrect` | `Spec => []TypeOK` |
| `ScreenedBeforeDispatchHolds` | `Spec => []ScreenedBeforeDispatch` |
| `KeyNamesOneRowHolds` | `Spec => []KeyNamesOneRow` |
| `SentIsBackedHolds` | `Spec => []SentIsBacked` |
| `SettledIsConfirmedHolds` | `Spec => []SettledIsConfirmed` |
| `SettledHasReceiptHolds` | `Spec => []SettledHasReceipt` |
| `SharedRefines` | `Spec => FollowsSharedLifecycle` |
| `AloneRefines` | `Spec /\ []NoneShared => FollowsLifecycle` |
| `SeparateRefines` | without a GET and with no key and payload given twice, `Spec => FollowsLifecycle` |
| `LimitHoldsUnraced` | `Spec /\ []NoneShared /\ []OneReserving => []DailyLimitRespected` |
| `InstructedOnceUnraced` | `Spec /\ []NoneScreenedTwice => []OneInstructionPerKey` |
| `InstructedOnceSeparate` | with no key and payload given twice, `Spec => []OneInstructionPerKey` |
| `RequestsAnswerInTime` | `Spec => [][AnswersInTime]_vars` |

The assumptions are `OrchestrationAssumption` (creates and gets are different
requests, `None` and `NoKey` are neither, bounds are naturals, polls at least one),
`NoneAssumption` (`None` is not a row, a status or a partner status) and
`ExtraDelayAssumption`.

*What rows claim.* None of the first six but `TypeOK` and `ScreenedBeforeDispatch` could be inductive: a
stored row is as right as the copy it was written from. `IInv` therefore says of
every copy a request carries what `RowOK` says of a row (`ReqOK`). That survives any
interleaving because what a row may claim only becomes truer (`Grows`): a stored
instruction, a confirmation, an event and a receipt stay. So a stale copy can move a
status back, as section 5 observes, but not make a row claim what is not backed.
`ScreenOK` and `SettleOK` say what a request has been through at each await.
`ReceiptComing` strengthens `SettledHasReceipt`: a settled row without a receipt has
a request between the `SETTLED` write and the receipt, unless the mandate has ended, the
process has crashed, or its payload is in `Leaking`. `KeysApart` is what the
refusal in `Save` keeps.

*The life cycles.* `LInv` adds to `IInv` which statuses a copy can have at each await
(`Stage`), and that a create before its save has no row (`Unsaved`). A request's view
in `SharedLifecycle` is its row and the status of its copy while it carries one; a
step is then a write from that view, a row taken up, a confirmation, or an answer
(`Follows`, one lemma per handler). `AloneRefines` needs nothing more: with
`NoneShared` a copy is the stored row, and a write from the view is a step from the
row. `SeparateRefines` derives `NoneShared` from `KeyNamesOneRow`. What `SharedLifecycle`
gives up is only that the row still has the status the writer knows.

*What a step does to the rows.* The other theorems about rows share one lemma,
`StepShaped`: a step of the orchestration touches nothing they speak of (`Idles`), or
moves a request that leaves its row alone (`Walks`), lets one take up a stored row
(`Takes`), saves the first row of a create (`Saves`) or writes the copy of one back
(`Updates`), with what that says of the status and of the reservation.

*The daily limit.* `WInv`: every copy is the stored row (`Exact`), nothing is reserved
before it is screened (`Unreserved`), and the one create that passed the limit still
has room (`RoomKept`), because only the step from `reserve` makes a row count and with
`OneReserving` no other create can take it.

*One instruction per key.* `KInv`: a key that has been instructed has a row, that row
is no longer `CREATED`, and while a create takes the row through the pipeline no other
create of its key has been instructed. A replay finds the row by its key and takes it
up for screening only if `CREATED`; with `NoneScreenedTwice` nobody else is screening
it then.

*The steps a request has left.* `Rank` gives every await a number, the awaits of the
poll loop four for each poll left. `RequestsAnswerInTime` says that it is at most
`4 * MaxPolls + 23`, that it is zero exactly when the request has answered, that each
step of a request lowers its rank, and that no step of anyone raises another's. That
is the half of `CreateAnswers` a prover without fairness can state: a create that
keeps being scheduled answers within a fixed number of steps, whatever the partner
reports.

### The daily limit

`AgentPaymentsProofs` proves, for any number of intents, of requests of each
kind, of days and of crashes, and any limit:

| theorem | statement |
|---|---|
| `TypeCorrect` | `Spec => []TypeOK` |
| `WithinLimitsHold` | `Spec => []WithinLimits` |
| `PermanentSpendHolds` | `Spec /\ []NoneOvertaken => []PermanentSpendWithinLimit` |

It assumes that the intents are finitely many, that `None` is none of them, of their
rows and of the days, and that a request is either a locked operation or a quote or
a get.

The argument. `IInv` is `TypeOK`, `Exclusive`, `Dated` and `Limits`.

- `Exclusive`: a locked operation holds the lock from its first read to its
  answer, so while one is past its check every other is idle (`Alone`).
- `Dated`: no row or copy carries a date of a later day, and what is authorized
  says when. So midnight empties what counts today.
- `RoomToday`: who has passed the check has room for its intent today. The check
  gives it; writes without the lock cannot take it away, because the statuses
  they write (`QUOTING`, `QUOTED`, `FAILED`, `EXPIRED`) do not count; midnight
  gives more room.
- `RoomAuthorized`: a simulation writes back the copy it read under the lock. If
  a quote or an expiry has meanwhile taken the intent out of what is authorized,
  the simulation puts it back, on the day it was authorized: there must still be
  room there. It holds because nobody else can authorize while the lock is held.

`Shrinks` is the one lemma behind all steps that take away or leave alone;
`RoomyWrite` and `SimulatedWrite` are the writes under the lock. The same copies
are why `PermanentSpendWithinLimit` fails: a bound on what counts is kept by
forgetting what was spent. `PermanentSpendHolds` shows that nothing else does it. While
no request without the lock holds a copy of an intent simulated meanwhile, a simulated
intent stays simulated on its day (`Kept`), since a locked operation that is going to
write works on one that is not (`Unsimulated`, kept by the lock); so what was ever
simulated still counts, and `AuthorizedWithinLimit` bounds it.

### Operator controls

`OperatorControlsProofs` proves, for any targets, shapes, concurrent requests,
rows and crashes:

| theorem | statement |
|---|---|
| `TypeCorrect` | `Spec => []TypeOK` |
| `EngagedHoldsAlways` | `Spec => []EngagedHolds` |
| `DisableHoldsAlways` | `Spec => []DisableHolds` |

The argument. `IInv` is `TypeOK`, `Placed`, `Apart`, `EngageBacked`,
`AssertedUncontested`, `EngagedHolds`, `DisableBacked`, `WithdrawnUnlisted` and
`DisableHolds`.

- `Placed` says which operation and target each await belongs to.
- `Apart`: an engage or a disable that is still `alone` has no opposite request
  on its target in flight.
- `EngageBacked`: therefore the row it found or wrote is still active when the
  handler sets the map; and `AssertedUncontested`: a release takes its target out
  of `asserted` when it starts, so no release in flight can undo what is asserted.
  Both are what `EngagedHolds` needs to be inductive.
- `DisableBacked`: from an uncontested disable's write to its hydration its shape is in
  neither the rows nor the list it carries.
- `WithdrawnUnlisted`: no handler is about to hydrate a list with a withdrawn shape in
  it. The step that withdraws the shape makes sure of that (`StillListed`), and a later
  list is read from rows without the shape. So no later hydration reopens it, and a
  process that boots has every shape enabled, hence none withdrawn from its rows: that is
  `DisableHolds`.

### Billing and fee collection

`FeeCollectionProofs` proves, for any decisions, groups, overlapping runs and
requests, references and restarts:

| theorem | statement |
|---|---|
| `TypeCorrect` | `Spec => []TypeOK` |
| `BilledOnceHolds` | `Spec => []BilledOnce` |
| `PaidTogetherHolds` | `Spec => []PaidTogether` |
| `RealizedIsBackedHolds` | `Spec => []RealizedIsBacked` |
| `Refines` | `Spec => RecognizesInOrder` |

The argument. `RunsInv` says that a run about to issue has listed only recorded
decisions of its group; `LedgerInv` that the lines of an invoice are exactly the
decisions marked with it; `CollectionInv` that a request past its check works on an
issued invoice whose attempt exists, and that whatever was paid was paid `LIVE`.
The check of `confirmAttempt` may be out of date when it writes: it keeps the
ledger consistent all the same, because a second confirmation writes one reference
everywhere it writes any. `Refines` maps a step on one group to the abstract step
of that group: `Record`, `Bill` and `Pay` are each taken whole, the rest stutters.

### Provider call

`ProviderCallProofs` proves `TypeCorrect`, `WithinBudgetHolds`,
`AbandonedIsAbortedHolds`, `EvidencedHolds` and `CallAnswersInTime`, for every retry
policy and every lateness of the timers. The budget holds because a timer is never set past it
(`TimersWithin`: an attempt's by the minimum, a backoff's by the comparison before
it), so the clock is at most one lateness past a point within the budget. `LoopExact`
says which attempts have been started at each await. `CallAnswersInTime` counts the
steps a call has left, two awaits for each attempt and the ticks its timers leave it:
every step of the call and every tick lowers the count, an abandoned attempt that
settles leaves it, and it is zero exactly when the call is answered.

### Settlement instructions

`InstructionKeysProofs` proves `TypeCorrect`, `StaysVerifiableHolds`,
`RingsAgreeHolds`, `SignsWithRecentHolds` and `CounterSignedOnceHolds`, for any
processes, requests, instructions and generations. Unless two minters were about
to write at once (`raced`), every ring and every partial load is a prefix of the
vault, and the one request about to write has seen all of it: a write only appends,
and what was signed with any generation stays in the vault.

### Signing in

`SignInProofs` proves `TypeCorrect`, `OneSignInEachHolds` and
`SecondFactorHeldHolds`, for any requests, sessions, challenges, authorizations
and codes. What a request has been accepted with is spent (`Paid`): its challenge and
its authorization are consumed, its code is no longer among the unused. A request
that is accepted now therefore differs (`Distinct`) from every session and every
request that was before, because the conditional update found its token unspent.
`FactorHeld` follows a login that began enrolled: it waits at the gate with MFA still
enabled, or is past it with evidence.

### Only model-checked

Liveness (`BreakerRecovers`, `ProbeResolves`, `CreateAnswers`, `Answered`), which is
out of the prover's reach; of `CreateAnswers` and `Answered` the half that needs no
fairness is proved, a bound on the steps that are left (`RequestsAnswerInTime`,
`CallAnswersInTime`). In `orchestration_creates` the property `FollowsLifecycle`
is checked as it stands, because in that instance no row is shared; for every value of
the constants it holds under the hypotheses of `AloneRefines` and `SeparateRefines`,
and it is false of rows two requests share.

## 5. Where the code and its description part

Each is a counterexample TLC finds in the model of the code.

- **Two executions take the last of the daily limit** (`DailyLimitRespected`).
  The sum is checked under the agent's lock, the reservation is written after
  the lock is released. `LimitHoldsUnraced`: with one create at a time in that gap,
  and no shared row, the limit holds.
- **One idempotency key, two instructions** (`OneInstructionPerKey`). The loser
  of the race for a key re-reads the winner's row; while that is `CREATED` it
  carries it through the pipeline too. `InstructedOnceUnraced`: unless two creates
  have one row in the pipeline at once, a key has one instruction.
- **A simulated spend is forgotten** (`PermanentSpendWithinLimit`).
  `quoteIntent` writes back the copy it read, without the lock. `PermanentSpendHolds`:
  unless such a copy is overtaken by a simulation, what was spent stays spent.

Observed while modelling, and visible in the models without a run of their own:

- `recordSuccess` closes the breaker from any state (`circuit-breaker.ts:74`): a
  load started before the trip that succeeds after it ends the cooldown at once.
- `transition` writes its copy unconditionally
  (`execution-orchestration-service.ts:343`): a GET that polled earlier puts
  `SETTLING` over `SETTLED`.
- A late failure that trips a half-open breaker also lowers its flag
  (`circuit-breaker.ts:87`) while the probe of the earlier trip still runs: a cooldown
  later a second probe starts beside it. `OneProbePerTrip` counts per trip.
- A list of the enablement rows taken before a disable's write and hydrated after the
  disable's own hydration reopens the shape in this process
  (`ops-live-enablement.ts:115`, `:156`), until the next list; the comment at `:206` says
  that a withdrawal must close its shape on the next request. It may happen while the
  disable awaits its audit entry or after it has answered. TLC finds it as soon as
  `StillListed` is dropped from `Withdraws`; `DisableHolds` says that it is the only way.
- A row may be `SETTLED` without a receipt for good when the mandate ends between
  the dispatch and the receipt: the second `requireMandate` throws
  (`execution-orchestration-service.ts:412`). So may one whose `beneficiaryRef`, any
  string of 1 to 80 characters, occurs somewhere in the canonical receipt: issuing it
  throws after the `SETTLED` write (`execution-receipt-service.ts:92`).
  `SettledHasReceipt` names both conditions.
- The mandate recheck uses the object read at the start, so it sees an expiry but
  not a revocation in between (`:186`).
- Two pollers of one row each record a monetization event.
- A row may be `FAILED` while the partner has accepted: a store write that fails
  inside the dispatch's `try` is taken for a failed dispatch.
- An intent that is `ROUTED` counts on the day it was created; after midnight
  yesterday's routed intents can exceed yesterday's limit, which nothing
  re-checks, while authorization re-checks today's.
- Overlapping engage and release of one target may leave the row active and the
  process open, or the reverse, until a restart; so may a commit that is reported
  as failed, after which a release can answer 404 for a target that is still
  off. A boot that cannot read the kill-switch rows starts with every switch off,
  and nothing loads them later.
- `failAttempt` may mark the attempt of a paid invoice failed, and a second
  confirmation gives invoice, attempt and decisions another reference
  (`prisma-launch-billing.ts:246`, `:334`). `PaidTogether` says that they agree
  even so.
- A decision recorded after its group was invoiced is never billed: a later run
  finds the invoice and goes on. Two runs that both find none: the second's
  transaction fails and that run leaves its remaining groups to the next.
- "A retry cannot double-charge" (`collection-service.ts:30`): the attempt a retry finds
  is returned only when it has succeeded. One that is pending, because the collector threw
  or the process crashed, is sent to the collector again (`:179`), so whether it charges
  twice is left to the processor's treatment of the idempotency key. The model has no
  variable for what the processor charged.
- `collectInvoice` does not look at the mode of an attempt it finds: one recorded
  in `RECORD_ONLY` goes to the collector after a restart in `LIVE`. The Postgres
  store refuses to confirm it, the in-memory store confirms it.
- Two processes that both find a generation of the signing key absent both write
  it, and the later one replaces the key the earlier may have signed with. Receipt
  keys are minted by the same pattern (`receipt-signing.ts:76`,
  `execution-orchestration-service.ts:556`). A process keeps the ring it
  cached until it restarts; `rotateInstructionSigningKey` and `reloadKeys` are
  called by tests only, and a load under way when `reloadKeys` runs puts the older
  ring back. The in-memory store attaches a counter-signature without its check.
- An enrollment that read the columns before a confirmation and writes after it
  turns MFA off again (`auth-mfa.ts:71`); `SecondFactorHeld` names that case
  (`lost`). `docs/AUTH.md:38` describes the confirmation as what enables it.
- Two overlapping replacements of recovery codes leave both sets valid under READ
  COMMITTED: the second delete does not see what the first adds.
- A recovery code is consumed before its challenge; when the challenge is lost to a
  concurrent request the code is spent for nothing.
- Two verifications of one x402 authorization that both find the challenge both
  yield a mandate: the delete's count is not looked at (`mandate-service.ts:219`).
- Two overlapping acceptances of an invite both write a password and a membership
  before one of them is refused (`onboarding.ts:227`); the refused one's password
  may be the one that stands.
- After a disable of a flagged shape a production process does not start again
  until the shape is enabled or its flag is taken away: `Boot` requires it.

## 6. Not modelled

- Data: amounts other than one unit, rates, scores, signatures, the contents of
  policies and sign-offs. Where a decision depends on them it is a choice.
- Orchestration: failures of store writes outside the dispatch's `try` block
  (there a failing write ends the request as a crash of that request would), of the
  receipt store and of the key vault among them,
  several agents, organizations or days.
- Agent payments: the lock is the in-memory store's. PostgreSQL's is a row lock
  of an interactive transaction that the protected body does not use and that
  times out; when it does depends on the pool's size and on settings outside
  the repository. `createIntent`'s idempotency is left out, and with the audit appends
  the path that fails a quoted intent when its append throws.
- Operator controls: one process. Other instances see a change when they
  restart. The expiry of a sign-off is judged at every read, so nothing about it
  can be stale.
- Billing: amounts, subscriptions other than as a line of their own, and the update
  branch of `recordMonetizationEvent`.
- Sign-in: passwords, authenticator codes and statuses (a refusal that has written
  nothing is the same as `Fail`), API keys, the provider's exchange.
- Settlement instructions: payload, expiry, reading back.
- Audit appends are taken to succeed.
- The components with status `not_modelled` in `PROJECT.json`, each with the
  reason.

## 7. What would come next

- An abstract daily budget that `AgentPayments` implements, as `FeeCollection`
  implements `RevenueRecognition`.
- The bound of `RequestsAnswerInTime` in polls of the partner's simulation, so that
  a scenario which settles is seen settled by the create itself.
- The PostgreSQL agent lock with its timeout and pool as constants.
- The mandate store composed with the orchestration, in place of the environment
  action that ends a mandate.
