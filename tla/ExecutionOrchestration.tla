----------------------- MODULE ExecutionOrchestration -----------------------
(***************************************************************************)
(* Sandbox execution orchestration: create and get of                      *)
(* packages/core/src/engine/execution-orchestration-service.ts with the    *)
(* partner instructions, receipts and monetization events they write.      *)
(*                                                                         *)
(* A request is a process.  Each of its steps ends at one await on a store *)
(* or on the partner; between two steps every other request, the partner's *)
(* webhooks, the customer revoking the mandate, and a crash may intervene. *)
(* The service holds no lock across its steps and the store's update       *)
(* replaces the whole row, so req[r].copy, the row a request carries from  *)
(* await to await, may be stale when it is written back.                   *)
(*                                                                         *)
(* One organization, one agent, one mandate and one UTC day.  An execution *)
(* row is named by the create request that generated its id, a partner     *)
(* instruction by the create request that dispatched it.                   *)
(***************************************************************************)
EXTENDS SandboxPartner, FiniteSets

CONSTANTS
    Creators,       \* POST /executions requests
    Readers,        \* GET /executions/:id requests
    Hooks,          \* partner webhook deliveries
    Keys,           \* idempotency keys
    NoKey,          \* a request without one
    Payloads,       \* request fingerprints
    Loads,          \* assignments of a key and a fingerprint to the creates
    Outside,        \* payloads outside the mandate's scope
    Leaking,        \* payloads whose beneficiary reference may occur in a receipt
    DailyLimit,     \* executions the daily limit has room for
    MaxPolls,       \* MAX_SETTLEMENT_POLLS
    MaxFaults,      \* bound: failing store writes after a dispatch
    MaxCrashes,     \* bound: process crashes
    None            \* no row, no instruction

ASSUME OrchestrationAssumption ==
    /\ Loads \subseteq [Creators -> [key : Keys \cup {NoKey}, payload : Payloads]]
    /\ Outside \subseteq Payloads
    /\ Leaking \subseteq Payloads
    /\ NoKey \notin Keys
    /\ None \notin Creators
    /\ Creators \cap Readers = {}
    /\ DailyLimit \in Nat
    /\ MaxPolls \in Nat \ {0}
    /\ MaxFaults \in Nat
    /\ MaxCrashes \in Nat
    /\ IsFiniteSet(Creators)

Requests == Creators \cup Readers

Outcomes == {"pass", "deny", "review"}

Status == {"CREATED", "ROUTED", "COMPLIANCE_PASSED", "COMPLIANCE_REVIEW", "BLOCKED",
           "EXPIRED", "DISPATCHED", "SETTLING", "SETTLED", "FAILED"}

\* TERMINAL_ORCHESTRATION_STATUSES
Terminal == {"BLOCKED", "EXPIRED", "SETTLED", "FAILED"}

\* ORCHESTRATION_DAILY_RESERVE_STATUSES
ReserveStatuses == {"COMPLIANCE_PASSED", "DISPATCHED", "SETTLING", "SETTLED"}

\* What a partner instruction has been dispatched for.
Sent == {"DISPATCHED", "SETTLING", "SETTLED"}

Row == [status : Status, reserved : BOOLEAN, instr : Creators \cup {None}, receipt : BOOLEAN]

NewRow == [status |-> "CREATED", reserved |-> FALSE, instr |-> None, receipt |-> FALSE]

ASSUME NoneAssumption == None \notin Row /\ None \notin PartnerStatus /\ None \notin Status

\* The await a request is suspended in.  "done" also stands for a request
\* that answered with an error.
Location == {"get", "lookup", "mandate", "route", "save", "reread", "routed", "comply",
             "recheck", "limit", "block", "reserve", "dispatch", "instruct",
             "dispatched", "poll", "record", "settling", "event", "settled",
             "remandate", "issue", "sign", "link", "failed", "done"}

VARIABLES
    rows,       \* rows[x]: the execution store
    instr,      \* instr[i]: status in the partner instruction store, or None
    sim,        \* sim[i]: the partner's simulation
    events,     \* events[x]: monetization events of x, saturating at two
    receipts,   \* receipts[x]: a receipt of x is stored
    mandate,    \* "verified", "revoked" or "expired"
    quote,      \* "live" or "expired": the selected route's quote
    req,        \* req[r]: a request's local state
    hook,       \* hook[h]: a webhook delivery's local state
    command,    \* command[c]: the key and the payload of create request c
    compliance, \* compliance[p]: the screening outcome of payload p
    scenario,   \* scenario[p]: the sandbox scenario of payload p
    settledBy,  \* history: rows whose partner has reported settled to a poll
    faults,     \* failed writes so far
    crashes     \* crashes so far

store == <<rows, instr, events, receipts>>
locals == <<req, hook>>
fixed == <<command, compliance, scenario>>
env == <<mandate, quote, faults, crashes>>
vars == <<store, sim, locals, env, fixed, settledBy>>

\* at: the await a request is suspended in; on: the row it works on; copy: its
\* copy of that row; late: it found the quote expired; got: the partner status
\* it has in hand; polls: the polls it has made.
Request == [at : Location, on : Creators \cup {None}, copy : Row, late : BOOLEAN,
            got : PartnerStatus, polls : 0 .. MaxPolls]

RequestAt(at) ==
    [at |-> at, on |-> None, copy |-> NewRow, late |-> FALSE, got |-> "accepted", polls |-> 0]

\* A delivery to come, one that holds the status it will store for an
\* instruction, or one that is done.
Delivery == [at : {"webhook", "record", "done"}, on : Creators \cup {None}, got : PartnerStatus]

DeliveryAt(at) == [at |-> at, on |-> None, got |-> "accepted"]

TypeOK ==
    /\ rows \in [Creators -> Row \cup {None}]
    /\ instr \in [Creators -> PartnerStatus \cup {None}]
    /\ sim \in [Creators -> Simulation \cup {NoSimulation}]
    /\ events \in [Creators -> 0 .. 2]
    /\ receipts \in [Creators -> BOOLEAN]
    /\ mandate \in {"verified", "revoked", "expired"}
    /\ quote \in {"live", "expired"}
    /\ req \in [Requests -> Request]
    /\ hook \in [Hooks -> Delivery]
    /\ command \in Loads
    /\ compliance \in [Payloads -> Outcomes]
    /\ scenario \in [Payloads -> Scenarios]
    /\ settledBy \subseteq Creators
    /\ faults \in 0 .. MaxFaults
    /\ crashes \in 0 .. MaxCrashes

Init ==
    /\ rows = [c \in Creators |-> None]
    /\ instr = [c \in Creators |-> None]
    /\ sim = [c \in Creators |-> NoSimulation]
    /\ events = [c \in Creators |-> 0]
    /\ receipts = [c \in Creators |-> FALSE]
    /\ mandate = "verified"
    /\ quote = "live"
    /\ req = [r \in Requests |-> RequestAt(IF r \in Creators THEN "lookup" ELSE "get")]
    /\ hook = [h \in Hooks |-> DeliveryAt("webhook")]
    /\ command \in Loads
    /\ compliance \in [Payloads -> Outcomes]
    /\ scenario \in [Payloads -> Scenarios]
    /\ settledBy = {}
    /\ faults = 0
    /\ crashes = 0

-----------------------------------------------------------------------------
(* Steps of a request                                                      *)

KeyOf(c) == command[c].key

PayloadOf(c) == command[c].payload

At(r, location) == req[r].at = location

\* The request goes on to the next await, or answers and is forgotten.
Goto(r, to) ==
    req' = [req EXCEPT ![r] = IF to = "done" THEN RequestAt("done") ELSE [@ EXCEPT !.at = to]]

\* The request goes on to the next await with a new copy of its row.
Carry(r, to, row) ==
    req' = [req EXCEPT ![r] = IF to = "done" THEN RequestAt("done")
                                             ELSE [@ EXCEPT !.at = to, !.copy = row]]

\* store.update, and the stored row as the request carries on with it.  The row
\* is overwritten whatever it has become since r read it.
Put(r, to, row) ==
    /\ rows' = [rows EXCEPT ![req[r].on] = row]
    /\ Carry(r, to, row)

\* transition and terminate: only the status of r's copy changes.
PutStatus(r, to, status) == Put(r, to, [req[r].copy EXCEPT !.status = status])

\* Request r continues on the stored row x.
Adopt(r, to, x) ==
    req' = [req EXCEPT ![r] = IF to = "done" THEN RequestAt("done")
                              ELSE [@ EXCEPT !.at = to, !.on = x, !.copy = rows[x]]]

\* advanceIfNeeded: only a dispatched or settling row is taken further.
AdvanceTo(row) == IF row.status \in {"DISPATCHED", "SETTLING"} THEN "poll" ELSE "done"

Holders(c) ==
    {x \in Creators : rows[x] # None /\ KeyOf(x) = KeyOf(c) /\ KeyOf(c) # NoKey}

-----------------------------------------------------------------------------
(* POST /executions: idempotency, mandate, route                           *)

Lookup(c) ==
    /\ At(c, "lookup")
    /\ \/ Holders(c) = {} /\ Goto(c, "mandate")
       \/ \E x \in Holders(c) :
            \/ PayloadOf(x) = PayloadOf(c) /\ Adopt(c, AdvanceTo(rows[x]), x)
            \/ PayloadOf(x) # PayloadOf(c) /\ Goto(c, "done")
    /\ UNCHANGED <<store, sim, hook, env, fixed, settledBy>>

\* requireMandate throws when the mandate is revoked or expired.
ReadMandate(c) ==
    /\ At(c, "mandate")
    /\ Goto(c, IF mandate = "verified" THEN "route" ELSE "done")
    /\ UNCHANGED <<store, sim, hook, env, fixed, settledBy>>

\* requireRoute, then the instant the quote's expiry is compared with.
ReadRoute(c) ==
    /\ At(c, "route")
    /\ req' = [req EXCEPT ![c].at = "save", ![c].on = c, ![c].late = (quote = "expired")]
    /\ UNCHANGED <<store, sim, hook, env, fixed, settledBy>>

\* Mutant: the store saves the row without looking for its key.
SaveUnchecked(c) ==
    /\ At(c, "save")
    /\ Put(c, "routed", req[c].copy)
    /\ UNCHANGED <<instr, events, receipts, sim, hook, env, fixed, settledBy>>

\* persist: the store refuses a second row for the same idempotency key.
Save(c) ==
    /\ At(c, "save")
    /\ \/ Holders(c) = {} /\ Put(c, "routed", req[c].copy)
       \/ Holders(c) # {} /\ Goto(c, "reread") /\ UNCHANGED rows
    /\ UNCHANGED <<instr, events, receipts, sim, hook, env, fixed, settledBy>>

\* Mutant: the conflicting row is carried through the pipeline whatever has
\* become of it.
RereadAnyway(c) ==
    /\ At(c, "reread")
    /\ \E x \in Holders(c) : PayloadOf(x) = PayloadOf(c) /\ Adopt(c, "routed", x)
    /\ UNCHANGED <<store, sim, hook, env, fixed, settledBy>>

\* The conflicting row is read back.  One that is still CREATED is carried
\* through the pipeline by this request as well.
Reread(c) ==
    /\ At(c, "reread")
    /\ \E x \in Holders(c) :
          \/ /\ PayloadOf(x) = PayloadOf(c)
             /\ Adopt(c, IF rows[x].status = "CREATED" THEN "routed" ELSE AdvanceTo(rows[x]), x)
          \/ PayloadOf(x) # PayloadOf(c) /\ Goto(c, "done")
    /\ UNCHANGED <<store, sim, hook, env, fixed, settledBy>>

-----------------------------------------------------------------------------
(* Screening, mandate recheck and the daily limit                          *)

\* Mutant: the early return of an expired quote is missing.
RouteAnyway(c) ==
    /\ At(c, "routed")
    /\ PutStatus(c, "comply", IF req[c].late THEN "EXPIRED" ELSE "ROUTED")
    /\ UNCHANGED <<instr, events, receipts, sim, hook, env, fixed, settledBy>>

RouteOrExpire(c) ==
    /\ At(c, "routed")
    /\ \/ req[c].late /\ PutStatus(c, "done", "EXPIRED")
       \/ ~req[c].late /\ PutStatus(c, "comply", "ROUTED")
    /\ UNCHANGED <<instr, events, receipts, sim, hook, env, fixed, settledBy>>

\* evaluateSandboxCompliance is a function of the command; a parked review has
\* no further step.
Comply(c) ==
    LET outcome == compliance[PayloadOf(c)]
    IN  /\ At(c, "comply")
        /\ \/ outcome = "deny" /\ PutStatus(c, "done", "BLOCKED")
           \/ outcome = "review" /\ PutStatus(c, "done", "COMPLIANCE_REVIEW")
           \/ outcome = "pass" /\ PutStatus(c, "recheck", "COMPLIANCE_PASSED")
        /\ UNCHANGED <<instr, events, receipts, sim, hook, env, fixed, settledBy>>

\* Mutant: the scope of the mandate is not compared with the route.
RecheckExpiryOnly(c) == mandate # "expired"

\* requireUsableMandate on the mandate read at the start: the status cannot
\* have changed in it, its expiry is compared with the present.
RecheckPasses(c) == mandate # "expired" /\ PayloadOf(c) \notin Outside

Recheck(c) ==
    /\ At(c, "recheck")
    /\ \/ ~RecheckPasses(c) /\ PutStatus(c, "done", "BLOCKED")
       \/ RecheckPasses(c) /\ Goto(c, "limit") /\ UNCHANGED rows
    /\ UNCHANGED <<instr, events, receipts, sim, hook, env, fixed, settledBy>>

\* sumReservedDaily without the row itself; every execution spends one.
SpentBesides(x) ==
    Cardinality({y \in Creators \ {x} : /\ rows[y] # None
                                        /\ rows[y].reserved
                                        /\ rows[y].status \in ReserveStatuses})

\* reserveDailyLimit runs under the agent's lock but writes nothing there: the
\* reservation is the next step.  The other rules of the policy, which an
\* operator may edit at any time, may refuse as well.
CheckLimit(c) ==
    /\ At(c, "limit")
    /\ \/ SpentBesides(req[c].on) + 1 <= DailyLimit /\ Goto(c, "reserve")
       \/ Goto(c, "block")
    /\ UNCHANGED <<store, sim, hook, env, fixed, settledBy>>

Block(c) ==
    /\ At(c, "block")
    /\ PutStatus(c, "done", "BLOCKED")
    /\ UNCHANGED <<instr, events, receipts, sim, hook, env, fixed, settledBy>>

\* Mutant: the request carries on with the row of before the reservation.
ReserveForgotten(c) ==
    /\ At(c, "reserve")
    /\ rows' = [rows EXCEPT ![req[c].on] = [req[c].copy EXCEPT !.reserved = TRUE]]
    /\ Goto(c, "dispatch")
    /\ UNCHANGED <<instr, events, receipts, sim, hook, env, fixed, settledBy>>

Reserve(c) ==
    /\ At(c, "reserve")
    /\ Put(c, "dispatch", [req[c].copy EXCEPT !.reserved = TRUE])
    /\ UNCHANGED <<instr, events, receipts, sim, hook, env, fixed, settledBy>>

-----------------------------------------------------------------------------
(* Dispatch to a partner                                                   *)

\* PartnerInstructionService.dispatch tries the eligible partners in turn:
\* one accepts, or there is none, or each is unavailable or rejects.
Dispatch(c) ==
    LET sc == scenario[PayloadOf(c)]
    IN  /\ At(c, "dispatch")
        /\ \/ \E failDispatch \in BOOLEAN :
                /\ InitialStatus(sc, failDispatch) = "failed"
                /\ Goto(c, "failed")
                /\ UNCHANGED sim
           \/ /\ InitialStatus(sc, FALSE) = "accepted"
              /\ Goto(c, "instruct")
              /\ sim' = [sim EXCEPT ![c] = InitialSimulation(sc)]
        /\ UNCHANGED <<store, hook, env, fixed, settledBy>>

\* The partner has accepted; the instruction is stored under its reference.
SaveInstruction(c) ==
    /\ At(c, "instruct")
    /\ Goto(c, "dispatched")
    /\ instr' = [instr EXCEPT ![c] = "accepted"]
    /\ UNCHANGED <<rows, events, receipts, sim, hook, env, fixed, settledBy>>

MarkDispatched(c) ==
    /\ At(c, "dispatched")
    /\ Put(c, "poll", [req[c].copy EXCEPT !.status = "DISPATCHED", !.instr = c])
    /\ UNCHANGED <<instr, events, receipts, sim, hook, env, fixed, settledBy>>

\* A write that fails inside the try block is taken for a failed dispatch.
DispatchWriteFails(c) ==
    /\ faults < MaxFaults
    /\ At(c, "instruct") \/ At(c, "dispatched")
    /\ Goto(c, "failed")
    /\ faults' = faults + 1
    /\ UNCHANGED <<store, sim, hook, mandate, quote, crashes, fixed, settledBy>>

Fail(r) ==
    /\ At(r, "failed")
    /\ PutStatus(r, "done", "FAILED")
    /\ UNCHANGED <<instr, events, receipts, sim, hook, env, fixed, settledBy>>

-----------------------------------------------------------------------------
(* pollPartner: at most MaxPolls polls, each followed by what it reported  *)

\* Mutant: the loop allows one poll more than the budget.
PollOneMore(r) ==
    LET i == req[r].copy.instr
        got == ReportedStatus(PollSimulation(sim[i]))
    IN  /\ At(r, "poll")
        /\ req[r].polls <= MaxPolls
        /\ req' = [req EXCEPT ![r].at = "record", ![r].got = got]
        /\ sim' = [sim EXCEPT ![i] = PollSimulation(@)]
        /\ settledBy' = IF got = "settled" THEN settledBy \cup {req[r].on} ELSE settledBy
        /\ UNCHANGED <<store, hook, env, fixed>>

Poll(r) ==
    LET i == req[r].copy.instr
        got == ReportedStatus(PollSimulation(sim[i]))
    IN  /\ At(r, "poll")
        /\ req[r].polls < MaxPolls
        /\ req' = [req EXCEPT ![r].at = "record", ![r].got = got]
        /\ sim' = [sim EXCEPT ![i] = PollSimulation(@)]
        /\ settledBy' = IF got = "settled" THEN settledBy \cup {req[r].on} ELSE settledBy
        /\ UNCHANGED <<store, hook, env, fixed>>

\* Mutant: a partial fill is taken for a settlement.
AfterReportPartial(r) ==
    CASE req[r].got \in {"settled", "partial"} -> "event"
      [] req[r].got = "failed" -> "failed"
      [] req[r].got = "settling" /\ req[r].copy.status # "SETTLING" -> "settling"
      [] OTHER -> "poll"

\* Where the reported status sends the request next.
AfterReport(r) ==
    CASE req[r].got = "settled" -> "event"
      [] req[r].got = "failed" -> "failed"
      [] req[r].got = "partial" -> "settling"
      [] req[r].got = "settling" /\ req[r].copy.status # "SETTLING" -> "settling"
      [] OTHER -> "poll"

\* Mutant: the loop polls until the partner is done.
RecordForever(r) ==
    /\ At(r, "record")
    /\ req' = [req EXCEPT ![r].at = AfterReport(r), ![r].got = "accepted"]
    /\ instr' = [instr EXCEPT ![req[r].copy.instr] = req[r].got]
    /\ UNCHANGED <<rows, events, receipts, sim, hook, env, fixed, settledBy>>

RecordReport(r) ==
    /\ At(r, "record")
    /\ req' = [req EXCEPT ![r].at = AfterReport(r), ![r].got = "accepted",
                        ![r].polls = @ + 1]
    /\ instr' = [instr EXCEPT ![req[r].copy.instr] = req[r].got]
    /\ UNCHANGED <<rows, events, receipts, sim, hook, env, fixed, settledBy>>

MarkSettling(r) ==
    /\ At(r, "settling")
    /\ PutStatus(r, "poll", "SETTLING")
    /\ UNCHANGED <<instr, events, receipts, sim, hook, env, fixed, settledBy>>

\* The poll budget is spent: a last write of the copy, as SETTLING.
PollsSpent(r) ==
    /\ At(r, "poll")
    /\ req[r].polls = MaxPolls
    /\ PutStatus(r, "done", "SETTLING")
    /\ UNCHANGED <<instr, events, receipts, sim, hook, env, fixed, settledBy>>

-----------------------------------------------------------------------------
(* settle: the monetization event, the SETTLED row, the receipt            *)

RecordEvent(r) ==
    /\ At(r, "event")
    /\ Goto(r, "settled")
    /\ events' = [events EXCEPT ![req[r].on] = IF @ < 2 THEN @ + 1 ELSE @]
    /\ UNCHANGED <<rows, instr, receipts, sim, hook, env, fixed, settledBy>>

\* Mutant: only the request that created the row goes on to the receipt.
MarkSettledByCreator(r) ==
    /\ At(r, "settled")
    /\ PutStatus(r, IF r = req[r].on THEN "remandate" ELSE "done", "SETTLED")
    /\ UNCHANGED <<instr, events, receipts, sim, hook, env, fixed, settledBy>>

MarkSettled(r) ==
    /\ At(r, "settled")
    /\ PutStatus(r, "remandate", "SETTLED")
    /\ UNCHANGED <<instr, events, receipts, sim, hook, env, fixed, settledBy>>

\* requireMandate again, before the receipt: it throws on a mandate that has
\* been revoked or has expired since.
ReadMandateAgain(r) ==
    /\ At(r, "remandate")
    /\ Goto(r, IF mandate = "verified" THEN "issue" ELSE "done")
    /\ UNCHANGED <<store, sim, hook, env, fixed, settledBy>>

\* receipts.issue returns the receipt an earlier request has stored.
FindReceipt(r) ==
    /\ At(r, "issue")
    /\ Goto(r, IF receipts[req[r].on] THEN "link" ELSE "sign")
    /\ UNCHANGED <<store, sim, hook, env, fixed, settledBy>>

\* assertReceiptHasNoRawPii throws when the canonical payload of the receipt
\* contains the caller's beneficiary reference; the row is SETTLED by then.
RefuseReceipt(r) ==
    /\ At(r, "sign")
    /\ PayloadOf(req[r].on) \in Leaking
    /\ Goto(r, "done")
    /\ UNCHANGED <<store, sim, hook, env, fixed, settledBy>>

\* The database refuses a second receipt for an execution, the in-memory store
\* replaces the first.
SaveReceipt(r) ==
    /\ At(r, "sign")
    /\ \/ receipts[req[r].on] /\ Goto(r, "done")
       \/ Goto(r, "link")
    /\ receipts' = [receipts EXCEPT ![req[r].on] = TRUE]
    /\ UNCHANGED <<rows, instr, events, sim, hook, env, fixed, settledBy>>

LinkReceipt(r) ==
    /\ At(r, "link")
    /\ Put(r, "done", [req[r].copy EXCEPT !.receipt = TRUE])
    /\ UNCHANGED <<instr, events, receipts, sim, hook, env, fixed, settledBy>>

-----------------------------------------------------------------------------
(* GET /executions/:id, webhooks, the environment                          *)

Get(g) ==
    /\ At(g, "get")
    /\ \E x \in Creators : rows[x] # None /\ Adopt(g, AdvanceTo(rows[x]), x)
    /\ UNCHANGED <<store, sim, hook, env, fixed, settledBy>>

\* PartnerInstructionService.webhook: the partner's memory, then the store.
WebhookArrives(h) ==
    /\ hook[h].at = "webhook"
    /\ \E i \in Creators, status \in WebhookStatus :
          /\ instr[i] # None
          /\ sim' = [sim EXCEPT ![i] = WebhookSimulation(@, status)]
          /\ hook' = [hook EXCEPT ![h] =
                        [at |-> "record", on |-> i,
                         got |-> ReportedStatus(WebhookSimulation(sim[i], status))]]
    /\ UNCHANGED <<store, req, env, fixed, settledBy>>

RecordWebhook(h) ==
    /\ hook[h].at = "record"
    /\ instr' = [instr EXCEPT ![hook[h].on] = hook[h].got]
    /\ hook' = [hook EXCEPT ![h] = DeliveryAt("done")]
    /\ UNCHANGED <<rows, events, receipts, sim, req, env, fixed, settledBy>>

\* Revoked by its principal, or past its expiresAt, or one after the other.
MandateEnds ==
    /\ mandate # "expired"
    /\ mandate' \in {"revoked", "expired"} \ {mandate}
    /\ UNCHANGED <<store, sim, locals, quote, faults, crashes, fixed, settledBy>>

QuoteExpires ==
    /\ quote = "live"
    /\ quote' = "expired"
    /\ UNCHANGED <<store, sim, locals, mandate, faults, crashes, fixed, settledBy>>

\* The stores survive; requests in flight and the partner simulations do not.
\* Creates, GETs and webhooks may still come after the restart.
Crash ==
    /\ crashes < MaxCrashes
    /\ crashes' = crashes + 1
    /\ req' = [r \in Requests |-> IF At(r, "get") \/ At(r, "lookup")
                                   THEN req[r] ELSE RequestAt("done")]
    /\ hook' = [h \in Hooks |-> IF hook[h].at = "record" THEN DeliveryAt("done") ELSE hook[h]]
    /\ sim' = [c \in Creators |-> NoSimulation]
    /\ UNCHANGED <<store, mandate, quote, faults, fixed, settledBy>>

\* Every request has answered.
Finished ==
    /\ \A c \in Creators : At(c, "done")
    /\ UNCHANGED vars

CreateStep(c) ==
    \/ Lookup(c) \/ ReadMandate(c) \/ ReadRoute(c) \/ Save(c) \/ Reread(c)
    \/ RouteOrExpire(c) \/ Comply(c) \/ Recheck(c) \/ CheckLimit(c) \/ Block(c)
    \/ Reserve(c) \/ Dispatch(c) \/ SaveInstruction(c) \/ MarkDispatched(c)

SettleStep(r) ==
    \/ Fail(r) \/ Poll(r) \/ RecordReport(r) \/ MarkSettling(r) \/ PollsSpent(r)
    \/ RecordEvent(r) \/ MarkSettled(r) \/ ReadMandateAgain(r) \/ FindReceipt(r)
    \/ RefuseReceipt(r) \/ SaveReceipt(r) \/ LinkReceipt(r)

Next ==
    \/ \E c \in Creators : CreateStep(c) \/ DispatchWriteFails(c)
    \/ \E r \in Requests : SettleStep(r)
    \/ \E g \in Readers : Get(g)
    \/ \E h \in Hooks : WebhookArrives(h) \/ RecordWebhook(h)
    \/ MandateEnds \/ QuoteExpires \/ Crash \/ Finished

Spec == Init /\ [][Next]_vars

\* Every await of a running request returns.
Fairness ==
    /\ \A c \in Creators : WF_vars(CreateStep(c))
    /\ \A r \in Requests : WF_vars(SettleStep(r))

FairSpec == Spec /\ Fairness

-----------------------------------------------------------------------------
(* Properties                                                              *)

\* Nothing reaches a partner, neither its memory nor the instruction store,
\* that compliance has not passed or that the mandate's scope does not cover,
\* whichever request of a shared row dispatched it.
ScreenedBeforeDispatch ==
    \A i \in Creators :
        sim[i] # NoSimulation \/ instr[i] # None
            => compliance[PayloadOf(i)] = "pass" /\ PayloadOf(i) \notin Outside

\* A row that says it was dispatched holds a daily-limit reservation and names
\* an instruction that is stored, however stale the copy it was written from.
SentIsBacked ==
    \A x \in Creators :
        rows[x] # None /\ rows[x].status \in Sent
            => /\ rows[x].reserved
               /\ rows[x].instr # None
               /\ instr[rows[x].instr] # None

\* A row is SETTLED, or has a receipt, only after its partner told a poll that
\* it settled and the settlement was attributed.
SettledIsConfirmed ==
    \A x \in Creators :
        /\ (rows[x] # None /\ rows[x].status = "SETTLED") \/ receipts[x]
               => x \in settledBy /\ events[x] > 0
        /\ rows[x] # None /\ rows[x].receipt => receipts[x]

\* An idempotency key names one row, and a request with that key works on no
\* other row and only with that row's fingerprint.
KeyNamesOneRow ==
    /\ \A c \in Creators : Cardinality(Holders(c)) <= 1
    /\ \A c \in Creators :
          LET x == req[c].on
          IN  x \notin {c, None}
                => KeyOf(x) = KeyOf(c) /\ PayloadOf(x) = PayloadOf(c) /\ rows[x] # None

\* POST /executions answers: the pipeline ends and the settlement poll is
\* bounded, even for a partner that never finishes.
CreateAnswers == \A c \in Creators : <>At(c, "done")

\* A settled row nobody is working on has a receipt, whoever settled it, with
\* three exceptions that the code leaves: the mandate has ended (settle reads it
\* once more before the receipt), the process has crashed, or the payload's
\* beneficiary reference occurs in the receipt's own text.
SettledHasReceipt ==
    \A x \in Creators :
        /\ rows[x] # None
        /\ rows[x].status = "SETTLED"
        /\ \A r \in Requests : req[r].on # x
        /\ mandate = "verified"
        /\ crashes = 0
        /\ PayloadOf(x) \notin Leaking
        => receipts[x]

\* docs/API.md: "limit failure becomes BLOCKED".  The rows that count against
\* the daily limit never exceed it.
DailyLimitRespected ==
    Cardinality({x \in Creators : /\ rows[x] # None
                                  /\ rows[x].reserved
                                  /\ rows[x].status \in ReserveStatuses}) <= DailyLimit

\* docs/API.md: "same payload replays".  Requests with one idempotency key
\* dispatch at most one instruction.
OneInstructionPerKey ==
    \A i, j \in Creators :
        /\ instr[i] # None
        /\ instr[j] # None
        /\ KeyOf(i) = KeyOf(j)
        /\ KeyOf(i) # NoKey
        => i = j

-----------------------------------------------------------------------------
(* Refinement                                                              *)

\* The status of each execution, and what each request knows of the row it
\* works on.  A create that has still to save its row works on none.
Statuses == [x \in Creators |-> IF rows[x] = None THEN None ELSE rows[x].status]

Rowless == {"get", "lookup", "mandate", "route", "save", "reread", "done"}

ViewOf(q) == IF q.at \in Rowless THEN {} ELSE {[on |-> q.on, status |-> q.copy.status]}

Views == [r \in Requests |-> ViewOf(req[r])]

\* The documented life cycle of an execution.  Rows that no two requests share
\* follow it.
Lifecycle == INSTANCE ExecutionLifecycle WITH
    Executions <- Creators,
    status <- Statuses,
    confirmed <- settledBy

FollowsLifecycle == Lifecycle!Spec

\* What becomes of it when requests share a row: every write, by whichever
\* request and however late, is the documented successor of the status that
\* request last read or wrote, and no request takes up a row that is being
\* screened or is over.
Shared == INSTANCE SharedLifecycle WITH
    Executions <- Creators,
    Workers <- Requests,
    status <- Statuses,
    confirmed <- settledBy,
    view <- Views

FollowsSharedLifecycle == Shared!Spec

\* No two requests work on one row at once.
NoneShared ==
    \A q, r \in Requests :
        q # r /\ req[q].at \notin Rowless /\ req[r].at \notin Rowless => req[q].on # req[r].on

\* The awaits between a stored row and its dispatch.
Pipeline == {"routed", "comply", "recheck", "limit", "block", "reserve", "dispatch",
             "instruct", "dispatched"}

\* No two creates take one row through the pipeline at once.
NoneScreenedTwice ==
    \A c, d \in Creators :
        c # d /\ req[c].at \in Pipeline /\ req[d].at \in Pipeline => req[c].on # req[d].on

\* At most one create is between the daily limit and its reservation.
OneReserving == \A c, d \in Creators : At(c, "reserve") /\ At(d, "reserve") => c = d
=============================================================================
