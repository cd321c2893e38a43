---------------------------- MODULE AgentPayments ----------------------------
(***************************************************************************)
(* Agent payment intents and their daily spending limit:                   *)
(* packages/core/src/engine/agent-payment-service.ts over the agent        *)
(* payments store.                                                         *)
(*                                                                         *)
(* select, authorize, simulate and the execution gate run under the        *)
(* agent's exclusive lock; quoteIntent and the expiry inside getIntent do  *)
(* not, and every write replaces the whole row with the copy its request   *)
(* read.  A request is a process whose steps end at the awaits on the      *)
(* store and on the router; the getIntent an operation begins with is a    *)
(* get request of its own when it has something to expire.                 *)
(*                                                                         *)
(* One agent whose intents all cost one unit.  Refusals that depend on     *)
(* data left out (the other policy rules, the quote's expiry) are always   *)
(* possible; the daily limit is exact.                                     *)
(***************************************************************************)
EXTENDS Naturals, FiniteSets

CONSTANTS
    Intents,    \* payment intents
    Quoters,    \* quote requests
    Lockers,    \* select, authorize, simulate and gate requests
    Getters,    \* get requests, the first getIntent of the others included
    Limit,      \* dailySpendingLimitMinorUnits, in intents
    LastDay,    \* bound: the days are 0 .. LastDay
    MaxCrashes, \* bound: process crashes
    None

ASSUME AgentAssumption ==
    /\ IsFiniteSet(Intents)
    /\ Limit \in Nat
    /\ LastDay \in Nat
    /\ MaxCrashes \in Nat
    /\ None \notin Nat
    /\ None \notin Intents
    /\ None \notin Lockers
    /\ Lockers \cap (Quoters \cup Getters) = {}

Requests == Quoters \cup Lockers \cup Getters

Day == 0 .. LastDay

Status == {"CREATED", "QUOTING", "QUOTED", "ROUTED", "POLICY_APPROVED",
           "SIMULATION_PENDING", "SIMULATION_COMPLETED", "FAILED", "EXPIRED"}

\* DAILY_SPENDING_STATUSES
Spending == {"ROUTED", "POLICY_APPROVED", "SIMULATION_PENDING", "SIMULATION_COMPLETED"}

\* What an authorization leads to.
Authorized == Spending \ {"ROUTED"}

\* createdAt and authorizedAt matter by their UTC day.
Intent == [status : Status, created : Day, authorized : Day \cup {None}]

ASSUME NoneAssumption == None \notin Intent

NewIntent(d) == [status |-> "CREATED", created |-> d, authorized |-> None]

Kinds == {"select", "authorize", "simulate", "gate"}

Location == {"idle", "expire", "price", "quoted", "check", "write", "complete"}

\* A request's local state: the await it is suspended in, its operation, the
\* intent it works on and its copy of it.
Request == [at : Location, kind : Kinds, on : Intents \cup {None}, copy : Intent]

Idle == [at |-> "idle", kind |-> "gate", on |-> None, copy |-> NewIntent(0)]

VARIABLES
    intents,    \* intents[i]: the intent store
    req,        \* req[r]: a request's local state
    lock,       \* the locker that holds the agent's lock
    day,        \* the clock's UTC day
    lapsed,     \* intents whose expiresAt has passed
    completed,  \* history: <<i, d>> for i simulated on an authorization of day d
    crashes

vars == <<intents, req, lock, day, lapsed, completed, crashes>>

TypeOK ==
    /\ intents \in [Intents -> Intent \cup {None}]
    /\ req \in [Requests -> Request]
    /\ lock \in Lockers \cup {None}
    /\ day \in Day
    /\ lapsed \subseteq Intents
    /\ completed \subseteq Intents \X Day
    /\ crashes \in 0 .. MaxCrashes

Init ==
    /\ intents = [i \in Intents |-> None]
    /\ req = [r \in Requests |-> Idle]
    /\ lock = None
    /\ day = 0
    /\ lapsed = {}
    /\ completed = {}
    /\ crashes = 0

-----------------------------------------------------------------------------
(* Helpers                                                                 *)

At(r, location) == req[r].at = location

Goto(r, to) == req' = [req EXCEPT ![r].at = to]

Begin(r, to, kind, i) ==
    req' = [req EXCEPT ![r] = [at |-> to, kind |-> kind, on |-> i, copy |-> intents[i]]]

Answer(r) == req' = [req EXCEPT ![r] = Idle]

\* withExclusiveAgentAccess
Lock(l) == lock = None /\ lock' = l

\* A locked operation ends, whatever its outcome: the finally block.
Leave(l) == Answer(l) /\ lock' = None

\* updateIntent: the whole row is replaced.
Store(i, row) == intents' = [intents EXCEPT ![i] = row]

Restatus(row, status) == [row EXCEPT !.status = status]

\* Mutant: the intent counts on the day it was created.
SpendDayCreated(row) == row.created

\* sumDailySpending: authorizedAt ?? createdAt.
SpendDay(row) == IF row.authorized # None THEN row.authorized ELSE row.created

\* What counts against the limit on day d, without intent x.
SpentBesides(x, d) ==
    Cardinality({i \in Intents \ {x} : /\ intents[i] # None
                                       /\ intents[i].status \in Spending
                                       /\ SpendDay(intents[i]) = d})

\* The daily limit rule of evaluatePaymentPolicy.
WithinLimit(x) == SpentBesides(x, day) + 1 <= Limit

\* expireIfNeeded
MustExpire(i, row) ==
    i \in lapsed /\ row.status \notin {"EXPIRED", "SIMULATION_COMPLETED", "FAILED"}

-----------------------------------------------------------------------------
(* createIntent.  Its policy check reserves nothing and may be stale when  *)
(* the row is stored, so it is no guard of the row.                        *)

Create(i) ==
    /\ intents[i] = None
    /\ Store(i, NewIntent(day))
    /\ UNCHANGED <<req, lock, day, lapsed, completed, crashes>>

-----------------------------------------------------------------------------
(* getIntent.  One that finds nothing to expire changes nothing.           *)

Get(g) ==
    /\ At(g, "idle")
    /\ \E i \in Intents :
          /\ intents[i] # None
          /\ MustExpire(i, intents[i])
          /\ Begin(g, "expire", "gate", i)
    /\ UNCHANGED <<intents, lock, day, lapsed, completed, crashes>>

\* The copy is written back as EXPIRED.
Expire(g) ==
    /\ At(g, "expire")
    /\ Store(req[g].on, Restatus(req[g].copy, "EXPIRED"))
    /\ Answer(g)
    /\ UNCHANGED <<lock, day, lapsed, completed, crashes>>

-----------------------------------------------------------------------------
(* quoteIntent                                                             *)

QuoteRead(q) ==
    /\ At(q, "idle")
    /\ \E i \in Intents :
          /\ intents[i] # None
          /\ ~MustExpire(i, intents[i])
          /\ intents[i].status \in {"CREATED", "QUOTED", "QUOTING"}
          /\ Begin(q, "price", "gate", i)
    /\ UNCHANGED <<intents, lock, day, lapsed, completed, crashes>>

\* The policy refuses, or the intent is marked QUOTING and the router asked.
QuoteStart(q) ==
    /\ At(q, "price")
    /\ \/ Answer(q) /\ UNCHANGED intents
       \/ /\ WithinLimit(req[q].on)
          /\ Goto(q, "quoted")
          /\ Store(req[q].on, Restatus(req[q].copy, "QUOTING"))
    /\ UNCHANGED <<lock, day, lapsed, completed, crashes>>

\* The router has answered.  A policy denial leaves the intent QUOTING.
QuoteFinish(q) ==
    /\ At(q, "quoted")
    /\ Answer(q)
    /\ \/ \E status \in {"QUOTED", "FAILED"} : Store(req[q].on, Restatus(req[q].copy, status))
       \/ UNCHANGED intents
    /\ UNCHANGED <<lock, day, lapsed, completed, crashes>>

-----------------------------------------------------------------------------
(* select, authorize, simulate, gate                                       *)

\* Mutant: what is routed may be simulated.
AllowedEarly(kind) ==
    CASE kind = "select" -> {"QUOTED"}
      [] kind = "authorize" -> {"ROUTED"}
      [] kind = "simulate" -> {"ROUTED", "POLICY_APPROVED"}
      [] kind = "gate" -> Spending

\* The statuses an operation goes on from; any other ends it.
Allowed(kind) ==
    CASE kind = "select" -> {"QUOTED"}
      [] kind = "authorize" -> {"ROUTED"}
      [] kind = "simulate" -> {"POLICY_APPROVED"}
      [] kind = "gate" -> Spending

\* The lock is taken and the intent read under it.  Nothing the operation read
\* before it queued for the lock is used, and one that may not go on, as
\* authorize on an intent that is approved already, ends here with no effect.
Enter(l) ==
    /\ At(l, "idle")
    /\ Lock(l)
    /\ \E i \in Intents, kind \in Kinds :
          /\ intents[i] # None
          /\ \/ MustExpire(i, intents[i]) /\ Begin(l, "expire", kind, i)
             \/ /\ ~MustExpire(i, intents[i])
                /\ intents[i].status \in Allowed(kind)
                /\ Begin(l, "check", kind, i)
    /\ UNCHANGED <<intents, day, lapsed, completed, crashes>>

ExpireLocked(l) ==
    /\ At(l, "expire")
    /\ Store(req[l].on, Restatus(req[l].copy, "EXPIRED"))
    /\ Leave(l)
    /\ UNCHANGED <<day, lapsed, completed, crashes>>

\* assertQuoteFresh and assertPolicy.  The gate writes nothing.
Check(l) ==
    /\ At(l, "check")
    /\ \/ Leave(l)
       \/ /\ req[l].kind # "gate"
          /\ WithinLimit(req[l].on)
          /\ Goto(l, "write")
          /\ UNCHANGED lock
    /\ UNCHANGED <<intents, day, lapsed, completed, crashes>>

Select(l) ==
    /\ At(l, "write") /\ req[l].kind = "select"
    /\ Store(req[l].on, Restatus(req[l].copy, "ROUTED"))
    /\ Leave(l)
    /\ UNCHANGED <<day, lapsed, completed, crashes>>

Authorize(l) ==
    /\ At(l, "write") /\ req[l].kind = "authorize"
    /\ Store(req[l].on, [req[l].copy EXCEPT !.status = "POLICY_APPROVED", !.authorized = day])
    /\ Leave(l)
    /\ UNCHANGED <<day, lapsed, completed, crashes>>

Simulate(l) ==
    /\ At(l, "write") /\ req[l].kind = "simulate"
    /\ Store(req[l].on, Restatus(req[l].copy, "SIMULATION_PENDING"))
    /\ Goto(l, "complete")
    /\ UNCHANGED <<lock, day, lapsed, completed, crashes>>

Complete(l) ==
    /\ At(l, "complete")
    /\ Store(req[l].on, Restatus(req[l].copy, "SIMULATION_COMPLETED"))
    /\ completed' = completed \cup {<<req[l].on, req[l].copy.authorized>>}
    /\ Leave(l)
    /\ UNCHANGED <<day, lapsed, crashes>>

-----------------------------------------------------------------------------
(* The environment                                                         *)

Lapse(i) ==
    /\ intents[i] # None
    /\ i \notin lapsed
    /\ lapsed' = lapsed \cup {i}
    /\ UNCHANGED <<intents, req, lock, day, completed, crashes>>

Midnight ==
    /\ day < LastDay
    /\ day' = day + 1
    /\ UNCHANGED <<intents, req, lock, lapsed, completed, crashes>>

\* Requests in flight and the lock are gone, the store is not.
Crash ==
    /\ crashes < MaxCrashes
    /\ crashes' = crashes + 1
    /\ req' = [r \in Requests |-> Idle]
    /\ lock' = None
    /\ UNCHANGED <<intents, day, lapsed, completed>>

Next ==
    \/ \E i \in Intents : Create(i) \/ Lapse(i)
    \/ \E g \in Getters : Get(g) \/ Expire(g)
    \/ \E q \in Quoters : QuoteRead(q) \/ QuoteStart(q) \/ QuoteFinish(q)
    \/ \E l \in Lockers : \/ Enter(l) \/ ExpireLocked(l) \/ Check(l)
                          \/ Select(l) \/ Authorize(l) \/ Simulate(l) \/ Complete(l)
    \/ Midnight \/ Crash

Spec == Init /\ [][Next]_vars
-----------------------------------------------------------------------------
(* Properties                                                              *)

AuthorizedOn(d) ==
    {i \in Intents : /\ intents[i] # None
                     /\ intents[i].status \in Authorized
                     /\ intents[i].authorized = d}

AuthorizedWithinLimit == \A d \in Day : Cardinality(AuthorizedOn(d)) <= Limit

TodayWithinLimit ==
    Cardinality({i \in Intents : /\ intents[i] # None
                                 /\ intents[i].status \in Spending
                                 /\ SpendDay(intents[i]) = day}) <= Limit

\* The daily limit holds for what was authorized on any day and has neither
\* failed nor expired, and for all that counts today, routes selected but not
\* yet authorized included: whatever a request without the lock wrote meanwhile
\* and whenever midnight passed.
WithinLimits == AuthorizedWithinLimit /\ TodayWithinLimit

\* docs/PRODUCTION_AUDIT.md: "SIMULATION_COMPLETED keeps the amount as permanent
\* spend": what was ever simulated on a day's authorizations is within the
\* limit of that day.
PermanentSpendWithinLimit ==
    \A d \in Day : Cardinality({i \in Intents : <<i, d>> \in completed}) <= Limit

Simulated(i) == intents[i] # None /\ intents[i].status = "SIMULATION_COMPLETED"

\* No request without the lock holds a copy of an intent that has been simulated
\* meanwhile.
NoneOvertaken == \A r \in Quoters \cup Getters : ~At(r, "idle") => ~Simulated(req[r].on)
=============================================================================
