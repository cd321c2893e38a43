-------------------------- MODULE OperatorControls --------------------------
(***************************************************************************)
(* The operator's controls whose effect is an in-process view of stored    *)
(* rows: the routing kill switch (apps/api/src/routes/ops-routing.ts over  *)
(* ManualOverrideRegistry) and the legal determinations that open a        *)
(* high-risk pricing shape (ops-live-enablement.ts over                    *)
(* PricingShapeRegistry).                                                  *)
(*                                                                         *)
(* A handler changes the store first and the view after one or more awaits *)
(* and nothing orders the handlers, so a request is a process.  One        *)
(* production process; it crashes at any time and loads both views when it *)
(* starts (apps/api/src/app.ts).  The store is PostgreSQL.                 *)
(***************************************************************************)
EXTENDS Naturals, FiniteSets

CONSTANTS
    Targets,    \* kill-switch targets: providers, corridors, regions
    Shapes,     \* high-risk pricing shapes whose flag is on
    Requests,   \* operator requests
    MaxRows,    \* bound: kill-switch rows
    MaxCrashes, \* bound: process crashes
    None

ASSUME OperatorAssumption ==
    /\ MaxRows \in Nat
    /\ MaxCrashes \in Nat
    /\ None \notin Targets \cup Shapes

Location == {"idle", "engage", "engaged", "release", "released",
             "enable", "disable", "list", "hydrate", "audit"}

VARIABLES
    rows,       \* kill-switch rows ever created; row n is the n-th
    active,     \* active[t]: the row of t with releasedAt null, 0 for none
    engaged,    \* ManualOverrideRegistry.active: targets that are shut off
    enabled,    \* shapes whose LiveEnablement row is enabled
    open,       \* PricingShapeRegistry.records: the shapes it has enabled rows of
    req,        \* req[r]: a request's local state
    up,         \* the process is running
    crashes,
    asserted,   \* history: targets engaged, answered, and not released since
    withdrawn   \* history: shapes disabled and hydrated, and not enabled since

vars == <<rows, active, engaged, enabled, open, req, up, crashes, asserted, withdrawn>>
switches == <<rows, active, engaged, asserted>>
shapes == <<enabled, open, withdrawn>>

\* found: the row the handler read.  copy: the list it will hydrate from.
\* alone: no opposite request on the same target overlapped it.
Request == [at : Location, op : {"engage", "release", "enable", "disable", "list"},
            on : Targets \cup Shapes \cup {None}, found : 0 .. MaxRows,
            copy : SUBSET Shapes, alone : BOOLEAN]

Idle == [at |-> "idle", op |-> "list", on |-> None, found |-> 0,
         copy |-> {}, alone |-> TRUE]

TypeOK ==
    /\ rows \in 0 .. MaxRows
    /\ active \in [Targets -> 0 .. rows]
    /\ engaged \subseteq Targets
    /\ enabled \subseteq Shapes
    /\ open \subseteq Shapes
    /\ req \in [Requests -> Request]
    /\ up \in BOOLEAN
    /\ crashes \in 0 .. MaxCrashes
    /\ asserted \subseteq Targets
    /\ withdrawn \subseteq Shapes

\* A production process with a flag on starts with the determination recorded.
Init ==
    /\ rows = 0
    /\ active = [t \in Targets |-> 0]
    /\ engaged = {}
    /\ enabled = Shapes
    /\ open = Shapes
    /\ req = [r \in Requests |-> Idle]
    /\ up = TRUE
    /\ crashes = 0
    /\ asserted = {}
    /\ withdrawn = {}

-----------------------------------------------------------------------------
(* Helpers                                                                 *)

At(r, location) == up /\ req[r].at = location

Goto(r, to) == req' = [req EXCEPT ![r].at = to]

Answer(r) == req' = [req EXCEPT ![r] = Idle]

\* All that is left to the request is its audit entry.
Audit(r) == req' = [req EXCEPT ![r] = [Idle EXCEPT !.at = "audit"]]

Busy(r) == req[r].at # "idle"

\* Some request is performing operation op on x.
InFlight(op, x) == \E r \in Requests : Busy(r) /\ req[r].op = op /\ req[r].on = x

\* Request r starts, and no opposite request on x that it overlaps is alone.
Start(r, to, op, x, opposite, found) ==
    req' = [p \in Requests |->
        IF p = r
        THEN [Idle EXCEPT !.at = to, !.op = op, !.on = x, !.found = found,
                          !.alone = ~InFlight(opposite, x)]
        ELSE IF Busy(p) /\ req[p].op = opposite /\ req[p].on = x
             THEN [req[p] EXCEPT !.alone = FALSE]
             ELSE req[p]]

-----------------------------------------------------------------------------
(* POST /ops/routing/overrides                                             *)

\* findFirst
Engage(r) ==
    /\ At(r, "idle")
    /\ \E t \in Targets : Start(r, "engage", "engage", t, "release", active[t])
    /\ UNCHANGED <<switches, shapes, up, crashes>>

\* Mutant: a new row takes a number that is not its own.
EngageWriteUncounted(r) ==
    /\ At(r, "engage")
    /\ rows < MaxRows
    /\ active' = [active EXCEPT ![req[r].on] = rows + 1]
    /\ Goto(r, "engaged")
    /\ UNCHANGED <<rows, engaged, asserted, shapes, up, crashes>>

\* The row that was found is updated, released or not, or a row is created.
\* The unique index on active rows refuses a second one.
EngageWrite(r) ==
    LET t == req[r].on
    IN  /\ At(r, "engage")
        /\ \/ /\ req[r].found # 0
              /\ Goto(r, "engaged")
              /\ UNCHANGED <<rows, active>>
           \/ /\ req[r].found = 0 /\ active[t] # 0
              /\ Answer(r)
              /\ UNCHANGED <<rows, active>>
           \/ /\ req[r].found = 0 /\ active[t] = 0
              /\ rows < MaxRows
              /\ rows' = rows + 1
              /\ active' = [active EXCEPT ![t] = rows']
              /\ Goto(r, "engaged")
    /\ UNCHANGED <<engaged, asserted, shapes, up, crashes>>

EngageApply(r) ==
    /\ At(r, "engaged")
    /\ engaged' = engaged \cup {req[r].on}
    /\ asserted' = IF req[r].alone THEN asserted \cup {req[r].on} ELSE asserted
    /\ Audit(r)
    /\ UNCHANGED <<rows, active, shapes, up, crashes>>

(* POST /ops/routing/overrides/release                                     *)

\* findFirst; with no active row the answer is 404.
Release(r) ==
    /\ At(r, "idle")
    /\ \E t \in Targets :
          /\ active[t] # 0
          /\ Start(r, "release", "release", t, "engage", active[t])
          /\ asserted' = asserted \ {t}
    /\ UNCHANGED <<rows, active, engaged, shapes, up, crashes>>

\* The row that was found is released, again if it already is.
ReleaseWrite(r) ==
    /\ At(r, "release")
    /\ active' = [active EXCEPT ![req[r].on] = IF @ = req[r].found THEN 0 ELSE @]
    /\ Goto(r, "released")
    /\ UNCHANGED <<rows, engaged, asserted, shapes, up, crashes>>

ReleaseApply(r) ==
    /\ At(r, "released")
    /\ engaged' = engaged \ {req[r].on}
    /\ Audit(r)
    /\ UNCHANGED <<rows, active, asserted, shapes, up, crashes>>

-----------------------------------------------------------------------------
(* /ops/live-enablement: enable, disable, list                             *)

\* LiveEnablementService.enable; what it found does not matter.
Enable(r) ==
    /\ At(r, "idle")
    /\ \E s \in Shapes : Start(r, "enable", "enable", s, "disable", 0)
    /\ UNCHANGED <<switches, shapes, up, crashes>>

EnableWrite(r) ==
    /\ At(r, "enable")
    /\ enabled' = enabled \cup {req[r].on}
    /\ withdrawn' = withdrawn \ {req[r].on}
    /\ Goto(r, "list")
    /\ UNCHANGED <<switches, open, up, crashes>>

\* LiveEnablementService.disable; the row exists.
Disable(r) ==
    /\ At(r, "idle")
    /\ \E s \in Shapes : Start(r, "disable", "disable", s, "enable", 0)
    /\ UNCHANGED <<switches, shapes, up, crashes>>

DisableWrite(r) ==
    /\ At(r, "disable")
    /\ enabled' = enabled \ {req[r].on}
    /\ Goto(r, "list")
    /\ UNCHANGED <<switches, open, withdrawn, up, crashes>>

\* A GET lists at once.
List(r) ==
    /\ \/ At(r, "list")
       \/ At(r, "idle")
    /\ req' = [req EXCEPT ![r].at = "hydrate", ![r].copy = enabled]
    /\ UNCHANGED <<switches, shapes, up, crashes>>

\* Another handler has still to hydrate a list in which s is enabled.
StillListed(r, s) == \E p \in Requests \ {r} : At(p, "hydrate") /\ s \in req[p].copy

\* The shape that request r withdraws for good with this hydration.
Withdraws(r) ==
    IF req[r].op = "disable" /\ req[r].alone /\ ~StillListed(r, req[r].on)
    THEN {req[r].on}
    ELSE {}

\* Mutant: the registry adds the listed records to those it has.
HydrateAdding(r) ==
    /\ At(r, "hydrate")
    /\ open' = open \cup req[r].copy
    /\ withdrawn' = withdrawn \cup Withdraws(r)
    /\ IF req[r].op = "list" THEN Answer(r) ELSE Audit(r)
    /\ UNCHANGED <<switches, enabled, up, crashes>>

\* PricingShapeRegistry.hydrate replaces the records; a GET then answers.
Hydrate(r) ==
    /\ At(r, "hydrate")
    /\ open' = req[r].copy
    /\ withdrawn' = withdrawn \cup Withdraws(r)
    /\ IF req[r].op = "list" THEN Answer(r) ELSE Audit(r)
    /\ UNCHANGED <<switches, enabled, up, crashes>>

\* auditLogger.record has settled, and the handler answers either way.
Audited(r) ==
    /\ At(r, "audit")
    /\ Answer(r)
    /\ UNCHANGED <<switches, shapes, up, crashes>>

-----------------------------------------------------------------------------
(* The environment                                                         *)

\* A store call rejects and the handler answers with the error.
StoreFails(r) ==
    /\ up
    /\ req[r].at \in {"engage", "release", "enable", "disable", "list"}
    /\ Answer(r)
    /\ UNCHANGED <<switches, shapes, up, crashes>>

\* The commit is reported as a failure: the store has changed, the view not.
CommitUnknown(r) ==
    /\ At(r, "engaged") \/ At(r, "released")
    /\ Answer(r)
    /\ UNCHANGED <<switches, shapes, up, crashes>>

Crash ==
    /\ up
    /\ crashes < MaxCrashes
    /\ crashes' = crashes + 1
    /\ up' = FALSE
    /\ req' = [r \in Requests |-> Idle]
    /\ UNCHANGED <<switches, shapes>>

\* Mutant: only released rows are loaded.
EngagedRowsInverted == {t \in Targets : active[t] = 0}

\* listActive
EngagedRows == {t \in Targets : active[t] # 0}

\* createApp.  A kill-switch table that cannot be read leaves every switch
\* off; with a flagged shape that has no determination, read or not, the
\* process does not start.
Boot ==
    /\ ~up
    /\ enabled = Shapes
    /\ up' = TRUE
    /\ open' = enabled
    /\ \/ engaged' = EngagedRows /\ UNCHANGED asserted
       \/ engaged' = {} /\ asserted' = {}
    /\ UNCHANGED <<rows, active, enabled, withdrawn, req, crashes>>

Next ==
    \/ \E r \in Requests :
          \/ Engage(r) \/ EngageWrite(r) \/ EngageApply(r)
          \/ Release(r) \/ ReleaseWrite(r) \/ ReleaseApply(r)
          \/ Enable(r) \/ EnableWrite(r) \/ Disable(r) \/ DisableWrite(r)
          \/ List(r) \/ Hydrate(r) \/ Audited(r)
          \/ StoreFails(r) \/ CommitUnknown(r)
    \/ Crash \/ Boot

Spec == Init /\ [][Next]_vars
-----------------------------------------------------------------------------
(* Properties                                                              *)

\* manual-override.ts: "an override stays engaged until an operator releases
\* it".  A target whose engagement was answered, with no release under way or
\* since, is shut off in the running process and stays so over a restart that
\* reads the rows, whatever failed and whoever engaged it twice.
EngagedHolds ==
    \A t \in asserted : active[t] # 0 /\ (up => t \in engaged)

\* ops-live-enablement.ts: "must close its shape on the next request".  Once a
\* disable that overlapped no enable has hydrated, its shape is closed, and stays
\* so until someone enables it, although other handlers hydrate lists of before
\* its write and of after.  The code leaves one case: an older list that is still
\* to be hydrated when the disable has hydrated its own opens the shape again.
DisableHolds == \A s \in withdrawn : s \notin enabled /\ (up => s \notin open)
=============================================================================
