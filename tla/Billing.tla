------------------------------- MODULE Billing -------------------------------
(***************************************************************************)
(* Billing runs over the decisions of one period                           *)
(* (packages/core/src/engine/billing-engine.ts) and the ledger they write: *)
(* monetization events, which this model calls decisions, and invoices.    *)
(*                                                                         *)
(* An invoice is known by its unique key, the group: organization, period  *)
(* and currency.  A run lists the period's decisions once and then, group  *)
(* by group, looks for the invoice and issues one; runs overlap.  issueIn- *)
(* voice is one transaction: the row with its lines, and the mark on every *)
(* decision it bills.  Amounts and the text of lines are left out.         *)
(***************************************************************************)
EXTENDS Naturals, FiniteSets

CONSTANTS
    Decisions,  \* billable decisions of the period
    Groups,     \* organization and currency
    GroupOf,    \* GroupOf[d]: the group of a decision
    Settled,    \* decisions of PRODUCTION origin with provider_confirmed finality
    Runs,       \* billing runs
    References, \* payment references
    None

ASSUME BillingAssumption ==
    /\ IsFiniteSet(Decisions)
    /\ GroupOf \in [Decisions -> Groups]
    /\ Settled \subseteq Decisions
    /\ None \notin Groups

Mode == {"RECORD_ONLY", "LIVE"}

Decision == [recognition : {"unrealized", "invoiced", "collected"},
             invoice : Groups \cup {None},
             reference : References \cup {None},
             realized : BOOLEAN]

NewDecision == [recognition |-> "unrealized", invoice |-> None,
                reference |-> None, realized |-> FALSE]

Invoice == [collection : {"uncollected", "collected"},
            mode : Mode,
            reference : References \cup {None},
            lines : SUBSET Decisions]

ASSUME RowAssumption == None \notin References /\ None \notin Decision /\ None \notin Invoice

\* A run's local state: the await it is in, the group it is at, the groups it
\* has still to do, the billable decisions it listed, and the groups for which
\* it found a subscription or usage to charge.
Run == [at : {"idle", "find", "issue"}, on : Groups \cup {None}, todo : SUBSET Groups,
        listed : SUBSET Decisions, subscribed : SUBSET Groups]

Ended == [at |-> "idle", on |-> None, todo |-> {}, listed |-> {}, subscribed |-> {}]

VARIABLES
    decisions,  \* decisions[d]: its row, or None before it is recorded
    invoices,   \* invoices[g]: the invoice of the group, or None
    runs,       \* runs[b]: a run's local state
    mode        \* billingCollectionMode of the running process

ledger == <<decisions, invoices>>

BillingTypeOK ==
    /\ decisions \in [Decisions -> Decision \cup {None}]
    /\ invoices \in [Groups -> Invoice \cup {None}]
    /\ runs \in [Runs -> Run]
    /\ mode \in Mode

BillingInit ==
    /\ decisions = [d \in Decisions |-> None]
    /\ invoices = [g \in Groups |-> None]
    /\ runs = [b \in Runs |-> Ended]
    /\ mode \in Mode

-----------------------------------------------------------------------------
(* Helpers                                                                 *)

Of(g) == {d \in Decisions : GroupOf[d] = g}

\* isBillableSnapshot
IsBillable(d) ==
    /\ decisions[d] # None
    /\ decisions[d].recognition = "unrealized"
    /\ decisions[d].invoice = None

Billable == {d \in Decisions : IsBillable(d)}

\* The lines of a draft that reference a decision.
DraftLines(b, g) == runs[b].listed \cap Of(g)

\* A draft without a line is not issued.
HasLines(b, g) == DraftLines(b, g) # {} \/ g \in runs[b].subscribed

NewInvoice(lines) == [collection |-> "uncollected", mode |-> mode,
                      reference |-> None, lines |-> lines]

Invoiced(row, g) == [row EXCEPT !.recognition = "invoiced", !.invoice = g, !.realized = FALSE]

\* A group is done.
Done(b, g) == runs' = [runs EXCEPT ![b].at = "find", ![b].on = None, ![b].todo = @ \ {g}]

-----------------------------------------------------------------------------
(* recordMonetizationEvent of a billable event                             *)

Record(d) ==
    /\ decisions[d] = None
    /\ decisions' = [decisions EXCEPT ![d] = NewDecision]
    /\ UNCHANGED <<invoices, runs, mode>>

-----------------------------------------------------------------------------
(* runMonthlyBilling                                                       *)

\* listEventsInPeriod, then loadPeriodSubscriptions.
ListDecisions(b) ==
    /\ runs[b].at = "idle"
    /\ \E subscribed \in SUBSET Groups :
          runs' = [runs EXCEPT ![b] =
                     [at |-> "find", on |-> None, listed |-> Billable, subscribed |-> subscribed,
                      todo |-> {GroupOf[d] : d \in Billable} \cup subscribed]]
    /\ UNCHANGED <<decisions, invoices, mode>>

\* findInvoiceByPeriod: an invoice that exists is reused as it is.
Find(b, g) ==
    /\ runs[b].at = "find"
    /\ g \in runs[b].todo
    /\ IF invoices[g] = None /\ HasLines(b, g)
       THEN runs' = [runs EXCEPT ![b].at = "issue", ![b].on = g]
       ELSE Done(b, g)
    /\ UNCHANGED <<decisions, invoices, mode>>

\* Mutant: the period's key is not unique.
IssuableAgain(g, lines) == \A d \in lines : IsBillable(d)

\* What the transaction of issueInvoice requires: no invoice has the key, and
\* every billed decision is still billable.
Issuable(g, lines) == invoices[g] = None /\ \A d \in lines : IsBillable(d)

\* issueInvoice.  One that is refused ends the run.
Issue(b) ==
    LET g == runs[b].on
        lines == DraftLines(b, g)
    IN /\ runs[b].at = "issue"
       /\ IF Issuable(g, lines)
          THEN /\ invoices' = [invoices EXCEPT ![g] = NewInvoice(lines)]
               /\ decisions' = [d \in Decisions |->
                                  IF d \in lines THEN Invoiced(decisions[d], g) ELSE decisions[d]]
               /\ Done(b, g)
          ELSE /\ runs' = [runs EXCEPT ![b] = Ended]
               /\ UNCHANGED ledger
       /\ UNCHANGED mode

EndRun(b) ==
    /\ runs[b].at = "find"
    /\ runs[b].todo = {}
    /\ runs' = [runs EXCEPT ![b] = Ended]
    /\ UNCHANGED <<decisions, invoices, mode>>

BillingNext ==
    \/ \E d \in Decisions : Record(d)
    \/ \E b \in Runs : \/ ListDecisions(b) \/ Issue(b) \/ EndRun(b)
                       \/ \E g \in Groups : Find(b, g)

-----------------------------------------------------------------------------
(* Properties                                                              *)

\* A decision is marked as invoiced exactly when it is on the invoice the mark
\* names, and it is on no invoice of another group: nothing is billed twice and
\* nothing is marked without being billed, whatever runs overlap.
BilledOnce ==
    \A d \in Decisions : \A g \in Groups :
        (invoices[g] # None /\ d \in invoices[g].lines)
            <=> (decisions[d] # None /\ decisions[d].recognition # "unrealized"
                                     /\ decisions[d].invoice = g)
=============================================================================
