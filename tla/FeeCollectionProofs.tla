------------------------ MODULE FeeCollectionProofs ------------------------
(***************************************************************************)
(* Proofs about FeeCollection: the ledger is consistent, and it implements *)
(* RevenueRecognition, for any decisions, groups, overlapping runs and     *)
(* requests, payment references and restarts.                              *)
(***************************************************************************)
EXTENDS FeeCollection, TLAPS

-----------------------------------------------------------------------------
(* The inductive invariant                                                 *)

\* A run that is about to issue knows its group, and lists decisions that exist.
RunsInv ==
    \A b \in Runs : /\ runs[b].at = "issue" => runs[b].on \in Groups
                    /\ \A d \in runs[b].listed : decisions[d] # None

\* A decision's row against the invoice of its group.
DecisionOK(d) ==
    LET row == decisions[d]
        g == GroupOf[d]
    IN decisions[d] # None =>
          /\ row.recognition = "unrealized" => row.invoice = None
          /\ row.recognition # "unrealized" =>
                row.invoice = g /\ invoices[g] # None /\ d \in invoices[g].lines
          /\ row.recognition = "collected" =>
                invoices[g].collection = "collected" /\ row.reference = invoices[g].reference
          /\ row.realized <=> (row.recognition = "collected" /\ d \in Settled)

\* An invoice against its lines and the attempt of its key.
InvoiceOK(g) ==
    LET row == invoices[g]
    IN invoices[g] # None =>
          /\ row.lines \subseteq Of(g)
          /\ \A d \in row.lines : /\ decisions[d] # None
                                  /\ decisions[d].recognition # "unrealized"
                                  /\ row.collection = "collected"
                                        => decisions[d].recognition = "collected"
          /\ row.collection = "collected" =>
                /\ row.reference # None
                /\ attempts[g] # None
                /\ attempts[g].mode = "LIVE"
                /\ attempts[g].reference = row.reference

\* An attempt is made for an invoice, and one that succeeded has paid it.
AttemptOK(g) ==
    attempts[g] # None =>
        /\ invoices[g] # None
        /\ attempts[g].status = "succeeded" => invoices[g].collection = "collected"

\* What a request has at each of its awaits.
RequestOK(r) ==
    LET g == req[r].on
    IN req[r].at # "idle" =>
          /\ g \in Groups
          /\ invoices[g] # None
          /\ req[r].at # "begin" => attempts[g] # None
          /\ req[r].at \in {"confirm", "confirming"} \/ req[r].kind = "wire"
                => req[r].reference # None
          /\ req[r].at = "confirming" => attempts[g].mode = "LIVE"

LedgerInv ==
    /\ \A d \in Decisions : DecisionOK(d)
    /\ \A g \in Groups : InvoiceOK(g)

CollectionInv ==
    /\ \A g \in Groups : AttemptOK(g)
    /\ \A r \in Collectors : RequestOK(r)

IInv ==
    /\ TypeOK
    /\ RunsInv
    /\ LedgerInv
    /\ CollectionInv

-----------------------------------------------------------------------------
(* Consequences                                                            *)

LEMMA InvImplies == IInv => BilledOnce /\ PaidTogether /\ RealizedIsBacked
<1> SUFFICES ASSUME IInv
             PROVE  BilledOnce /\ PaidTogether /\ RealizedIsBacked
  OBVIOUS
<1>1. \A d \in Decisions : GroupOf[d] \in Groups
  BY BillingAssumption
<1>2. BilledOnce
  <2> SUFFICES ASSUME NEW d \in Decisions, NEW g \in Groups
               PROVE  (invoices[g] # None /\ d \in invoices[g].lines)
                          <=> (decisions[d] # None /\ decisions[d].recognition # "unrealized"
                                                   /\ decisions[d].invoice = g)
    BY DEF BilledOnce
  <2>1. DecisionOK(d) /\ InvoiceOK(g) /\ None # g
    BY BillingAssumption DEF IInv, LedgerInv
  <2> QED
    BY <1>1, <2>1 DEF DecisionOK, InvoiceOK, Of
<1>3. PaidTogether
  <2> SUFFICES ASSUME NEW g \in Groups, invoices[g] # None
               PROVE  LET paid == invoices[g].collection = "collected"
                      IN /\ Succeeded(g) => paid
                         /\ paid => /\ invoices[g].reference # None
                                    /\ attempts[g] # None
                                    /\ attempts[g].mode = "LIVE"
                                    /\ attempts[g].reference = invoices[g].reference
                         /\ \A d \in Of(g) : decisions[d] # None =>
                               /\ decisions[d].recognition = "collected"
                                     <=> (paid /\ d \in invoices[g].lines)
                               /\ decisions[d].recognition = "collected"
                                      => decisions[d].reference = invoices[g].reference
    BY DEF PaidTogether
  <2>1. InvoiceOK(g) /\ AttemptOK(g)
    BY DEF IInv, LedgerInv, CollectionInv
  <2>2. ASSUME NEW d \in Of(g), decisions[d] # None
        PROVE  /\ decisions[d].recognition = "collected"
                     <=> (invoices[g].collection = "collected" /\ d \in invoices[g].lines)
               /\ decisions[d].recognition = "collected"
                     => decisions[d].reference = invoices[g].reference
    <3>1. d \in Decisions /\ GroupOf[d] = g
      BY DEF Of
    <3>2. DecisionOK(d)
      BY <3>1 DEF IInv, LedgerInv
    <3> QED
      BY <2>1, <2>2, <3>1, <3>2 DEF DecisionOK, InvoiceOK
  <2> QED
    BY <2>1, <2>2 DEF InvoiceOK, AttemptOK, Succeeded
<1>4. RealizedIsBacked
  <2> SUFFICES ASSUME NEW d \in Decisions, decisions[d] # None, decisions[d].realized
               PROVE  /\ d \in Settled
                      /\ invoices[GroupOf[d]] # None
                      /\ invoices[GroupOf[d]].collection = "collected"
                      /\ d \in invoices[GroupOf[d]].lines
    BY DEF RealizedIsBacked
  <2>1. DecisionOK(d)
    BY DEF IInv, LedgerInv
  <2> QED
    BY <2>1 DEF DecisionOK
<1> QED
  BY <1>2, <1>3, <1>4

LEMMA InitInv == Init => IInv
<1> SUFFICES ASSUME Init PROVE IInv
  OBVIOUS
<1>1. TypeOK
  <2>1. Ended \in Run /\ Idle \in Request
    BY DEF Ended, Run, Idle, Request, Location
  <2> QED
    BY <2>1, CollectionAssumption DEF Init, BillingInit, TypeOK, BillingTypeOK
<1>2. RunsInv
  BY DEF Init, BillingInit, RunsInv, Ended
<1>3. LedgerInv
  BY DEF Init, BillingInit, LedgerInv, DecisionOK, InvoiceOK
<1>4. CollectionInv
  BY DEF Init, BillingInit, CollectionInv, AttemptOK, RequestOK, Idle
<1> QED
  BY <1>1, <1>2, <1>3, <1>4 DEF IInv

-----------------------------------------------------------------------------
(* Frames                                                                  *)

\* What the actions of Billing leave alone.
collection == <<attempts, req, restarts>>

LEMMA LedgerFrame ==
    ASSUME LedgerInv, UNCHANGED <<decisions, invoices, attempts>>
    PROVE  LedgerInv'
BY DEF LedgerInv, DecisionOK, InvoiceOK, Of

LEMMA RunsFrame ==
    ASSUME RunsInv, UNCHANGED <<decisions, runs>>
    PROVE  RunsInv'
BY DEF RunsInv

LEMMA AttemptFrame ==
    ASSUME CollectionInv, UNCHANGED <<invoices, attempts>>
    PROVE  \A g \in Groups : AttemptOK(g)'
BY DEF CollectionInv, AttemptOK

LEMMA RequestFrame ==
    ASSUME NEW r \in Collectors, RequestOK(r), UNCHANGED <<invoices, attempts>>, req'[r] = req[r]
    PROVE  RequestOK(r)'
BY DEF RequestOK

\* A step that only moves one request.
LEMMA MoveRequest ==
    ASSUME IInv, NEW r \in Collectors, NEW new \in Request,
           req' = [req EXCEPT ![r] = new], RequestOK(r)',
           UNCHANGED <<billing, attempts, restarts>>
    PROVE  IInv'
<1>1. UNCHANGED <<decisions, invoices, runs, mode>>
  BY DEF billing
<1>2. TypeOK'
  BY <1>1 DEF IInv, TypeOK, BillingTypeOK
<1>3. RunsInv' /\ LedgerInv' /\ \A g \in Groups : AttemptOK(g)'
  BY <1>1, RunsFrame, LedgerFrame, AttemptFrame DEF IInv
<1>4. ASSUME NEW q \in Collectors PROVE RequestOK(q)'
  <2>1. CASE q = r
    BY <2>1
  <2>2. CASE q # r
    <3>1. req'[q] = req[q]
      BY <2>2 DEF IInv, TypeOK
    <3> QED
      BY <1>1, <3>1, RequestFrame DEF IInv, CollectionInv
  <2> QED
    BY <2>1, <2>2
<1> QED
  BY <1>2, <1>3, <1>4 DEF IInv, CollectionInv

LEMMA IdleRequest == Idle \in Request /\ Idle.at = "idle"
BY DEF Idle, Request, Location

\* A step that only answers one request.
LEMMA AnswerRequest ==
    ASSUME IInv, NEW r \in Collectors, Answer(r), UNCHANGED <<billing, attempts, restarts>>
    PROVE  IInv'
<1>1. req'[r] = Idle
  BY DEF IInv, TypeOK, Answer
<1>2. RequestOK(r)'
  BY <1>1, IdleRequest DEF RequestOK
<1> QED
  BY <1>1, <1>2, IdleRequest, MoveRequest DEF Answer

\* A step that only moves one run.
LEMMA MoveRun ==
    ASSUME IInv, NEW b \in Runs, NEW new \in Run,
           runs' = [runs EXCEPT ![b] = new],
           new.at = "issue" => new.on \in Groups,
           \A d \in new.listed : decisions[d] # None,
           UNCHANGED <<decisions, invoices, mode>>, UNCHANGED collection
    PROVE  IInv'
<1>1. UNCHANGED <<attempts, req, restarts>>
  BY DEF collection
<1>2. TypeOK'
  BY <1>1 DEF IInv, TypeOK, BillingTypeOK
<1>3. RunsInv'
  BY DEF IInv, RunsInv, TypeOK, BillingTypeOK
<1>4. LedgerInv' /\ \A g \in Groups : AttemptOK(g)'
  BY <1>1, LedgerFrame, AttemptFrame DEF IInv
<1>5. \A r \in Collectors : RequestOK(r)'
  BY <1>1, RequestFrame DEF IInv, CollectionInv
<1> QED
  BY <1>2, <1>3, <1>4, <1>5 DEF IInv, CollectionInv

-----------------------------------------------------------------------------
(* Billing runs                                                            *)

LEMMA DoneRun ==
    ASSUME TypeOK, NEW b \in Runs, NEW g \in Groups
    PROVE  /\ [runs[b] EXCEPT !.at = "find", !.on = None, !.todo = @ \ {g}] \in Run
           /\ [runs[b] EXCEPT !.at = "find", !.on = None, !.todo = @ \ {g}].at = "find"
           /\ [runs[b] EXCEPT !.at = "find", !.on = None, !.todo = @ \ {g}].listed
                  = runs[b].listed
BY DEF TypeOK, BillingTypeOK, Run

LEMMA RecordStep ==
    ASSUME IInv, NEW d \in Decisions, Record(d), UNCHANGED collection
    PROVE  IInv'
<1>1. UNCHANGED <<attempts, req, restarts, invoices, runs, mode>>
  BY DEF collection, Record
<1>2. /\ decisions'[d] = NewDecision
      /\ decisions[d] = None
      /\ \A e \in Decisions \ {d} : decisions'[e] = decisions[e]
      /\ NewDecision \in Decision
  BY DEF IInv, TypeOK, BillingTypeOK, Record, NewDecision, Decision
<1>3. TypeOK'
  BY <1>1, <1>2 DEF IInv, TypeOK, BillingTypeOK, Record
<1>4. RunsInv'
  <2>1. ASSUME NEW b \in Runs, NEW e \in runs[b].listed PROVE decisions'[e] # None
    <3>1. decisions[e] # None /\ e # d
      BY <1>2 DEF IInv, RunsInv
    <3>2. e \in Decisions
      BY DEF IInv, TypeOK, BillingTypeOK, Run
    <3> QED
      BY <1>2, <3>1, <3>2
  <2> QED
    BY <1>1, <2>1 DEF IInv, RunsInv
<1>5. ASSUME NEW e \in Decisions PROVE DecisionOK(e)'
  <2>1. CASE e = d
    BY <1>1, <1>2, <2>1 DEF DecisionOK, NewDecision
  <2>2. CASE e # d
    BY <1>1, <1>2, <2>2 DEF IInv, LedgerInv, DecisionOK
  <2> QED
    BY <2>1, <2>2
<1>6. ASSUME NEW g \in Groups PROVE InvoiceOK(g)'
  <2>1. InvoiceOK(g)
    BY DEF IInv, LedgerInv
  <2> QED
    BY <1>1, <1>2, <2>1 DEF InvoiceOK, Of
<1>7. CollectionInv'
  BY <1>1, AttemptFrame, RequestFrame DEF IInv, CollectionInv
<1> QED
  BY <1>3, <1>4, <1>5, <1>6, <1>7 DEF IInv, LedgerInv

LEMMA ListStep ==
    ASSUME IInv, NEW b \in Runs, ListDecisions(b), UNCHANGED collection
    PROVE  IInv'
<1>1. PICK subscribed \in SUBSET Groups :
         runs' = [runs EXCEPT ![b] =
                    [at |-> "find", on |-> None, listed |-> Billable, subscribed |-> subscribed,
                     todo |-> {GroupOf[d] : d \in Billable} \cup subscribed]]
  BY DEF ListDecisions
<1> DEFINE new == [at |-> "find", on |-> None, listed |-> Billable, subscribed |-> subscribed,
                   todo |-> {GroupOf[d] : d \in Billable} \cup subscribed]
<1>2. Billable \subseteq Decisions /\ \A d \in Billable : decisions[d] # None
  BY DEF Billable, IsBillable
<1>3. {GroupOf[d] : d \in Billable} \subseteq Groups
  BY <1>2, BillingAssumption
<1>4. new \in Run
  BY <1>2, <1>3 DEF Run
<1>5. new.at # "issue" /\ \A d \in new.listed : decisions[d] # None
  BY <1>2
<1>6. UNCHANGED <<decisions, invoices, mode>>
  BY DEF ListDecisions
<1> HIDE DEF new
<1>7. runs' = [runs EXCEPT ![b] = new]
  BY <1>1 DEF new
<1> QED
  BY <1>4, <1>5, <1>6, <1>7, MoveRun

LEMMA FindStep ==
    ASSUME IInv, NEW b \in Runs, NEW g \in Groups, Find(b, g), UNCHANGED collection
    PROVE  IInv'
<1>1. UNCHANGED <<decisions, invoices, mode>>
  BY DEF Find
<1>2. runs[b] \in Run /\ \A d \in runs[b].listed : decisions[d] # None
  BY DEF IInv, TypeOK, BillingTypeOK, RunsInv
<1>3. CASE invoices[g] = None /\ HasLines(b, g)
  <2>1. runs' = [runs EXCEPT ![b] = [runs[b] EXCEPT !.at = "issue", !.on = g]]
    BY <1>3 DEF Find
  <2>2. /\ [runs[b] EXCEPT !.at = "issue", !.on = g] \in Run
        /\ [runs[b] EXCEPT !.at = "issue", !.on = g].on = g
        /\ [runs[b] EXCEPT !.at = "issue", !.on = g].listed = runs[b].listed
    BY <1>2 DEF Run
  <2> QED
    BY <1>1, <1>2, <2>1, <2>2, MoveRun
<1>4. CASE ~(invoices[g] = None /\ HasLines(b, g))
  <2>1. runs' = [runs EXCEPT ![b] = [runs[b] EXCEPT !.at = "find", !.on = None,
                                                    !.todo = @ \ {g}]]
    BY <1>4 DEF Find, Done
  <2> QED
    BY <1>1, <1>2, <2>1, DoneRun, MoveRun, ZenonT(60) DEF IInv
<1> QED
  BY <1>3, <1>4

LEMMA EndedRun == Ended \in Run /\ Ended.at = "idle" /\ Ended.listed = {}
BY DEF Ended, Run

LEMMA EndStep ==
    ASSUME IInv, NEW b \in Runs, EndRun(b), UNCHANGED collection
    PROVE  IInv'
<1>1. runs' = [runs EXCEPT ![b] = Ended] /\ UNCHANGED <<decisions, invoices, mode>>
  BY DEF EndRun
<1> QED
  BY <1>1, EndedRun, MoveRun

LEMMA DraftProps ==
    ASSUME IInv, NEW b \in Runs, NEW g \in Groups
    PROVE  /\ DraftLines(b, g) \subseteq Of(g)
           /\ DraftLines(b, g) \subseteq Decisions
           /\ \A d \in DraftLines(b, g) : decisions[d] \in Decision /\ decisions[d] # None
BY DEF IInv, TypeOK, BillingTypeOK, RunsInv, DraftLines, Of

LEMMA InvoicedProps ==
    ASSUME NEW row \in Decision, NEW g \in Groups
    PROVE  /\ Invoiced(row, g) \in Decision
           /\ Invoiced(row, g) # None
           /\ Invoiced(row, g).recognition = "invoiced"
           /\ Invoiced(row, g).invoice = g
           /\ ~Invoiced(row, g).realized
<1>1. Invoiced(row, g) \in Decision
  BY DEF Invoiced, Decision
<1>2. Invoiced(row, g) # None
  BY <1>1, RowAssumption
<1> QED
  BY <1>1, <1>2 DEF Invoiced, Decision

LEMMA NewInvoiceProps ==
    ASSUME TypeOK, NEW lines \in SUBSET Decisions
    PROVE  /\ NewInvoice(lines) \in Invoice
           /\ NewInvoice(lines) # None
           /\ NewInvoice(lines).collection = "uncollected"
           /\ NewInvoice(lines).lines = lines
<1>1. NewInvoice(lines) \in Invoice
  BY DEF NewInvoice, Invoice, TypeOK, BillingTypeOK
<1>2. NewInvoice(lines) # None
  BY <1>1, RowAssumption
<1> QED
  BY <1>1, <1>2 DEF NewInvoice

\* The transaction that issues the invoice of a group.
LEMMA IssueStep ==
    ASSUME IInv, NEW b \in Runs, Issue(b), UNCHANGED collection
    PROVE  IInv'
<1> DEFINE g == runs[b].on
           lines == DraftLines(b, g)
<1>1. /\ runs[b].at = "issue" /\ g \in Groups /\ mode' = mode
      /\ UNCHANGED <<attempts, req, restarts>>
  BY DEF Issue, IInv, RunsInv, collection
<1>2. CASE ~Issuable(g, lines)
  <2>1. runs' = [runs EXCEPT ![b] = Ended] /\ UNCHANGED <<decisions, invoices, mode>>
    BY <1>2 DEF Issue, ledger
  <2> QED
    BY <2>1, EndedRun, MoveRun
<1>3. CASE Issuable(g, lines)
  <2>1. /\ invoices' = [invoices EXCEPT ![g] = NewInvoice(lines)]
        /\ decisions' = [d \in Decisions |->
                           IF d \in lines THEN Invoiced(decisions[d], g) ELSE decisions[d]]
        /\ Done(b, g)
    BY <1>3 DEF Issue
  <2>2. invoices[g] = None /\ \A d \in lines : IsBillable(d)
    BY <1>3 DEF Issuable
  <2>3. /\ lines \subseteq Of(g) /\ lines \subseteq Decisions
        /\ \A d \in lines : decisions[d] \in Decision /\ decisions[d] # None
    BY <1>1, DraftProps
  <2>4. /\ NewInvoice(lines) \in Invoice /\ NewInvoice(lines) # None
        /\ NewInvoice(lines).collection = "uncollected"
        /\ NewInvoice(lines).lines = lines
    BY <2>3, NewInvoiceProps DEF IInv
  <2>5. ASSUME NEW d \in lines
        PROVE  /\ decisions'[d] \in Decision /\ decisions'[d] # None
               /\ decisions'[d].recognition = "invoiced" /\ decisions'[d].invoice = g
               /\ ~decisions'[d].realized
    BY <1>1, <2>1, <2>3, InvoicedProps
  <2>6. \A d \in Decisions \ lines : decisions'[d] = decisions[d]
    BY <2>1
  <2> DEFINE new == [runs[b] EXCEPT !.at = "find", !.on = None, !.todo = @ \ {g}]
  <2>7. /\ runs' = [runs EXCEPT ![b] = new]
        /\ new \in Run /\ new.at = "find" /\ new.listed = runs[b].listed
    BY <1>1, <2>1, DoneRun DEF IInv, Done
  <2> HIDE DEF g, lines, new
  <2>8. /\ invoices' \in [Groups -> Invoice \cup {None}]
        /\ invoices'[g] = NewInvoice(lines)
        /\ \A h \in Groups \ {g} : invoices'[h] = invoices[h]
    BY <1>1, <2>1, <2>4 DEF IInv, TypeOK, BillingTypeOK
  <2>9. TypeOK'
    <3>1. decisions' \in [Decisions -> Decision \cup {None}]
      <4>1. \A d \in Decisions : decisions[d] \in Decision \cup {None}
        BY DEF IInv, TypeOK, BillingTypeOK
      <4>2. \A d \in Decisions : decisions'[d] \in Decision \cup {None}
        BY <2>5, <2>6, <4>1
      <4> QED
        BY <2>1, <4>2
    <3>2. runs' \in [Runs -> Run]
      BY <2>7 DEF IInv, TypeOK, BillingTypeOK
    <3> QED
      BY <1>1, <2>8, <3>1, <3>2 DEF IInv, TypeOK, BillingTypeOK
  <2>10. RunsInv'
    <3> SUFFICES ASSUME NEW c \in Runs
                 PROVE  /\ runs'[c].at = "issue" => runs'[c].on \in Groups
                        /\ \A d \in runs'[c].listed : decisions'[d] # None
      BY DEF RunsInv
    <3>1. /\ runs'[c].at = "issue" => runs'[c].on \in Groups
          /\ runs'[c].listed = runs[c].listed
      BY <2>7 DEF IInv, RunsInv, TypeOK, BillingTypeOK
    <3>2. runs[c].listed \subseteq Decisions /\ \A d \in runs[c].listed : decisions[d] # None
      BY DEF IInv, RunsInv, TypeOK, BillingTypeOK, Run
    <3> QED
      BY <2>5, <2>6, <3>1, <3>2
  <2>11. ASSUME NEW d \in Decisions PROVE DecisionOK(d)'
    <3>1. DecisionOK(d)
      BY DEF IInv, LedgerInv
    <3>2. CASE d \in lines
      <4>1. GroupOf[d] = g
        BY <2>3, <3>2 DEF Of
      <4> QED
        BY <2>4, <2>5, <2>8, <3>2, <4>1 DEF DecisionOK
    <3>3. CASE d \notin lines
      <4>1. decisions'[d] = decisions[d] /\ GroupOf[d] \in Groups
        BY <2>6, <3>3, BillingAssumption
      <4>2. CASE GroupOf[d] = g
        BY <2>2, <3>1, <4>1, <4>2 DEF DecisionOK, IInv, TypeOK, BillingTypeOK, Decision
      <4>3. CASE GroupOf[d] # g
        BY <2>8, <3>1, <4>1, <4>3 DEF DecisionOK
      <4> QED
        BY <4>2, <4>3
    <3> QED
      BY <3>2, <3>3
  <2>12. ASSUME NEW h \in Groups PROVE InvoiceOK(h)'
    <3>1. InvoiceOK(h)
      BY DEF IInv, LedgerInv
    <3>2. CASE h = g
      BY <2>3, <2>4, <2>5, <2>8, <3>2 DEF InvoiceOK, Of
    <3>3. CASE h # g
      <4>1. invoices'[h] = invoices[h]
        BY <2>8, <3>3
      <4>2. \A d \in Of(h) : d \notin lines /\ d \in Decisions
        BY <2>3, <3>3 DEF Of
      <4> QED
        BY <1>1, <2>6, <3>1, <4>1, <4>2 DEF InvoiceOK, Of
    <3> QED
      BY <3>2, <3>3
  <2>13. ASSUME NEW h \in Groups PROVE AttemptOK(h)'
    BY <1>1, <2>2, <2>8 DEF IInv, CollectionInv, AttemptOK
  <2>14. ASSUME NEW r \in Collectors PROVE RequestOK(r)'
    BY <1>1, <2>2, <2>8 DEF IInv, CollectionInv, RequestOK
  <2> QED
    BY <2>9, <2>10, <2>11, <2>12, <2>13, <2>14 DEF IInv, LedgerInv, CollectionInv
<1> QED
  BY <1>2, <1>3

-----------------------------------------------------------------------------
(* Collection requests                                                     *)

LEMMA GotoStep ==
    ASSUME IInv, NEW r \in Collectors, NEW to \in Location, Goto(r, to),
           UNCHANGED <<billing, attempts, restarts>>,
           req[r].at \notin {"idle", "begin"},
           to \notin {"idle", "begin", "confirm"},
           to = "confirming" => /\ req[r].at = "confirm"
                                /\ attempts[req[r].on].mode = "LIVE"
    PROVE  IInv'
<1> DEFINE new == [req[r] EXCEPT !.at = to]
<1>1. /\ new \in Request /\ new.at = to /\ new.kind = req[r].kind
      /\ new.on = req[r].on /\ new.reference = req[r].reference
  BY DEF IInv, TypeOK, Request
<1>2. req' = [req EXCEPT ![r] = new] /\ req'[r] = new
  BY DEF Goto, IInv, TypeOK
<1>3. UNCHANGED <<invoices, attempts>>
  BY DEF billing, IInv, TypeOK
<1> HIDE DEF new
<1>4. RequestOK(r)'
  BY <1>1, <1>2, <1>3 DEF IInv, CollectionInv, RequestOK
<1> QED
  BY <1>1, <1>2, <1>3, <1>4, MoveRequest

LEMMA StartStep ==
    ASSUME IInv, NEW r \in Collectors, NEW g \in Groups, Start(r, g)
    PROVE  IInv'
<1> DEFINE new == [Idle EXCEPT !.at = "begin", !.on = g]
<1>1. /\ new \in Request /\ new.at = "begin" /\ new.kind = "collect"
      /\ new.on = g /\ new.reference = None
  BY DEF Idle, Request, Location
<1>2. req' = [req EXCEPT ![r] = new] /\ req'[r] = new
  BY DEF Start, IInv, TypeOK
<1>3. /\ UNCHANGED <<billing, attempts, restarts>> /\ UNCHANGED <<invoices, attempts>>
      /\ invoices[g] # None
  BY DEF Start, billing, IInv, TypeOK
<1> HIDE DEF new
<1>4. RequestOK(r)'
  BY <1>1, <1>2, <1>3 DEF RequestOK
<1> QED
  BY <1>1, <1>2, <1>3, <1>4, MoveRequest

LEMMA StartWireStep ==
    ASSUME IInv, NEW r \in Collectors, NEW g \in Groups, StartWire(r, g)
    PROVE  IInv'
<1>1. PICK ref \in References :
         req' = [req EXCEPT ![r] = [at |-> "begin", kind |-> "wire", on |-> g, reference |-> ref]]
  BY DEF StartWire
<1> DEFINE new == [at |-> "begin", kind |-> "wire", on |-> g, reference |-> ref]
<1>2. new \in Request /\ new.at = "begin" /\ new.on = g /\ new.reference # None
  BY RowAssumption DEF Request, Location
<1>3. req' = [req EXCEPT ![r] = new] /\ req'[r] = new
  BY <1>1 DEF IInv, TypeOK
<1>4. /\ UNCHANGED <<billing, attempts, restarts>> /\ UNCHANGED <<invoices, attempts>>
      /\ invoices[g] # None
  BY DEF StartWire, billing, IInv, TypeOK
<1> HIDE DEF new
<1>5. RequestOK(r)'
  BY <1>2, <1>3, <1>4 DEF RequestOK
<1> QED
  BY <1>2, <1>3, <1>4, <1>5, MoveRequest

LEMMA BegunProps ==
    ASSUME TypeOK, NEW g \in Groups
    PROVE  /\ Begun(g) \in Attempt /\ Begun(g) # None
           /\ attempts[g] # None => Begun(g) = attempts[g]
           /\ attempts[g] = None => Begun(g).status # "succeeded"
<1>1. /\ NewAttempt \in Attempt
      /\ NewAttempt.status # "succeeded"
  BY DEF NewAttempt, Attempt, TypeOK, BillingTypeOK, Mode
<1>2. attempts[g] \in Attempt \cup {None}
  BY DEF TypeOK
<1>3. Begun(g) \in Attempt
  BY <1>1, <1>2 DEF Begun
<1> QED
  BY <1>1, <1>3, CollectionAssumption DEF Begun

\* A step that begins the attempt of an invoice, and answers or moves on.
LEMMA BeginAttempt ==
    ASSUME IInv, NEW r \in Collectors, req[r].at = "begin",
           attempts' = [attempts EXCEPT ![req[r].on] = Begun(req[r].on)],
           UNCHANGED <<billing, restarts>>,
           NEW to \in {"idle", "fail", "collect", "confirm"},
           IF to = "idle" THEN Answer(r) ELSE Goto(r, to),
           to = "confirm" => req[r].kind = "wire"
    PROVE  IInv'
<1> DEFINE g == req[r].on
<1>1. /\ g \in Groups /\ invoices[g] # None
      /\ req[r].kind = "wire" => req[r].reference # None
      /\ req[r] \in Request
  BY DEF IInv, CollectionInv, RequestOK, TypeOK
<1>2. UNCHANGED <<decisions, invoices, runs, mode>>
  BY DEF billing
<1>3. /\ attempts' \in [Groups -> Attempt \cup {None}]
      /\ attempts'[g] # None
      /\ \A h \in Groups : attempts[h] # None => attempts'[h] = attempts[h]
      /\ \A h \in Groups : attempts'[h] # None =>
              (h = g /\ attempts'[h].status # "succeeded") \/ attempts'[h] = attempts[h]
  BY <1>1, BegunProps DEF IInv, TypeOK
<1>4. /\ req' \in [Collectors -> Request]
      /\ req'[r].at = to
      /\ to # "idle" => /\ req'[r].on = g /\ req'[r].kind = req[r].kind
                        /\ req'[r].reference = req[r].reference
      /\ \A q \in Collectors \ {r} : req'[q] = req[q]
  <2>1. CASE to = "idle"
    BY <2>1, IdleRequest DEF IInv, TypeOK, Answer
  <2>2. CASE to # "idle"
    BY <1>1, <2>2 DEF IInv, TypeOK, Goto, Request, Location
  <2> QED
    BY <2>1, <2>2
<1> HIDE DEF g
<1>5. TypeOK'
  BY <1>2, <1>3, <1>4 DEF IInv, TypeOK, BillingTypeOK
<1>6. RunsInv'
  BY <1>2, RunsFrame DEF IInv
<1>7. LedgerInv'
  <2>1. ASSUME NEW d \in Decisions PROVE DecisionOK(d)'
    BY <1>2 DEF IInv, LedgerInv, DecisionOK
  <2>2. ASSUME NEW h \in Groups PROVE InvoiceOK(h)'
    <3>1. InvoiceOK(h)
      BY DEF IInv, LedgerInv
    <3> QED
      BY <1>2, <1>3, <3>1 DEF InvoiceOK, Of
  <2> QED
    BY <2>1, <2>2 DEF LedgerInv
<1>8. ASSUME NEW h \in Groups PROVE AttemptOK(h)'
  BY <1>1, <1>2, <1>3 DEF IInv, CollectionInv, AttemptOK
<1>9. ASSUME NEW q \in Collectors PROVE RequestOK(q)'
  <2>1. CASE q = r
    BY <1>1, <1>2, <1>3, <1>4, <2>1 DEF RequestOK
  <2>2. CASE q # r
    <3>1. RequestOK(q) /\ req'[q] = req[q]
      BY <1>4, <2>2 DEF IInv, CollectionInv
    <3> QED
      BY <1>2, <1>3, <3>1 DEF RequestOK
  <2> QED
    BY <2>1, <2>2
<1> QED
  BY <1>5, <1>6, <1>7, <1>8, <1>9 DEF IInv, CollectionInv

LEMMA BeginStep ==
    ASSUME IInv, NEW r \in Collectors, Begin(r)
    PROVE  IInv'
<1>1. /\ req[r].at = "begin"
      /\ attempts' = [attempts EXCEPT ![req[r].on] = Begun(req[r].on)]
      /\ UNCHANGED <<billing, restarts>>
      /\ req[r].on \in Groups
  BY DEF Begin, At, IInv, TypeOK, CollectionInv, RequestOK
<1>2. CASE Answer(r)
  BY <1>1, <1>2, BeginAttempt
<1>3. CASE Goto(r, "fail")
  BY <1>1, <1>3, BeginAttempt
<1>4. CASE Goto(r, "collect")
  BY <1>1, <1>4, BeginAttempt
<1> QED
  BY <1>2, <1>3, <1>4 DEF Begin

LEMMA BeginWireStep ==
    ASSUME IInv, NEW r \in Collectors, BeginWire(r)
    PROVE  IInv'
<1>1. /\ req[r].at = "begin" /\ req[r].kind = "wire"
      /\ attempts' = [attempts EXCEPT ![req[r].on] = Begun(req[r].on)]
      /\ UNCHANGED <<billing, restarts>>
  BY DEF BeginWire, At, IInv, TypeOK
<1>2. Goto(r, "confirm") \/ Answer(r)
  BY DEF BeginWire
<1> QED
  BY <1>1, <1>2, BeginAttempt

LEMMA CollectStep ==
    ASSUME IInv, NEW r \in Collectors, Collect(r)
    PROVE  IInv'
<1>1. /\ req[r].at = "collect" /\ UNCHANGED <<billing, attempts, restarts>>
  BY DEF Collect, At
<1>2. CASE Goto(r, "fail")
  BY <1>1, <1>2, GotoStep DEF Location
<1>3. ASSUME NEW ref \in References,
             req' = [req EXCEPT ![r].at = "confirm", ![r].reference = ref]
      PROVE  IInv'
  <2> DEFINE new == [req[r] EXCEPT !.at = "confirm", !.reference = ref]
  <2>1. new \in Request /\ new.at = "confirm" /\ new.on = req[r].on /\ new.reference # None
    BY RowAssumption DEF IInv, TypeOK, Request, Location
  <2>2. req' = [req EXCEPT ![r] = new] /\ req'[r] = new
    BY <1>3 DEF IInv, TypeOK
  <2>3. UNCHANGED <<invoices, attempts>>
    BY <1>1 DEF billing, IInv, TypeOK
  <2> HIDE DEF new
  <2>4. RequestOK(r)'
    BY <1>1, <2>1, <2>2, <2>3 DEF IInv, CollectionInv, RequestOK
  <2> QED
    BY <1>1, <2>1, <2>2, <2>3, <2>4, MoveRequest
<1>4. CASE Answer(r)
  BY <1>1, <1>4, AnswerRequest
<1> QED
  BY <1>2, <1>3, <1>4 DEF Collect

LEMMA ConfirmReadStep ==
    ASSUME IInv, NEW r \in Collectors, ConfirmRead(r)
    PROVE  IInv'
<1>1. /\ req[r].at = "confirm" /\ UNCHANGED <<billing, attempts, restarts>>
  BY DEF ConfirmRead, At
<1>2. CASE Confirmable(req[r].on) /\ Goto(r, "confirming")
  BY <1>1, <1>2, GotoStep DEF Location, Confirmable
<1>3. CASE Answer(r)
  BY <1>1, <1>3, AnswerRequest
<1> QED
  BY <1>2, <1>3 DEF ConfirmRead

LEMMA FailReadStep ==
    ASSUME IInv, NEW r \in Collectors, FailRead(r)
    PROVE  IInv'
<1>1. /\ req[r].at = "fail" /\ UNCHANGED <<billing, attempts, restarts>>
  BY DEF FailRead, At
<1>2. CASE Goto(r, "failing")
  BY <1>1, <1>2, GotoStep DEF Location
<1>3. CASE Answer(r)
  BY <1>1, <1>3, AnswerRequest
<1> QED
  BY <1>2, <1>3 DEF FailRead

LEMMA AttemptProps ==
    ASSUME NEW row
    PROVE  row \in Attempt <=>
               /\ row \in [mode : Mode, status : {"pending", "recorded", "succeeded", "failed"},
                           reference : References \cup {None}]
               /\ row.status = "succeeded" => row.mode = "LIVE" /\ row.reference # None
BY DEF Attempt

LEMMA FailWriteStep ==
    ASSUME IInv, NEW r \in Collectors, FailWrite(r)
    PROVE  IInv'
<1> DEFINE g == req[r].on
           new == [attempts[g] EXCEPT !.status = "failed"]
<1>1. g \in Groups /\ attempts[g] # None /\ attempts[g] \in Attempt
  BY DEF FailWrite, At, IInv, CollectionInv, RequestOK, TypeOK
<1>2. /\ new \in Attempt /\ new # None /\ new.status = "failed"
      /\ new.mode = attempts[g].mode /\ new.reference = attempts[g].reference
  <2>1. new \in Attempt
    BY <1>1, AttemptProps
  <2> QED
    BY <1>1, <2>1, AttemptProps, CollectionAssumption
<1>3. UNCHANGED <<decisions, invoices, runs, mode, restarts>>
  BY DEF FailWrite, billing
<1>4. /\ attempts' \in [Groups -> Attempt \cup {None}]
      /\ attempts'[g] = new
      /\ \A h \in Groups \ {g} : attempts'[h] = attempts[h]
  <2>1. attempts' = [attempts EXCEPT ![g] = new]
    BY DEF FailWrite
  <2> HIDE DEF new
  <2> QED
    BY <1>1, <1>2, <2>1 DEF IInv, TypeOK
<1>5. /\ req' \in [Collectors -> Request] /\ req'[r] = Idle
      /\ \A q \in Collectors \ {r} : req'[q] = req[q]
  BY IdleRequest DEF FailWrite, Answer, IInv, TypeOK
<1> HIDE DEF g, new
<1>6. TypeOK'
  BY <1>3, <1>4, <1>5 DEF IInv, TypeOK, BillingTypeOK
<1>7. RunsInv'
  BY <1>3, RunsFrame DEF IInv
<1>8. LedgerInv'
  <2>1. ASSUME NEW d \in Decisions PROVE DecisionOK(d)'
    BY <1>3 DEF IInv, LedgerInv, DecisionOK
  <2>2. ASSUME NEW h \in Groups PROVE InvoiceOK(h)'
    <3>1. InvoiceOK(h)
      BY DEF IInv, LedgerInv
    <3> QED
      BY <1>1, <1>2, <1>3, <1>4, <3>1 DEF InvoiceOK, Of
  <2> QED
    BY <2>1, <2>2 DEF LedgerInv
<1>9. ASSUME NEW h \in Groups PROVE AttemptOK(h)'
  BY <1>1, <1>2, <1>3, <1>4 DEF IInv, CollectionInv, AttemptOK
<1>10. ASSUME NEW q \in Collectors PROVE RequestOK(q)'
  <2>1. CASE q = r
    BY <1>5, <2>1, IdleRequest DEF RequestOK
  <2>2. CASE q # r
    <3>1. RequestOK(q) /\ req'[q] = req[q]
      BY <1>5, <2>2 DEF IInv, CollectionInv
    <3> QED
      BY <1>1, <1>2, <1>3, <1>4, <3>1 DEF RequestOK
  <2> QED
    BY <2>1, <2>2
<1> QED
  BY <1>6, <1>7, <1>8, <1>9, <1>10 DEF IInv, CollectionInv

LEMMA PromotedProps ==
    ASSUME TypeOK, NEW d \in Decisions, decisions[d] # None, NEW ref \in References
    PROVE  /\ Promoted(d, ref) \in Decision
           /\ Promoted(d, ref) # None
           /\ Promoted(d, ref).recognition = "collected"
           /\ Promoted(d, ref).invoice = decisions[d].invoice
           /\ Promoted(d, ref).reference = ref
           /\ Promoted(d, ref).realized <=> (decisions[d].realized \/ d \in Settled)
<1>1. decisions[d] \in Decision
  BY DEF TypeOK, BillingTypeOK
<1>2. Promoted(d, ref) \in Decision
  BY <1>1 DEF Promoted, Decision
<1>3. Promoted(d, ref) # None
  BY <1>2, RowAssumption
<1> QED
  BY <1>1, <1>2, <1>3 DEF Promoted, Decision

LEMMA ConfirmedProps ==
    ASSUME NEW row \in Attempt, row.mode = "LIVE", NEW ref \in References
    PROVE  /\ Confirmed(row, ref) \in Attempt
           /\ Confirmed(row, ref) # None
           /\ Confirmed(row, ref).mode = "LIVE"
           /\ Confirmed(row, ref).reference = ref
<1>1. row \in [mode : Mode, status : {"pending", "recorded", "succeeded", "failed"},
               reference : References \cup {None}]
  BY AttemptProps
<1>2. /\ Confirmed(row, ref) \in [mode : Mode,
                                  status : {"pending", "recorded", "succeeded", "failed"},
                                  reference : References \cup {None}]
      /\ Confirmed(row, ref).mode = "LIVE"
      /\ Confirmed(row, ref).reference = ref
  BY <1>1 DEF Confirmed
<1>3. Confirmed(row, ref) \in Attempt
  BY <1>2, AttemptProps, RowAssumption, Zenon
<1> QED
  BY <1>2, <1>3, CollectionAssumption

\* What a confirmation writes, in the invoice's state before it.
LEMMA ConfirmProps ==
    ASSUME IInv, NEW r \in Collectors, ConfirmWrite(r)
    PROVE  LET g == req[r].on
               ref == req[r].reference
           IN /\ g \in Groups /\ ref \in References
              /\ invoices[g] # None /\ invoices[g].lines \subseteq Of(g)
              /\ \A d \in invoices[g].lines : d \in Decisions /\ decisions[d] # None
              /\ \A d \in invoices[g].lines : decisions'[d] = Promoted(d, ref)
              /\ \A d \in Decisions \ invoices[g].lines : decisions'[d] = decisions[d]
              /\ decisions' \in [Decisions -> Decision \cup {None}]
              /\ invoices' \in [Groups -> Invoice \cup {None}]
              /\ invoices'[g] # None
              /\ invoices'[g].lines = invoices[g].lines
              /\ invoices'[g].collection = "collected"
              /\ invoices'[g].reference = ref
              /\ \A h \in Groups \ {g} : invoices'[h] = invoices[h]
              /\ attempts' \in [Groups -> Attempt \cup {None}]
              /\ attempts'[g] # None
              /\ attempts'[g].mode = "LIVE"
              /\ attempts'[g].reference = ref
              /\ \A h \in Groups \ {g} : attempts'[h] = attempts[h]
<1> DEFINE g == req[r].on
           ref == req[r].reference
<1>1. /\ req[r].at = "confirming" /\ RequestOK(r) /\ req[r] \in Request
  BY DEF ConfirmWrite, At, IInv, CollectionInv, TypeOK
<1>2. /\ g \in Groups /\ ref \in References /\ invoices[g] # None
      /\ attempts[g] # None /\ attempts[g].mode = "LIVE"
  BY <1>1 DEF RequestOK, Request
<1>3. /\ invoices[g] \in Invoice /\ attempts[g] \in Attempt /\ InvoiceOK(g)
  BY <1>2 DEF IInv, TypeOK, BillingTypeOK, LedgerInv
<1>4. /\ invoices[g].lines \subseteq Of(g)
      /\ \A d \in invoices[g].lines : d \in Decisions /\ decisions[d] # None
  BY <1>2, <1>3 DEF InvoiceOK, Of
<1>5. /\ attempts' = [attempts EXCEPT ![g] = Confirmed(attempts[g], ref)]
      /\ invoices' = [invoices EXCEPT ![g] = Paid(invoices[g], ref)]
      /\ decisions' = [d \in Decisions |-> IF d \in PromotedSet(g) THEN Promoted(d, ref)
                                                                 ELSE decisions[d]]
  BY DEF ConfirmWrite, IInv, TypeOK, BillingTypeOK
<1>6. /\ Confirmed(attempts[g], ref) \in Attempt
      /\ Confirmed(attempts[g], ref) # None
      /\ Confirmed(attempts[g], ref).mode = "LIVE"
      /\ Confirmed(attempts[g], ref).reference = ref
  BY <1>2, <1>3, ConfirmedProps
<1>7. /\ Paid(invoices[g], ref) \in Invoice
      /\ Paid(invoices[g], ref) # None
      /\ Paid(invoices[g], ref).lines = invoices[g].lines
      /\ Paid(invoices[g], ref).collection = "collected"
      /\ Paid(invoices[g], ref).reference = ref
  <2>1. Paid(invoices[g], ref) \in Invoice
    BY <1>2, <1>3 DEF Paid, Invoice, Mode
  <2> QED
    BY <1>3, <2>1, RowAssumption DEF Paid, Invoice
<1>8. PromotedSet(g) = invoices[g].lines
  BY DEF PromotedSet
<1> HIDE DEF g, ref
<1>9. /\ \A d \in invoices[g].lines : decisions'[d] = Promoted(d, ref)
      /\ \A d \in Decisions \ invoices[g].lines : decisions'[d] = decisions[d]
  BY <1>4, <1>5, <1>8
<1>10. decisions' \in [Decisions -> Decision \cup {None}]
  <2>1. ASSUME NEW d \in Decisions PROVE decisions'[d] \in Decision \cup {None}
    <3>1. decisions[d] \in Decision \cup {None}
      BY DEF IInv, TypeOK, BillingTypeOK
    <3> QED
      BY <1>2, <1>4, <1>9, <3>1, PromotedProps DEF IInv
  <2> QED
    BY <1>5, <2>1
<1>11. /\ attempts' \in [Groups -> Attempt \cup {None}]
       /\ attempts'[g] = Confirmed(attempts[g], ref)
       /\ \A h \in Groups \ {g} : attempts'[h] = attempts[h]
  BY <1>2, <1>5, <1>6 DEF IInv, TypeOK
<1>12. /\ invoices' \in [Groups -> Invoice \cup {None}]
       /\ invoices'[g] = Paid(invoices[g], ref)
       /\ \A h \in Groups \ {g} : invoices'[h] = invoices[h]
  BY <1>2, <1>5, <1>7 DEF IInv, TypeOK, BillingTypeOK
<1> QED
  BY <1>2, <1>4, <1>6, <1>7, <1>9, <1>10, <1>11, <1>12 DEF g, ref

LEMMA ConfirmWriteStep ==
    ASSUME IInv, NEW r \in Collectors, ConfirmWrite(r)
    PROVE  IInv'
<1> DEFINE g == req[r].on
           ref == req[r].reference
<1>1. /\ g \in Groups /\ ref \in References
      /\ invoices[g] # None /\ invoices[g].lines \subseteq Of(g)
      /\ \A d \in invoices[g].lines : d \in Decisions /\ decisions[d] # None
      /\ \A d \in invoices[g].lines : decisions'[d] = Promoted(d, ref)
      /\ \A d \in Decisions \ invoices[g].lines : decisions'[d] = decisions[d]
  BY ConfirmProps
<1>2. /\ decisions' \in [Decisions -> Decision \cup {None}]
      /\ invoices' \in [Groups -> Invoice \cup {None}]
      /\ invoices'[g] # None
      /\ invoices'[g].lines = invoices[g].lines
      /\ invoices'[g].collection = "collected"
      /\ invoices'[g].reference = ref
      /\ \A h \in Groups \ {g} : invoices'[h] = invoices[h]
  BY ConfirmProps
<1>3. /\ attempts' \in [Groups -> Attempt \cup {None}]
      /\ attempts'[g] # None
      /\ attempts'[g].mode = "LIVE"
      /\ attempts'[g].reference = ref
      /\ \A h \in Groups \ {g} : attempts'[h] = attempts[h]
  BY ConfirmProps
<1>4. UNCHANGED <<runs, mode, restarts>>
  BY DEF ConfirmWrite
<1>5. /\ req' \in [Collectors -> Request] /\ req'[r] = Idle
      /\ \A q \in Collectors \ {r} : req'[q] = req[q]
  BY IdleRequest DEF ConfirmWrite, Answer, IInv, TypeOK
<1>6. \A d \in invoices[g].lines :
         /\ decisions'[d] # None /\ decisions'[d].recognition = "collected"
         /\ decisions'[d].invoice = decisions[d].invoice /\ decisions'[d].reference = ref
         /\ decisions'[d].realized <=> (decisions[d].realized \/ d \in Settled)
  BY <1>1, PromotedProps DEF IInv
<1> HIDE DEF g, ref
<1>7. TypeOK'
  BY <1>2, <1>3, <1>4, <1>5 DEF IInv, TypeOK, BillingTypeOK
<1>8. RunsInv'
  <2> SUFFICES ASSUME NEW b \in Runs
               PROVE  /\ runs[b].at = "issue" => runs[b].on \in Groups
                      /\ \A d \in runs[b].listed : decisions'[d] # None
    BY <1>4 DEF RunsInv
  <2>1. runs[b].listed \subseteq Decisions /\ \A d \in runs[b].listed : decisions[d] # None
    BY DEF IInv, RunsInv, TypeOK, BillingTypeOK, Run
  <2> QED
    BY <1>1, <1>6, <2>1 DEF IInv, RunsInv
<1>9. ASSUME NEW d \in Decisions PROVE DecisionOK(d)'
  <2>1. DecisionOK(d) /\ GroupOf[d] \in Groups
    BY BillingAssumption DEF IInv, LedgerInv
  <2>2. CASE d \in invoices[g].lines
    <3>1. GroupOf[d] = g /\ InvoiceOK(g)
      BY <1>1, <2>2 DEF Of, IInv, LedgerInv
    <3> QED
      BY <1>1, <1>2, <1>6, <2>1, <2>2, <3>1 DEF DecisionOK, InvoiceOK
  <2>3. CASE d \notin invoices[g].lines
    <3>1. decisions'[d] = decisions[d]
      BY <1>1, <2>3
    <3>2. CASE GroupOf[d] = g
      BY <2>1, <2>3, <3>1, <3>2 DEF DecisionOK
    <3>3. CASE GroupOf[d] # g
      BY <1>2, <2>1, <3>1, <3>3 DEF DecisionOK
    <3> QED
      BY <3>2, <3>3
  <2> QED
    BY <2>2, <2>3
<1>10. ASSUME NEW h \in Groups PROVE InvoiceOK(h)'
  <2>1. InvoiceOK(h)
    BY DEF IInv, LedgerInv
  <2>2. CASE h = g
    BY <1>1, <1>2, <1>3, <1>6, <2>2, RowAssumption DEF InvoiceOK, Of
  <2>3. CASE h # g
    <3>1. \A d \in Of(h) : d \in Decisions \ invoices[g].lines
      BY <1>1, <2>3 DEF Of
    <3> QED
      BY <1>1, <1>2, <1>3, <2>1, <2>3, <3>1 DEF InvoiceOK, Of
  <2> QED
    BY <2>2, <2>3
<1>11. ASSUME NEW h \in Groups PROVE AttemptOK(h)'
  BY <1>2, <1>3 DEF IInv, CollectionInv, AttemptOK
<1>12. ASSUME NEW q \in Collectors PROVE RequestOK(q)'
  <2>1. CASE q = r
    BY <1>5, <2>1, IdleRequest DEF RequestOK
  <2>2. CASE q # r
    <3>1. RequestOK(q) /\ req'[q] = req[q]
      BY <1>5, <2>2 DEF IInv, CollectionInv
    <3> QED
      BY <1>2, <1>3, <3>1 DEF RequestOK
  <2> QED
    BY <2>1, <2>2
<1> QED
  BY <1>7, <1>8, <1>9, <1>10, <1>11, <1>12 DEF IInv, LedgerInv, CollectionInv

LEMMA RestartStep == IInv /\ Restart => IInv'
<1> SUFFICES ASSUME IInv, Restart PROVE IInv'
  OBVIOUS
<1>1. /\ UNCHANGED <<decisions, invoices, attempts>>
      /\ mode' \in Mode /\ restarts' \in 0 .. MaxRestarts
      /\ runs' = [b \in Runs |-> Ended] /\ req' = [r \in Collectors |-> Idle]
  BY CollectionAssumption DEF Restart, IInv, TypeOK
<1>2. TypeOK'
  BY <1>1, EndedRun, IdleRequest DEF IInv, TypeOK, BillingTypeOK
<1>3. RunsInv'
  BY <1>1, EndedRun DEF RunsInv
<1>4. LedgerInv' /\ \A g \in Groups : AttemptOK(g)'
  BY <1>1, LedgerFrame, AttemptFrame DEF IInv
<1>5. \A r \in Collectors : RequestOK(r)'
  BY <1>1, IdleRequest DEF RequestOK
<1> QED
  BY <1>2, <1>3, <1>4, <1>5 DEF IInv, CollectionInv

LEMMA StutterStep == IInv /\ UNCHANGED vars => IInv'
<1> SUFFICES ASSUME IInv, UNCHANGED vars PROVE IInv'
  OBVIOUS
<1>1. UNCHANGED <<decisions, invoices, runs, mode, attempts, req, restarts>>
  BY DEF vars
<1>2. TypeOK' /\ RunsInv'
  BY <1>1, RunsFrame DEF IInv, TypeOK, BillingTypeOK
<1>3. LedgerInv' /\ \A g \in Groups : AttemptOK(g)'
  BY <1>1, LedgerFrame, AttemptFrame DEF IInv
<1>4. \A r \in Collectors : RequestOK(r)'
  BY <1>1, RequestFrame DEF IInv, CollectionInv
<1> QED
  BY <1>2, <1>3, <1>4 DEF IInv, CollectionInv

LEMMA NextInv == IInv /\ [Next]_vars => IInv'
<1> SUFFICES ASSUME IInv, [Next]_vars PROVE IInv'
  OBVIOUS
<1>1. CASE BillingNext /\ UNCHANGED collection
  BY <1>1, RecordStep, ListStep, FindStep, IssueStep, EndStep DEF BillingNext
<1>2. ASSUME NEW r \in Collectors, NEW g \in Groups, Start(r, g) \/ StartWire(r, g)
      PROVE  IInv'
  BY <1>2, StartStep, StartWireStep
<1>3. ASSUME NEW r \in Collectors, Begin(r) \/ BeginWire(r) \/ Collect(r)
      PROVE  IInv'
  BY <1>3, BeginStep, BeginWireStep, CollectStep
<1>4. ASSUME NEW r \in Collectors,
             ConfirmRead(r) \/ ConfirmWrite(r) \/ FailRead(r) \/ FailWrite(r)
      PROVE  IInv'
  BY <1>4, ConfirmReadStep, ConfirmWriteStep, FailReadStep, FailWriteStep
<1>5. CASE Restart
  BY <1>5, RestartStep
<1>6. CASE UNCHANGED vars
  BY <1>6, StutterStep
<1> QED
  BY <1>1, <1>2, <1>3, <1>4, <1>5, <1>6 DEF Next, collection

-----------------------------------------------------------------------------
(* The theorems                                                            *)

LEMMA InvHolds == Spec => []IInv
<1>1. Init => IInv
  BY InitInv
<1>2. IInv /\ [Next]_vars => IInv'
  BY NextInv
<1> QED
  BY <1>1, <1>2, PTL DEF Spec

\* Type correctness; in particular an attempt that succeeded is LIVE and has a
\* reference, as the CHECK constraints of collection_attempts require.
THEOREM TypeCorrect == Spec => []TypeOK
<1>1. IInv => TypeOK
  BY DEF IInv
<1> QED
  BY <1>1, InvHolds, PTL

\* No decision is billed twice or marked without being billed, for any number of
\* overlapping billing runs.
THEOREM BilledOnceHolds == Spec => []BilledOnce
<1>1. IInv => BilledOnce
  BY InvImplies
<1> QED
  BY <1>1, InvHolds, PTL

\* Invoice, attempt and decisions agree on payment and reference, for any number
\* of overlapping confirmations and failures.
THEOREM PaidTogetherHolds == Spec => []PaidTogether
<1>1. IInv => PaidTogether
  BY InvImplies
<1> QED
  BY <1>1, InvHolds, PTL

\* Realized revenue is settled and paid.
THEOREM RealizedIsBackedHolds == Spec => []RealizedIsBacked
<1>1. IInv => RealizedIsBacked
  BY InvImplies
<1> QED
  BY <1>1, InvHolds, PTL

-----------------------------------------------------------------------------
(* The refinement                                                          *)

\* The refinement mapping.
recognitionOf == [d \in Decisions |->
                    IF decisions[d] = None THEN "none" ELSE decisions[d].recognition]

cashOf == {d \in Decisions : decisions[d] # None /\ decisions[d].realized}

LEMMA RecordRefines ==
    ASSUME IInv, NEW d \in Decisions, Record(d)
    PROVE  Recognition!Record(d)
<1>1. /\ decisions'[d] = NewDecision
      /\ decisions[d] = None
      /\ \A e \in Decisions \ {d} : decisions'[e] = decisions[e]
      /\ NewDecision \in Decision
      /\ NewDecision.recognition = "unrealized"
      /\ ~NewDecision.realized
  BY DEF IInv, TypeOK, BillingTypeOK, Record, NewDecision, Decision
<1>2. NewDecision # None
  BY <1>1, RowAssumption
<1>3. recognitionOf[d] = "none"
  BY <1>1 DEF recognitionOf
<1>4. recognitionOf' = [e \in Decisions |-> IF e \in {d} THEN "unrealized" ELSE recognitionOf[e]]
  BY <1>1, <1>2 DEF recognitionOf
<1>5. cashOf' = cashOf
  BY <1>1, <1>2 DEF cashOf
<1> QED
  BY <1>3, <1>4, <1>5 DEF Recognition!Record, Recognition!Mark, recognitionOf, cashOf

LEMMA IssueRefines ==
    ASSUME IInv, NEW b \in Runs, Issue(b)
    PROVE  (\E g \in Groups : Recognition!Bill(g)) \/ UNCHANGED decisions
<1> DEFINE g == runs[b].on
           lines == DraftLines(b, g)
<1>1. g \in Groups
  BY DEF Issue, IInv, RunsInv
<1>2. CASE ~Issuable(g, lines)
  BY <1>2 DEF Issue, ledger
<1>3. CASE Issuable(g, lines)
  <2>1. /\ invoices[g] = None /\ \A d \in lines : IsBillable(d)
        /\ decisions' = [d \in Decisions |->
                           IF d \in lines THEN Invoiced(decisions[d], g) ELSE decisions[d]]
    BY <1>3 DEF Issue, Issuable
  <2>2. /\ lines \subseteq Of(g) /\ lines \subseteq Decisions
        /\ \A d \in lines : decisions[d] \in Decision /\ decisions[d] # None
    BY <1>1, DraftProps
  <2>3. ASSUME NEW d \in lines
        PROVE  /\ decisions'[d] # None /\ decisions'[d].recognition = "invoiced"
               /\ ~decisions'[d].realized
               /\ decisions[d] # None /\ decisions[d].recognition = "unrealized"
               /\ ~decisions[d].realized
    <3>1. DecisionOK(d) /\ IsBillable(d)
      BY <2>1, <2>2 DEF IInv, LedgerInv
    <3> QED
      BY <1>1, <2>1, <2>2, <3>1, InvoicedProps DEF IsBillable, DecisionOK
  <2>4. \A d \in Decisions \ lines : decisions'[d] = decisions[d]
    BY <2>1
  <2> HIDE DEF g, lines
  <2>5. \A d \in Of(g) : recognitionOf[d] \notin {"invoiced", "collected"}
    <3> SUFFICES ASSUME NEW d \in Of(g)
                 PROVE  recognitionOf[d] \notin {"invoiced", "collected"}
      OBVIOUS
    <3>1. d \in Decisions /\ GroupOf[d] = g
      BY DEF Of
    <3>2. DecisionOK(d)
      BY <3>1 DEF IInv, LedgerInv
    <3> QED
      BY <2>1, <3>1, <3>2 DEF DecisionOK, recognitionOf
  <2>6. recognitionOf' = [d \in Decisions |-> IF d \in lines THEN "invoiced" ELSE recognitionOf[d]]
    BY <2>2, <2>3, <2>4 DEF recognitionOf
  <2>7. \A d \in lines : recognitionOf[d] = "unrealized" /\ d \in Of(g)
    BY <2>2, <2>3 DEF recognitionOf
  <2>8. cashOf' = cashOf
    BY <2>2, <2>3, <2>4 DEF cashOf
  <2>9. PICK h \in Groups, S \in SUBSET Decisions : h = g /\ S = lines
    BY <1>1, <2>2
  <2>10. Recognition!Are(h, "invoiced") \cup Recognition!Are(h, "collected") = {}
    BY <2>5, <2>9 DEF Recognition!Are, Recognition!Of, Of, recognitionOf
  <2>11. S \in SUBSET Recognition!Are(h, "unrealized")
    BY <2>7, <2>9 DEF Recognition!Are, Recognition!Of, Of, recognitionOf
  <2>12. Recognition!Mark(S, "invoiced")
    BY <2>6, <2>9 DEF Recognition!Mark, recognitionOf
  <2>13. Recognition!Bill(h)
    BY <2>8, <2>10, <2>11, <2>12 DEF Recognition!Bill, cashOf
  <2> QED
    BY <2>13
<1> QED
  BY <1>2, <1>3

LEMMA ConfirmRefines ==
    ASSUME IInv, NEW r \in Collectors, ConfirmWrite(r)
    PROVE  \E g \in Groups : Recognition!Pay(g)
<1> DEFINE g == req[r].on
           ref == req[r].reference
           lines == invoices[g].lines
<1>1. /\ g \in Groups /\ ref \in References
      /\ invoices[g] # None /\ lines \subseteq Of(g)
      /\ \A d \in lines : d \in Decisions /\ decisions[d] # None
      /\ \A d \in lines : decisions'[d] = Promoted(d, ref)
      /\ \A d \in Decisions \ lines : decisions'[d] = decisions[d]
  BY ConfirmProps
<1>2. \A d \in lines :
         /\ decisions'[d] # None /\ decisions'[d].recognition = "collected"
         /\ decisions'[d].realized <=> (decisions[d].realized \/ d \in Settled)
  BY <1>1, PromotedProps DEF IInv
<1>3. InvoiceOK(g)
  BY <1>1 DEF IInv, LedgerInv
<1> HIDE DEF g, ref
<1>4. ASSUME NEW d \in Decisions
      PROVE  /\ d \in Of(g) /\ recognitionOf[d] = "invoiced" => d \in lines
             /\ d \in lines => /\ d \in Of(g)
                               /\ recognitionOf[d] \in {"invoiced", "collected"}
                               /\ (recognitionOf[d] = "collected" =>
                                      (d \in cashOf <=> d \in Settled))
                               /\ (recognitionOf[d] = "invoiced" => d \notin cashOf)
  <2>1. DecisionOK(d)
    BY DEF IInv, LedgerInv
  <2>2. decisions[d] \in Decision \cup {None}
    BY DEF IInv, TypeOK, BillingTypeOK
  <2>3. d \in Of(g) /\ recognitionOf[d] = "invoiced" => d \in lines
    BY <2>1 DEF DecisionOK, recognitionOf, Of
  <2>4. d \in lines => /\ d \in Of(g)
                      /\ recognitionOf[d] \in {"invoiced", "collected"}
    BY <1>1, <1>3, <2>2 DEF InvoiceOK, recognitionOf, Decision
  <2>5. d \in lines => /\ (recognitionOf[d] = "collected" => (d \in cashOf <=> d \in Settled))
                      /\ (recognitionOf[d] = "invoiced" => d \notin cashOf)
    BY <1>1, <2>1 DEF DecisionOK, recognitionOf, cashOf
  <2> QED
    BY <2>3, <2>4, <2>5
<1> DEFINE due == {d \in Of(g) : recognitionOf[d] = "invoiced"}
<1>5. recognitionOf' = [d \in Decisions |-> IF d \in due THEN "collected" ELSE recognitionOf[d]]
  <2>1. ASSUME NEW d \in Decisions
        PROVE  recognitionOf'[d] = IF d \in due THEN "collected" ELSE recognitionOf[d]
    <3>1. CASE d \in lines
      BY <1>2, <1>4, <3>1 DEF recognitionOf
    <3>2. CASE d \notin lines
      BY <1>1, <1>4, <3>2 DEF recognitionOf
    <3> QED
      BY <3>1, <3>2
  <2> HIDE DEF due
  <2> QED
    BY <2>1 DEF recognitionOf
<1>6. cashOf' = cashOf \cup (due \cap Settled)
  <2>1. ASSUME NEW d \in Decisions
        PROVE  d \in cashOf' <=> d \in cashOf \/ (d \in due /\ d \in Settled)
    <3>1. CASE d \in lines
      BY <1>1, <1>2, <1>4, <3>1 DEF cashOf
    <3>2. CASE d \notin lines
      BY <1>1, <1>4, <3>2 DEF cashOf
    <3> QED
      BY <3>1, <3>2
  <2>2. due \subseteq Decisions /\ cashOf \subseteq Decisions /\ cashOf' \subseteq Decisions
    BY DEF Of, cashOf
  <2> HIDE DEF due
  <2> QED
    BY <2>1, <2>2
<1>7. PICK h \in Groups : h = g
  BY <1>1
<1>8. Recognition!Are(h, "invoiced") = due
  BY <1>7 DEF Recognition!Are, Recognition!Of, Of, recognitionOf
<1>9. Recognition!Pay(h)
  BY <1>5, <1>6, <1>8 DEF Recognition!Pay, Recognition!Mark, recognitionOf, cashOf
<1> QED
  BY <1>9

LEMMA StepRefines == IInv /\ [Next]_vars => [Recognition!Next]_(Recognition!vars)
<1> SUFFICES ASSUME IInv, [Next]_vars PROVE [Recognition!Next]_(Recognition!vars)
  OBVIOUS
<1>1. CASE UNCHANGED decisions
  BY <1>1 DEF Recognition!vars
<1>2. ASSUME NEW d \in Decisions, Record(d) PROVE Recognition!Next
  BY <1>2, RecordRefines DEF Recognition!Next
<1>3. ASSUME NEW b \in Runs, Issue(b) PROVE Recognition!Next \/ UNCHANGED decisions
  BY <1>3, IssueRefines DEF Recognition!Next
<1>4. ASSUME NEW r \in Collectors, ConfirmWrite(r) PROVE Recognition!Next
  BY <1>4, ConfirmRefines DEF Recognition!Next
<1>5. ASSUME BillingNext
      PROVE  Recognition!Next \/ UNCHANGED decisions
  BY <1>2, <1>3, <1>5 DEF BillingNext, ListDecisions, EndRun, Find
<1>6. ASSUME NEW r \in Collectors, NEW g \in Groups, Start(r, g) \/ StartWire(r, g)
      PROVE  UNCHANGED decisions
  BY <1>6 DEF Start, StartWire, billing
<1>7. ASSUME NEW r \in Collectors, Begin(r) \/ BeginWire(r) \/ Collect(r)
      PROVE  UNCHANGED decisions
  BY <1>7 DEF Begin, BeginWire, Collect, billing
<1>8. ASSUME NEW r \in Collectors, ConfirmRead(r) \/ FailRead(r) \/ FailWrite(r)
      PROVE  UNCHANGED decisions
  BY <1>8 DEF ConfirmRead, FailRead, FailWrite, billing
<1>9. Next => Recognition!Next \/ UNCHANGED decisions
  BY <1>4, <1>5, <1>6, <1>7, <1>8 DEF Next, Restart
<1>10. UNCHANGED vars => UNCHANGED decisions
  BY DEF vars
<1> QED
  BY <1>1, <1>9, <1>10

\* Billing and collection implement RevenueRecognition: every step bills one
\* group whole, pays one group whole, records one decision, or changes nothing
\* the abstract specification sees.
THEOREM Refines == Spec => RecognizesInOrder
<1>1. Init => Recognition!Init
  BY DEF Init, BillingInit, Recognition!Init
<1>2. IInv /\ [Next]_vars => [Recognition!Next]_(Recognition!vars)
  BY StepRefines
<1>3. Spec => Init /\ [][Next]_vars /\ []IInv
  BY InvHolds, PTL DEF Spec
<1> QED
  BY <1>1, <1>2, <1>3, PTL DEF RecognizesInOrder, Recognition!Spec

=============================================================================
