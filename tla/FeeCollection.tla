---------------------------- MODULE FeeCollection ----------------------------
(***************************************************************************)
(* Collection of platform fees: packages/core/src/engine/collection-       *)
(* service.ts over the collection store of prisma-launch-billing.ts, on    *)
(* the ledger that billing runs keep writing.                              *)
(*                                                                         *)
(* One attempt row per invoice (its idempotency key).  collectInvoice asks *)
(* the registered collector and confirmWireInvoice takes the operator's    *)
(* word; both end in confirmAttempt.  A request is a process whose steps   *)
(* end at its awaits.  failAttempt is a read and a write of its own, and   *)
(* confirmAttempt a READ COMMITTED transaction: it reads the attempt       *)
(* before it holds the row's lock and does not look again, so its check    *)
(* and its writes are two steps; the lock makes the writes one.            *)
(*                                                                         *)
(* The gate (flag, sign-off, enabled collector) is read once per request   *)
(* and may be open or closed at any time, so it is an input.               *)
(***************************************************************************)
EXTENDS Billing

CONSTANTS
    Collectors,  \* collect and confirm-wire requests
    MaxRestarts  \* bound: restarts of the process

\* A row of collection_attempts within its CHECK constraints: success has a
\* reference and is LIVE.
Attempt == {row \in [mode : Mode,
                     status : {"pending", "recorded", "succeeded", "failed"},
                     reference : References \cup {None}] :
              row.status = "succeeded" => row.mode = "LIVE" /\ row.reference # None}

ASSUME CollectionAssumption == MaxRestarts \in Nat /\ None \notin Attempt

Location == {"idle", "begin", "collect", "confirm", "confirming", "fail", "failing"}

\* A request's local state: the await it is in, its operation, the invoice it
\* collects and the payment reference it has.
Request == [at : Location, kind : {"collect", "wire"}, on : Groups \cup {None},
            reference : References \cup {None}]

Idle == [at |-> "idle", kind |-> "collect", on |-> None, reference |-> None]

VARIABLES
    attempts,   \* attempts[g]: the attempt of the invoice's idempotency key, or None
    req,        \* req[r]: a request's local state
    restarts

vars == <<decisions, invoices, runs, mode, attempts, req, restarts>>

billing == <<decisions, invoices, runs, mode>>

TypeOK ==
    /\ BillingTypeOK
    /\ attempts \in [Groups -> Attempt \cup {None}]
    /\ req \in [Collectors -> Request]
    /\ restarts \in 0 .. MaxRestarts

Init ==
    /\ BillingInit
    /\ attempts = [g \in Groups |-> None]
    /\ req = [r \in Collectors |-> Idle]
    /\ restarts = 0

-----------------------------------------------------------------------------
(* Helpers                                                                 *)

At(r, location) == req[r].at = location

Goto(r, to) == req' = [req EXCEPT ![r].at = to]

Answer(r) == req' = [req EXCEPT ![r] = Idle]

Succeeded(g) == attempts[g] # None /\ attempts[g].status = "succeeded"

NewAttempt == [mode |-> mode,
               status |-> IF mode = "LIVE" THEN "pending" ELSE "recorded",
               reference |-> None]

\* The attempt beginAttempt returns: the unique key makes it the first one made.
Begun(g) == IF attempts[g] = None THEN NewAttempt ELSE attempts[g]

-----------------------------------------------------------------------------
(* collectInvoice and confirmWireInvoice                                   *)

\* getInvoice and findAttemptByKey: an invoice that is collected already is
\* answered from its attempt.
Start(r, g) ==
    /\ At(r, "idle")
    /\ invoices[g] # None
    /\ ~Succeeded(g)
    /\ req' = [req EXCEPT ![r] = [Idle EXCEPT !.at = "begin", !.on = g]]
    /\ UNCHANGED <<billing, attempts, restarts>>

\* A wire confirmation is refused, in RECORD_ONLY or by a closed gate, before it
\* begins an attempt.
StartWire(r, g) ==
    /\ At(r, "idle")
    /\ invoices[g] # None
    /\ ~Succeeded(g)
    /\ mode = "LIVE"
    /\ \E ref \in References :
          req' = [req EXCEPT ![r] = [at |-> "begin", kind |-> "wire", on |-> g,
                                     reference |-> ref]]
    /\ UNCHANGED <<billing, attempts, restarts>>

\* beginAttempt, and what collectInvoice decides next: nothing more in
\* RECORD_ONLY; a closed gate or a missing token fails the attempt; else the
\* collector is asked, whatever the mode of the attempt that was found.
Begin(r) ==
    LET g == req[r].on
    IN /\ At(r, "begin") /\ req[r].kind = "collect"
       /\ attempts' = [attempts EXCEPT ![g] = Begun(g)]
       /\ \/ mode = "RECORD_ONLY" /\ Answer(r)
          \/ mode = "LIVE" /\ Goto(r, "fail")
          \/ mode = "LIVE" /\ Goto(r, "collect")
       /\ UNCHANGED <<billing, restarts>>

\* The same of confirmWireInvoice, which does look at the attempt's mode.
BeginWire(r) ==
    LET g == req[r].on
    IN /\ At(r, "begin") /\ req[r].kind = "wire"
       /\ attempts' = [attempts EXCEPT ![g] = Begun(g)]
       /\ IF Begun(g).mode = "LIVE" THEN Goto(r, "confirm") ELSE Answer(r)
       /\ UNCHANGED <<billing, restarts>>

\* The collector answers, or throws and the attempt stays as it is.
Collect(r) ==
    /\ At(r, "collect")
    /\ \/ Goto(r, "fail")
       \/ Answer(r)
       \/ \E ref \in References :
             req' = [req EXCEPT ![r].at = "confirm", ![r].reference = ref]
    /\ UNCHANGED <<billing, attempts, restarts>>

-----------------------------------------------------------------------------
(* confirmAttempt                                                          *)

\* Mutant: the attempt's mode is not checked, as in the memory store.
ConfirmableAnyMode(g) == attempts[g].status # "succeeded"

\* An attempt that succeeded is left alone; a RECORD_ONLY one is refused.
Confirmable(g) == attempts[g].status # "succeeded" /\ attempts[g].mode = "LIVE"

ConfirmRead(r) ==
    /\ At(r, "confirm")
    /\ IF Confirmable(req[r].on) THEN Goto(r, "confirming") ELSE Answer(r)
    /\ UNCHANGED <<billing, attempts, restarts>>

\* Mutant: the attempt keeps the first reference it was given.
ConfirmedOnce(row, ref) ==
    [row EXCEPT !.status = "succeeded", !.reference = IF @ = None THEN ref ELSE @]

Confirmed(row, ref) == [row EXCEPT !.status = "succeeded", !.reference = ref]

Paid(row, ref) == [row EXCEPT !.collection = "collected", !.mode = "LIVE", !.reference = ref]

\* Mutant: every decision of an invoice that is paid counts as realized.
PromotedAll(d, ref) ==
    [decisions[d] EXCEPT !.recognition = "collected", !.reference = ref, !.realized = TRUE]

\* Realization is claimed only where origin and finality support it.
Promoted(d, ref) ==
    [decisions[d] EXCEPT !.recognition = "collected", !.reference = ref,
                         !.realized = @ \/ d \in Settled]

\* Mutant: the group's decisions are promoted, not the invoice's lines.
PromotedSetByGroup(g) == {d \in Of(g) : decisions[d] # None}

\* The decisions whose revenue the payment recognizes.
PromotedSet(g) == invoices[g].lines

ConfirmWrite(r) ==
    LET g == req[r].on
        ref == req[r].reference
    IN /\ At(r, "confirming")
       /\ attempts' = [attempts EXCEPT ![g] = Confirmed(@, ref)]
       /\ invoices' = [invoices EXCEPT ![g] = Paid(@, ref)]
       /\ decisions' = [d \in Decisions |->
                          IF d \in PromotedSet(g) THEN Promoted(d, ref) ELSE decisions[d]]
       /\ Answer(r)
       /\ UNCHANGED <<runs, mode, restarts>>

-----------------------------------------------------------------------------
(* failAttempt                                                             *)

FailRead(r) ==
    /\ At(r, "fail")
    /\ IF Succeeded(req[r].on) THEN Answer(r) ELSE Goto(r, "failing")
    /\ UNCHANGED <<billing, attempts, restarts>>

FailWrite(r) ==
    /\ At(r, "failing")
    /\ attempts' = [attempts EXCEPT ![req[r].on].status = "failed"]
    /\ Answer(r)
    /\ UNCHANGED <<billing, restarts>>

-----------------------------------------------------------------------------
(* The environment                                                         *)

\* The process stops, deliberately or not, and starts in either mode.
Restart ==
    /\ restarts < MaxRestarts
    /\ restarts' = restarts + 1
    /\ mode' \in Mode
    /\ runs' = [b \in Runs |-> Ended]
    /\ req' = [r \in Collectors |-> Idle]
    /\ UNCHANGED <<decisions, invoices, attempts>>

Next ==
    \/ BillingNext /\ UNCHANGED <<attempts, req, restarts>>
    \/ \E r \in Collectors :
          \/ \E g \in Groups : Start(r, g) \/ StartWire(r, g)
          \/ Begin(r) \/ BeginWire(r) \/ Collect(r)
          \/ ConfirmRead(r) \/ ConfirmWrite(r) \/ FailRead(r) \/ FailWrite(r)
    \/ Restart

Spec == Init /\ [][Next]_vars

-----------------------------------------------------------------------------
(* Properties                                                              *)

\* An invoice, the attempt that paid it and every decision on it tell the same
\* story under the same reference, whatever confirmations, failures and billing
\* runs overlap; a decision outside the invoice is never paid with it.
PaidTogether ==
    \A g \in Groups : invoices[g] # None =>
        LET paid == invoices[g].collection = "collected"
        IN /\ Succeeded(g) => paid
           /\ paid => /\ invoices[g].reference # None
                      /\ attempts[g] # None
                      /\ attempts[g].mode = "LIVE"
                      /\ attempts[g].reference = invoices[g].reference
           /\ \A d \in Of(g) : decisions[d] # None =>
                 /\ decisions[d].recognition = "collected" <=> (paid /\ d \in invoices[g].lines)
                 /\ decisions[d].recognition = "collected"
                        => decisions[d].reference = invoices[g].reference

\* Realized revenue has all it takes: production origin with confirmed finality,
\* and an invoice that is paid.
RealizedIsBacked ==
    \A d \in Decisions : (decisions[d] # None /\ decisions[d].realized) =>
        /\ d \in Settled
        /\ invoices[GroupOf[d]] # None
        /\ invoices[GroupOf[d]].collection = "collected"
        /\ d \in invoices[GroupOf[d]].lines

\* What the ledger promises of a decision's revenue.
Recognition == INSTANCE RevenueRecognition WITH
    recognition <- [d \in Decisions |->
                      IF decisions[d] = None THEN "none" ELSE decisions[d].recognition],
    cash <- {d \in Decisions : decisions[d] # None /\ decisions[d].realized}

\* Billing runs and collections recognize revenue as RevenueRecognition says: a
\* group once, whole, in order, and cash with the payment.
RecognizesInOrder == Recognition!Spec
=============================================================================
