---------------------- MODULE ExecutionOrchestrationProofs ----------------------
(***************************************************************************)
(* Proofs about ExecutionOrchestration, for any creates, gets, webhooks,   *)
(* keys, payloads, assignments of them, limits, poll budgets and faults.   *)
(*                                                                         *)
(* Every copy of a row, however stale, was right when it was read, and     *)
(* what it claims does not become wrong: an instruction that is stored     *)
(* stays stored, a settlement that was confirmed and attributed stays so,  *)
(* a receipt stays.  So writing a stale copy back can move a status, but   *)
(* it cannot make a row claim what is not backed.                          *)
(*                                                                         *)
(* From that follow the life cycles the orchestration implements, with     *)
(* and without shared rows; that the daily limit and the one instruction   *)
(* of a key fail only by the races named in ExecutionOrchestration; and    *)
(* that the steps a request has left run out.                              *)
(***************************************************************************)
EXTENDS ExecutionOrchestration, FiniteSetTheorems, TLAPS

Early == {"get", "lookup", "mandate", "route", "done"}

Saving == {"save", "reread"}

Granted == {"dispatch", "instruct", "dispatched"}

Receipting == {"remandate", "issue", "sign"}

Sending == {"poll", "record", "settling", "event", "settled", "link"} \cup Receipting

Screened(i) == compliance[PayloadOf(i)] = "pass" /\ PayloadOf(i) \notin Outside

Confirmed(x) == x \in settledBy /\ events[x] > 0

\* What a row, or a copy of it, may claim.
RowOK(x, row) ==
    /\ row.status \in Sent => row.reserved /\ row.instr # None
    /\ row.instr # None => instr[row.instr] # None
    /\ row.status = "SETTLED" => Confirmed(x)
    /\ row.receipt => receipts[x]

\* A create works on a row of another only when key and payload are the same.
SharedOK(r, q) ==
    r \in Creators /\ q.on \notin {r, None} =>
        /\ KeyOf(q.on) = KeyOf(r) /\ PayloadOf(q.on) = PayloadOf(r)
        /\ q.on \in Creators /\ rows[q.on] # None

\* What a create has been through before it dispatches.
ScreenOK(r, q) ==
    /\ q.at = "recheck" => compliance[PayloadOf(r)] = "pass"
    /\ q.at \in {"limit", "reserve"} \cup Granted => Screened(r)
    /\ q.at \in Granted => q.copy.reserved
    /\ q.at = "dispatched" => r \in Creators /\ instr[r] # None

\* What a request knows while it polls and settles.
SettleOK(q) ==
    /\ q.at \in Sending => q.copy.reserved /\ q.copy.instr # None
    /\ q.at = "record" => q.polls < MaxPolls /\ (q.got = "settled" => q.on \in settledBy)
    /\ q.at = "event" => q.on \in settledBy
    /\ q.at \in {"settled", "link"} \cup Receipting => Confirmed(q.on)
    /\ q.at = "link" => receipts[q.on]
    /\ q.copy.status = "SETTLED" => q.at \in {"link"} \cup Receipting

ReqOK(r, q) ==
    /\ q.at \in Early => q.on = None
    /\ q.at \in Saving => q.on = r
    /\ q.at \in Early \cup Saving => q.copy = NewRow
    /\ q.at \notin Early \cup Saving => q.on \in Creators /\ rows[q.on] # None
    /\ q.on = None \/ RowOK(q.on, q.copy)
    /\ SharedOK(r, q)
    /\ ScreenOK(r, q)
    /\ SettleOK(q)

HookOK(d) == d.at = "record" => d.on \in Creators /\ instr[d.on] # None

KeysApart ==
    \A x, y \in Creators :
        rows[x] # None /\ rows[y] # None /\ KeyOf(x) = KeyOf(y) /\ KeyOf(x) # NoKey => x = y

Leaks(x) == PayloadOf(x) \in Leaking

\* A settled row has its receipt, or a request is about to issue it.
ReceiptComing ==
    \A x \in Creators :
        /\ rows[x] # None /\ rows[x].status = "SETTLED"
        /\ mandate = "verified" /\ crashes = 0 /\ ~Leaks(x)
        => \/ receipts[x]
           \/ \E r \in Requests : req[r].on = x /\ req[r].at \in Receipting

\* A receipt attests a confirmed settlement.
ReceiptsConfirmed == \A x \in Creators : receipts[x] => Confirmed(x)

IInv ==
    /\ TypeOK
    /\ \A r \in Requests : ReqOK(r, req[r])
    /\ \A x \in Creators : rows[x] # None => RowOK(x, rows[x])
    /\ \A h \in Hooks : HookOK(hook[h])
    /\ KeysApart
    /\ ScreenedBeforeDispatch
    /\ ReceiptComing
    /\ ReceiptsConfirmed

-----------------------------------------------------------------------------
(* Requests and their steps                                                *)

LEMMA Facts ==
    /\ NewRow \in Row /\ NewRow.status = "CREATED" /\ NewRow.instr = None /\ ~NewRow.receipt
    /\ MaxPolls \in Nat \ {0} /\ MaxFaults \in Nat /\ MaxCrashes \in Nat
    /\ \A at \in Location : LET q == RequestAt(at)
                            IN  /\ q \in Request /\ q.at = at /\ q.on = None
                                /\ q.copy = NewRow
<1>1. MaxPolls \in Nat \ {0} /\ MaxFaults \in Nat /\ MaxCrashes \in Nat
  BY OrchestrationAssumption
<1>2. NewRow \in Row /\ NewRow.status = "CREATED" /\ NewRow.instr = None /\ ~NewRow.receipt
  BY DEF NewRow, Row, Status
<1>3. \A at \in Location : LET q == RequestAt(at)
                           IN  /\ q \in Request /\ q.at = at /\ q.on = None
                               /\ q.copy = NewRow
  BY <1>1, <1>2 DEF RequestAt, Request, PartnerStatus
<1>4. QED
  BY <1>1, <1>2, <1>3

LEMMA GotoIs ==
    ASSUME TypeOK, NEW r \in Requests, NEW to \in Location \ {"done"}, Goto(r, to)
    PROVE  \E new \in Request :
              /\ req' = [req EXCEPT ![r] = new]
              /\ new.at = to /\ new.on = req[r].on /\ new.copy = req[r].copy
              /\ new.polls = req[r].polls /\ new.got = req[r].got
<1>1. req[r] \in Request /\ req' = [req EXCEPT ![r] = [req[r] EXCEPT !.at = to]]
  BY DEF TypeOK, Goto
<1>2. \A q \in Request : LET new == [q EXCEPT !.at = to]
                         IN  /\ new \in Request /\ new.at = to /\ new.on = q.on
                             /\ new.copy = q.copy /\ new.polls = q.polls /\ new.got = q.got
  BY DEF Request
<1>3. QED
  BY <1>1, <1>2

LEMMA CarryIs ==
    ASSUME TypeOK, NEW r \in Requests, NEW to \in Location \ {"done"}, NEW row \in Row,
           Carry(r, to, row)
    PROVE  \E new \in Request :
              /\ req' = [req EXCEPT ![r] = new]
              /\ new.at = to /\ new.on = req[r].on /\ new.copy = row
              /\ new.polls = req[r].polls /\ new.got = req[r].got
<1>1. req[r] \in Request /\ req' = [req EXCEPT ![r] = [req[r] EXCEPT !.at = to, !.copy = row]]
  BY DEF TypeOK, Carry
<1>2. \A q \in Request : LET new == [q EXCEPT !.at = to, !.copy = row]
                         IN  /\ new \in Request /\ new.at = to /\ new.on = q.on
                             /\ new.copy = row /\ new.polls = q.polls /\ new.got = q.got
  BY DEF Request
<1>3. QED
  BY <1>1, <1>2

LEMMA AdoptIs ==
    ASSUME TypeOK, NEW r \in Requests, NEW to \in Location \ {"done"},
           NEW x \in Creators, rows[x] # None, Adopt(r, to, x)
    PROVE  \E new \in Request :
              req' = [req EXCEPT ![r] = new] /\ new.at = to /\ new.on = x /\ new.copy = rows[x]
<1>1. /\ req[r] \in Request /\ rows[x] \in Row
      /\ req' = [req EXCEPT ![r] = [req[r] EXCEPT !.at = to, !.on = x, !.copy = rows[x]]]
  BY DEF TypeOK, Adopt
<1>2. \A q \in Request : LET new == [q EXCEPT !.at = to, !.on = x, !.copy = rows[x]]
                         IN  new \in Request /\ new.at = to /\ new.on = x /\ new.copy = rows[x]
  BY <1>1 DEF Request
<1>3. QED
  BY <1>1, <1>2

-----------------------------------------------------------------------------
(* What was right stays right                                              *)

Grows ==
    /\ UNCHANGED fixed /\ settledBy \subseteq settledBy'
    /\ \A x \in Creators : /\ rows[x] # None => rows'[x] # None
                           /\ instr[x] # None => instr'[x] # None
                           /\ events[x] > 0 => events'[x] > 0
                           /\ receipts[x] => receipts'[x]

LEMMA RowStays ==
    ASSUME Grows, NEW x \in Creators, NEW row \in Row, RowOK(x, row)
    PROVE  RowOK(x, row)'
BY DEF Grows, RowOK, Confirmed, Row

LEMMA ReqStays ==
    ASSUME Grows, NEW r \in Requests, NEW q \in Request, ReqOK(r, q)
    PROVE  ReqOK(r, q)'
<1>1. q.on \in Creators \cup {None} /\ q.copy \in Row
  BY DEF Request
<1>2. fixed' = fixed
  BY DEF Grows
<1>3. q.on = None \/ RowOK(q.on, q.copy)'
  BY <1>1, RowStays DEF ReqOK
<1>4. SharedOK(r, q)'
  BY <1>1, <1>2 DEF ReqOK, SharedOK, Grows, fixed, KeyOf, PayloadOf
<1>5. ScreenOK(r, q)'
  <2>1. q.at = "dispatched" => r \in Creators /\ instr'[r] # None
    BY <1>1 DEF ReqOK, ScreenOK, Grows
  <2>2. QED
    BY <1>2, <2>1 DEF ReqOK, ScreenOK, Screened, fixed, PayloadOf
<1>6. SettleOK(q)'
  BY <1>1, OrchestrationAssumption DEF ReqOK, SettleOK, Grows, Confirmed, Sending, Receipting, Early, Saving
<1>7. QED
  BY <1>1, <1>3, <1>4, <1>5, <1>6 DEF ReqOK, Grows

-----------------------------------------------------------------------------
(* A step of one request                                                   *)

LEMMA Others ==
    ASSUME IInv, Grows, NEW r \in Requests, NEW new \in Request,
           req' = [req EXCEPT ![r] = new], ReqOK(r, new)'
    PROVE  \A q \in Requests : ReqOK(q, req[q])'
<1>1. req'[r] = new /\ \A q \in Requests : q # r => req'[q] = req[q] /\ req[q] \in Request
  BY DEF IInv, TypeOK
<1>2. SUFFICES ASSUME NEW q \in Requests PROVE ReqOK(q, req[q])'
  OBVIOUS
<1>3. PICK row \in Request : row = req'[q] /\ (q # r => row = req[q]) /\ (q = r => row = new)
  BY <1>1
<1>4. ReqOK(q, row)'
  <2>1. CASE q = r
    BY <1>3, <2>1
  <2>2. CASE q # r
    <3>1. ReqOK(q, row)
      BY <1>3, <2>2 DEF IInv
    <3>2. QED
      BY <3>1, ReqStays
  <2>3. QED
    BY <2>1, <2>2
<1>5. QED
  BY <1>3, <1>4 DEF ReqOK, SharedOK, ScreenOK, SettleOK

LEMMA Rows ==
    ASSUME IInv, Grows,
           \/ rows' = rows
           \/ \E y \in Creators, row \in Row : rows' = [rows EXCEPT ![y] = row] /\ RowOK(y, row)'
    PROVE  \A x \in Creators : rows'[x] # None => RowOK(x, rows[x])'
<1>1. SUFFICES ASSUME NEW x \in Creators, rows'[x] # None PROVE RowOK(x, rows[x])'
  OBVIOUS
<1>2. rows \in [Creators -> Row \cup {None}]
  BY DEF IInv, TypeOK
<1>3. CASE rows'[x] = rows[x]
  <2>1. PICK row \in Row : row = rows[x]
    BY <1>1, <1>2, <1>3
  <2>2. RowOK(x, row)
    BY <1>1, <1>3, <2>1 DEF IInv
  <2>3. RowOK(x, row)'
    BY <2>2, RowStays
  <2>4. QED
    BY <1>3, <2>1, <2>3 DEF RowOK
<1>4. CASE rows'[x] # rows[x]
  <2>1. PICK y \in Creators, row \in Row : rows' = [rows EXCEPT ![y] = row] /\ RowOK(y, row)'
    BY <1>4
  <2>2. x = y /\ rows'[x] = row
    BY <1>2, <1>4, <2>1
  <2>3. QED
    BY <2>1, <2>2 DEF RowOK
<1>5. QED
  BY <1>3, <1>4

\* Nothing is added to what was screened, or it was screened.
LEMMA StaysScreened ==
    ASSUME IInv, UNCHANGED fixed,
           \A i \in Creators : sim'[i] # NoSimulation \/ instr'[i] # None =>
               sim[i] # NoSimulation \/ instr[i] # None \/ Screened(i)
    PROVE  ScreenedBeforeDispatch'
BY DEF IInv, ScreenedBeforeDispatch, Screened, fixed, PayloadOf

\* Settled rows are not added without a receipt to come, nor receipts given up.
LEMMA StillComing ==
    ASSUME IInv, NEW r \in Requests, NEW new \in Request, req' = [req EXCEPT ![r] = new],
           UNCHANGED <<mandate, crashes, fixed>>,
           \A x \in Creators : receipts[x] => receipts'[x],
           \A x \in Creators : rows'[x] # None /\ rows'[x].status = "SETTLED" =>
               \/ rows[x] # None /\ rows[x].status = "SETTLED"
               \/ receipts'[x]
               \/ new.on = x /\ new.at \in Receipting,
           req[r].at \in Receipting =>
               \/ mandate # "verified" \/ Leaks(req[r].on)
               \/ receipts'[req[r].on]
               \/ new.on = req[r].on /\ new.at \in Receipting
    PROVE  ReceiptComing'
<1>1. req'[r] = new /\ \A q \in Requests : q # r => req'[q] = req[q]
  BY DEF IInv, TypeOK
<1>2. SUFFICES ASSUME NEW x \in Creators, rows'[x] # None, rows'[x].status = "SETTLED",
                      mandate = "verified", crashes = 0, ~Leaks(x), ~receipts'[x]
               PROVE  \E q \in Requests : req'[q].on = x /\ req'[q].at \in Receipting
  BY DEF ReceiptComing, Leaks, PayloadOf, fixed
<1>3. CASE new.on = x /\ new.at \in Receipting
  BY <1>1, <1>3
<1>4. CASE rows[x] # None /\ rows[x].status = "SETTLED"
  <2>1. PICK q \in Requests : req[q].on = x /\ req[q].at \in Receipting
    BY <1>2, <1>4 DEF IInv, ReceiptComing
  <2>2. CASE q # r
    BY <1>1, <2>1, <2>2
  <2>3. CASE q = r
    BY <1>1, <1>2, <2>1, <2>3
  <2>4. QED
    BY <2>2, <2>3
<1>5. QED
  BY <1>2, <1>3, <1>4

LEMMA ApartStays ==
    ASSUME IInv, UNCHANGED fixed,
           \A x \in Creators : rows'[x] # None => rows[x] # None
    PROVE  KeysApart'
BY DEF IInv, KeysApart, fixed, KeyOf

LEMMA HooksStay ==
    ASSUME IInv, Grows, UNCHANGED hook
    PROVE  \A h \in Hooks : HookOK(hook[h])'
<1>1. \A h \in Hooks : HookOK(hook[h])
  BY DEF IInv
<1>2. QED
  BY <1>1 DEF Grows, HookOK

LEMMA ReceiptsStay ==
    ASSUME IInv, Grows, \A x \in Creators : receipts'[x] => receipts[x] \/ Confirmed(x)
    PROVE  ReceiptsConfirmed'
BY DEF IInv, Grows, ReceiptsConfirmed, Confirmed

\* A request that only goes on.
LEMMA Moves ==
    ASSUME IInv, NEW r \in Requests, NEW new \in Request, req' = [req EXCEPT ![r] = new],
           UNCHANGED <<store, sim, hook, env, fixed, settledBy>>, ReqOK(r, new),
           req[r].at \in Receipting =>
               \/ mandate # "verified" \/ Leaks(req[r].on)
               \/ receipts[req[r].on]
               \/ new.on = req[r].on /\ new.at \in Receipting
    PROVE  IInv'
<1>1. Grows
  BY DEF Grows, store
<1>2. TypeOK'
  BY DEF IInv, TypeOK, store, env, fixed
<1>3. ReqOK(r, new)'
  BY <1>1, ReqStays
<1>4. (\A q \in Requests : ReqOK(q, req[q]))'
  BY <1>1, <1>3, Others
<1>5. (\A x \in Creators : rows[x] # None => RowOK(x, rows[x]))'
  BY <1>1, Rows DEF store
<1>6. KeysApart'
  BY ApartStays DEF store
<1>7. ScreenedBeforeDispatch'
  BY StaysScreened DEF store
<1>8. ReceiptComing'
  BY StillComing DEF store, env
<1>9. (\A h \in Hooks : HookOK(hook[h]))'
  BY <1>1, HooksStay
<1>10. ReceiptsConfirmed'
  BY <1>1, ReceiptsStay DEF store
<1>11. QED
  BY <1>2, <1>4, <1>5, <1>6, <1>7, <1>8, <1>9, <1>10 DEF IInv

\* A request that writes its row back and goes on.
LEMMA Writes ==
    ASSUME IInv, NEW r \in Requests, NEW new \in Request, req' = [req EXCEPT ![r] = new],
           NEW x \in Creators, rows[x] # None, NEW row \in Row, RowOK(x, row),
           rows' = [rows EXCEPT ![x] = row],
           UNCHANGED <<instr, events, receipts, sim, hook, env, fixed, settledBy>>,
           ReqOK(r, new), req[r].at \notin Receipting,
           row.status = "SETTLED" => receipts[x] \/ (new.on = x /\ new.at \in Receipting)
    PROVE  IInv'
<1>1. rows \in [Creators -> Row \cup {None}]
  BY DEF IInv, TypeOK
<1>2. /\ rows'[x] = row /\ row # None /\ \A y \in Creators : y # x => rows'[y] = rows[y]
      /\ rows' \in [Creators -> Row \cup {None}]
  BY <1>1, NoneAssumption
<1>3. Grows
  BY <1>2 DEF Grows
<1>4. TypeOK'
  BY <1>2 DEF IInv, TypeOK, env, fixed
<1>5. ReqOK(r, new)'
  BY <1>3, ReqStays
<1>6. (\A q \in Requests : ReqOK(q, req[q]))'
  BY <1>3, <1>5, Others
<1>7. RowOK(x, row)'
  BY <1>3, RowStays
<1>8. (\A y \in Creators : rows[y] # None => RowOK(y, rows[y]))'
  BY <1>3, <1>7, Rows
<1>9. KeysApart'
  BY <1>2, ApartStays
<1>10. ScreenedBeforeDispatch'
  BY StaysScreened
<1>11. ReceiptComing'
  <2>1. \A y \in Creators : rows'[y] # None /\ rows'[y].status = "SETTLED" =>
            \/ rows[y] # None /\ rows[y].status = "SETTLED"
            \/ receipts'[y]
            \/ new.on = y /\ new.at \in Receipting
    BY <1>2
  <2>2. QED
    BY <2>1, StillComing DEF env
<1>12. (\A h \in Hooks : HookOK(hook[h]))'
  BY <1>3, HooksStay
<1>13. ReceiptsConfirmed'
  BY <1>3, ReceiptsStay
<1>14. QED
  BY <1>4, <1>6, <1>8, <1>9, <1>10, <1>11, <1>12, <1>13 DEF IInv

-----------------------------------------------------------------------------
(* Beginnings and ends                                                     *)

LEMMA Here ==
    ASSUME IInv, NEW r \in Requests
    PROVE  /\ TypeOK /\ req[r] \in Request /\ ReqOK(r, req[r])
           /\ req[r].on \in Creators \cup {None} /\ req[r].copy \in Row
BY DEF IInv, TypeOK, Request

LEMMA Over ==
    ASSUME NEW r \in Requests
    PROVE  LET q == RequestAt("done") IN q \in Request /\ q.at = "done" /\ ReqOK(r, q)
<1>1. PICK q \in Request : q = RequestAt("done")
  BY Facts DEF Location
<1>2. q.at = "done" /\ q.on = None /\ q.copy = NewRow /\ NewRow.status = "CREATED"
  BY <1>1, Facts DEF Location
<1>3. ReqOK(r, q)
  BY <1>2 DEF ReqOK, SharedOK, ScreenOK, SettleOK, Early, Saving, Granted, Sending, Receipting
<1>4. QED
  BY <1>1, <1>2, <1>3

LEMMA Ends ==
    ASSUME IInv, NEW r \in Requests, req' = [req EXCEPT ![r] = RequestAt("done")],
           UNCHANGED <<store, sim, hook, env, fixed, settledBy>>,
           req[r].at \in Receipting =>
               mandate # "verified" \/ Leaks(req[r].on) \/ receipts[req[r].on]
    PROVE  IInv'
<1>1. PICK q \in Request : q = RequestAt("done") /\ q.at = "done" /\ ReqOK(r, q)
  BY Over
<1>2. req' = [req EXCEPT ![r] = q]
  BY <1>1
<1>3. QED
  BY <1>1, <1>2, Moves

LEMMA EndsWriting ==
    ASSUME IInv, NEW r \in Requests, req' = [req EXCEPT ![r] = RequestAt("done")],
           NEW x \in Creators, rows[x] # None, NEW row \in Row, RowOK(x, row),
           rows' = [rows EXCEPT ![x] = row],
           UNCHANGED <<instr, events, receipts, sim, hook, env, fixed, settledBy>>,
           req[r].at \notin Receipting, row.status = "SETTLED" => receipts[x]
    PROVE  IInv'
<1>1. PICK q \in Request : q = RequestAt("done") /\ q.at = "done" /\ ReqOK(r, q)
  BY Over
<1>2. req' = [req EXCEPT ![r] = q]
  BY <1>1
<1>3. QED
  BY <1>1, <1>2, Writes

LEMMA Shares ==
    ASSUME NEW c \in Creators, NEW x \in Holders(c)
    PROVE  x \in Creators /\ rows[x] # None /\ KeyOf(x) = KeyOf(c) /\ KeyOf(c) # NoKey
BY DEF Holders

\* The row is taken further only when it was dispatched, so it is backed.
LEMMA AdoptKeeps ==
    ASSUME IInv, NEW r \in Requests, NEW x \in Creators, rows[x] # None,
           r \in Creators => KeyOf(x) = KeyOf(r) /\ PayloadOf(x) = PayloadOf(r),
           req[r].at \notin Receipting, Adopt(r, AdvanceTo(rows[x]), x),
           UNCHANGED <<store, sim, hook, env, fixed, settledBy>>
    PROVE  IInv'
<1>1. CASE AdvanceTo(rows[x]) = "done"
  BY <1>1, Ends DEF Adopt
<1>2. CASE rows[x].status \in {"DISPATCHED", "SETTLING"} /\ AdvanceTo(rows[x]) = "poll"
  <2>1. PICK new \in Request :
           req' = [req EXCEPT ![r] = new] /\ new.at = "poll" /\ new.on = x /\ new.copy = rows[x]
    BY <1>2, Here, AdoptIs DEF Location
  <2>2. RowOK(x, rows[x])
    BY DEF IInv
  <2>3. ReqOK(r, new)
    BY <1>2, <2>1, <2>2, OrchestrationAssumption
       DEF ReqOK, SharedOK, ScreenOK, SettleOK, RowOK, Sent, Early, Saving, Granted, Sending, Receipting
  <2>4. QED
    BY <2>1, <2>3, Moves
<1>3. QED
  BY <1>1, <1>2 DEF AdvanceTo

-----------------------------------------------------------------------------
(* POST /executions                                                        *)

LEMMA LookupKeeps == ASSUME IInv, NEW c \in Creators, Lookup(c) PROVE IInv'
<1>1. c \in Requests /\ req[c].at = "lookup" /\ req[c].at \notin Receipting
  BY DEF Lookup, At, Requests, Receipting
<1>2. UNCHANGED <<store, sim, hook, env, fixed, settledBy>>
  BY DEF Lookup
<1>3. CASE Goto(c, "mandate")
  <2>1. PICK new \in Request : /\ req' = [req EXCEPT ![c] = new]
                               /\ new.at = "mandate" /\ new.on = req[c].on
                               /\ new.copy = req[c].copy
    BY <1>1, <1>3, Here, GotoIs DEF Location
  <2>2. ReqOK(c, new)
    BY <1>1, <2>1, Here, Facts
       DEF ReqOK, SharedOK, ScreenOK, SettleOK, Early, Saving, Granted, Sending, Receipting
  <2>3. QED
    BY <1>1, <1>2, <2>1, <2>2, Moves
<1>4. ASSUME NEW x \in Holders(c), PayloadOf(x) = PayloadOf(c), Adopt(c, AdvanceTo(rows[x]), x)
      PROVE  IInv'
  BY <1>1, <1>2, <1>4, Shares, AdoptKeeps
<1>5. CASE Goto(c, "done")
  BY <1>1, <1>2, <1>5, Ends DEF Goto
<1>6. QED
  BY <1>3, <1>4, <1>5 DEF Lookup

LEMMA ReadMandateKeeps == ASSUME IInv, NEW c \in Creators, ReadMandate(c) PROVE IInv'
<1>1. c \in Requests /\ req[c].at = "mandate" /\ req[c].at \notin Receipting
  BY DEF ReadMandate, At, Requests, Receipting
<1>2. UNCHANGED <<store, sim, hook, env, fixed, settledBy>>
  BY DEF ReadMandate
<1>3. CASE Goto(c, "route")
  <2>1. PICK new \in Request : /\ req' = [req EXCEPT ![c] = new]
                               /\ new.at = "route" /\ new.on = req[c].on
                               /\ new.copy = req[c].copy
    BY <1>1, <1>3, Here, GotoIs DEF Location
  <2>2. ReqOK(c, new)
    BY <1>1, <2>1, Here, Facts
       DEF ReqOK, SharedOK, ScreenOK, SettleOK, Early, Saving, Granted, Sending, Receipting
  <2>3. QED
    BY <1>1, <1>2, <2>1, <2>2, Moves
<1>4. CASE Goto(c, "done")
  BY <1>1, <1>2, <1>4, Ends DEF Goto
<1>5. QED
  BY <1>3, <1>4 DEF ReadMandate

LEMMA ReadRouteKeeps == ASSUME IInv, NEW c \in Creators, ReadRoute(c) PROVE IInv'
<1>1. c \in Requests /\ req[c].at = "route" /\ req[c].at \notin Receipting
  BY DEF ReadRoute, At, Requests, Receipting
<1>2. PICK new \in Request : /\ req' = [req EXCEPT ![c] = new]
                             /\ new.at = "save" /\ new.on = c /\ new.copy = req[c].copy
  <2>1. PICK late \in BOOLEAN : late = (quote = "expired")
    OBVIOUS
  <2>2. req' = [req EXCEPT ![c] = [req[c] EXCEPT !.at = "save", !.on = c, !.late = late]]
    BY <1>1, <2>1, Here DEF ReadRoute, TypeOK
  <2>3. \A q \in Request : LET changed == [q EXCEPT !.at = "save", !.on = c, !.late = late]
                           IN  /\ changed \in Request /\ changed.at = "save"
                               /\ changed.on = c /\ changed.copy = q.copy
    BY DEF Request, Location
  <2>4. QED
    BY <1>1, <2>2, <2>3, Here
<1>3. ReqOK(c, new)
  <2>1. new.copy = NewRow
    BY <1>1, <1>2, Here DEF ReqOK, Early
  <2>2. RowOK(c, new.copy)
    BY <2>1, Facts DEF RowOK, Sent
  <2>3. QED
    BY <1>2, <2>1, <2>2, Facts
       DEF ReqOK, SharedOK, ScreenOK, SettleOK, Early, Saving, Granted, Sending, Receipting
<1>4. QED
  BY <1>1, <1>2, <1>3, Moves DEF ReadRoute

-----------------------------------------------------------------------------
(* Steps that change more than the request                                 *)

\* A request that leaves the rows alone.
LEMMA Advances ==
    ASSUME IInv, Grows, TypeOK', NEW r \in Requests, NEW new \in Request,
           req' = [req EXCEPT ![r] = new], ReqOK(r, new)',
           UNCHANGED <<rows, hook, mandate, crashes>>,
           \A i \in Creators : sim'[i] # NoSimulation \/ instr'[i] # None =>
               sim[i] # NoSimulation \/ instr[i] # None \/ Screened(i),
           \A x \in Creators : receipts'[x] => receipts[x] \/ Confirmed(x),
           req[r].at \in Receipting =>
               receipts'[req[r].on] \/ (new.on = req[r].on /\ new.at \in Receipting)
    PROVE  IInv'
<1>1. (\A q \in Requests : ReqOK(q, req[q]))'
  BY Others
<1>2. (\A x \in Creators : rows[x] # None => RowOK(x, rows[x]))'
  BY Rows
<1>3. KeysApart'
  BY ApartStays DEF Grows
<1>4. ScreenedBeforeDispatch'
  BY StaysScreened DEF Grows
<1>5. ReceiptComing'
  BY StillComing DEF Grows
<1>6. (\A h \in Hooks : HookOK(hook[h]))'
  BY HooksStay
<1>7. ReceiptsConfirmed'
  BY ReceiptsStay
<1>8. QED
  BY <1>1, <1>2, <1>3, <1>4, <1>5, <1>6, <1>7 DEF IInv

\* A step of no request.
LEMMA Around ==
    ASSUME IInv, Grows, TypeOK', UNCHANGED <<rows, receipts, req>>,
           \A h \in Hooks : HookOK(hook[h])',
           \A i \in Creators : sim'[i] # NoSimulation \/ instr'[i] # None =>
               sim[i] # NoSimulation \/ instr[i] # None \/ Screened(i),
           mandate' = "verified" => mandate = "verified", UNCHANGED crashes
    PROVE  IInv'
<1>1. (\A q \in Requests : ReqOK(q, req[q]))'
  <2>1. SUFFICES ASSUME NEW q \in Requests PROVE ReqOK(q, req[q])'
    OBVIOUS
  <2>2. PICK new \in Request : new = req[q] /\ ReqOK(q, new)
    BY Here
  <2>3. ReqOK(q, new)'
    BY <2>2, ReqStays
  <2>4. QED
    BY <2>2, <2>3 DEF ReqOK, SharedOK, ScreenOK, SettleOK
<1>2. (\A x \in Creators : rows[x] # None => RowOK(x, rows[x]))'
  BY Rows
<1>3. KeysApart'
  BY ApartStays DEF Grows
<1>4. ScreenedBeforeDispatch'
  BY StaysScreened DEF Grows
<1>5. ReceiptComing'
  BY DEF IInv, ReceiptComing, Grows, Leaks, PayloadOf, fixed
<1>6. ReceiptsConfirmed'
  BY ReceiptsStay
<1>7. QED
  BY <1>1, <1>2, <1>3, <1>4, <1>5, <1>6 DEF IInv

\* What a request that has its row knows.
LEMMA Working ==
    ASSUME IInv, NEW r \in Requests, req[r].at \notin Early \cup Saving
    PROVE  /\ req[r].on \in Creators /\ rows[req[r].on] # None
           /\ RowOK(req[r].on, req[r].copy)
           /\ SharedOK(r, req[r]) /\ ScreenOK(r, req[r]) /\ SettleOK(req[r])
<1>1. req[r].on \in Creators /\ rows[req[r].on] # None
  BY Here DEF ReqOK
<1>2. QED
  BY <1>1, Here, OrchestrationAssumption DEF ReqOK

\* transition: the copy with another status, as the row and as the new copy.
LEMMA StatusIs ==
    ASSUME IInv, NEW r \in Requests, NEW to \in Location, NEW status \in Status,
           req[r].at \notin Early \cup Saving, PutStatus(r, to, status),
           status \in Sent => req[r].at \in Sending,
           status = "SETTLED" => Confirmed(req[r].on)
    PROVE  \E row \in Row :
              /\ row.status = status /\ row.reserved = req[r].copy.reserved
              /\ row.instr = req[r].copy.instr
              /\ RowOK(req[r].on, row)
              /\ rows' = [rows EXCEPT ![req[r].on] = row] /\ Carry(r, to, row)
<1>1. \A copy \in Row : LET changed == [copy EXCEPT !.status = status]
                        IN  /\ changed \in Row /\ changed.status = status
                            /\ changed.reserved = copy.reserved
                            /\ changed.instr = copy.instr /\ changed.receipt = copy.receipt
  BY DEF Row
<1>2. PICK row \in Row :
         /\ row = [req[r].copy EXCEPT !.status = status] /\ row.status = status
         /\ row.reserved = req[r].copy.reserved
         /\ row.instr = req[r].copy.instr /\ row.receipt = req[r].copy.receipt
  BY <1>1, Here
<1>3. RowOK(req[r].on, row)
  BY <1>2, Working DEF RowOK, SettleOK
<1>4. QED
  BY <1>2, <1>3 DEF PutStatus, Put

LEMMA StatusEnds ==
    ASSUME IInv, NEW r \in Requests, NEW status \in Status \ {"SETTLED"},
           req[r].at \notin Early \cup Saving \cup Receipting,
           status \in Sent => req[r].at \in Sending, PutStatus(r, "done", status),
           UNCHANGED <<instr, events, receipts, sim, hook, env, fixed, settledBy>>
    PROVE  IInv'
<1>1. PICK row \in Row : /\ row.status = status /\ RowOK(req[r].on, row)
                         /\ rows' = [rows EXCEPT ![req[r].on] = row] /\ Carry(r, "done", row)
  BY StatusIs DEF Location
<1>2. req' = [req EXCEPT ![r] = RequestAt("done")]
  BY <1>1 DEF Carry
<1>3. QED
  BY <1>1, <1>2, Working, EndsWriting

LEMMA StatusGoesOn ==
    ASSUME IInv, NEW r \in Requests, NEW to \in Location \ {"done"}, NEW status \in Status,
           req[r].at \notin Early \cup Saving, PutStatus(r, to, status),
           status \in Sent => req[r].at \in Sending,
           status = "SETTLED" => Confirmed(req[r].on)
    PROVE  \E row \in Row, new \in Request :
              /\ row.status = status /\ row.reserved = req[r].copy.reserved
              /\ row.instr = req[r].copy.instr
              /\ RowOK(req[r].on, row)
              /\ rows' = [rows EXCEPT ![req[r].on] = row]
              /\ req' = [req EXCEPT ![r] = new]
              /\ new.at = to /\ new.on = req[r].on /\ new.copy = row
<1>1. PICK row \in Row :
         /\ row.status = status /\ row.reserved = req[r].copy.reserved
         /\ row.instr = req[r].copy.instr
         /\ RowOK(req[r].on, row)
         /\ rows' = [rows EXCEPT ![req[r].on] = row] /\ Carry(r, to, row)
  BY StatusIs
<1>2. PICK new \in Request : /\ req' = [req EXCEPT ![r] = new]
                             /\ new.at = to /\ new.on = req[r].on /\ new.copy = row
  BY <1>1, Here, CarryIs
<1>3. QED
  BY <1>1, <1>2

LEMMA SaveKeeps == ASSUME IInv, NEW c \in Creators, Save(c) PROVE IInv'
<1>1. c \in Requests /\ req[c].at = "save" /\ req[c].at \notin Receipting
  BY DEF Save, At, Requests, Receipting
<1>2. /\ UNCHANGED <<instr, events, receipts, sim, hook, env, fixed, settledBy>>
      /\ req[c].on = c /\ req[c].copy = NewRow
  BY <1>1, Here DEF Save, ReqOK, Saving
<1>3. CASE Goto(c, "reread") /\ UNCHANGED rows
  <2>1. PICK new \in Request : /\ req' = [req EXCEPT ![c] = new]
                               /\ new.at = "reread" /\ new.on = c /\ new.copy = NewRow
    BY <1>1, <1>2, <1>3, Here, GotoIs DEF Location
  <2>2. RowOK(c, NewRow)
    BY Facts DEF RowOK, Sent
  <2>3. ReqOK(c, new)
    BY <2>1, <2>2, Facts
       DEF ReqOK, SharedOK, ScreenOK, SettleOK, Early, Saving, Granted, Sending, Receipting
  <2>4. QED
    BY <1>1, <1>2, <1>3, <2>1, <2>3, Moves DEF store
<1>4. CASE Holders(c) = {} /\ Put(c, "routed", NewRow)
  <2>1. PICK new \in Request : /\ req' = [req EXCEPT ![c] = new]
                               /\ new.at = "routed" /\ new.on = c /\ new.copy = NewRow
    BY <1>1, <1>2, <1>4, Here, Facts, CarryIs DEF Location, Put
  <2>2. rows \in [Creators -> Row \cup {None}] /\ rows' = [rows EXCEPT ![c] = NewRow]
    <3>1. rows' = [rows EXCEPT ![req[c].on] = NewRow]
      BY <1>4 DEF Put
    <3>2. rows \in [Creators -> Row \cup {None}]
      BY DEF IInv, TypeOK
    <3>3. QED
      BY <1>2, <3>1, <3>2
  <2>3. /\ rows'[c] = NewRow /\ NewRow # None /\ \A y \in Creators : y # c => rows'[y] = rows[y]
        /\ rows' \in [Creators -> Row \cup {None}]
    BY <2>2, Facts, NoneAssumption
  <2>4. Grows
    BY <1>2, <2>3 DEF Grows
  <2>5. TypeOK'
    BY <1>2, <2>1, <2>3 DEF IInv, TypeOK, env, fixed
  <2>6. RowOK(c, NewRow) /\ RowOK(c, NewRow)'
    BY Facts DEF RowOK, Sent, NewRow
  <2>7. ReqOK(c, new)'
    BY <2>1, <2>3, <2>6, Facts
       DEF ReqOK, SharedOK, ScreenOK, SettleOK, RowOK, Early, Saving, Granted, Sending, Receipting
  <2>8. (\A q \in Requests : ReqOK(q, req[q]))'
    BY <1>1, <2>1, <2>4, <2>7, Others
  <2>9. (\A y \in Creators : rows[y] # None => RowOK(y, rows[y]))'
    BY <2>2, <2>4, <2>6, Facts, Rows
  <2>10. KeysApart'
    <3>1. \A x \in Creators : rows[x] # None /\ KeyOf(x) = KeyOf(c) => KeyOf(c) = NoKey
      BY <1>4 DEF Holders
    <3>2. QED
      BY <1>2, <2>3, <3>1 DEF IInv, KeysApart, fixed, KeyOf
  <2>11. ScreenedBeforeDispatch'
    BY <1>2, StaysScreened
  <2>12. ReceiptComing'
    <3>1. NewRow.status # "SETTLED"
      BY Facts
    <3>2. \A x \in Creators : rows'[x] # None /\ rows'[x].status = "SETTLED" =>
            rows[x] # None /\ rows[x].status = "SETTLED"
      BY <2>3, <3>1
    <3>3. /\ UNCHANGED <<mandate, crashes, fixed>>
          /\ \A x \in Creators : receipts[x] => receipts'[x]
      BY <1>2 DEF env
    <3>4. QED
      BY <1>1, <2>1, <3>2, <3>3, StillComing
  <2>13. (\A h \in Hooks : HookOK(hook[h]))'
    BY <1>2, <2>4, HooksStay
  <2>14. ReceiptsConfirmed'
    BY <1>2, <2>4, ReceiptsStay
  <2>15. QED
    BY <2>5, <2>8, <2>9, <2>10, <2>11, <2>12, <2>13, <2>14 DEF IInv
<1>5. QED
  BY <1>2, <1>3, <1>4 DEF Save

LEMMA RereadKeeps == ASSUME IInv, NEW c \in Creators, Reread(c) PROVE IInv'
<1>1. c \in Requests /\ req[c].at = "reread" /\ req[c].at \notin Receipting
  BY DEF Reread, At, Requests, Receipting
<1>2. UNCHANGED <<store, sim, hook, env, fixed, settledBy>>
  BY DEF Reread
<1>3. ASSUME NEW x \in Holders(c), PayloadOf(x) = PayloadOf(c), rows[x].status = "CREATED",
             Adopt(c, "routed", x)
      PROVE  IInv'
  <2>1. x \in Creators /\ rows[x] # None /\ KeyOf(x) = KeyOf(c) /\ KeyOf(c) # NoKey
    BY Shares
  <2>2. PICK new \in Request : /\ req' = [req EXCEPT ![c] = new]
                               /\ new.at = "routed" /\ new.on = x /\ new.copy = rows[x]
    BY <1>1, <1>3, <2>1, Here, AdoptIs DEF Location
  <2>3. RowOK(x, rows[x])
    BY <2>1 DEF IInv
  <2>4. ReqOK(c, new)
    BY <1>3, <2>1, <2>2, <2>3
       DEF ReqOK, SharedOK, ScreenOK, SettleOK, Early, Saving, Granted, Sending, Receipting
  <2>5. QED
    BY <1>1, <1>2, <2>2, <2>4, Moves
<1>4. ASSUME NEW x \in Holders(c), PayloadOf(x) = PayloadOf(c), Adopt(c, AdvanceTo(rows[x]), x)
      PROVE  IInv'
  BY <1>1, <1>2, <1>4, Shares, AdoptKeeps
<1>5. CASE Goto(c, "done")
  BY <1>1, <1>2, <1>5, Ends DEF Goto
<1>6. QED
  BY <1>3, <1>4, <1>5 DEF Reread

-----------------------------------------------------------------------------
(* Screening and dispatch                                                  *)

LEMMA RouteOrExpireKeeps == ASSUME IInv, NEW c \in Creators, RouteOrExpire(c) PROVE IInv'
<1>1. /\ c \in Requests /\ req[c].at = "routed"
      /\ req[c].at \notin Early \cup Saving \cup Receipting \cup Sending
  BY DEF RouteOrExpire, At, Requests, Early, Saving, Receipting, Sending
<1>2. UNCHANGED <<instr, events, receipts, sim, hook, env, fixed, settledBy>>
  BY DEF RouteOrExpire
<1>3. CASE PutStatus(c, "done", "EXPIRED")
  BY <1>1, <1>2, <1>3, StatusEnds DEF Status, Sent
<1>4. CASE PutStatus(c, "comply", "ROUTED")
  <2>1. PICK row \in Row, new \in Request :
           /\ row.status = "ROUTED" /\ RowOK(req[c].on, row)
           /\ rows' = [rows EXCEPT ![req[c].on] = row] /\ req' = [req EXCEPT ![c] = new]
           /\ new.at = "comply" /\ new.on = req[c].on /\ new.copy = row
    BY <1>1, <1>4, StatusGoesOn DEF Status, Sent, Location
  <2>2. ReqOK(c, new)
    BY <1>1, <2>1, Working
       DEF ReqOK, SharedOK, ScreenOK, SettleOK, Early, Saving, Granted, Sending, Receipting
  <2>3. QED
    BY <1>1, <1>2, <2>1, <2>2, Working, Writes
<1>5. QED
  BY <1>3, <1>4 DEF RouteOrExpire

LEMMA ComplyKeeps == ASSUME IInv, NEW c \in Creators, Comply(c) PROVE IInv'
<1>1. /\ c \in Requests /\ req[c].at = "comply"
      /\ req[c].at \notin Early \cup Saving \cup Receipting \cup Sending
  BY DEF Comply, At, Requests, Early, Saving, Receipting, Sending
<1>2. UNCHANGED <<instr, events, receipts, sim, hook, env, fixed, settledBy>>
  BY DEF Comply
<1>3. CASE PutStatus(c, "done", "BLOCKED")
  BY <1>1, <1>2, <1>3, StatusEnds DEF Status, Sent
<1>4. CASE PutStatus(c, "done", "COMPLIANCE_REVIEW")
  BY <1>1, <1>2, <1>4, StatusEnds DEF Status, Sent
<1>5. CASE compliance[PayloadOf(c)] = "pass" /\ PutStatus(c, "recheck", "COMPLIANCE_PASSED")
  <2>1. PICK row \in Row, new \in Request :
           /\ row.status = "COMPLIANCE_PASSED" /\ RowOK(req[c].on, row)
           /\ rows' = [rows EXCEPT ![req[c].on] = row] /\ req' = [req EXCEPT ![c] = new]
           /\ new.at = "recheck" /\ new.on = req[c].on /\ new.copy = row
    BY <1>1, <1>5, StatusGoesOn DEF Status, Sent, Location
  <2>2. ReqOK(c, new)
    BY <1>1, <1>5, <2>1, Working
       DEF ReqOK, SharedOK, ScreenOK, SettleOK, Early, Saving, Granted, Sending, Receipting
  <2>3. QED
    BY <1>1, <1>2, <2>1, <2>2, Working, Writes
<1>6. QED
  BY <1>3, <1>4, <1>5 DEF Comply

LEMMA RecheckKeeps == ASSUME IInv, NEW c \in Creators, Recheck(c) PROVE IInv'
<1>1. /\ c \in Requests /\ req[c].at = "recheck"
      /\ req[c].at \notin Early \cup Saving \cup Receipting \cup Sending
  BY DEF Recheck, At, Requests, Early, Saving, Receipting, Sending
<1>2. UNCHANGED <<instr, events, receipts, sim, hook, env, fixed, settledBy>>
  BY DEF Recheck
<1>3. CASE PutStatus(c, "done", "BLOCKED")
  BY <1>1, <1>2, <1>3, StatusEnds DEF Status, Sent
<1>4. CASE RecheckPasses(c) /\ Goto(c, "limit") /\ UNCHANGED rows
  <2>1. PICK new \in Request :
           /\ req' = [req EXCEPT ![c] = new]
           /\ new.at = "limit" /\ new.on = req[c].on /\ new.copy = req[c].copy
    BY <1>1, <1>4, Here, GotoIs DEF Location
  <2>2. Screened(c)
    BY <1>1, <1>4, Working DEF ScreenOK, Screened, RecheckPasses
  <2>3. ReqOK(c, new)
    BY <1>1, <2>1, <2>2, Working
       DEF ReqOK, SharedOK, ScreenOK, SettleOK, Early, Saving, Granted, Sending, Receipting
  <2>4. QED
    BY <1>1, <1>2, <1>4, <2>1, <2>3, Moves DEF store
<1>5. QED
  BY <1>3, <1>4 DEF Recheck

LEMMA CheckLimitKeeps == ASSUME IInv, NEW c \in Creators, CheckLimit(c) PROVE IInv'
<1>1. /\ c \in Requests /\ req[c].at = "limit"
      /\ req[c].at \notin Early \cup Saving \cup Receipting \cup Sending
  BY DEF CheckLimit, At, Requests, Early, Saving, Receipting, Sending
<1>2. UNCHANGED <<store, sim, hook, env, fixed, settledBy>>
  BY DEF CheckLimit
<1>3. ASSUME NEW to \in {"reserve", "block"}, Goto(c, to) PROVE IInv'
  <2>1. PICK new \in Request :
           /\ req' = [req EXCEPT ![c] = new]
           /\ new.at = to /\ new.on = req[c].on /\ new.copy = req[c].copy
    BY <1>1, <1>3, Here, GotoIs DEF Location
  <2>2. ReqOK(c, new)
    BY <1>1, <2>1, Working
       DEF ReqOK, SharedOK, ScreenOK, SettleOK, Early, Saving, Granted, Sending, Receipting
  <2>3. QED
    BY <1>1, <1>2, <2>1, <2>2, Moves
<1>4. QED
  BY <1>3 DEF CheckLimit

LEMMA BlockKeeps == ASSUME IInv, NEW c \in Creators, Block(c) PROVE IInv'
<1>1. /\ c \in Requests /\ req[c].at = "block"
      /\ req[c].at \notin Early \cup Saving \cup Receipting
  BY DEF Block, At, Requests, Early, Saving, Receipting
<1>2. QED
  BY <1>1, StatusEnds DEF Block, Status, Sent

LEMMA ReserveKeeps == ASSUME IInv, NEW c \in Creators, Reserve(c) PROVE IInv'
<1>1. /\ c \in Requests /\ req[c].at = "reserve"
      /\ req[c].at \notin Early \cup Saving \cup Receipting \cup Sending
  BY DEF Reserve, At, Requests, Early, Saving, Receipting, Sending
<1>2. \A copy \in Row : LET changed == [copy EXCEPT !.reserved = TRUE]
                        IN  /\ changed \in Row /\ changed.status = copy.status
                            /\ changed.reserved
                            /\ changed.instr = copy.instr /\ changed.receipt = copy.receipt
  BY DEF Row
<1>3. PICK row \in Row :
         /\ row = [req[c].copy EXCEPT !.reserved = TRUE] /\ row.status = req[c].copy.status
         /\ row.reserved
         /\ row.instr = req[c].copy.instr /\ row.receipt = req[c].copy.receipt
  BY <1>1, <1>2, Here
<1>4. RowOK(req[c].on, row) /\ row.status # "SETTLED"
  BY <1>1, <1>3, Working DEF RowOK, SettleOK, Receipting
<1>5. PICK new \in Request : /\ req' = [req EXCEPT ![c] = new]
                             /\ new.at = "dispatch" /\ new.on = req[c].on /\ new.copy = row
  BY <1>1, <1>3, Here, CarryIs DEF Reserve, Put, Location
<1>6. ReqOK(c, new)
  BY <1>1, <1>3, <1>4, <1>5, Working
     DEF ReqOK, SharedOK, ScreenOK, SettleOK, Early, Saving, Granted, Sending, Receipting
<1>7. rows' = [rows EXCEPT ![req[c].on] = row]
  BY <1>3 DEF Reserve, Put
<1>8. QED
  BY <1>1, <1>3, <1>4, <1>5, <1>6, <1>7, Working, Writes DEF Reserve

LEMMA DispatchKeeps == ASSUME IInv, NEW c \in Creators, Dispatch(c) PROVE IInv'
<1>1. /\ c \in Requests /\ req[c].at = "dispatch" /\ req[c].on \in Creators
      /\ req[c].at \notin Early \cup Saving \cup Receipting \cup Sending
  <2>1. c \in Requests /\ req[c].at = "dispatch"
    BY DEF Dispatch, At, Requests
  <2>2. QED
    BY <2>1, Working DEF Early, Saving, Receipting, Sending
<1>2. UNCHANGED <<store, hook, env, fixed, settledBy>>
  BY DEF Dispatch
<1>3. CASE Goto(c, "failed") /\ UNCHANGED sim
  <2>1. PICK new \in Request :
           /\ req' = [req EXCEPT ![c] = new]
           /\ new.at = "failed" /\ new.on = req[c].on /\ new.copy = req[c].copy
    BY <1>1, <1>3, Here, GotoIs DEF Location
  <2>2. ReqOK(c, new)
    BY <1>1, <2>1, Working
       DEF ReqOK, SharedOK, ScreenOK, SettleOK, Early, Saving, Granted, Sending, Receipting
  <2>3. QED
    BY <1>1, <1>2, <1>3, <2>1, <2>2, Moves
<1>4. CASE /\ InitialStatus(scenario[PayloadOf(c)], FALSE) = "accepted"
           /\ Goto(c, "instruct")
           /\ sim' = [sim EXCEPT ![c] = InitialSimulation(scenario[PayloadOf(c)])]
  <2>1. PICK new \in Request :
           /\ req' = [req EXCEPT ![c] = new]
           /\ new.at = "instruct" /\ new.on = req[c].on /\ new.copy = req[c].copy
    BY <1>1, <1>4, Here, GotoIs DEF Location
  <2>2. Screened(c)
    BY <1>1, Working DEF ScreenOK, Granted
  <2>3. ReqOK(c, new)
    BY <1>1, <2>1, <2>2, Working
       DEF ReqOK, SharedOK, ScreenOK, SettleOK, Early, Saving, Granted, Sending, Receipting
  <2>4. Grows
    BY <1>2 DEF Grows, store
  <2>5. ReqOK(c, new)'
    BY <1>1, <2>3, <2>4, ReqStays
  <2>6. InitialSimulation(scenario[PayloadOf(c)]) \in Simulation
    <3>1. scenario[PayloadOf(c)] \in Scenarios
      BY OrchestrationAssumption DEF IInv, TypeOK, PayloadOf
    <3>2. 0 \in 0 .. MaxSimPolls
      BY ExtraDelayAssumption DEF MaxSimPolls
    <3>3. QED
      BY <3>1, <3>2 DEF InitialSimulation, InitialStatus, Simulation, PartnerStatus
  <2>7. TypeOK'
    BY <1>2, <1>4, <2>1, <2>6 DEF IInv, TypeOK, store, env, fixed
  <2>8. \A i \in Creators : sim'[i] # NoSimulation => sim[i] # NoSimulation \/ Screened(i)
    <3>1. \A i \in Creators : i # c => sim'[i] = sim[i]
      BY <1>4 DEF IInv, TypeOK
    <3>2. QED
      BY <2>2, <3>1
  <2>9. QED
    BY <1>1, <1>2, <2>1, <2>4, <2>5, <2>7, <2>8, Advances DEF store, env
<1>5. QED
  BY <1>3, <1>4 DEF Dispatch

\* The instruction store gets a status for i.
LEMMA InstructionGrows ==
    ASSUME IInv, NEW i \in Creators, NEW status \in PartnerStatus,
           instr' = [instr EXCEPT ![i] = status],
           UNCHANGED <<rows, events, receipts, fixed, settledBy>>
    PROVE  /\ Grows /\ instr'[i] # None /\ instr' \in [Creators -> PartnerStatus \cup {None}]
           /\ \A j \in Creators : j # i => instr'[j] = instr[j]
<1>1. instr \in [Creators -> PartnerStatus \cup {None}]
  BY DEF IInv, TypeOK
<1>2. /\ instr'[i] # None /\ instr' \in [Creators -> PartnerStatus \cup {None}]
      /\ \A j \in Creators : j # i => instr'[j] = instr[j]
  BY <1>1, NoneAssumption
<1>3. QED
  BY <1>2 DEF Grows

LEMMA SaveInstructionKeeps == ASSUME IInv, NEW c \in Creators, SaveInstruction(c) PROVE IInv'
<1>1. /\ c \in Requests /\ req[c].at = "instruct"
      /\ req[c].at \notin Early \cup Saving \cup Receipting \cup Sending
  BY DEF SaveInstruction, At, Requests, Early, Saving, Receipting, Sending
<1>2. /\ instr' = [instr EXCEPT ![c] = "accepted"]
      /\ UNCHANGED <<rows, events, receipts, sim, hook, env, fixed, settledBy>>
  BY DEF SaveInstruction
<1>3. PICK new \in Request :
         /\ req' = [req EXCEPT ![c] = new]
         /\ new.at = "dispatched" /\ new.on = req[c].on /\ new.copy = req[c].copy
  BY <1>1, Here, GotoIs DEF SaveInstruction, Location
<1>4. Grows /\ instr'[c] # None /\ instr' \in [Creators -> PartnerStatus \cup {None}]
      /\ \A j \in Creators : j # c => instr'[j] = instr[j]
  BY <1>2, InstructionGrows DEF PartnerStatus
<1>5. Screened(c) /\ req[c].copy.reserved
  BY <1>1, Working DEF ScreenOK, Granted
<1>6. ReqOK(c, new)'
  <2>1. ReqOK(c, req[c]) /\ req[c] \in Request
    BY <1>1, Here
  <2>2. PICK old \in Request : old = req[c] /\ ReqOK(c, old)'
    BY <1>1, <1>4, <2>1, ReqStays
  <2>3. old.at = "instruct" /\ new.on = old.on /\ new.copy = old.copy
    BY <1>1, <1>3, <2>2
  <2>4. QED
    BY <1>3, <1>4, <2>2, <2>3
       DEF ReqOK, SharedOK, ScreenOK, SettleOK, Early, Saving, Granted, Sending, Receipting
<1>7. TypeOK'
  BY <1>2, <1>3, <1>4 DEF IInv, TypeOK, env, fixed
<1>8. QED
  BY <1>1, <1>2, <1>3, <1>4, <1>5, <1>6, <1>7, Advances DEF env

LEMMA MarkDispatchedKeeps == ASSUME IInv, NEW c \in Creators, MarkDispatched(c) PROVE IInv'
<1>1. /\ c \in Requests /\ req[c].at = "dispatched"
      /\ req[c].at \notin Early \cup Saving \cup Receipting \cup Sending
  BY DEF MarkDispatched, At, Requests, Early, Saving, Receipting, Sending
<1>2. \A copy \in Row : LET changed == [copy EXCEPT !.status = "DISPATCHED", !.instr = c]
                        IN  /\ changed \in Row /\ changed.status = "DISPATCHED"
                            /\ changed.reserved = copy.reserved
                            /\ changed.instr = c /\ changed.receipt = copy.receipt
  BY DEF Row, Status
<1>3. PICK row \in Row :
         /\ row = [req[c].copy EXCEPT !.status = "DISPATCHED", !.instr = c]
         /\ row.status = "DISPATCHED" /\ row.reserved = req[c].copy.reserved
         /\ row.instr = c /\ row.receipt = req[c].copy.receipt
  BY <1>1, <1>2, Here
<1>4. c # None
  BY OrchestrationAssumption
<1>5. RowOK(req[c].on, row) /\ row.reserved
  BY <1>1, <1>3, <1>4, Working DEF RowOK, ScreenOK, Granted, Sent
<1>6. PICK new \in Request : /\ req' = [req EXCEPT ![c] = new]
                             /\ new.at = "poll" /\ new.on = req[c].on /\ new.copy = row
  BY <1>1, <1>3, Here, CarryIs DEF MarkDispatched, Put, Location
<1>7. ReqOK(c, new)
  BY <1>1, <1>3, <1>4, <1>5, <1>6, Working
     DEF ReqOK, SharedOK, ScreenOK, SettleOK, Early, Saving, Granted, Sending, Receipting
<1>8. rows' = [rows EXCEPT ![req[c].on] = row]
  BY <1>3 DEF MarkDispatched, Put
<1>9. QED
  BY <1>1, <1>3, <1>5, <1>6, <1>7, <1>8, Working, Writes DEF MarkDispatched

LEMMA DispatchWriteFailsKeeps ==
    ASSUME IInv, NEW c \in Creators, DispatchWriteFails(c)
    PROVE  IInv'
<1>1. /\ c \in Requests /\ req[c].at \in {"instruct", "dispatched"}
      /\ req[c].at \notin Early \cup Saving \cup Receipting \cup Sending
  BY DEF DispatchWriteFails, At, Requests, Early, Saving, Receipting, Sending
<1>2. UNCHANGED <<store, sim, hook, mandate, quote, crashes, fixed, settledBy>>
  BY DEF DispatchWriteFails
<1>3. PICK new \in Request :
         /\ req' = [req EXCEPT ![c] = new]
         /\ new.at = "failed" /\ new.on = req[c].on /\ new.copy = req[c].copy
  BY <1>1, Here, GotoIs DEF DispatchWriteFails, Location
<1>4. ReqOK(c, new)
  BY <1>1, <1>3, Working
     DEF ReqOK, SharedOK, ScreenOK, SettleOK, Early, Saving, Granted, Sending, Receipting
<1>5. Grows
  BY <1>2 DEF Grows, store
<1>6. ReqOK(c, new)'
  BY <1>1, <1>4, <1>5, ReqStays
<1>7. faults' \in 0 .. MaxFaults
  BY Facts DEF IInv, TypeOK, DispatchWriteFails
<1>8. TypeOK'
  BY <1>2, <1>3, <1>7 DEF IInv, TypeOK, store, fixed
<1>9. QED
  BY <1>1, <1>2, <1>3, <1>5, <1>6, <1>8, Advances DEF store

-----------------------------------------------------------------------------
(* Polling                                                                 *)

LEMMA FailKeeps == ASSUME IInv, NEW r \in Requests, Fail(r) PROVE IInv'
<1>1. req[r].at = "failed" /\ req[r].at \notin Early \cup Saving \cup Receipting
  BY DEF Fail, At, Early, Saving, Receipting
<1>2. QED
  BY <1>1, StatusEnds DEF Fail, Status, Sent

LEMMA SimulationIs ==
    ASSUME NEW s \in Simulation \cup {NoSimulation}
    PROVE  /\ PollSimulation(s) \in Simulation \cup {NoSimulation}
           /\ ReportedStatus(s) \in PartnerStatus
<1>1. CASE s = NoSimulation
  BY <1>1 DEF PollSimulation, ReportedStatus, PartnerStatus
<1>2. CASE s # NoSimulation
  <2>1. s \in Simulation /\ s.status \in PartnerStatus /\ MaxSimPolls \in Nat
    BY <1>2, ExtraDelayAssumption DEF Simulation, MaxSimPolls
  <2>2. \A polls \in 0 .. MaxSimPolls : AdvancedStatus(s, polls) \in PartnerStatus
    BY <2>1 DEF AdvancedStatus, PartnerStatus
  <2>3. (IF s.polls < MaxSimPolls THEN s.polls + 1 ELSE s.polls) \in 0 .. MaxSimPolls
    BY <2>1 DEF Simulation
  <2>4. \A status \in PartnerStatus, polls \in 0 .. MaxSimPolls :
           [s EXCEPT !.status = status, !.polls = polls] \in Simulation
    BY <2>1 DEF Simulation
  <2>5. Advance(s) \in Simulation
    BY <2>2, <2>3, <2>4 DEF Advance
  <2>6. QED
    BY <1>2, <2>1, <2>5 DEF PollSimulation, ReportedStatus
<1>3. QED
  BY <1>1, <1>2

LEMMA PollKeeps == ASSUME IInv, NEW r \in Requests, Poll(r) PROVE IInv'
<1> DEFINE i == req[r].copy.instr
           got == ReportedStatus(PollSimulation(sim[i]))
<1>1. /\ req[r].at = "poll" /\ req[r].polls < MaxPolls
      /\ req[r].at \notin Early \cup Saving \cup Receipting
      /\ UNCHANGED <<store, hook, env, fixed>>
  BY DEF Poll, At, Early, Saving, Receipting
<1>2. i \in Creators /\ instr[i] # None /\ req[r].copy.reserved /\ req[r].on \in Creators
  BY <1>1, Here, Working DEF SettleOK, RowOK, Sending, Row
<1>3. PollSimulation(sim[i]) \in Simulation \cup {NoSimulation} /\ got \in PartnerStatus
  BY <1>2, SimulationIs DEF IInv, TypeOK
<1>4. PICK new \in Request :
         /\ req' = [req EXCEPT ![r] = new]
         /\ new.at = "record" /\ new.on = req[r].on /\ new.copy = req[r].copy
         /\ new.polls = req[r].polls /\ new.got = got
  <2>1. PICK status \in PartnerStatus : status = got
    BY <1>3
  <2>2. req' = [req EXCEPT ![r] = [req[r] EXCEPT !.at = "record", !.got = status]]
    BY <2>1, Here DEF Poll, TypeOK
  <2>3. \A q \in Request :
           LET changed == [q EXCEPT !.at = "record", !.got = status]
           IN  /\ changed \in Request /\ changed.at = "record" /\ changed.on = q.on
               /\ changed.copy = q.copy /\ changed.polls = q.polls /\ changed.got = status
    BY DEF Request, Location
  <2>4. QED
    BY <2>1, <2>2, <2>3, Here
<1>5. /\ settledBy \subseteq settledBy' /\ settledBy' \subseteq Creators
      /\ got = "settled" => req[r].on \in settledBy'
  BY <1>2 DEF Poll, IInv, TypeOK
<1>6. Grows
  BY <1>1, <1>5 DEF Grows, store
<1>7. ReqOK(r, new)'
  <2>1. PICK old \in Request : old = req[r] /\ ReqOK(r, old)'
    BY <1>6, Here, ReqStays
  <2>2. /\ old.at = "poll" /\ new.on = old.on /\ new.copy = old.copy /\ new.polls = old.polls
        /\ old.polls < MaxPolls
    BY <1>1, <1>4, <2>1
  <2>3. QED
    BY <1>4, <1>5, <2>1, <2>2
       DEF ReqOK, SharedOK, ScreenOK, SettleOK, Early, Saving, Granted, Sending, Receipting
<1>8. sim' = [sim EXCEPT ![i] = PollSimulation(sim[i])]
  BY <1>2 DEF Poll, IInv, TypeOK
<1>9. TypeOK'
  BY <1>1, <1>3, <1>4, <1>5, <1>8 DEF IInv, TypeOK, store, env, fixed
<1>10. \A j \in Creators : sim'[j] # NoSimulation => sim[j] # NoSimulation \/ instr[j] # None
  <2>1. \A j \in Creators : j # i => sim'[j] = sim[j]
    BY <1>8 DEF IInv, TypeOK
  <2>2. QED
    BY <1>2, <2>1
<1>11. QED
  BY <1>1, <1>4, <1>6, <1>7, <1>9, <1>10, Advances DEF store, env

LEMMA RecordReportKeeps == ASSUME IInv, NEW r \in Requests, RecordReport(r) PROVE IInv'
<1> DEFINE i == req[r].copy.instr
<1>1. /\ req[r].at = "record" /\ req[r].at \notin Early \cup Saving \cup Receipting
      /\ UNCHANGED <<rows, events, receipts, sim, hook, env, fixed, settledBy>>
  BY DEF RecordReport, At, Early, Saving, Receipting
<1>2. /\ i \in Creators /\ instr[i] # None /\ req[r].copy.reserved /\ req[r].on \in Creators
      /\ req[r].got \in PartnerStatus /\ req[r].polls + 1 \in 0 .. MaxPolls
      /\ req[r].got = "settled" => req[r].on \in settledBy
  <2>1. i \in Creators /\ instr[i] # None /\ req[r].copy.reserved /\ req[r].on \in Creators
    BY <1>1, Here, Working DEF SettleOK, RowOK, Sending, Row
  <2>2. req[r].polls < MaxPolls /\ (req[r].got = "settled" => req[r].on \in settledBy)
    BY <1>1, Working DEF SettleOK
  <2>3. req[r].got \in PartnerStatus /\ req[r].polls \in 0 .. MaxPolls
    BY Here DEF Request
  <2>4. QED
    BY <2>1, <2>2, <2>3, Facts
<1>3. PICK to \in {"event", "failed", "settling", "poll"} :
         to = AfterReport(r) /\ (to = "event" => req[r].got = "settled")
  BY DEF AfterReport
<1>4. PICK new \in Request :
         /\ req' = [req EXCEPT ![r] = new]
         /\ new.at = to /\ new.on = req[r].on /\ new.copy = req[r].copy
  <2>1. req' = [req EXCEPT ![r] =
                  [req[r] EXCEPT !.at = to, !.got = "accepted", !.polls = req[r].polls + 1]]
    BY <1>3, Here DEF RecordReport, TypeOK
  <2>2. \A q \in Request, polls \in 0 .. MaxPolls :
           LET changed == [q EXCEPT !.at = to, !.got = "accepted", !.polls = polls]
           IN  /\ changed \in Request /\ changed.at = to
               /\ changed.on = q.on /\ changed.copy = q.copy
    BY ZenonT(60) DEF Request, Location, PartnerStatus
  <2>3. QED
    BY <1>2, <2>1, <2>2, Here, ZenonT(60)
<1>5. instr' = [instr EXCEPT ![i] = req[r].got]
  BY DEF RecordReport
<1>6. Grows /\ instr'[i] # None /\ instr' \in [Creators -> PartnerStatus \cup {None}]
      /\ \A j \in Creators : j # i => instr'[j] = instr[j]
  BY <1>1, <1>2, <1>5, InstructionGrows
<1>7. ReqOK(r, new)'
  <2>1. PICK old \in Request : old = req[r] /\ ReqOK(r, old)'
    BY <1>6, Here, ReqStays
  <2>2. /\ old.at = "record" /\ new.on = old.on /\ new.copy = old.copy
        /\ to = "event" => new.on \in settledBy'
    BY <1>1, <1>2, <1>3, <1>4, <2>1
  <2>3. QED
    BY <1>4, <2>1, <2>2
       DEF ReqOK, SharedOK, ScreenOK, SettleOK, Early, Saving, Granted, Sending, Receipting
<1>8. TypeOK'
  BY <1>1, <1>4, <1>6 DEF IInv, TypeOK, env, fixed
<1>9. QED
  BY <1>1, <1>2, <1>4, <1>6, <1>7, <1>8, Advances DEF env

LEMMA MarkSettlingKeeps == ASSUME IInv, NEW r \in Requests, MarkSettling(r) PROVE IInv'
<1>1. /\ req[r].at = "settling" /\ req[r].at \in Sending
      /\ req[r].at \notin Early \cup Saving \cup Receipting
      /\ UNCHANGED <<instr, events, receipts, sim, hook, env, fixed, settledBy>>
  BY DEF MarkSettling, At, Early, Saving, Receipting, Sending
<1>2. PICK row \in Row, new \in Request :
         /\ row.status = "SETTLING" /\ row.reserved = req[r].copy.reserved
         /\ row.instr = req[r].copy.instr /\ RowOK(req[r].on, row)
         /\ rows' = [rows EXCEPT ![req[r].on] = row] /\ req' = [req EXCEPT ![r] = new]
         /\ new.at = "poll" /\ new.on = req[r].on /\ new.copy = row
  BY <1>1, StatusGoesOn DEF MarkSettling, Status, Location
<1>3. ReqOK(r, new)
  BY <1>1, <1>2, Working
     DEF ReqOK, SharedOK, ScreenOK, SettleOK, Early, Saving, Granted, Sending, Receipting
<1>4. QED
  BY <1>1, <1>2, <1>3, Working, Writes

LEMMA PollsSpentKeeps == ASSUME IInv, NEW r \in Requests, PollsSpent(r) PROVE IInv'
<1>1. /\ req[r].at = "poll" /\ req[r].at \in Sending
      /\ req[r].at \notin Early \cup Saving \cup Receipting
  BY DEF PollsSpent, At, Early, Saving, Receipting, Sending
<1>2. QED
  BY <1>1, StatusEnds DEF PollsSpent, Status, Sent

-----------------------------------------------------------------------------
(* Settlement                                                              *)

LEMMA RecordEventKeeps == ASSUME IInv, NEW r \in Requests, RecordEvent(r) PROVE IInv'
<1>1. /\ req[r].at = "event" /\ req[r].at \notin Early \cup Saving \cup Receipting
      /\ UNCHANGED <<rows, instr, receipts, sim, hook, env, fixed, settledBy>>
  BY DEF RecordEvent, At, Early, Saving, Receipting
<1>2. req[r].on \in Creators /\ req[r].on \in settledBy
  BY <1>1, Working DEF SettleOK
<1>3. PICK new \in Request :
         /\ req' = [req EXCEPT ![r] = new]
         /\ new.at = "settled" /\ new.on = req[r].on /\ new.copy = req[r].copy
  BY Here, GotoIs DEF RecordEvent, Location
<1>4. /\ events' \in [Creators -> 0 .. 2] /\ events'[req[r].on] > 0
      /\ \A x \in Creators : events[x] > 0 => events'[x] > 0
  <2>1. events \in [Creators -> 0 .. 2]
    BY DEF IInv, TypeOK
  <2>2. \A n \in 0 .. 2 : LET m == IF n < 2 THEN n + 1 ELSE n IN m \in 0 .. 2 /\ m > 0
    OBVIOUS
  <2>3. QED
    BY <1>2, <2>1, <2>2 DEF RecordEvent
<1>5. Grows
  BY <1>1, <1>4 DEF Grows
<1>6. ReqOK(r, new)'
  <2>1. PICK old \in Request : old = req[r] /\ ReqOK(r, old)'
    BY <1>5, Here, ReqStays
  <2>2. /\ old.at = "event" /\ new.on = old.on /\ new.copy = old.copy
        /\ events'[new.on] > 0 /\ new.on \in settledBy'
    BY <1>1, <1>2, <1>3, <1>4, <2>1
  <2>3. QED
    BY <1>3, <2>1, <2>2
       DEF ReqOK, SharedOK, ScreenOK, SettleOK, Confirmed,
           Early, Saving, Granted, Sending, Receipting
<1>7. TypeOK'
  BY <1>1, <1>3, <1>4 DEF IInv, TypeOK, env, fixed
<1>8. QED
  BY <1>1, <1>3, <1>5, <1>6, <1>7, Advances DEF env

LEMMA MarkSettledKeeps == ASSUME IInv, NEW r \in Requests, MarkSettled(r) PROVE IInv'
<1>1. /\ req[r].at = "settled" /\ req[r].at \in Sending
      /\ req[r].at \notin Early \cup Saving \cup Receipting
      /\ UNCHANGED <<instr, events, receipts, sim, hook, env, fixed, settledBy>>
  BY DEF MarkSettled, At, Early, Saving, Receipting, Sending
<1>2. Confirmed(req[r].on)
  BY <1>1, Working DEF SettleOK
<1>3. PICK row \in Row, new \in Request :
         /\ row.status = "SETTLED" /\ row.reserved = req[r].copy.reserved
         /\ row.instr = req[r].copy.instr /\ RowOK(req[r].on, row)
         /\ rows' = [rows EXCEPT ![req[r].on] = row] /\ req' = [req EXCEPT ![r] = new]
         /\ new.at = "remandate" /\ new.on = req[r].on /\ new.copy = row
  BY <1>1, <1>2, StatusGoesOn DEF MarkSettled, Status, Location
<1>4. ReqOK(r, new) /\ new.at \in Receipting
  BY <1>1, <1>2, <1>3, Working
     DEF ReqOK, SharedOK, ScreenOK, SettleOK, Early, Saving, Granted, Sending, Receipting
<1>5. QED
  BY <1>1, <1>3, <1>4, Working, Writes

LEMMA ReadMandateAgainKeeps == ASSUME IInv, NEW r \in Requests, ReadMandateAgain(r) PROVE IInv'
<1>1. /\ req[r].at = "remandate" /\ req[r].at \in Sending \cap Receipting
      /\ req[r].at \notin Early \cup Saving
      /\ UNCHANGED <<store, sim, hook, env, fixed, settledBy>>
  BY DEF ReadMandateAgain, At, Early, Saving, Receipting, Sending
<1>2. CASE mandate = "verified" /\ Goto(r, "issue")
  <2>1. PICK new \in Request :
           /\ req' = [req EXCEPT ![r] = new]
           /\ new.at = "issue" /\ new.on = req[r].on /\ new.copy = req[r].copy
    BY <1>2, Here, GotoIs DEF Location
  <2>2. ReqOK(r, new) /\ new.at \in Receipting
    BY <1>1, <2>1, Working
       DEF ReqOK, SharedOK, ScreenOK, SettleOK, Early, Saving, Granted, Sending, Receipting
  <2>3. QED
    BY <1>1, <2>1, <2>2, Moves
<1>3. CASE mandate # "verified" /\ Goto(r, "done")
  BY <1>1, <1>3, Ends DEF Goto
<1>4. QED
  BY <1>2, <1>3 DEF ReadMandateAgain

LEMMA FindReceiptKeeps == ASSUME IInv, NEW r \in Requests, FindReceipt(r) PROVE IInv'
<1>1. /\ req[r].at = "issue" /\ req[r].at \in Sending \cap Receipting
      /\ req[r].at \notin Early \cup Saving
      /\ UNCHANGED <<store, sim, hook, env, fixed, settledBy>>
  BY DEF FindReceipt, At, Early, Saving, Receipting, Sending
<1>2. PICK to \in {"link", "sign"} :
         to = (IF receipts[req[r].on] THEN "link" ELSE "sign") /\ Goto(r, to)
  BY DEF FindReceipt
<1>3. PICK new \in Request :
         /\ req' = [req EXCEPT ![r] = new]
         /\ new.at = to /\ new.on = req[r].on /\ new.copy = req[r].copy
  BY <1>2, Here, GotoIs DEF Location
<1>4. ReqOK(r, new)
  BY <1>1, <1>2, <1>3, Working
     DEF ReqOK, SharedOK, ScreenOK, SettleOK, Early, Saving, Granted, Sending, Receipting
<1>5. receipts[req[r].on] \/ new.at \in Receipting
  BY <1>2, <1>3 DEF Receipting
<1>6. QED
  BY <1>1, <1>3, <1>4, <1>5, Moves

LEMMA RefuseReceiptKeeps == ASSUME IInv, NEW r \in Requests, RefuseReceipt(r) PROVE IInv'
<1>1. Leaks(req[r].on) /\ UNCHANGED <<store, sim, hook, env, fixed, settledBy>>
  BY DEF RefuseReceipt, Leaks
<1>2. req' = [req EXCEPT ![r] = RequestAt("done")]
  BY DEF RefuseReceipt, Goto
<1>3. QED
  BY <1>1, <1>2, Ends

LEMMA SaveReceiptKeeps == ASSUME IInv, NEW r \in Requests, SaveReceipt(r) PROVE IInv'
<1>1. /\ req[r].at = "sign" /\ req[r].at \in Sending \cap Receipting
      /\ req[r].at \notin Early \cup Saving
      /\ UNCHANGED <<rows, instr, events, sim, hook, env, fixed, settledBy>>
  BY DEF SaveReceipt, At, Early, Saving, Receipting, Sending
<1>2. req[r].on \in Creators
  BY <1>1, Working
<1>3. /\ receipts' \in [Creators -> BOOLEAN] /\ receipts'[req[r].on]
      /\ \A x \in Creators : receipts[x] => receipts'[x]
      /\ \A x \in Creators : receipts'[x] => receipts[x] \/ Confirmed(x)
  <2>1. receipts \in [Creators -> BOOLEAN] /\ receipts' = [receipts EXCEPT ![req[r].on] = TRUE]
    BY DEF IInv, TypeOK, SaveReceipt
  <2>2. Confirmed(req[r].on)
    BY <1>1, Working DEF SettleOK
  <2>3. QED
    BY <1>2, <2>1, <2>2
<1>4. Grows
  BY <1>1, <1>3 DEF Grows
<1>5. ASSUME NEW new \in Request, req' = [req EXCEPT ![r] = new], ReqOK(r, new)'
      PROVE  IInv'
  <2>1. TypeOK'
    BY <1>1, <1>3, <1>5 DEF IInv, TypeOK, env, fixed
  <2>2. QED
    BY <1>1, <1>3, <1>4, <1>5, <2>1, Advances DEF env
<1>6. CASE Goto(r, "link")
  <2>1. PICK new \in Request :
           /\ req' = [req EXCEPT ![r] = new]
           /\ new.at = "link" /\ new.on = req[r].on /\ new.copy = req[r].copy
    BY <1>6, Here, GotoIs DEF Location
  <2>2. PICK old \in Request : old = req[r] /\ ReqOK(r, old)'
    BY <1>4, Here, ReqStays
  <2>3. old.at = "sign" /\ new.on = old.on /\ new.copy = old.copy /\ receipts'[new.on]
    BY <1>1, <1>3, <2>1, <2>2
  <2>4. ReqOK(r, new)'
    BY <2>1, <2>2, <2>3
       DEF ReqOK, SharedOK, ScreenOK, SettleOK, Early, Saving, Granted, Sending, Receipting
  <2>5. QED
    BY <1>5, <2>1, <2>4
<1>7. CASE Goto(r, "done")
  <2>1. PICK q \in Request : q = RequestAt("done") /\ q.at = "done" /\ ReqOK(r, q)
    BY Over
  <2>2. ReqOK(r, q)' /\ req' = [req EXCEPT ![r] = q]
    BY <1>4, <1>7, <2>1, ReqStays DEF Goto
  <2>3. QED
    BY <1>5, <2>1, <2>2
<1>8. QED
  BY <1>6, <1>7 DEF SaveReceipt

LEMMA LinkReceiptKeeps == ASSUME IInv, NEW r \in Requests, LinkReceipt(r) PROVE IInv'
<1>1. /\ req[r].at = "link" /\ req[r].at \notin Early \cup Saving \cup Receipting
      /\ UNCHANGED <<instr, events, receipts, sim, hook, env, fixed, settledBy>>
  BY DEF LinkReceipt, At, Early, Saving, Receipting
<1>2. receipts[req[r].on]
  BY <1>1, Working DEF SettleOK
<1>3. \A copy \in Row : LET changed == [copy EXCEPT !.receipt = TRUE]
                        IN  /\ changed \in Row /\ changed.status = copy.status
                            /\ changed.reserved = copy.reserved /\ changed.instr = copy.instr
  BY DEF Row
<1>4. PICK row \in Row :
         /\ row = [req[r].copy EXCEPT !.receipt = TRUE] /\ row.status = req[r].copy.status
         /\ row.reserved = req[r].copy.reserved /\ row.instr = req[r].copy.instr
  BY <1>3, Here
<1>5. RowOK(req[r].on, row)
  BY <1>1, <1>2, <1>4, Working DEF RowOK
<1>6. rows' = [rows EXCEPT ![req[r].on] = row] /\ req' = [req EXCEPT ![r] = RequestAt("done")]
  BY <1>4 DEF LinkReceipt, Put, Carry
<1>7. QED
  BY <1>1, <1>2, <1>5, <1>6, Working, EndsWriting

-----------------------------------------------------------------------------
(* Readers, webhooks, the environment                                      *)

\* A reader adopts whichever row it names: it has no key and no payload.
LEMMA GetKeeps == ASSUME IInv, NEW g \in Readers, Get(g) PROVE IInv'
<1>1. g \in Requests /\ g \notin Creators /\ req[g].at \notin Receipting
  BY OrchestrationAssumption DEF Get, At, Requests, Receipting
<1>2. PICK x \in Creators : rows[x] # None /\ Adopt(g, AdvanceTo(rows[x]), x)
  BY DEF Get
<1>3. QED
  BY <1>1, <1>2, AdoptKeeps DEF Get

LEMMA WebhookArrivesKeeps == ASSUME IInv, NEW h \in Hooks, WebhookArrives(h) PROVE IInv'
<1>1. UNCHANGED <<store, req, env, fixed, settledBy>>
  BY DEF WebhookArrives
<1>2. PICK i \in Creators, status \in WebhookStatus :
         /\ instr[i] # None
         /\ sim' = [sim EXCEPT ![i] = WebhookSimulation(sim[i], status)]
         /\ hook' = [hook EXCEPT ![h] =
                       [at |-> "record", on |-> i,
                        got |-> ReportedStatus(WebhookSimulation(sim[i], status))]]
  BY DEF WebhookArrives, IInv, TypeOK
<1>3. /\ WebhookSimulation(sim[i], status) \in Simulation \cup {NoSimulation}
      /\ ReportedStatus(WebhookSimulation(sim[i], status)) \in PartnerStatus
  <2>1. sim[i] \in Simulation \cup {NoSimulation} /\ status \in PartnerStatus
    BY DEF IInv, TypeOK, WebhookStatus, PartnerStatus
  <2>2. \A s \in Simulation : [s EXCEPT !.status = status] \in Simulation
    BY <2>1 DEF Simulation
  <2>3. WebhookSimulation(sim[i], status) \in Simulation \cup {NoSimulation}
    BY <2>1, <2>2 DEF WebhookSimulation
  <2>4. QED
    BY <2>3, SimulationIs
<1>4. PICK d \in Delivery : hook' = [hook EXCEPT ![h] = d] /\ d.on = i
  <2>1. PICK got \in PartnerStatus : got = ReportedStatus(WebhookSimulation(sim[i], status))
    BY <1>3
  <2>2. \A s \in PartnerStatus : [at |-> "record", on |-> i, got |-> s] \in Delivery
    BY DEF Delivery
  <2>3. QED
    BY <1>2, <2>1, <2>2
<1>5. Grows
  BY <1>1 DEF Grows, store
<1>6. TypeOK'
  BY <1>1, <1>2, <1>3, <1>4 DEF IInv, TypeOK, store, env, fixed
<1>7. \A k \in Hooks : HookOK(hook[k])'
  <2>1. hook'[h] = d /\ \A k \in Hooks : k # h => hook'[k] = hook[k]
    BY <1>4 DEF IInv, TypeOK
  <2>2. QED
    BY <1>1, <1>2, <1>4, <2>1 DEF IInv, HookOK, store
<1>8. \A j \in Creators : sim'[j] # NoSimulation => sim[j] # NoSimulation \/ instr[j] # None
  <2>1. \A j \in Creators : j # i => sim'[j] = sim[j]
    BY <1>2 DEF IInv, TypeOK
  <2>2. QED
    BY <1>2, <2>1
<1>9. QED
  BY <1>1, <1>5, <1>6, <1>7, <1>8, Around DEF store, env

LEMMA RecordWebhookKeeps == ASSUME IInv, NEW h \in Hooks, RecordWebhook(h) PROVE IInv'
<1>1. /\ hook[h].at = "record" /\ instr' = [instr EXCEPT ![hook[h].on] = hook[h].got]
      /\ hook' = [hook EXCEPT ![h] = DeliveryAt("done")]
      /\ UNCHANGED <<rows, events, receipts, sim, req, env, fixed, settledBy>>
  BY DEF RecordWebhook
<1>2. hook[h].on \in Creators /\ instr[hook[h].on] # None /\ hook[h].got \in PartnerStatus
  BY <1>1 DEF IInv, HookOK, TypeOK, Delivery
<1>3. Grows /\ instr' \in [Creators -> PartnerStatus \cup {None}]
      /\ \A j \in Creators : j # hook[h].on => instr'[j] = instr[j]
  BY <1>1, <1>2, InstructionGrows
<1>4. PICK d \in Delivery : d = DeliveryAt("done") /\ d.at = "done"
  <2>1. DeliveryAt("done") \in Delivery /\ DeliveryAt("done").at = "done"
    BY DEF DeliveryAt, Delivery, PartnerStatus
  <2>2. QED
    BY <2>1
<1>5. TypeOK'
  BY <1>1, <1>3, <1>4 DEF IInv, TypeOK, env, fixed
<1>6. \A k \in Hooks : HookOK(hook[k])'
  <2>1. hook'[h] = d /\ \A k \in Hooks : k # h => hook'[k] = hook[k]
    BY <1>1, <1>4 DEF IInv, TypeOK
  <2>2. QED
    BY <1>3, <1>4, <2>1 DEF IInv, HookOK, Grows
<1>7. QED
  BY <1>1, <1>2, <1>3, <1>5, <1>6, Around DEF env

LEMMA EnvironmentKeeps == ASSUME IInv, MandateEnds \/ QuoteExpires PROVE IInv'
<1>1. /\ UNCHANGED <<store, sim, locals, faults, crashes, fixed, settledBy>>
      /\ mandate' = "verified" => mandate = "verified"
  BY DEF MandateEnds, QuoteExpires
<1>2. mandate' \in {"verified", "revoked", "expired"} /\ quote' \in {"live", "expired"}
  BY DEF MandateEnds, QuoteExpires, IInv, TypeOK
<1>3. TypeOK'
  BY <1>1, <1>2 DEF IInv, TypeOK, store, locals, fixed
<1>4. Grows
  BY <1>1 DEF Grows, store
<1>5. \A k \in Hooks : HookOK(hook[k])'
  BY <1>1, <1>4, HooksStay DEF locals
<1>6. QED
  BY <1>1, <1>3, <1>4, <1>5, Around DEF store, locals

LEMMA CrashKeeps == ASSUME IInv, Crash PROVE IInv'
<1>1. UNCHANGED <<store, mandate, quote, faults, fixed, settledBy>>
  BY DEF Crash
<1>2. Grows
  BY <1>1 DEF Grows, store
<1>3. \A q \in Requests : req'[q] \in Request /\ ReqOK(q, req[q])'
  <2>1. SUFFICES ASSUME NEW q \in Requests PROVE req'[q] \in Request /\ ReqOK(q, req[q])'
    OBVIOUS
  <2>2. PICK new \in Request : new = req'[q] /\ ReqOK(q, new)
    <3>1. CASE At(q, "get") \/ At(q, "lookup")
      BY <3>1, Here DEF Crash
    <3>2. CASE ~At(q, "get") /\ ~At(q, "lookup")
      BY <3>2, Over DEF Crash
    <3>3. QED
      BY <3>1, <3>2
  <2>3. ReqOK(q, new)'
    BY <1>2, <2>2, ReqStays
  <2>4. QED
    BY <2>2, <2>3 DEF ReqOK, SharedOK, ScreenOK, SettleOK
<1>4. \A h \in Hooks : hook'[h] \in Delivery /\ HookOK(hook[h])'
  BY <1>2 DEF Crash, IInv, TypeOK, HookOK, Delivery, DeliveryAt, PartnerStatus, Grows
<1>5. crashes' \in 0 .. MaxCrashes /\ crashes' # 0
  BY Facts DEF Crash, IInv, TypeOK
<1>6. req' \in [Requests -> Request] /\ hook' \in [Hooks -> Delivery]
  BY <1>3, <1>4 DEF Crash
<1>7. TypeOK'
  BY <1>1, <1>5, <1>6 DEF Crash, IInv, TypeOK, store, fixed
<1>8. (\A x \in Creators : rows[x] # None => RowOK(x, rows[x]))'
  BY <1>1, <1>2, Rows DEF store
<1>9. KeysApart'
  BY <1>1, ApartStays DEF store
<1>10. ScreenedBeforeDispatch'
  BY <1>1, StaysScreened DEF Crash, store
<1>11. ReceiptComing'
  BY <1>5 DEF ReceiptComing
<1>12. ReceiptsConfirmed'
  BY <1>1, <1>2, ReceiptsStay DEF store
<1>13. QED
  BY <1>3, <1>4, <1>7, <1>8, <1>9, <1>10, <1>11, <1>12 DEF IInv

-----------------------------------------------------------------------------
(* The invariant                                                           *)

LEMMA InitIInv == Init => IInv
<1>1. SUFFICES ASSUME Init PROVE IInv
  OBVIOUS
<1>2. TypeOK
  <2>1. DeliveryAt("webhook") \in Delivery
    BY DEF DeliveryAt, Delivery, PartnerStatus
  <2>2. RequestAt("lookup") \in Request /\ RequestAt("get") \in Request
    BY Facts DEF Location
  <2>3. QED
    BY <1>1, <2>1, <2>2, Facts DEF Init, TypeOK
<1>3. \A r \in Requests : ReqOK(r, req[r])
  <2>1. SUFFICES ASSUME NEW r \in Requests PROVE ReqOK(r, req[r])
    OBVIOUS
  <2>2. PICK at \in {"lookup", "get"} : req[r] = RequestAt(at)
    BY <1>1 DEF Init
  <2>3. req[r].at = at /\ req[r].on = None /\ req[r].copy = NewRow /\ NewRow.status = "CREATED"
    BY <2>2, Facts DEF Location
  <2>4. QED
    BY <2>3 DEF ReqOK, SharedOK, ScreenOK, SettleOK, Early, Saving, Granted, Sending, Receipting
<1>4. \A h \in Hooks : HookOK(hook[h])
  BY <1>1 DEF Init, HookOK, DeliveryAt
<1>5. KeysApart /\ ReceiptComing /\ ScreenedBeforeDispatch /\ ReceiptsConfirmed
      /\ \A x \in Creators : rows[x] # None => RowOK(x, rows[x])
  BY <1>1 DEF Init, KeysApart, ReceiptComing, ScreenedBeforeDispatch, ReceiptsConfirmed
<1>6. QED
  BY <1>2, <1>3, <1>4, <1>5 DEF IInv

LEMMA SettleStepKeeps == ASSUME IInv, NEW r \in Requests, SettleStep(r) PROVE IInv'
BY FailKeeps, PollKeeps, RecordReportKeeps, MarkSettlingKeeps, PollsSpentKeeps,
   RecordEventKeeps, MarkSettledKeeps, ReadMandateAgainKeeps, FindReceiptKeeps,
   RefuseReceiptKeeps, SaveReceiptKeeps, LinkReceiptKeeps DEF SettleStep

LEMMA CreateStepKeeps == ASSUME IInv, NEW c \in Creators, CreateStep(c) PROVE IInv'
BY LookupKeeps, ReadMandateKeeps, ReadRouteKeeps, SaveKeeps, RereadKeeps,
   RouteOrExpireKeeps, ComplyKeeps, RecheckKeeps, CheckLimitKeeps, BlockKeeps,
   ReserveKeeps, DispatchKeeps, SaveInstructionKeeps, MarkDispatchedKeeps DEF CreateStep

LEMMA StutterKeeps == ASSUME IInv, UNCHANGED vars PROVE IInv'
<1>1. Grows
  BY DEF Grows, vars, store
<1>2. TypeOK'
  BY DEF IInv, TypeOK, vars, store, locals, env, fixed
<1>3. \A k \in Hooks : HookOK(hook[k])'
  BY <1>1, HooksStay DEF vars, locals
<1>4. QED
  BY <1>1, <1>2, <1>3, Around DEF vars, store, locals, env

LEMMA NextIInv == IInv /\ [Next]_vars => IInv'
<1>1. SUFFICES ASSUME IInv, [Next]_vars PROVE IInv'
  OBVIOUS
<1>2. ASSUME NEW c \in Creators, CreateStep(c) PROVE IInv'
  BY <1>1, <1>2, CreateStepKeeps
<1>3. ASSUME NEW c \in Creators, DispatchWriteFails(c) PROVE IInv'
  BY <1>1, <1>3, DispatchWriteFailsKeeps
<1>4. ASSUME NEW r \in Requests, SettleStep(r) PROVE IInv'
  BY <1>1, <1>4, SettleStepKeeps
<1>5. ASSUME NEW g \in Readers, Get(g) PROVE IInv'
  BY <1>1, <1>5, GetKeeps
<1>6. ASSUME NEW h \in Hooks, WebhookArrives(h) \/ RecordWebhook(h) PROVE IInv'
  BY <1>1, <1>6, WebhookArrivesKeeps, RecordWebhookKeeps
<1>7. CASE MandateEnds \/ QuoteExpires
  BY <1>1, <1>7, EnvironmentKeeps
<1>8. CASE Crash
  BY <1>1, <1>8, CrashKeeps
<1>9. CASE UNCHANGED vars
  BY <1>1, <1>9, StutterKeeps
<1>10. QED
  BY <1>1, <1>2, <1>3, <1>4, <1>5, <1>6, <1>7, <1>8, <1>9 DEF Next, Finished

LEMMA Invariant == Spec => []IInv
BY InitIInv, NextIInv, PTL DEF Spec

-----------------------------------------------------------------------------
(* Theorems                                                                *)

\* The stores, the partner's memory and the requests in flight keep their
\* types, whatever copies the requests write back.
THEOREM TypeCorrect == Spec => []TypeOK
<1>1. IInv => TypeOK
  BY DEF IInv
<1>2. QED
  BY <1>1, Invariant, PTL

\* Only what compliance has passed and the mandate's scope covers reaches a
\* partner: a request that adopts another's CREATED row screens it itself.
THEOREM ScreenedBeforeDispatchHolds == Spec => []ScreenedBeforeDispatch
<1>1. IInv => ScreenedBeforeDispatch
  BY DEF IInv
<1>2. QED
  BY <1>1, Invariant, PTL

\* An idempotency key names at most one row, and a request that works on the
\* row of another has its key and its fingerprint: persist refuses a second row
\* and create compares the fingerprint before it adopts.
THEOREM KeyNamesOneRowHolds == Spec => []KeyNamesOneRow
<1>1. IInv => KeyNamesOneRow
  <2>1. SUFFICES ASSUME IInv PROVE KeyNamesOneRow
    OBVIOUS
  <2>2. ASSUME NEW c \in Creators PROVE Cardinality(Holders(c)) <= 1
    <3>1. CASE Holders(c) = {}
      BY <3>1, FS_EmptySet
    <3>2. ASSUME NEW x \in Creators, Holders(c) = {x} PROVE Cardinality(Holders(c)) <= 1
      <4>1. Cardinality({x}) = 1
        BY FS_Singleton
      <4>2. QED
        BY <3>2, <4>1
    <3>3. \A x, y \in Holders(c) : x = y
      BY <2>1 DEF IInv, KeysApart, Holders
    <3>4. \A x \in Holders(c) : x \in Creators
      BY DEF Holders
    <3>5. QED
      BY <3>1, <3>2, <3>3, <3>4
  <2>3. ASSUME NEW c \in Creators, req[c].on \notin {c, None}
        PROVE  /\ KeyOf(req[c].on) = KeyOf(c) /\ PayloadOf(req[c].on) = PayloadOf(c)
               /\ rows[req[c].on] # None
    BY <2>1, <2>3 DEF IInv, ReqOK, SharedOK, Requests
  <2>4. QED
    BY <2>2, <2>3 DEF KeyNamesOneRow
<1>2. QED
  BY <1>1, Invariant, PTL

\* A row that says it was dispatched holds a reservation and names a stored
\* instruction, although update replaces the whole row with a stale copy.
THEOREM SentIsBackedHolds == Spec => []SentIsBacked
<1>1. IInv => SentIsBacked
  BY DEF IInv, SentIsBacked, RowOK
<1>2. QED
  BY <1>1, Invariant, PTL

\* A row is SETTLED, or has a receipt, only after its partner told a poll so
\* and settle recorded the event.
THEOREM SettledIsConfirmedHolds == Spec => []SettledIsConfirmed
<1>1. IInv => SettledIsConfirmed
  BY DEF IInv, SettledIsConfirmed, RowOK, ReceiptsConfirmed, Confirmed
<1>2. QED
  BY <1>1, Invariant, PTL

\* A settled row nobody works on has its receipt, unless the mandate has ended,
\* the process has crashed, or the receipt's text would contain the payload's
\* beneficiary reference.
THEOREM SettledHasReceiptHolds == Spec => []SettledHasReceipt
<1>1. IInv => SettledHasReceipt
  BY DEF IInv, SettledHasReceipt, ReceiptComing, Leaks
<1>2. QED
  BY <1>1, Invariant, PTL

-----------------------------------------------------------------------------
(* What a request knows of its row at each await                           *)

Screening == {"recheck", "limit", "block", "reserve", "dispatch", "instruct", "dispatched"}

Polling == {"poll", "record", "settling", "event", "settled"}

Stage(at, status) ==
    /\ at = "routed" => status = "CREATED"
    /\ at = "comply" => status = "ROUTED"
    /\ at \in Screening => status = "COMPLIANCE_PASSED"
    /\ at \in Polling => status \in {"DISPATCHED", "SETTLING"}
    /\ at \in Receipting \cup {"link"} => status = "SETTLED"
    /\ at = "failed" => status \in {"COMPLIANCE_PASSED", "DISPATCHED", "SETTLING"}

\* A create that has still to save its row has none in the store.
Unsaved(r, q) == r \in Creators /\ q.at \in Rowless \ {"done"} => rows[r] = None

LInv ==
    /\ IInv
    /\ \A r \in Requests : Stage(req[r].at, req[r].copy.status) /\ Unsaved(r, req[r])

\* The shared life cycle takes a step or stays, and LInv survives.
Follows ==
    /\ (\A r \in Requests : Stage(req[r].at, req[r].copy.status) /\ Unsaved(r, req[r]))'
    /\ Shared!Next \/ UNCHANGED Shared!vars

LEMMA RowlessIs ==
    /\ Rowless = Early \cup Saving
    /\ Rowless \subseteq Location
    /\ \A at \in Rowless, status \in Status : Stage(at, status)
BY DEF Rowless, Early, Saving, Location, Stage, Screening, Polling, Receipting

LEMMA NextStatus ==
    /\ \A s \in Status : Shared!Alone!Successors(s) = Lifecycle!Successors(s)
    /\ "ROUTED" \in Lifecycle!Successors("CREATED")
    /\ "EXPIRED" \in Lifecycle!Successors("CREATED")
    /\ {"COMPLIANCE_PASSED", "COMPLIANCE_REVIEW", "BLOCKED"} \subseteq Lifecycle!Successors("ROUTED")
    /\ {"BLOCKED", "DISPATCHED", "FAILED"} \subseteq Lifecycle!Successors("COMPLIANCE_PASSED")
    /\ {"SETTLING", "SETTLED", "FAILED"} \subseteq Lifecycle!Successors("DISPATCHED")
    /\ {"SETTLED", "FAILED"} \subseteq Lifecycle!Successors("SETTLING")
    /\ Lifecycle!Successors(None) = {"CREATED"}
BY NoneAssumption DEF Shared!Alone!Successors, Lifecycle!Successors, Status

LEMMA HereToo ==
    ASSUME LInv, NEW r \in Requests
    PROVE  /\ IInv /\ TypeOK /\ req[r] \in Request
           /\ Stage(req[r].at, req[r].copy.status) /\ Unsaved(r, req[r])
           /\ req[r].copy \in Row /\ req[r].copy.status \in Status
           /\ req[r].at \notin Rowless => /\ req[r].on \in Creators /\ rows[req[r].on] # None
                                          /\ req[r].at \notin Early \cup Saving
BY Here, Working, RowlessIs DEF LInv, Row

\* The views and the statuses after a request's step.
LEMMA ViewsAre ==
    ASSUME TypeOK, NEW r \in Requests, NEW new \in Request, req' = [req EXCEPT ![r] = new]
    PROVE  /\ Views' = [Views EXCEPT ![r] = ViewOf(new)]
           /\ Views' = [q \in Requests |-> IF q = r THEN ViewOf(new) ELSE Views[q]]
           /\ Views[r] = ViewOf(req[r])
           /\ req'[r] = new /\ \A q \in Requests : q # r => req'[q] = req[q]
<1>1. req'[r] = new /\ \A q \in Requests : q # r => req'[q] = req[q]
  BY DEF TypeOK
<1>2. ViewOf(req'[r]) = ViewOf(new)
  BY <1>1
<1>3. \A q \in Requests : q # r => ViewOf(req'[q]) = ViewOf(req[q])
  BY <1>1
<1>4. Views' = [q \in Requests |-> ViewOf(req'[q])]
  BY DEF Views, ViewOf
<1>5. QED
  BY <1>1, <1>2, <1>3, <1>4 DEF Views

LEMMA StatusesAre ==
    ASSUME TypeOK, NEW x \in Creators, NEW row \in Row, rows' = [rows EXCEPT ![x] = row]
    PROVE  /\ Statuses' = [Statuses EXCEPT ![x] = row.status]
           /\ rows'[x] = row /\ rows'[x] # None
           /\ \A y \in Creators : y # x => rows'[y] = rows[y]
<1>1. /\ rows'[x] = row /\ row # None
      /\ \A y \in Creators : y # x => rows'[y] = rows[y]
  BY NoneAssumption DEF TypeOK
<1>2. /\ Statuses' = [y \in Creators |-> Statuses'[y]]
      /\ Statuses = [y \in Creators |-> Statuses[y]]
  BY DEF Statuses
<1>3. \A y \in Creators : Statuses'[y] = IF y = x THEN row.status ELSE Statuses[y]
  BY <1>1 DEF Statuses
<1>4. QED
  BY <1>1, <1>2, <1>3

\* The other requests stand where they stood.
LEMMA StagesStay ==
    ASSUME LInv, NEW r \in Requests, NEW new \in Request, req' = [req EXCEPT ![r] = new],
           Stage(new.at, new.copy.status), Unsaved(r, new)',
           \A x \in Creators : x # r /\ rows[x] = None => rows'[x] = None
    PROVE  (\A q \in Requests : Stage(req[q].at, req[q].copy.status) /\ Unsaved(q, req[q]))'
<1>1. req'[r] = new /\ \A q \in Requests : q # r => req'[q] = req[q]
  BY ViewsAre, HereToo
<1>2. SUFFICES ASSUME NEW q \in Requests
               PROVE  /\ Stage(req'[q].at, req'[q].copy.status)
                      /\ q \in Creators /\ req'[q].at \in Rowless \ {"done"} => rows'[q] = None
  BY DEF Stage, Unsaved, Rowless
<1>3. CASE q = r
  BY <1>1, <1>3 DEF Unsaved, Rowless
<1>4. CASE q # r
  BY <1>1, <1>4, HereToo DEF Unsaved
<1>5. QED
  BY <1>3, <1>4

-----------------------------------------------------------------------------
(* The steps of a request, as steps of the shared life cycle               *)

\* A request that goes on without a write.
LEMMA GoesOn ==
    ASSUME LInv, NEW r \in Requests, NEW new \in Request, req' = [req EXCEPT ![r] = new],
           UNCHANGED <<rows, settledBy>>, ViewOf(new) = ViewOf(req[r]),
           Stage(new.at, new.copy.status), Unsaved(r, new)
    PROVE  Follows
<1>1. Statuses' = Statuses
  BY DEF Statuses
<1>2. Views' = Views
  BY ViewsAre, HereToo DEF Views
<1>3. Unsaved(r, new)'
  BY DEF Unsaved
<1>4. QED
  BY <1>1, <1>2, <1>3, StagesStay DEF Follows, Shared!vars

\* A request that answers without a write.
LEMMA Answers ==
    ASSUME LInv, NEW r \in Requests, req' = [req EXCEPT ![r] = RequestAt("done")],
           UNCHANGED <<rows, settledBy>>
    PROVE  Follows
<1>1. PICK new \in Request : new = RequestAt("done") /\ new.at = "done" /\ new.copy = NewRow
  BY Facts DEF Location
<1>2. /\ ViewOf(new) = {} /\ Unsaved(r, new)' /\ Stage(new.at, new.copy.status)
  BY <1>1, Facts, RowlessIs DEF ViewOf, Rowless, Unsaved, Row
<1>3. Statuses' = Statuses
  BY DEF Statuses
<1>4. Views' = [q \in Requests |-> IF q \in {r} THEN {} ELSE Views[q]]
  <2>1. Views' = [q \in Requests |-> IF q = r THEN ViewOf(new) ELSE Views[q]]
    BY <1>1, ViewsAre, HereToo
  <2>2. QED
    BY <1>2, <2>1
<1>5. Shared!Leave({r})
  BY <1>3, <1>4 DEF Shared!Leave
<1>6. QED
  BY <1>1, <1>2, <1>5, StagesStay DEF Follows, Shared!Next

\* A request that saves its own row.
LEMMA Creates ==
    ASSUME LInv, NEW c \in Creators, NEW new \in Request, req' = [req EXCEPT ![c] = new],
           req[c].at = "save", rows' = [rows EXCEPT ![c] = NewRow], UNCHANGED settledBy,
           new.at = "routed", new.on = c, new.copy = NewRow
    PROVE  Follows
<1>1. c \in Requests /\ rows[c] = None /\ Views[c] = {} /\ Statuses[c] = None
  BY ViewsAre, HereToo DEF Requests, Unsaved, Rowless, ViewOf, Statuses
<1>2. /\ Statuses' = [Statuses EXCEPT ![c] = "CREATED"]
      /\ \A y \in Creators : y # c => rows'[y] = rows[y]
  <2>1. NewRow \in Row /\ NewRow.status = "CREATED" /\ TypeOK
    BY <1>1, Facts, HereToo
  <2>2. /\ Statuses' = [Statuses EXCEPT ![c] = NewRow.status]
        /\ \A y \in Creators : y # c => rows'[y] = rows[y]
    BY <2>1, StatusesAre
  <2>3. QED
    BY <2>1, <2>2, Zenon
<1>3. Views' = [Views EXCEPT ![c] = {[on |-> c, status |-> "CREATED"]}]
  <2>1. new.at \notin Rowless /\ new.copy.status = "CREATED"
    BY Facts DEF Rowless
  <2>2. ViewOf(new) = {[on |-> c, status |-> "CREATED"]}
    BY <2>1 DEF ViewOf
  <2>3. Views' = [Views EXCEPT ![c] = ViewOf(new)]
    BY <1>1, ViewsAre, HereToo
  <2>4. QED
    BY <2>2, <2>3, Zenon
<1>4. Shared!Create(c, c)
  BY <1>1, <1>2, <1>3 DEF Shared!Create, Shared!Seen
<1>5. Stage(new.at, new.copy.status) /\ Unsaved(c, new)'
  BY Facts DEF Stage, Screening, Polling, Receipting, Unsaved, Rowless
<1>6. QED
  BY <1>1, <1>2, <1>4, <1>5, StagesStay DEF Follows, Shared!Next

\* A request that takes up a stored row, or finds nothing to do on it.
LEMMA Adopts ==
    ASSUME LInv, NEW r \in Requests, req[r].at \in Rowless, UNCHANGED <<rows, settledBy>>,
           NEW x \in Creators, rows[x] # None, NEW to \in {"routed", "poll", "done"}, Adopt(r, to, x),
           to = "routed" => rows[x].status = "CREATED",
           to = "poll" => rows[x].status \in {"DISPATCHED", "SETTLING"}
    PROVE  Follows
<1>1. CASE to = "done"
  BY <1>1, Answers DEF Adopt
<1>2. CASE to # "done"
  <2>1. PICK new \in Request :
           req' = [req EXCEPT ![r] = new] /\ new.at = to /\ new.on = x /\ new.copy = rows[x]
    BY <1>2, HereToo, AdoptIs DEF Location
  <2>2. Views[r] = {} /\ Statuses[x] = rows[x].status /\ Statuses' = Statuses
    BY <2>1, ViewsAre, HereToo DEF ViewOf, Statuses
  <2>3. Views' = [Views EXCEPT ![r] = {[on |-> x, status |-> Statuses[x]]}]
    <3>1. ViewOf(new) = {[on |-> x, status |-> Statuses[x]]}
      BY <1>2, <2>1, <2>2 DEF ViewOf, Rowless
    <3>2. Views' = [Views EXCEPT ![r] = ViewOf(new)]
      BY <2>1, ViewsAre, HereToo
    <3>3. QED
      BY <3>1, <3>2, Zenon
  <2>4. Shared!Take(r, x)
    BY <1>2, <2>2, <2>3 DEF Shared!Take, Shared!Seen
  <2>5. Stage(new.at, new.copy.status) /\ Unsaved(r, new)'
    BY <1>2, <2>1 DEF Stage, Screening, Polling, Receipting, Unsaved, Rowless
  <2>6. QED
    BY <2>1, <2>4, <2>5, StagesStay DEF Follows, Shared!Next
<1>3. QED
  BY <1>1, <1>2

LEMMA GotoFollows ==
    ASSUME LInv, NEW r \in Requests, req[r].at \notin Rowless, UNCHANGED <<rows, settledBy>>,
           NEW to \in Location \ (Rowless \ {"done"}), Goto(r, to),
           to # "done" => Stage(to, req[r].copy.status)
    PROVE  Follows
<1>1. CASE to = "done"
  BY <1>1, Answers DEF Goto
<1>2. CASE to # "done"
  <2>1. PICK new \in Request :
           /\ req' = [req EXCEPT ![r] = new]
           /\ new.at = to /\ new.on = req[r].on /\ new.copy = req[r].copy
    BY <1>2, HereToo, GotoIs
  <2>2. ViewOf(new) = ViewOf(req[r]) /\ Unsaved(r, new)
    BY <1>2, <2>1 DEF ViewOf, Unsaved
  <2>3. QED
    BY <1>2, <2>1, <2>2, GoesOn
<1>3. QED
  BY <1>1, <1>2

\* store.update: the row becomes the request's copy, with the status it had in
\* the copy or one that may follow it.
LEMMA PutFollows ==
    ASSUME LInv, NEW r \in Requests, req[r].at \notin Rowless, UNCHANGED settledBy,
           NEW to \in Location \ (Rowless \ {"done"}), NEW row \in Row, Put(r, to, row),
           row.status \in Lifecycle!Successors(req[r].copy.status) \cup {req[r].copy.status},
           row.status = "SETTLED" => req[r].on \in settledBy,
           to # "done" => Stage(to, row.status)
    PROVE  Follows
<1> DEFINE x == req[r].on
<1>1. x \in Creators /\ rows[x] # None /\ rows' = [rows EXCEPT ![x] = row] /\ Carry(r, to, row)
  BY HereToo DEF Put
<1>2. /\ Statuses' = [Statuses EXCEPT ![x] = row.status]
      /\ \A y \in Creators : rows[y] = None => rows'[y] = None
  BY <1>1, StatusesAre, HereToo
<1>3. PICK new \in Request :
         /\ req' = [req EXCEPT ![r] = new] /\ Stage(new.at, new.copy.status) /\ new.at = to
         /\ to # "done" => new.on = x /\ new.copy = row
  <2>1. CASE to = "done"
    <3>1. PICK new \in Request : new = RequestAt("done") /\ new.at = "done" /\ new.copy = NewRow
      BY Facts DEF Location
    <3>2. QED
      <4>1. new.at \in Rowless /\ new.copy.status \in Status
        BY <3>1, Facts DEF Rowless, Row
      <4>2. Stage(new.at, new.copy.status)
        BY <4>1, RowlessIs
      <4>3. QED
        BY <1>1, <2>1, <3>1, <4>2 DEF Carry
  <2>2. CASE to # "done"
    BY <1>1, <2>2, CarryIs, HereToo
  <2>3. QED
    BY <2>1, <2>2
<1>4. /\ Views[r] = {[on |-> x, status |-> req[r].copy.status]}
      /\ Views' = [Views EXCEPT ![r] = {}] \/ Views' = [Views EXCEPT ![r] = {[on |-> x, status |-> row.status]}]
  <2>1. Views[r] = {[on |-> x, status |-> req[r].copy.status]}
    BY <1>3, ViewsAre, HereToo DEF ViewOf
  <2>2. ViewOf(new) = {} \/ ViewOf(new) = {[on |-> x, status |-> row.status]}
    <3>1. CASE to = "done"
      BY <1>3, <3>1 DEF ViewOf, Rowless
    <3>2. CASE to # "done"
      BY <1>3, <3>2 DEF ViewOf
    <3>3. QED
      BY <3>1, <3>2
  <2>3. Views' = [Views EXCEPT ![r] = ViewOf(new)]
    BY <1>3, ViewsAre, HereToo
  <2>4. QED
    BY <2>1, <2>2, <2>3
<1>5. Shared!Write(r)
  <2>1. PICK v \in Views[r] : v.on = x /\ v.status = req[r].copy.status
    BY <1>4
  <2>2. PICK s \in Shared!Alone!Successors(v.status) \cup {v.status} : s = row.status
    BY <2>1, NextStatus, HereToo
  <2>3. s = "SETTLED" => v.on \in settledBy
    BY <2>1, <2>2
  <2>4. Statuses' = [Statuses EXCEPT ![v.on] = s]
    BY <1>2, <2>1, <2>2, Zenon
  <2>5. \/ Views' = [Views EXCEPT ![r] = {[on |-> v.on, status |-> s]}]
        \/ Views' = [Views EXCEPT ![r] = {}]
    BY <1>4, <2>1, <2>2, Zenon
  <2>6. QED
    BY <2>2, <2>3, <2>4, <2>5 DEF Shared!Write, Shared!Seen
<1>6. Unsaved(r, new)'
  BY <1>3 DEF Unsaved, Rowless
<1>7. QED
  BY <1>2, <1>3, <1>5, <1>6, StagesStay DEF Follows, Shared!Next

LEMMA StatusFollows ==
    ASSUME LInv, NEW r \in Requests, req[r].at \notin Rowless, UNCHANGED settledBy,
           NEW to \in Location \ (Rowless \ {"done"}), NEW status \in Status,
           PutStatus(r, to, status),
           status \in Lifecycle!Successors(req[r].copy.status) \cup {req[r].copy.status},
           status = "SETTLED" => req[r].on \in settledBy,
           to # "done" => Stage(to, status)
    PROVE  Follows
<1>1. \A copy \in Row : LET changed == [copy EXCEPT !.status = status]
                        IN  changed \in Row /\ changed.status = status
  BY DEF Row
<1>2. PICK row \in Row : row = [req[r].copy EXCEPT !.status = status] /\ row.status = status
  BY <1>1, HereToo
<1>3. Put(r, to, row)
  BY <1>2 DEF PutStatus
<1>4. QED
  BY <1>2, <1>3, PutFollows

-----------------------------------------------------------------------------
(* Each action, as a step of the shared life cycle                         *)

LEMMA StageIs ==
    /\ \A s \in Status : Stage("done", s)
    /\ Stage("routed", "CREATED") /\ Stage("comply", "ROUTED")
    /\ \A at \in Screening \cup {"failed"} : Stage(at, "COMPLIANCE_PASSED")
    /\ \A at \in Polling \cup {"failed"} : Stage(at, "DISPATCHED") /\ Stage(at, "SETTLING")
    /\ \A at \in Receipting \cup {"link"} : Stage(at, "SETTLED")
    /\ \A at \in {"routed", "comply", "failed", "link"} \cup Screening \cup Polling \cup Receipting :
          at \in Location \ (Rowless \ {"done"}) /\ at \notin Rowless
    /\ "done" \in Location \ (Rowless \ {"done"})
BY DEF Stage, Screening, Polling, Receipting, Location, Rowless, Status

LEMMA UnsavedFollows ==
    ASSUME LInv, NEW c \in Creators, req[c].at \in {"lookup", "mandate", "route", "save"},
           NEW new \in Request, req' = [req EXCEPT ![c] = new],
           new.at \in {"mandate", "route", "save", "reread"}, UNCHANGED <<rows, settledBy>>
    PROVE  Follows
<1>1. c \in Requests /\ req[c].at \in Rowless /\ new.at \in Rowless /\ req[c].at # "done"
  BY DEF Requests, Rowless
<1>2. ViewOf(new) = ViewOf(req[c])
  BY <1>1 DEF ViewOf
<1>3. Unsaved(c, new)
  BY <1>1, HereToo DEF Unsaved
<1>4. Stage(new.at, new.copy.status)
  BY <1>1, RowlessIs DEF Request, Row
<1>5. QED
  BY <1>1, <1>2, <1>3, <1>4, GoesOn

LEMMA AdvanceFollows ==
    ASSUME LInv, NEW r \in Requests, req[r].at \in Rowless, UNCHANGED <<rows, settledBy>>,
           NEW x \in Creators, rows[x] # None, Adopt(r, AdvanceTo(rows[x]), x)
    PROVE  Follows
<1>1. PICK to \in {"routed", "poll", "done"} :
         /\ to = AdvanceTo(rows[x])
         /\ to = "poll" => rows[x].status \in {"DISPATCHED", "SETTLING"}
         /\ to # "routed"
  BY DEF AdvanceTo
<1>2. QED
  BY <1>1, Adopts

LEMMA LookupFollows == ASSUME LInv, NEW c \in Creators, Lookup(c) PROVE Follows
<1>1. /\ c \in Requests /\ req[c].at = "lookup" /\ req[c].at \in Rowless
      /\ UNCHANGED <<rows, settledBy>>
  BY DEF Lookup, At, Requests, Rowless, store
<1>2. CASE Goto(c, "mandate")
  <2>1. PICK new \in Request : req' = [req EXCEPT ![c] = new] /\ new.at = "mandate"
    BY <1>1, <1>2, GotoIs, HereToo DEF Location
  <2>2. QED
    BY <1>1, <2>1, UnsavedFollows
<1>3. ASSUME NEW x \in Holders(c), Adopt(c, AdvanceTo(rows[x]), x) PROVE Follows
  BY <1>1, <1>3, Shares, AdvanceFollows
<1>4. CASE Goto(c, "done")
  BY <1>1, <1>4, Answers DEF Goto
<1>5. QED
  BY <1>2, <1>3, <1>4 DEF Lookup

LEMMA ReadMandateFollows == ASSUME LInv, NEW c \in Creators, ReadMandate(c) PROVE Follows
<1>1. c \in Requests /\ req[c].at = "mandate" /\ UNCHANGED <<rows, settledBy>>
  BY DEF ReadMandate, At, Requests, store
<1>2. CASE Goto(c, "route")
  <2>1. PICK new \in Request : req' = [req EXCEPT ![c] = new] /\ new.at = "route"
    BY <1>1, <1>2, GotoIs, HereToo DEF Location
  <2>2. QED
    BY <1>1, <2>1, UnsavedFollows
<1>3. CASE Goto(c, "done")
  BY <1>1, <1>3, Answers DEF Goto
<1>4. QED
  BY <1>2, <1>3 DEF ReadMandate

LEMMA ReadRouteFollows == ASSUME LInv, NEW c \in Creators, ReadRoute(c) PROVE Follows
<1>1. c \in Requests /\ req[c].at = "route" /\ UNCHANGED <<rows, settledBy>>
  BY DEF ReadRoute, At, Requests, store
<1>2. PICK new \in Request : req' = [req EXCEPT ![c] = new] /\ new.at = "save"
  <2>1. PICK late \in BOOLEAN : late = (quote = "expired")
    OBVIOUS
  <2>2. req' = [req EXCEPT ![c] = [req[c] EXCEPT !.at = "save", !.on = c, !.late = late]]
    BY <1>1, <2>1, HereToo DEF ReadRoute, TypeOK
  <2>3. \A q \in Request : LET changed == [q EXCEPT !.at = "save", !.on = c, !.late = late]
                           IN  changed \in Request /\ changed.at = "save"
    BY DEF Request, Location
  <2>4. QED
    BY <1>1, <2>2, <2>3, HereToo
<1>3. QED
  BY <1>1, <1>2, UnsavedFollows

LEMMA SaveFollows == ASSUME LInv, NEW c \in Creators, Save(c) PROVE Follows
<1>1. /\ c \in Requests /\ req[c].at = "save" /\ UNCHANGED settledBy
      /\ req[c].on = c /\ req[c].copy = NewRow
  BY Here DEF LInv, Save, At, Requests, ReqOK, Saving
<1>2. CASE Goto(c, "reread") /\ UNCHANGED rows
  <2>1. PICK new \in Request : req' = [req EXCEPT ![c] = new] /\ new.at = "reread"
    BY <1>1, <1>2, GotoIs, HereToo DEF Location
  <2>2. QED
    BY <1>1, <1>2, <2>1, UnsavedFollows
<1>3. CASE Put(c, "routed", NewRow)
  <2>1. PICK new \in Request :
           /\ req' = [req EXCEPT ![c] = new]
           /\ new.at = "routed" /\ new.on = c /\ new.copy = NewRow
    BY <1>1, <1>3, Facts, CarryIs, HereToo DEF Put, Location
  <2>2. rows' = [rows EXCEPT ![c] = NewRow]
    BY <1>1, <1>3 DEF Put
  <2>3. QED
    BY <1>1, <2>1, <2>2, Creates
<1>4. QED
  BY <1>1, <1>2, <1>3 DEF Save

LEMMA RereadFollows == ASSUME LInv, NEW c \in Creators, Reread(c) PROVE Follows
<1>1. /\ c \in Requests /\ req[c].at \in Rowless /\ UNCHANGED <<rows, settledBy>>
  BY DEF Reread, At, Requests, Rowless, store
<1>2. ASSUME NEW x \in Holders(c), rows[x].status = "CREATED", Adopt(c, "routed", x)
      PROVE  Follows
  BY <1>1, <1>2, Shares, Adopts
<1>3. ASSUME NEW x \in Holders(c), Adopt(c, AdvanceTo(rows[x]), x) PROVE Follows
  BY <1>1, <1>3, Shares, AdvanceFollows
<1>4. CASE Goto(c, "done")
  BY <1>1, <1>4, Answers DEF Goto
<1>5. QED
  BY <1>2, <1>3, <1>4 DEF Reread

\* Where a request of the pipeline stands, and the status it knows of its row.
LEMMA InPipeline ==
    ASSUME LInv, NEW r \in Requests
    PROVE  /\ req[r].at = "routed" => req[r].at \notin Rowless /\ req[r].copy.status = "CREATED"
           /\ req[r].at = "comply" => req[r].at \notin Rowless /\ req[r].copy.status = "ROUTED"
           /\ req[r].at \in Screening =>
                req[r].at \notin Rowless /\ req[r].copy.status = "COMPLIANCE_PASSED"
           /\ req[r].at \in Polling =>
                req[r].at \notin Rowless /\ req[r].copy.status \in {"DISPATCHED", "SETTLING"}
           /\ req[r].at \in Receipting \cup {"link"} =>
                req[r].at \notin Rowless /\ req[r].copy.status = "SETTLED"
           /\ req[r].at = "failed" =>
                /\ req[r].at \notin Rowless
                /\ req[r].copy.status \in {"COMPLIANCE_PASSED", "DISPATCHED", "SETTLING"}
BY HereToo, StageIs DEF Stage

LEMMA RouteOrExpireFollows == ASSUME LInv, NEW c \in Creators, RouteOrExpire(c) PROVE Follows
<1>1. /\ c \in Requests /\ req[c].at \notin Rowless /\ req[c].copy.status = "CREATED"
      /\ UNCHANGED settledBy
  BY InPipeline DEF RouteOrExpire, At, Requests
<1>2. ASSUME NEW to \in {"done", "comply"}, NEW status \in {"EXPIRED", "ROUTED"},
             to = "comply" => status = "ROUTED", PutStatus(c, to, status)
      PROVE  Follows
  <2>1. status \in Status \cap Lifecycle!Successors("CREATED") /\ status # "SETTLED"
    BY NextStatus DEF Status
  <2>2. QED
    BY <1>1, <1>2, <2>1, StatusFollows, StageIs
<1>3. QED
  BY <1>2 DEF RouteOrExpire

LEMMA ComplyFollows == ASSUME LInv, NEW c \in Creators, Comply(c) PROVE Follows
<1>1. /\ c \in Requests /\ req[c].at \notin Rowless /\ req[c].copy.status = "ROUTED"
      /\ UNCHANGED settledBy
  BY InPipeline DEF Comply, At, Requests
<1>2. ASSUME NEW to \in {"done", "recheck"},
             NEW status \in {"BLOCKED", "COMPLIANCE_REVIEW", "COMPLIANCE_PASSED"},
             to = "recheck" => status = "COMPLIANCE_PASSED", PutStatus(c, to, status)
      PROVE  Follows
  <2>1. status \in Status \cap Lifecycle!Successors("ROUTED") /\ status # "SETTLED"
    BY NextStatus DEF Status
  <2>2. to \in Screening \cup {"done"}
    BY DEF Screening
  <2>3. QED
    BY <1>1, <1>2, <2>1, <2>2, StatusFollows, StageIs
<1>3. QED
  BY <1>2 DEF Comply

\* A request goes on in the pipeline, with the row as it was.
LEMMA ScreensOn ==
    ASSUME LInv, NEW c \in Requests, req[c].at \in Screening, UNCHANGED <<rows, settledBy>>,
           NEW to \in Screening \cup {"failed"}, Goto(c, to)
    PROVE  Follows
BY InPipeline, GotoFollows, StageIs

LEMMA BlockFollows ==
    ASSUME LInv, NEW c \in Requests, req[c].at \in Screening, UNCHANGED settledBy,
           PutStatus(c, "done", "BLOCKED")
    PROVE  Follows
<1>1. req[c].at \notin Rowless /\ req[c].copy.status = "COMPLIANCE_PASSED"
  BY InPipeline
<1>2. "BLOCKED" \in Status \cap Lifecycle!Successors("COMPLIANCE_PASSED")
  BY NextStatus DEF Status
<1>3. QED
  BY <1>1, <1>2, StatusFollows, StageIs

LEMMA CheckFollows ==
    ASSUME LInv, NEW c \in Creators, Recheck(c) \/ CheckLimit(c) \/ Block(c)
    PROVE  Follows
<1>1. c \in Requests /\ req[c].at \in Screening /\ UNCHANGED settledBy
  BY DEF Recheck, CheckLimit, Block, At, Requests, Screening
<1>2. CASE PutStatus(c, "done", "BLOCKED")
  BY <1>1, <1>2, BlockFollows
<1>3. ASSUME NEW to \in {"limit", "reserve", "block"}, Goto(c, to), UNCHANGED rows
      PROVE  Follows
  <2>1. to \in Screening
    BY DEF Screening
  <2>2. QED
    BY <1>1, <1>3, <2>1, ScreensOn
<1>4. QED
  BY <1>2, <1>3 DEF Recheck, CheckLimit, Block, store

LEMMA ReserveFollows == ASSUME LInv, NEW c \in Creators, Reserve(c) PROVE Follows
<1>1. /\ c \in Requests /\ req[c].at \in Screening /\ UNCHANGED settledBy
      /\ "dispatch" \in Screening
  BY DEF Reserve, At, Requests, Screening
<1>2. req[c].at \notin Rowless /\ req[c].copy.status = "COMPLIANCE_PASSED" /\ req[c].copy \in Row
  BY <1>1, InPipeline, HereToo
<1>3. \A copy \in Row : LET changed == [copy EXCEPT !.reserved = TRUE]
                        IN  changed \in Row /\ changed.status = copy.status
  BY DEF Row
<1>4. PICK row \in Row : /\ row = [req[c].copy EXCEPT !.reserved = TRUE]
                         /\ row.status = "COMPLIANCE_PASSED"
  BY <1>2, <1>3
<1>5. Put(c, "dispatch", row)
  BY <1>4 DEF Reserve
<1>6. QED
  BY <1>1, <1>2, <1>4, <1>5, PutFollows, StageIs

LEMMA DispatchFollows ==
    ASSUME LInv, NEW c \in Creators,
           Dispatch(c) \/ SaveInstruction(c) \/ DispatchWriteFails(c)
    PROVE  Follows
<1>1. c \in Requests /\ req[c].at \in Screening /\ UNCHANGED <<rows, settledBy>>
  BY DEF Dispatch, SaveInstruction, DispatchWriteFails, At, Requests, Screening, store
<1>2. PICK to \in {"failed", "instruct", "dispatched"} : Goto(c, to)
  BY DEF Dispatch, SaveInstruction, DispatchWriteFails
<1>3. to \in Screening \cup {"failed"}
  BY DEF Screening
<1>4. QED
  BY <1>1, <1>2, <1>3, ScreensOn

LEMMA MarkDispatchedFollows == ASSUME LInv, NEW c \in Creators, MarkDispatched(c) PROVE Follows
<1>1. /\ c \in Requests /\ req[c].at \in Screening /\ UNCHANGED settledBy
      /\ "poll" \in Polling
  BY DEF MarkDispatched, At, Requests, Screening, Polling
<1>2. req[c].at \notin Rowless /\ req[c].copy.status = "COMPLIANCE_PASSED" /\ req[c].copy \in Row
  BY <1>1, InPipeline, HereToo
<1>3. \A copy \in Row : LET changed == [copy EXCEPT !.status = "DISPATCHED", !.instr = c]
                        IN  changed \in Row /\ changed.status = "DISPATCHED"
  BY DEF Row, Status
<1>4. PICK row \in Row : /\ row = [req[c].copy EXCEPT !.status = "DISPATCHED", !.instr = c]
                         /\ row.status = "DISPATCHED"
  BY <1>2, <1>3
<1>5. Put(c, "poll", row) /\ row.status \in Lifecycle!Successors("COMPLIANCE_PASSED")
  BY <1>4, NextStatus DEF MarkDispatched
<1>6. QED
  BY <1>1, <1>2, <1>4, <1>5, PutFollows, StageIs

LEMMA FailFollows == ASSUME LInv, NEW r \in Requests, Fail(r) PROVE Follows
<1>1. /\ req[r].at \notin Rowless /\ UNCHANGED settledBy
      /\ req[r].copy.status \in {"COMPLIANCE_PASSED", "DISPATCHED", "SETTLING"}
  BY InPipeline DEF Fail, At
<1>2. "FAILED" \in Status \cap Lifecycle!Successors(req[r].copy.status)
  BY <1>1, NextStatus DEF Status
<1>3. QED
  BY <1>1, <1>2, StatusFollows, StageIs DEF Fail

\* A poll that hears of the settlement confirms it for the row it works on.
LEMMA PollFollows == ASSUME LInv, NEW r \in Requests, Poll(r) PROVE Follows
<1> DEFINE i == req[r].copy.instr
           got == ReportedStatus(PollSimulation(sim[i]))
<1>1. /\ req[r].at = "poll" /\ req[r].at \in Polling /\ UNCHANGED rows
      /\ settledBy' = settledBy \/ settledBy' = settledBy \cup {req[r].on}
      /\ "record" \in Polling
  BY DEF Poll, At, Polling, store
<1>2. /\ req[r].at \notin Rowless /\ req[r].copy.status \in {"DISPATCHED", "SETTLING"}
      /\ req[r].at \notin Early \cup Saving
  BY <1>1, InPipeline, RowlessIs
<1>3. PICK status \in PartnerStatus : status = got
  <2>1. i \in Creators
    BY <1>1, <1>2, Working, Here DEF LInv, SettleOK, Sending, Row
  <2>2. QED
    BY <2>1, SimulationIs, HereToo DEF TypeOK
<1>4. PICK new \in Request :
         /\ req' = [req EXCEPT ![r] = new]
         /\ new.at = "record" /\ new.on = req[r].on /\ new.copy = req[r].copy
  <2>1. req' = [req EXCEPT ![r] = [req[r] EXCEPT !.at = "record", !.got = status]]
    BY <1>3, HereToo DEF Poll, TypeOK
  <2>2. \A q \in Request :
           LET changed == [q EXCEPT !.at = "record", !.got = status]
           IN  /\ changed \in Request /\ changed.at = "record" /\ changed.on = q.on
               /\ changed.copy = q.copy
    BY DEF Request, Location
  <2>3. QED
    BY <2>1, <2>2, HereToo
<1> HIDE DEF i, got
<1>5. ViewOf(new) = ViewOf(req[r]) /\ Unsaved(r, new) /\ Unsaved(r, new)'
      /\ Stage(new.at, new.copy.status)
  BY <1>1, <1>2, <1>4, StageIs DEF ViewOf, Unsaved, Rowless
<1>6. CASE settledBy' = settledBy
  BY <1>1, <1>4, <1>5, <1>6, GoesOn
<1>7. CASE settledBy' = settledBy \cup {req[r].on}
  <2>1. Statuses' = Statuses
    BY <1>1 DEF Statuses
  <2>2. Views' = Views
    <3>1. Views' = [q \in Requests |-> ViewOf(req'[q])]
      BY DEF Views, ViewOf
    <3>2. \A q \in Requests : ViewOf(req'[q]) = ViewOf(req[q])
      BY <1>4, <1>5, ViewsAre, HereToo
    <3>3. QED
      BY <3>1, <3>2 DEF Views
  <2>3. PICK v \in Views[r] : v.on = req[r].on /\ v.status = req[r].copy.status
    <3>1. Views[r] = ViewOf(req[r])
      BY <1>4, ViewsAre, HereToo
    <3>2. ViewOf(req[r]) = {[on |-> req[r].on, status |-> req[r].copy.status]}
      BY <1>2 DEF ViewOf
    <3>3. QED
      BY <3>1, <3>2
  <2>4. Shared!Confirm(r)
    BY <1>2, <1>7, <2>1, <2>2, <2>3 DEF Shared!Confirm
  <2>5. QED
    BY <1>1, <1>4, <1>5, <2>4, StagesStay DEF Follows, Shared!Next
<1>8. QED
  BY <1>1, <1>6, <1>7

LEMMA RecordReportFollows == ASSUME LInv, NEW r \in Requests, RecordReport(r) PROVE Follows
<1>1. req[r].at = "record" /\ req[r].at \in Polling /\ UNCHANGED <<rows, settledBy>>
  BY DEF RecordReport, At, Polling
<1>2. /\ req[r].at \notin Rowless /\ req[r].copy.status \in {"DISPATCHED", "SETTLING"}
      /\ req[r].at \notin Early \cup Saving
  BY <1>1, InPipeline, RowlessIs
<1>3. PICK to \in {"event", "failed", "settling", "poll"} : to = AfterReport(r)
  BY DEF AfterReport
<1>4. req[r].polls + 1 \in 0 .. MaxPolls
  <2>1. req[r].polls < MaxPolls
    BY <1>1, <1>2, Working DEF LInv, SettleOK
  <2>2. req[r].polls \in 0 .. MaxPolls
    BY HereToo DEF Request
  <2>3. QED
    BY <2>1, <2>2, Facts
<1>5. PICK new \in Request :
         /\ req' = [req EXCEPT ![r] = new]
         /\ new.at = to /\ new.on = req[r].on /\ new.copy = req[r].copy
  <2>1. req' = [req EXCEPT ![r] =
                  [req[r] EXCEPT !.at = to, !.got = "accepted", !.polls = req[r].polls + 1]]
    BY <1>3, HereToo DEF RecordReport, TypeOK
  <2>2. \A q \in Request, polls \in 0 .. MaxPolls :
           LET changed == [q EXCEPT !.at = to, !.got = "accepted", !.polls = polls]
           IN  /\ changed \in Request /\ changed.at = to
               /\ changed.on = q.on /\ changed.copy = q.copy
    BY ZenonT(60) DEF Request, Location, PartnerStatus
  <2>3. QED
    BY <1>4, <2>1, <2>2, HereToo, ZenonT(60)
<1>6. to \in Polling \cup {"failed"}
  BY DEF Polling
<1>7. ViewOf(new) = ViewOf(req[r]) /\ Unsaved(r, new) /\ Stage(new.at, new.copy.status)
  <2>1. new.at \notin Rowless /\ Stage(new.at, new.copy.status)
    BY <1>2, <1>5, <1>6, StageIs
  <2>2. QED
    BY <1>2, <1>5, <2>1 DEF ViewOf, Unsaved
<1>8. QED
  BY <1>1, <1>5, <1>7, GoesOn

LEMMA MarkSettlingFollows ==
    ASSUME LInv, NEW r \in Requests, MarkSettling(r) \/ PollsSpent(r)
    PROVE  Follows
<1>1. /\ req[r].at \in Polling /\ UNCHANGED settledBy /\ "poll" \in Polling
  BY DEF MarkSettling, PollsSpent, At, Polling
<1>2. req[r].at \notin Rowless /\ req[r].copy.status \in {"DISPATCHED", "SETTLING"}
  BY <1>1, InPipeline
<1>3. /\ "SETTLING" \in Lifecycle!Successors(req[r].copy.status) \cup {req[r].copy.status}
      /\ "SETTLING" \in Status
  BY <1>2, NextStatus DEF Status
<1>4. PICK to \in {"poll", "done"} : PutStatus(r, to, "SETTLING")
  BY DEF MarkSettling, PollsSpent
<1>5. QED
  BY <1>1, <1>2, <1>3, <1>4, StatusFollows, StageIs

LEMMA RecordEventFollows == ASSUME LInv, NEW r \in Requests, RecordEvent(r) PROVE Follows
<1>1. req[r].at \in Polling /\ UNCHANGED <<rows, settledBy>> /\ "settled" \in Polling
  BY DEF RecordEvent, At, Polling
<1>2. QED
  BY <1>1, InPipeline, GotoFollows, StageIs DEF RecordEvent

LEMMA MarkSettledFollows == ASSUME LInv, NEW r \in Requests, MarkSettled(r) PROVE Follows
<1>1. /\ req[r].at = "settled" /\ req[r].at \in Polling /\ UNCHANGED settledBy
      /\ "remandate" \in Receipting
  BY DEF MarkSettled, At, Polling, Receipting
<1>2. /\ req[r].at \notin Rowless /\ req[r].copy.status \in {"DISPATCHED", "SETTLING"}
      /\ req[r].at \notin Early \cup Saving
  BY <1>1, InPipeline, RowlessIs
<1>3. req[r].on \in settledBy
  BY <1>1, <1>2, Working DEF LInv, SettleOK, Confirmed
<1>4. "SETTLED" \in Status \cap Lifecycle!Successors(req[r].copy.status)
  BY <1>2, NextStatus DEF Status
<1>5. QED
  BY <1>1, <1>2, <1>3, <1>4, StatusFollows, StageIs DEF MarkSettled

LEMMA ReceiptFollows ==
    ASSUME LInv, NEW r \in Requests,
           ReadMandateAgain(r) \/ FindReceipt(r) \/ RefuseReceipt(r) \/ SaveReceipt(r)
    PROVE  Follows
<1>1. /\ req[r].at \in Receipting /\ UNCHANGED <<rows, settledBy>>
  BY DEF ReadMandateAgain, FindReceipt, RefuseReceipt, SaveReceipt, At, Receipting, store
<1>2. PICK to \in {"issue", "sign", "link", "done"} : Goto(r, to)
  BY DEF ReadMandateAgain, FindReceipt, RefuseReceipt, SaveReceipt
<1>3. to \in Receipting \cup {"link", "done"}
  BY DEF Receipting
<1>4. QED
  BY <1>1, <1>2, <1>3, InPipeline, GotoFollows, StageIs

LEMMA LinkReceiptFollows == ASSUME LInv, NEW r \in Requests, LinkReceipt(r) PROVE Follows
<1>1. /\ req[r].at = "link" /\ UNCHANGED settledBy
  BY DEF LinkReceipt, At
<1>2. /\ req[r].at \notin Rowless /\ req[r].copy.status = "SETTLED" /\ req[r].copy \in Row
      /\ req[r].at \notin Early \cup Saving
  BY <1>1, InPipeline, HereToo, RowlessIs
<1>3. req[r].on \in settledBy
  BY <1>1, <1>2, Working DEF LInv, SettleOK, Confirmed
<1>4. \A copy \in Row : LET changed == [copy EXCEPT !.receipt = TRUE]
                        IN  changed \in Row /\ changed.status = copy.status
  BY DEF Row
<1>5. PICK row \in Row : row = [req[r].copy EXCEPT !.receipt = TRUE] /\ row.status = "SETTLED"
  BY <1>2, <1>4
<1>6. Put(r, "done", row)
  BY <1>5 DEF LinkReceipt
<1>7. QED
  BY <1>1, <1>2, <1>3, <1>5, <1>6, PutFollows, StageIs

LEMMA GetFollows == ASSUME LInv, NEW g \in Readers, Get(g) PROVE Follows
<1>1. g \in Requests /\ req[g].at \in Rowless /\ UNCHANGED <<rows, settledBy>>
  BY DEF Get, At, Requests, Rowless, store
<1>2. PICK x \in Creators : rows[x] # None /\ Adopt(g, AdvanceTo(rows[x]), x)
  BY DEF Get
<1>3. QED
  BY <1>1, <1>2, AdvanceFollows

\* Webhooks and the environment touch neither the rows nor the requests.
LEMMA AroundFollows == ASSUME LInv, UNCHANGED <<rows, req, settledBy>> PROVE Follows
<1>1. UNCHANGED Shared!vars
  BY DEF Shared!vars, Statuses, Views, ViewOf
<1>2. (\A r \in Requests : Stage(req[r].at, req[r].copy.status) /\ Unsaved(r, req[r]))'
  BY DEF LInv, Stage, Unsaved, Rowless
<1>3. QED
  BY <1>1, <1>2 DEF Follows

\* A crash takes every working request down at once.
LEMMA CrashFollows == ASSUME LInv, Crash PROVE Follows
<1>1. /\ UNCHANGED <<rows, settledBy>>
      /\ req' = [r \in Requests |-> IF At(r, "get") \/ At(r, "lookup")
                                      THEN req[r] ELSE RequestAt("done")]
  BY DEF Crash, store
<1>2. PICK over \in Request : /\ over = RequestAt("done") /\ over.at = "done"
                              /\ over.copy = NewRow
  BY Facts DEF Location
<1>3. \A r \in Requests : (req'[r] = req[r] /\ req[r].at \in {"get", "lookup"}) \/ req'[r] = over
  BY <1>1, <1>2 DEF At
<1>4. \A r \in Requests : ViewOf(req'[r]) = {}
  BY <1>2, <1>3 DEF ViewOf, Rowless
<1>5. Views' = [r \in Requests |-> IF r \in Requests THEN {} ELSE Views[r]]
  <2>1. Views' = [r \in Requests |-> ViewOf(req'[r])]
    BY DEF Views, ViewOf
  <2>2. QED
    BY <1>4, <2>1
<1>6. Statuses' = Statuses
  BY <1>1 DEF Statuses
<1>7. Shared!Leave(Requests)
  BY <1>1, <1>5, <1>6 DEF Shared!Leave
<1>8. ASSUME NEW r \in Requests
      PROVE  /\ Stage(req'[r].at, req'[r].copy.status)
             /\ r \in Creators /\ req'[r].at \in Rowless \ {"done"} => rows'[r] = None
  <2>1. CASE req'[r] = req[r]
    BY <1>1, <2>1, HereToo DEF Unsaved
  <2>2. CASE req'[r] = over
    BY <1>2, <2>2, Facts DEF Stage, Screening, Polling, Receipting
  <2>3. QED
    BY <1>3, <2>1, <2>2
<1>9. QED
  BY <1>7, <1>8 DEF Follows, Shared!Next, Stage, Unsaved, Rowless

LEMMA InitLInv == Init => LInv
<1>1. SUFFICES ASSUME Init, NEW r \in Requests
               PROVE  Stage(req[r].at, req[r].copy.status) /\ Unsaved(r, req[r])
  BY InitIInv DEF LInv
<1>2. PICK at \in {"lookup", "get"} : req[r] = RequestAt(at)
  BY <1>1 DEF Init
<1>3. req[r].at = at
  BY <1>2, Facts DEF Location
<1>4. QED
  BY <1>1, <1>3 DEF Stage, Screening, Polling, Receipting, Unsaved, Init

LEMMA StepFollows == ASSUME LInv, [Next]_vars PROVE Follows
<1>1. ASSUME NEW c \in Creators, CreateStep(c) \/ DispatchWriteFails(c) PROVE Follows
  BY <1>1, LookupFollows, ReadMandateFollows, ReadRouteFollows, SaveFollows, RereadFollows,
     RouteOrExpireFollows, ComplyFollows, CheckFollows, ReserveFollows, DispatchFollows,
     MarkDispatchedFollows DEF CreateStep
<1>2. ASSUME NEW r \in Requests, SettleStep(r) PROVE Follows
  BY <1>2, FailFollows, PollFollows, RecordReportFollows, MarkSettlingFollows,
     RecordEventFollows, MarkSettledFollows, ReceiptFollows, LinkReceiptFollows DEF SettleStep
<1>3. ASSUME NEW h \in Hooks, WebhookArrives(h) \/ RecordWebhook(h) PROVE Follows
  BY <1>3, AroundFollows DEF WebhookArrives, RecordWebhook, store
<1>4. CASE MandateEnds \/ QuoteExpires
  BY <1>4, AroundFollows DEF MandateEnds, QuoteExpires, store, locals
<1>5. CASE UNCHANGED vars
  BY <1>5, AroundFollows DEF vars, store, locals
<1>6. QED
  BY <1>1, <1>2, <1>3, <1>4, <1>5, GetFollows, CrashFollows DEF Next, Finished

LEMMA InvariantToo == Spec => []LInv
<1>1. LInv /\ [Next]_vars => LInv'
  BY StepFollows, NextIInv DEF LInv, Follows
<1>2. QED
  BY <1>1, InitLInv, PTL DEF Spec

-----------------------------------------------------------------------------
(* The life cycle                                                          *)

LEMMA InitShared == Init => Shared!Init
<1>1. SUFFICES ASSUME Init PROVE Shared!Init
  OBVIOUS
<1>2. \A r \in Requests : ViewOf(req[r]) = {}
  <2>1. SUFFICES ASSUME NEW r \in Requests PROVE ViewOf(req[r]) = {}
    OBVIOUS
  <2>2. PICK at \in {"lookup", "get"} : req[r] = RequestAt(at)
    BY <1>1 DEF Init
  <2>3. QED
    BY <2>2, Facts DEF ViewOf, Rowless, Location
<1>3. QED
  BY <1>1, <1>2 DEF Init, Shared!Init, Statuses, Views

\* Whatever rows the requests share, every write is the documented successor of
\* the status its writer last read or wrote, SETTLED needs a confirmation, and
\* only a row that is CREATED, DISPATCHED or SETTLING is taken up.
THEOREM SharedRefines == Spec => FollowsSharedLifecycle
<1>1. LInv /\ [Next]_vars => [Shared!Next]_(Shared!vars)
  BY StepFollows DEF Follows
<1>2. QED
  BY <1>1, InitShared, InvariantToo, PTL DEF Spec, FollowsSharedLifecycle, Shared!Spec

\* What each request knows of its row is so.
Fresh == \A r \in Requests : \A v \in Views[r] : Statuses[v.on] = v.status

LEMMA ViewsKnow ==
    ASSUME LInv
    PROVE  /\ Statuses \in [Creators -> Status \cup {None}]
           /\ \A r \in Requests : \A v \in Views[r] : v.on \in Creators /\ v.status \in Status
           /\ NoneShared => \A q, r \in Requests :
                 q # r => \A v \in Views[q], w \in Views[r] : v.on # w.on
<1>1. TypeOK
  BY DEF LInv, IInv
<1>2. Statuses \in [Creators -> Status \cup {None}]
  BY <1>1 DEF Statuses, TypeOK, Row
<1>3. ASSUME NEW r \in Requests, NEW v \in Views[r]
      PROVE  /\ req[r].at \notin Rowless /\ v.on = req[r].on /\ v.status = req[r].copy.status
             /\ v.on \in Creators /\ v.status \in Status
  <2>1. req[r].at \notin Rowless /\ v.on = req[r].on /\ v.status = req[r].copy.status
    BY <1>3 DEF Views, ViewOf
  <2>2. QED
    BY <2>1, HereToo
<1>4. QED
  BY <1>2, <1>3 DEF NoneShared

LEMMA AloneStep ==
    ASSUME LInv, NoneShared, Fresh, Shared!Next
    PROVE  Fresh' /\ (Lifecycle!Next \/ UNCHANGED Lifecycle!vars)
<1>1. /\ Statuses \in [Creators -> Status \cup {None}] /\ None \notin Status
      /\ Views = [r \in Requests |-> Views[r]]
  BY ViewsKnow, NoneAssumption DEF Views
<1>2. ASSUME NEW r \in Requests, Shared!Write(r)
      PROVE  Fresh' /\ (Lifecycle!Next \/ UNCHANGED Lifecycle!vars)
  <2>1. PICK v \in Views[r] : \E s \in Shared!Alone!Successors(v.status) \cup {v.status} :
           /\ s = "SETTLED" => v.on \in settledBy
           /\ Statuses' = [Statuses EXCEPT ![v.on] = s]
           /\ \/ Views' = [Views EXCEPT ![r] = {[on |-> v.on, status |-> s]}]
              \/ Views' = [Views EXCEPT ![r] = {}]
    BY <1>2 DEF Shared!Write, Shared!Seen
  <2>2. PICK s \in Shared!Alone!Successors(v.status) \cup {v.status} :
           /\ s = "SETTLED" => v.on \in settledBy
           /\ Statuses' = [Statuses EXCEPT ![v.on] = s]
           /\ \/ Views' = [Views EXCEPT ![r] = {[on |-> v.on, status |-> s]}]
              \/ Views' = [Views EXCEPT ![r] = {}]
    BY <2>1
  <2>3. v.on \in Creators /\ v.status \in Status /\ Statuses[v.on] = v.status
    BY ViewsKnow DEF Fresh
  <2>4. s \in Lifecycle!Successors(Statuses[v.on]) \cup {Statuses[v.on]}
    BY <2>3, NextStatus
  <2>5. UNCHANGED settledBy
    BY <1>2 DEF Shared!Write
  <2>6. Lifecycle!Next \/ UNCHANGED Lifecycle!vars
    <3>1. CASE s = Statuses[v.on]
      <4>1. Statuses' = Statuses
        BY <1>1, <2>2, <2>3, <3>1
      <4>2. QED
        BY <2>5, <4>1 DEF Lifecycle!vars
    <3>2. CASE s \in Lifecycle!Successors(Statuses[v.on])
      BY <2>2, <2>3, <2>5, <3>2 DEF Lifecycle!Next, Lifecycle!Move
    <3>3. QED
      BY <2>4, <3>1, <3>2
  <2>7. ASSUME NEW q \in Requests, NEW w \in Views'[q] PROVE Statuses'[w.on] = w.status
    <3>1. CASE q = r
      BY <1>1, <2>2, <2>3, <2>7, <3>1
    <3>2. CASE q # r
      <4>1. w \in Views[q]
        BY <1>1, <2>2, <2>7, <3>2
      <4>2. w.on # v.on /\ w.on \in Creators /\ Statuses[w.on] = w.status
        BY <3>2, <4>1, ViewsKnow DEF Fresh
      <4>3. QED
        BY <1>1, <2>2, <4>2
    <3>3. QED
      BY <3>1, <3>2
  <2>8. QED
    BY <2>6, <2>7 DEF Fresh
<1>3. ASSUME NEW r \in Requests, NEW x \in Creators, Shared!Create(r, x)
      PROVE  Fresh' /\ Lifecycle!Next
  <2>1. /\ Statuses[x] = None /\ Statuses' = [Statuses EXCEPT ![x] = "CREATED"]
        /\ Views' = [Views EXCEPT ![r] = {[on |-> x, status |-> "CREATED"]}]
        /\ UNCHANGED settledBy
    BY <1>3 DEF Shared!Create, Shared!Seen
  <2>2. Lifecycle!Move(x)
    BY <2>1, NextStatus DEF Lifecycle!Move
  <2>3. ASSUME NEW q \in Requests, NEW w \in Views'[q] PROVE Statuses'[w.on] = w.status
    <3>1. CASE q = r
      BY <1>1, <2>1, <2>3, <3>1
    <3>2. CASE q # r
      <4>1. w \in Views[q]
        BY <1>1, <2>1, <2>3, <3>2
      <4>2. w.on \in Creators /\ Statuses[w.on] = w.status /\ w.status \in Status
        BY <4>1, ViewsKnow DEF Fresh
      <4>3. QED
        BY <1>1, <2>1, <4>2
    <3>3. QED
      BY <3>1, <3>2
  <2>4. QED
    BY <2>2, <2>3 DEF Fresh, Lifecycle!Next
<1>4. ASSUME NEW r \in Requests, NEW x \in Creators, Shared!Take(r, x)
      PROVE  Fresh' /\ UNCHANGED Lifecycle!vars
  <2>1. /\ Views' = [Views EXCEPT ![r] = {[on |-> x, status |-> Statuses[x]]}]
        /\ UNCHANGED <<Statuses, settledBy>>
    BY <1>4 DEF Shared!Take, Shared!Seen
  <2>2. \A q \in Requests : \A w \in Views'[q] :
           w \in Views[q] \/ w = [on |-> x, status |-> Statuses[x]]
    BY <1>1, <2>1
  <2>3. Fresh'
    BY <2>1, <2>2 DEF Fresh
  <2>4. QED
    BY <2>1, <2>3 DEF Lifecycle!vars
<1>5. ASSUME NEW r \in Requests, Shared!Confirm(r) PROVE Fresh' /\ Lifecycle!Next
  <2>1. PICK v \in Views[r] : /\ v.status \in {"DISPATCHED", "SETTLING"}
                              /\ settledBy' = settledBy \cup {v.on}
    BY <1>5 DEF Shared!Confirm
  <2>2. v.on \in Creators /\ Statuses[v.on] = v.status /\ UNCHANGED <<Statuses, Views>>
    BY <1>5, ViewsKnow DEF Fresh, Shared!Confirm
  <2>3. Lifecycle!Confirm(v.on)
    BY <2>1, <2>2 DEF Lifecycle!Confirm
  <2>4. Fresh'
    BY <2>2 DEF Fresh
  <2>5. QED
    BY <2>2, <2>3, <2>4 DEF Lifecycle!Next
<1>6. ASSUME NEW S \in SUBSET Requests, Shared!Leave(S) PROVE Fresh' /\ UNCHANGED Lifecycle!vars
  <2>1. /\ \A r \in Requests : Views'[r] \subseteq Views[r]
        /\ UNCHANGED <<Statuses, settledBy>>
    BY <1>6 DEF Shared!Leave
  <2>2. QED
    BY <2>1 DEF Fresh, Lifecycle!vars
<1>7. QED
  BY <1>2, <1>3, <1>4, <1>5, <1>6 DEF Shared!Next

\* While no two requests work on one row at once, every row goes through the
\* documented life cycle, from the status it has and not from one that some
\* request remembers.
THEOREM AloneRefines == Spec /\ []NoneShared => FollowsLifecycle
<1>1. Init => Lifecycle!Init /\ Fresh
  BY InitShared DEF Shared!Init, Lifecycle!Init, Fresh
<1>2. LInv /\ NoneShared /\ Fresh /\ [Next]_vars => Fresh' /\ [Lifecycle!Next]_(Lifecycle!vars)
  <2>1. SUFFICES ASSUME LInv, NoneShared, Fresh, [Next]_vars
                 PROVE  Fresh' /\ [Lifecycle!Next]_(Lifecycle!vars)
    OBVIOUS
  <2>2. CASE Shared!Next
    BY <2>1, <2>2, AloneStep
  <2>3. CASE UNCHANGED Shared!vars
    BY <2>1, <2>3 DEF Shared!vars, Lifecycle!vars, Fresh
  <2>4. QED
    BY <2>1, <2>2, <2>3, StepFollows DEF Follows
<1>3. QED
  BY <1>1, <1>2, InvariantToo, PTL DEF Spec, FollowsLifecycle, Lifecycle!Spec

LEMMA OwnRow ==
    ASSUME \A l \in Loads : \A c, d \in Creators : l[c] = l[d] => c = d,
           LInv, NEW c \in Creators, req[c].at \notin Rowless
    PROVE  req[c].on = c
<1>1. c \in Requests
  BY DEF Requests
<1>2. ReqOK(c, req[c]) /\ TypeOK /\ req[c].on \in Creators
  BY <1>1, Here, HereToo DEF LInv
<1>3. CASE req[c].on # c
  <2>1. KeyOf(req[c].on) = KeyOf(c) /\ PayloadOf(req[c].on) = PayloadOf(c)
    BY <1>2, <1>3, OrchestrationAssumption DEF ReqOK, SharedOK
  <2>2. command \in Loads /\ command \in [Creators -> [key : Keys \cup {NoKey}, payload : Payloads]]
    BY <1>2, OrchestrationAssumption DEF TypeOK
  <2>3. command[req[c].on] = command[c]
    BY <1>2, <2>1, <2>2 DEF KeyOf, PayloadOf
  <2>4. QED
    BY <1>2, <1>3, <2>2, <2>3
<1>4. QED
  BY <1>3

\* Without a GET, and with no key and payload given twice, no two requests ever
\* do: the loser of a race for a key is refused for its fingerprint.
THEOREM SeparateRefines ==
    ASSUME Readers = {}, \A l \in Loads : \A c, d \in Creators : l[c] = l[d] => c = d
    PROVE  Spec => FollowsLifecycle
<1>1. LInv => NoneShared
  <2>1. SUFFICES ASSUME LInv, NEW q \in Requests, NEW r \in Requests, q # r,
                        req[q].at \notin Rowless, req[r].at \notin Rowless
                 PROVE  req[q].on # req[r].on
    BY DEF NoneShared
  <2>2. q \in Creators /\ r \in Creators
    BY DEF Requests
  <2>3. QED
    BY <2>1, <2>2, OwnRow
<1>2. QED
  BY <1>1, InvariantToo, AloneRefines, PTL

-----------------------------------------------------------------------------
(* What a step does to the rows and to the requests                        *)

\* A step that leaves the rows alone and takes up none.
Idles ==
    /\ rows' = rows
    /\ \A q \in Requests : req'[q] = req[q] \/ req'[q].at \in Rowless

\* A request that goes on with its copy.
Walks(r, new) ==
    /\ rows' = rows /\ req[r].at \notin Rowless
    /\ new.on = req[r].on /\ new.copy = req[r].copy /\ new.at \notin {"routed", "comply"}
    /\ new.at \in Screening => req[r].at \in Screening
    /\ new.at = "reserve" => SpentBesides(req[r].on) + 1 <= DailyLimit

\* A request that takes up the row x.
Takes(r, new, x) ==
    /\ rows' = rows /\ rows[x] # None /\ new.on = x /\ new.copy = rows[x]
    /\ \/ new.at = "poll"
       \/ /\ new.at = "routed" /\ rows[x].status = "CREATED"
          /\ r \in Creators /\ KeyOf(x) = KeyOf(r)

\* A create that saves the row of its own.
Saves(r, new) ==
    /\ r \in Creators /\ rows[r] = None /\ Holders(r) = {}
    /\ rows' = [rows EXCEPT ![r] = NewRow]
    /\ new.at = "routed" /\ new.on = r /\ new.copy = NewRow

\* A request that writes its row.
Updates(r, new, row) ==
    /\ req[r].at \notin Rowless
    /\ rows' = [rows EXCEPT ![req[r].on] = row] /\ row.status # "CREATED"
    /\ row.reserved => req[r].copy.reserved \/ (r \in Creators /\ At(r, "reserve"))
    /\ \/ new.at \in Rowless
       \/ /\ new.on = req[r].on /\ new.copy = row /\ new.at \notin {"routed", "reserve"}
          /\ new.at = "comply" => req[r].at = "routed"
          /\ new.at \in Pipeline => req[r].at \in Pipeline

Shaped ==
    \/ Idles
    \/ \E r \in Requests, new \in Request :
          /\ req' = [req EXCEPT ![r] = new]
          /\ \/ Walks(r, new) \/ Saves(r, new)
             \/ \E x \in Creators : Takes(r, new, x)
             \/ \E row \in Row : Updates(r, new, row)

LEMMA PipelineIs == Pipeline = {"routed", "comply"} \cup Screening
BY DEF Pipeline, Screening

LEMMA ChangeIdles ==
    ASSUME TypeOK, NEW r \in Requests, NEW new \in Request, req' = [req EXCEPT ![r] = new],
           new.at \in Rowless, UNCHANGED rows
    PROVE  Shaped
BY ViewsAre DEF Shaped, Idles

LEMMA AnswerIdles ==
    ASSUME TypeOK, NEW r \in Requests, req' = [req EXCEPT ![r] = RequestAt("done")],
           UNCHANGED rows
    PROVE  Shaped
<1>1. PICK new \in Request : new = RequestAt("done") /\ new.at = "done"
  BY Facts DEF Location
<1>2. QED
  BY <1>1, ChangeIdles DEF Rowless

LEMMA GotoShaped ==
    ASSUME LInv, NEW r \in Requests, req[r].at \notin Rowless, UNCHANGED rows,
           NEW to \in Location, Goto(r, to), to \notin {"routed", "comply"},
           to \in Screening => req[r].at \in Screening,
           to = "reserve" => SpentBesides(req[r].on) + 1 <= DailyLimit
    PROVE  Shaped
<1>1. CASE to = "done"
  BY <1>1, AnswerIdles, HereToo DEF Goto
<1>2. CASE to # "done"
  <2>1. PICK new \in Request :
           /\ req' = [req EXCEPT ![r] = new]
           /\ new.at = to /\ new.on = req[r].on /\ new.copy = req[r].copy
    BY <1>2, HereToo, GotoIs
  <2>2. QED
    BY <2>1 DEF Shaped, Walks
<1>3. QED
  BY <1>1, <1>2

LEMMA PutShaped ==
    ASSUME LInv, NEW r \in Requests, req[r].at \notin Rowless,
           NEW to \in Location, NEW row \in Row, Put(r, to, row), row.status # "CREATED",
           row.reserved => req[r].copy.reserved \/ (r \in Creators /\ At(r, "reserve")),
           to \notin {"routed", "reserve"}, to = "comply" => req[r].at = "routed",
           to \in Pipeline => req[r].at \in Pipeline
    PROVE  Shaped
<1>1. PICK new \in Request :
         /\ req' = [req EXCEPT ![r] = new] /\ new.at = to
         /\ to # "done" => new.on = req[r].on /\ new.copy = row
  <2>1. CASE to = "done"
    <3>1. PICK new \in Request : new = RequestAt("done") /\ new.at = "done"
      BY Facts DEF Location
    <3>2. QED
      BY <2>1, <3>1 DEF Put, Carry
  <2>2. CASE to # "done"
    BY <2>2, CarryIs, HereToo DEF Put
  <2>3. QED
    BY <2>1, <2>2
<1>2. Updates(r, new, row)
  BY <1>1 DEF Updates, Put, Rowless
<1>3. QED
  BY <1>1, <1>2 DEF Shaped

LEMMA StatusShaped ==
    ASSUME LInv, NEW r \in Requests, req[r].at \notin Rowless, NEW to \in Location,
           NEW status \in Status \ {"CREATED"}, PutStatus(r, to, status),
           to \notin {"routed", "reserve"}, to = "comply" => req[r].at = "routed",
           to \in Pipeline => req[r].at \in Pipeline
    PROVE  Shaped
<1>1. \A copy \in Row : LET changed == [copy EXCEPT !.status = status]
                        IN  /\ changed \in Row /\ changed.status = status
                            /\ changed.reserved = copy.reserved
  BY DEF Row
<1>2. PICK row \in Row : /\ row = [req[r].copy EXCEPT !.status = status] /\ row.status = status
                         /\ row.reserved = req[r].copy.reserved
  BY <1>1, HereToo
<1>3. Put(r, to, row)
  BY <1>2 DEF PutStatus
<1>4. QED
  BY <1>2, <1>3, PutShaped

LEMMA AdvanceShaped ==
    ASSUME LInv, NEW r \in Requests, UNCHANGED rows, NEW x \in Creators, rows[x] # None,
           Adopt(r, AdvanceTo(rows[x]), x)
    PROVE  Shaped
<1>1. CASE AdvanceTo(rows[x]) = "done"
  BY <1>1, AnswerIdles, HereToo DEF Adopt
<1>2. CASE AdvanceTo(rows[x]) = "poll"
  <2>1. PICK new \in Request :
           req' = [req EXCEPT ![r] = new] /\ new.at = "poll" /\ new.on = x /\ new.copy = rows[x]
    BY <1>2, HereToo, AdoptIs DEF Location
  <2>2. Takes(r, new, x)
    BY <2>1 DEF Takes
  <2>3. QED
    BY <2>1, <2>2 DEF Shaped
<1>3. QED
  BY <1>1, <1>2 DEF AdvanceTo

LEMMA BeforeSaveShaped ==
    ASSUME LInv, NEW c \in Creators, Lookup(c) \/ ReadMandate(c) \/ ReadRoute(c)
    PROVE  Shaped
<1>1. c \in Requests /\ TypeOK /\ UNCHANGED rows
  BY HereToo DEF Lookup, ReadMandate, ReadRoute, Requests, store
<1>2. ASSUME NEW to \in {"mandate", "route", "done"}, Goto(c, to) PROVE Shaped
  <2>1. CASE to = "done"
    BY <1>1, <1>2, <2>1, AnswerIdles DEF Goto
  <2>2. CASE to # "done"
    <3>1. PICK new \in Request : req' = [req EXCEPT ![c] = new] /\ new.at = to
      BY <1>1, <1>2, <2>2, GotoIs DEF Location
    <3>2. QED
      BY <1>1, <1>2, <2>2, <3>1, ChangeIdles DEF Rowless
  <2>3. QED
    BY <2>1, <2>2
<1>3. ASSUME NEW x \in Holders(c), Adopt(c, AdvanceTo(rows[x]), x) PROVE Shaped
  BY <1>1, <1>3, Shares, AdvanceShaped
<1>4. CASE ReadRoute(c)
  <2>1. PICK late \in BOOLEAN : late = (quote = "expired")
    OBVIOUS
  <2>2. req' = [req EXCEPT ![c] = [req[c] EXCEPT !.at = "save", !.on = c, !.late = late]]
    BY <1>1, <1>4, <2>1 DEF ReadRoute, TypeOK
  <2>3. \A q \in Request : LET changed == [q EXCEPT !.at = "save", !.on = c, !.late = late]
                           IN  changed \in Request /\ changed.at = "save"
    BY DEF Request, Location
  <2>4. QED
    BY <1>1, <2>2, <2>3, HereToo, ChangeIdles DEF Rowless
<1>5. QED
  BY <1>2, <1>3, <1>4 DEF Lookup, ReadMandate

LEMMA SaveShaped == ASSUME LInv, NEW c \in Creators, Save(c) PROVE Shaped
<1>1. /\ c \in Requests /\ req[c].at = "save" /\ TypeOK
      /\ req[c].on = c /\ req[c].copy = NewRow
  BY Here DEF LInv, Save, At, Requests, ReqOK, Saving
<1>2. CASE Goto(c, "reread") /\ UNCHANGED rows
  <2>1. PICK new \in Request : req' = [req EXCEPT ![c] = new] /\ new.at = "reread"
    BY <1>1, <1>2, GotoIs DEF Location
  <2>2. QED
    BY <1>1, <1>2, <2>1, ChangeIdles DEF Rowless
<1>3. CASE Holders(c) = {} /\ Put(c, "routed", NewRow)
  <2>1. PICK new \in Request :
           /\ req' = [req EXCEPT ![c] = new]
           /\ new.at = "routed" /\ new.on = c /\ new.copy = NewRow
    BY <1>1, <1>3, Facts, CarryIs DEF Put, Location
  <2>2. rows' = [rows EXCEPT ![c] = NewRow] /\ rows[c] = None
    BY <1>1, <1>3, HereToo DEF Put, Unsaved, Rowless
  <2>3. Saves(c, new)
    BY <1>3, <2>1, <2>2 DEF Saves
  <2>4. QED
    BY <1>1, <2>1, <2>3 DEF Shaped
<1>4. QED
  BY <1>1, <1>2, <1>3 DEF Save

LEMMA RereadShaped == ASSUME LInv, NEW c \in Creators, Reread(c) PROVE Shaped
<1>1. c \in Requests /\ TypeOK /\ UNCHANGED rows
  BY HereToo DEF Reread, Requests, store
<1>2. ASSUME NEW x \in Holders(c), rows[x].status = "CREATED", Adopt(c, "routed", x)
      PROVE  Shaped
  <2>1. x \in Creators /\ rows[x] # None /\ KeyOf(x) = KeyOf(c)
    BY <1>2, Shares
  <2>2. PICK new \in Request :
           /\ req' = [req EXCEPT ![c] = new]
           /\ new.at = "routed" /\ new.on = x /\ new.copy = rows[x]
    BY <1>1, <1>2, <2>1, AdoptIs DEF Location
  <2>3. Takes(c, new, x)
    BY <1>1, <1>2, <2>1, <2>2 DEF Takes
  <2>4. QED
    BY <1>1, <2>1, <2>2, <2>3 DEF Shaped
<1>3. ASSUME NEW x \in Holders(c), Adopt(c, AdvanceTo(rows[x]), x) PROVE Shaped
  BY <1>1, <1>3, Shares, AdvanceShaped
<1>4. CASE Goto(c, "done")
  BY <1>1, <1>4, AnswerIdles DEF Goto
<1>5. QED
  BY <1>2, <1>3, <1>4 DEF Reread

LEMMA ScreenShaped ==
    ASSUME LInv, NEW c \in Creators,
           \/ RouteOrExpire(c) \/ Comply(c) \/ Recheck(c) \/ CheckLimit(c) \/ Block(c)
    PROVE  Shaped
<1>1. /\ c \in Requests /\ req[c].at \notin Rowless /\ req[c].at \in Pipeline
      /\ \A status \in {"EXPIRED", "ROUTED", "BLOCKED", "COMPLIANCE_REVIEW", "COMPLIANCE_PASSED"} :
            status \in Status \ {"CREATED"}
  BY DEF RouteOrExpire, Comply, Recheck, CheckLimit, Block, At, Requests, Rowless, Pipeline, Status
<1>2. ASSUME NEW to \in {"done", "comply", "recheck"}, to = "comply" => req[c].at = "routed",
             NEW status \in {"EXPIRED", "ROUTED", "BLOCKED", "COMPLIANCE_REVIEW", "COMPLIANCE_PASSED"},
             PutStatus(c, to, status)
      PROVE  Shaped
  <2>1. to \in Location
    BY DEF Location
  <2>2. QED
    BY <1>1, <1>2, <2>1, StatusShaped
<1>3. ASSUME NEW to \in {"limit", "reserve", "block"}, Goto(c, to), UNCHANGED rows,
             req[c].at \in Screening,
             to = "reserve" => SpentBesides(req[c].on) + 1 <= DailyLimit
      PROVE  Shaped
  <2>1. to \in Location
    BY DEF Location
  <2>2. QED
    BY <1>1, <1>3, <2>1, GotoShaped
<1>4. CASE RouteOrExpire(c)
  BY <1>2, <1>4 DEF RouteOrExpire, At
<1>5. CASE Comply(c)
  BY <1>2, <1>5 DEF Comply
<1>6. CASE Recheck(c) \/ CheckLimit(c) \/ Block(c)
  BY <1>2, <1>3, <1>6 DEF Recheck, CheckLimit, Block, At, Screening, store
<1>7. QED
  BY <1>4, <1>5, <1>6

LEMMA DispatchShaped ==
    ASSUME LInv, NEW c \in Creators,
           \/ Reserve(c) \/ Dispatch(c) \/ SaveInstruction(c) \/ DispatchWriteFails(c)
           \/ MarkDispatched(c)
    PROVE  Shaped
<1>1. /\ c \in Requests /\ req[c].at \notin Rowless /\ req[c].at \in Screening
      /\ req[c].at \in Pipeline
  BY DEF Reserve, Dispatch, SaveInstruction, DispatchWriteFails, MarkDispatched, At, Requests,
         Rowless, Pipeline, Screening
<1>2. req[c].copy.status = "COMPLIANCE_PASSED" /\ req[c].copy \in Row
  BY <1>1, InPipeline, HereToo
<1>3. CASE Reserve(c)
  <2>1. \A copy \in Row : LET changed == [copy EXCEPT !.reserved = TRUE]
                          IN  changed \in Row /\ changed.status = copy.status
    BY DEF Row
  <2>2. PICK row \in Row : /\ row = [req[c].copy EXCEPT !.reserved = TRUE]
                           /\ row.status = "COMPLIANCE_PASSED"
    BY <1>2, <2>1
  <2>3. Put(c, "dispatch", row) /\ "dispatch" \in Location /\ req[c].at = "reserve"
    BY <1>3, <2>2 DEF Reserve, At, Location
  <2>4. QED
    BY <1>1, <2>2, <2>3, PutShaped DEF At
<1>4. CASE MarkDispatched(c)
  <2>1. \A copy \in Row : LET changed == [copy EXCEPT !.status = "DISPATCHED", !.instr = c]
                          IN  /\ changed \in Row /\ changed.status = "DISPATCHED"
                              /\ changed.reserved = copy.reserved
    BY DEF Row, Status
  <2>2. PICK row \in Row : /\ row = [req[c].copy EXCEPT !.status = "DISPATCHED", !.instr = c]
                           /\ row.status = "DISPATCHED" /\ row.reserved = req[c].copy.reserved
    BY <1>2, <2>1
  <2>3. Put(c, "poll", row) /\ "poll" \in Location
    BY <1>4, <2>2 DEF MarkDispatched, Location
  <2>4. QED
    BY <1>1, <2>2, <2>3, PutShaped
<1>5. CASE Dispatch(c) \/ SaveInstruction(c) \/ DispatchWriteFails(c)
  <2>1. UNCHANGED rows
    BY <1>5 DEF Dispatch, SaveInstruction, DispatchWriteFails, store
  <2>2. PICK to \in {"failed", "instruct", "dispatched"} : Goto(c, to)
    BY <1>5 DEF Dispatch, SaveInstruction, DispatchWriteFails
  <2>3. to \in Location
    BY DEF Location
  <2>4. QED
    BY <1>1, <2>1, <2>2, <2>3, GotoShaped
<1>6. QED
  BY <1>3, <1>4, <1>5

LEMMA PollShaped == ASSUME LInv, NEW r \in Requests, Poll(r) \/ RecordReport(r) PROVE Shaped
<1>1. /\ req[r].at \in {"poll", "record"} /\ UNCHANGED rows /\ req[r].at \notin Rowless
      /\ req[r] \in Request /\ TypeOK
  BY HereToo DEF Poll, RecordReport, At, Rowless, store
<1>2. PICK to \in {"record", "event", "failed", "settling", "poll"} :
         /\ req'[r].at = to /\ req'[r].on = req[r].on /\ req'[r].copy = req[r].copy
         /\ req' = [req EXCEPT ![r] = req'[r]]
  <2>1. CASE Poll(r)
    BY <1>1, <2>1 DEF Poll, TypeOK, Request
  <2>2. CASE RecordReport(r)
    <3>1. PICK to \in {"event", "failed", "settling", "poll"} : to = AfterReport(r)
      BY DEF AfterReport
    <3>2. QED
      BY <1>1, <2>2, <3>1 DEF RecordReport, TypeOK, Request
  <2>3. QED
    BY <2>1, <2>2
<1>3. req'[r] \in Request
  BY PollKeeps, RecordReportKeeps DEF LInv, IInv, TypeOK
<1>4. PICK new \in Request :
         /\ req' = [req EXCEPT ![r] = new]
         /\ new.at = to /\ new.on = req[r].on /\ new.copy = req[r].copy
  BY <1>2, <1>3
<1>5. Walks(r, new)
  BY <1>1, <1>4 DEF Walks, Screening
<1>6. QED
  BY <1>4, <1>5 DEF Shaped

LEMMA SettleShaped ==
    ASSUME LInv, NEW r \in Requests,
           \/ Fail(r) \/ MarkSettling(r) \/ PollsSpent(r) \/ RecordEvent(r) \/ MarkSettled(r)
           \/ ReadMandateAgain(r) \/ FindReceipt(r) \/ RefuseReceipt(r) \/ SaveReceipt(r)
           \/ LinkReceipt(r)
    PROVE  Shaped
<1>1. /\ req[r].at \notin Rowless
      /\ \A status \in {"FAILED", "SETTLING", "SETTLED"} : status \in Status \ {"CREATED"}
  BY DEF Fail, MarkSettling, PollsSpent, RecordEvent, MarkSettled, ReadMandateAgain, FindReceipt,
         RefuseReceipt, SaveReceipt, LinkReceipt, At, Rowless, Status
<1>2. ASSUME NEW to \in {"done", "poll", "remandate"},
             NEW status \in {"FAILED", "SETTLING", "SETTLED"}, PutStatus(r, to, status)
      PROVE  Shaped
  <2>1. to \in Location /\ to \notin Pipeline
    BY DEF Location, Pipeline
  <2>2. QED
    BY <1>1, <1>2, <2>1, StatusShaped
<1>3. ASSUME NEW to \in {"settled", "issue", "sign", "link", "done"}, Goto(r, to), UNCHANGED rows
      PROVE  Shaped
  <2>1. to \in Location /\ to \notin Screening
    BY DEF Location, Screening
  <2>2. QED
    BY <1>1, <1>3, <2>1, GotoShaped
<1>4. CASE LinkReceipt(r)
  <2>1. \A copy \in Row : LET changed == [copy EXCEPT !.receipt = TRUE]
                          IN  /\ changed \in Row /\ changed.status = copy.status
                              /\ changed.reserved = copy.reserved
    BY DEF Row
  <2>2. req[r].copy \in Row /\ req[r].copy.status = "SETTLED"
    BY <1>4, InPipeline, HereToo DEF LinkReceipt, At
  <2>3. PICK row \in Row : /\ row = [req[r].copy EXCEPT !.receipt = TRUE]
                           /\ row.status = "SETTLED" /\ row.reserved = req[r].copy.reserved
    BY <2>1, <2>2, ZenonT(60)
  <2>4. Put(r, "done", row) /\ "done" \in Location /\ "done" \notin Pipeline
    BY <1>4, <2>3 DEF LinkReceipt, Location, Pipeline
  <2>5. QED
    BY <1>1, <2>3, <2>4, PutShaped
<1>5. CASE Fail(r) \/ MarkSettling(r) \/ PollsSpent(r) \/ MarkSettled(r)
  BY <1>2, <1>5 DEF Fail, MarkSettling, PollsSpent, MarkSettled
<1>6. CASE \/ RecordEvent(r) \/ ReadMandateAgain(r) \/ FindReceipt(r)
           \/ RefuseReceipt(r) \/ SaveReceipt(r)
  <2>1. UNCHANGED rows
    BY <1>6 DEF RecordEvent, ReadMandateAgain, FindReceipt, RefuseReceipt, SaveReceipt, store
  <2>2. PICK to \in {"settled", "issue", "sign", "link", "done"} : Goto(r, to)
    BY <1>6 DEF RecordEvent, ReadMandateAgain, FindReceipt, RefuseReceipt, SaveReceipt
  <2>3. QED
    BY <1>3, <2>1, <2>2
<1>7. QED
  BY <1>4, <1>5, <1>6

LEMMA CrashShaped == ASSUME LInv, Crash PROVE Shaped
<1>1. PICK over \in Request : over = RequestAt("done") /\ over.at = "done"
  BY Facts DEF Location
<1>2. \A r \in Requests : req'[r] = req[r] \/ req'[r] = over
  BY <1>1 DEF Crash
<1>3. QED
  BY <1>1, <1>2 DEF Shaped, Idles, Crash, store, Rowless

LEMMA AroundShaped == ASSUME UNCHANGED <<rows, req>> PROVE Shaped
BY DEF Shaped, Idles

LEMMA StepShaped == ASSUME LInv, [Next]_vars PROVE Shaped
<1>1. ASSUME NEW c \in Creators, CreateStep(c) \/ DispatchWriteFails(c) PROVE Shaped
  BY <1>1, BeforeSaveShaped, SaveShaped, RereadShaped, ScreenShaped, DispatchShaped
     DEF CreateStep
<1>2. ASSUME NEW r \in Requests, SettleStep(r) PROVE Shaped
  BY <1>2, PollShaped, SettleShaped DEF SettleStep
<1>3. ASSUME NEW g \in Readers, Get(g) PROVE Shaped
  BY <1>3, AdvanceShaped DEF Get, Requests, store
<1>4. ASSUME NEW h \in Hooks, WebhookArrives(h) \/ RecordWebhook(h) PROVE Shaped
  BY <1>4, AroundShaped DEF WebhookArrives, RecordWebhook, store
<1>5. CASE MandateEnds \/ QuoteExpires
  BY <1>5, AroundShaped DEF MandateEnds, QuoteExpires, store, locals
<1>6. CASE UNCHANGED vars
  BY <1>6, AroundShaped DEF vars, store, locals
<1>7. QED
  BY <1>1, <1>2, <1>3, <1>4, <1>5, <1>6, CrashShaped DEF Next, Finished

-----------------------------------------------------------------------------
(* The daily limit, while rows are not shared and reservations not raced   *)

Spending ==
    {x \in Creators : /\ rows[x] # None
                      /\ rows[x].reserved
                      /\ rows[x].status \in ReserveStatuses}

\* A request's copy is the stored row.
Exact == \A r \in Requests : req[r].at \notin Rowless => rows[req[r].on] = req[r].copy

\* Nothing is reserved before it has been screened.
Unreserved ==
    /\ \A r \in Requests : req[r].at \in {"routed", "comply"} => ~req[r].copy.reserved
    /\ \A x \in Creators : rows[x] # None /\ rows[x].status = "CREATED" => ~rows[x].reserved

\* There is still room for the create that was let through.
RoomKept ==
    \A c \in Creators : At(c, "reserve") => SpentBesides(req[c].on) + 1 <= DailyLimit

WInv == Exact /\ Unreserved /\ RoomKept /\ DailyLimitRespected

LEMMA SpendingIs ==
    /\ DailyLimitRespected <=> Cardinality(Spending) <= DailyLimit
    /\ \A x \in Creators : SpentBesides(x) = Cardinality(Spending \ {x})
    /\ Spending \subseteq Creators
<1>1. \A x \in Creators : SpentBesides(x) = Cardinality(Spending \ {x})
  <2>1. SUFFICES ASSUME NEW x \in Creators PROVE SpentBesides(x) = Cardinality(Spending \ {x})
    OBVIOUS
  <2>2. {y \in Creators \ {x} : /\ rows[y] # None
                                /\ rows[y].reserved
                                /\ rows[y].status \in ReserveStatuses} = Spending \ {x}
    BY DEF Spending
  <2>3. QED
    BY <2>2 DEF SpentBesides
<1>2. QED
  BY <1>1 DEF DailyLimitRespected, Spending

LEMMA FewerSpend ==
    ASSUME NEW S \in SUBSET Creators, NEW T \in SUBSET Creators, S \subseteq T
    PROVE  /\ IsFiniteSet(S) /\ Cardinality(S) \in Nat /\ Cardinality(T) \in Nat
           /\ Cardinality(S) <= Cardinality(T)
<1>1. IsFiniteSet(T) /\ IsFiniteSet(S)
  BY FS_Subset, OrchestrationAssumption
<1>2. QED
  BY <1>1, FS_Subset, FS_CardinalityType

LEMMA OneMoreSpends ==
    ASSUME NEW S \in SUBSET Creators, NEW x \in Creators
    PROVE  Cardinality(S \cup {x}) <= Cardinality(S \ {x}) + 1
<1>1. IsFiniteSet(S \ {x}) /\ Cardinality(S \ {x}) \in Nat /\ x \notin S \ {x}
  BY FewerSpend
<1>2. Cardinality((S \ {x}) \cup {x}) = Cardinality(S \ {x}) + 1
  BY <1>1, FS_AddElement
<1>3. (S \ {x}) \cup {x} = S \cup {x}
  OBVIOUS
<1>4. Cardinality(S \cup {x}) = Cardinality(S \ {x}) + 1
  BY <1>2, <1>3, Zenon
<1>5. QED
  BY <1>1, <1>4

\* A copy that claims a reservation is one that counts.
LEMMA ReservedCounts ==
    ASSUME LInv, WInv, NEW r \in Requests, req[r].at \notin Rowless, req[r].copy.reserved
    PROVE  req[r].copy.status \in ReserveStatuses /\ req[r].on \in Spending
<1>1. /\ req[r].on \in Creators /\ rows[req[r].on] # None /\ req[r].at \in Location
      /\ rows[req[r].on] = req[r].copy /\ Stage(req[r].at, req[r].copy.status)
  BY HereToo DEF WInv, Exact, Request
<1>2. req[r].at \notin {"routed", "comply"}
  BY DEF WInv, Unreserved
<1>3. req[r].copy.status \in ReserveStatuses
  BY <1>1, <1>2 DEF Stage, Screening, Polling, Receipting, ReserveStatuses, Location, Rowless
<1>4. QED
  BY <1>1, <1>3 DEF Spending

\* What a step adds to the spending: nothing, or the row of the one create
\* that reserves.
LEMMA SpendingGrows ==
    ASSUME LInv, WInv, Shaped
    PROVE  \/ Spending' \subseteq Spending
           \/ \E r \in Creators : /\ At(r, "reserve") /\ req'[r].at # "reserve"
                                  /\ req[r].on \in Creators
                                  /\ Spending' \subseteq Spending \cup {req[r].on}
                                  /\ \A q \in Requests : q # r => req'[q] = req[q]
<1>1. CASE rows' = rows
  BY <1>1 DEF Spending
<1>2. ASSUME NEW r \in Requests, NEW new \in Request, req' = [req EXCEPT ![r] = new],
             Saves(r, new)
      PROVE  Spending' \subseteq Spending
  BY <1>2, Facts, HereToo DEF Spending, Saves, TypeOK, NewRow, ReserveStatuses
<1>3. ASSUME NEW r \in Requests, NEW new \in Request, req' = [req EXCEPT ![r] = new],
             NEW row \in Row, Updates(r, new, row)
      PROVE  \/ Spending' \subseteq Spending
             \/ /\ r \in Creators /\ At(r, "reserve") /\ req'[r].at # "reserve"
                /\ req[r].on \in Creators
                /\ Spending' \subseteq Spending \cup {req[r].on}
                /\ \A q \in Requests : q # r => req'[q] = req[q]
  <2>1. /\ req[r].on \in Creators /\ TypeOK /\ req[r].at \notin Rowless
        /\ rows' = [rows EXCEPT ![req[r].on] = row]
        /\ req'[r] = new /\ \A q \in Requests : q # r => req'[q] = req[q]
    BY <1>3, HereToo, ViewsAre DEF Updates
  <2>2. rows'[req[r].on] = row /\ \A x \in Creators : x # req[r].on => rows'[x] = rows[x]
    BY <2>1 DEF TypeOK
  <2>3. Spending' \subseteq Spending \cup {req[r].on}
    BY <2>2 DEF Spending
  <2>4. CASE row.reserved
    <3>1. CASE req[r].copy.reserved
      BY <2>1, <2>3, <3>1, ReservedCounts
    <3>2. CASE r \in Creators /\ At(r, "reserve")
      <4>1. new.at # "reserve"
        BY <1>3 DEF Updates, Rowless
      <4>2. QED
        BY <2>1, <2>3, <3>2, <4>1
    <3>3. QED
      BY <1>3, <2>4, <3>1, <3>2 DEF Updates
  <2>5. CASE ~row.reserved
    BY <2>2, <2>3, <2>5 DEF Spending
  <2>6. QED
    BY <2>4, <2>5
<1>4. QED
  BY <1>1, <1>2, <1>3 DEF Shaped, Idles, Walks, Takes

LEMMA LimitStays ==
    ASSUME LInv, WInv, OneReserving, Shaped
    PROVE  (RoomKept /\ DailyLimitRespected)'
<1>1. DailyLimit \in Nat /\ Spending \in SUBSET Creators /\ Spending' \in SUBSET Creators
  BY OrchestrationAssumption DEF Spending
<1>2. Cardinality(Spending) <= DailyLimit
  BY SpendingIs DEF WInv
<1>3. /\ DailyLimitRespected' <=> Cardinality(Spending') <= DailyLimit
      /\ \A x \in Creators : SpentBesides(x)' = Cardinality(Spending' \ {x})
  <2>1. (/\ DailyLimitRespected <=> Cardinality(Spending) <= DailyLimit
         /\ \A x \in Creators : SpentBesides(x) = Cardinality(Spending \ {x}))'
    BY SpendingIs, PTL
  <2>2. QED
    BY <2>1
<1>4. CASE Spending' \subseteq Spending
  <2>1. DailyLimitRespected'
    BY <1>1, <1>2, <1>3, <1>4, FewerSpend
  <2>2. ASSUME NEW c \in Creators, At(c, "reserve")'
        PROVE  req'[c].on \in Creators /\ Cardinality(Spending \ {req'[c].on}) + 1 <= DailyLimit
    <3>1. CASE req'[c] = req[c]
      <4>1. At(c, "reserve") /\ req[c].on \in Creators
        BY <2>2, <3>1, HereToo DEF At, Requests, Rowless
      <4>2. QED
        BY <3>1, <4>1, SpendingIs DEF WInv, RoomKept
    <3>2. CASE req'[c] # req[c]
      <4>1. PICK new \in Request : /\ req' = [req EXCEPT ![c] = new]
                                   /\ new.at = "reserve" /\ Walks(c, new)
        <5>1. TypeOK /\ c \in Requests
          BY HereToo DEF Requests
        <5>2. req'[c].at = "reserve" /\ req'[c].at \notin Rowless
          BY <2>2 DEF At, Rowless
        <5>3. PICK r \in Requests, new \in Request :
                 /\ req' = [req EXCEPT ![r] = new]
                 /\ \/ Walks(r, new) \/ Saves(r, new)
                    \/ \E x \in Creators : Takes(r, new, x)
                    \/ \E row \in Row : Updates(r, new, row)
          BY <3>2, <5>1, <5>2 DEF Shaped, Idles
        <5>4. r = c /\ req'[c] = new
          BY <3>2, <5>1, <5>3, ViewsAre
        <5>5. QED
          BY <5>2, <5>3, <5>4 DEF Saves, Takes, Updates, Rowless
      <4>2. req'[c].on = req[c].on /\ req[c].on \in Creators
        BY <4>1, HereToo, ViewsAre DEF Walks, Requests
      <4>3. QED
        BY <4>1, <4>2, SpendingIs DEF Walks
    <3>3. QED
      BY <3>1, <3>2
  <2>3. ASSUME NEW c \in Creators, At(c, "reserve")'
        PROVE  SpentBesides(req[c].on)' + 1 <= DailyLimit
    <3>1. PICK x \in Creators : x = req'[c].on
      BY <2>2, <2>3
    <3>2. Cardinality(Spending \ {x}) + 1 <= DailyLimit
      BY <2>2, <2>3, <3>1
    <3>3. /\ Cardinality(Spending' \ {x}) <= Cardinality(Spending \ {x})
          /\ Cardinality(Spending' \ {x}) \in Nat /\ Cardinality(Spending \ {x}) \in Nat
      BY <1>1, <1>4, FewerSpend
    <3>4. SpentBesides(x)' = Cardinality(Spending' \ {x})
      BY <1>3
    <3>5. SpentBesides(req[c].on)' = Cardinality(Spending' \ {x})
      BY <3>1, <3>4 DEF SpentBesides
    <3>6. QED
      BY <1>1, <3>2, <3>3, <3>5
  <2>4. QED
    BY <2>1, <2>3 DEF RoomKept
<1>5. ASSUME NEW r \in Creators, At(r, "reserve"), req'[r].at # "reserve", req[r].on \in Creators,
             Spending' \subseteq Spending \cup {req[r].on},
             \A q \in Requests : q # r => req'[q] = req[q]
      PROVE  (RoomKept /\ DailyLimitRespected)'
  <2>1. Cardinality(Spending \ {req[r].on}) + 1 <= DailyLimit
    BY <1>5, SpendingIs DEF WInv, RoomKept
  <2>2. Cardinality(Spending \cup {req[r].on}) <= Cardinality(Spending \ {req[r].on}) + 1
    BY <1>1, <1>5, OneMoreSpends
  <2>3. /\ Cardinality(Spending') <= Cardinality(Spending \cup {req[r].on})
        /\ Cardinality(Spending') \in Nat /\ Cardinality(Spending \cup {req[r].on}) \in Nat
        /\ Cardinality(Spending \ {req[r].on}) \in Nat
    BY <1>1, <1>5, FewerSpend
  <2>4. DailyLimitRespected'
    BY <1>1, <1>3, <2>1, <2>2, <2>3
  <2>5. \A c \in Creators : ~At(c, "reserve")'
    BY <1>5 DEF OneReserving, At, Requests
  <2>6. QED
    BY <2>4, <2>5 DEF RoomKept
<1>6. QED
  BY <1>4, <1>5, SpendingGrows

\* A request writes row to the row x that no other works on.
Replaces(r, new, x, row) ==
    /\ req' = [req EXCEPT ![r] = new] /\ rows' = [rows EXCEPT ![x] = row]
    /\ \A q \in Requests : q # r /\ req[q].at \notin Rowless => req[q].on # x
    /\ new.at \notin Rowless => new.on = x /\ new.copy = row
    /\ new.at \in {"routed", "comply"} \/ row.status = "CREATED" => ~row.reserved

LEMMA ExactStays ==
    ASSUME LInv, NoneShared, WInv, Shaped
    PROVE  (Exact /\ Unreserved)'
<1>1. CASE Idles
  <2>1. ASSUME NEW r \in Requests, req'[r].at \notin Rowless
        PROVE  req'[r] = req[r]
    BY <1>1, <2>1 DEF Idles
  <2>2. {"routed", "comply"} \cap Rowless = {}
    BY DEF Rowless
  <2>3. QED
    BY <1>1, <2>1, <2>2 DEF WInv, Exact, Unreserved, Idles, Rowless
<1>2. ASSUME NEW r \in Requests, NEW new \in Request, req' = [req EXCEPT ![r] = new],
             rows' = rows,
             new.at \notin Rowless => rows[new.on] = new.copy,
             new.at \in {"routed", "comply"} => ~new.copy.reserved
      PROVE  (Exact /\ Unreserved)'
  <2>1. req'[r] = new /\ \A q \in Requests : q # r => req'[q] = req[q]
    BY <1>2, ViewsAre, HereToo
  <2>2. QED
    BY <1>2, <2>1 DEF WInv, Exact, Unreserved, Rowless
<1>3. ASSUME NEW r \in Requests, NEW new \in Request, req' = [req EXCEPT ![r] = new],
             Walks(r, new)
      PROVE  (Exact /\ Unreserved)'
  BY <1>2, <1>3 DEF Walks, WInv, Exact
<1>4. ASSUME NEW r \in Requests, NEW new \in Request, req' = [req EXCEPT ![r] = new],
             NEW x \in Creators, Takes(r, new, x)
      PROVE  (Exact /\ Unreserved)'
  BY <1>2, <1>4 DEF Takes, WInv, Unreserved
<1>5. ASSUME NEW r \in Requests, NEW new \in Request, NEW x \in Creators, NEW row \in Row,
             Replaces(r, new, x, row)
      PROVE  (Exact /\ Unreserved)'
  <2>1. TypeOK /\ req'[r] = new /\ \A q \in Requests : q # r => req'[q] = req[q]
    BY <1>5, ViewsAre, HereToo DEF Replaces
  <2>2. rows'[x] = row /\ \A y \in Creators : y # x => rows'[y] = rows[y]
    BY <1>5, <2>1 DEF TypeOK, Replaces
  <2>3. Exact'
    <3>1. SUFFICES ASSUME NEW q \in Requests, req'[q].at \notin Rowless
                   PROVE  rows'[req'[q].on] = req'[q].copy
      BY DEF Exact, Rowless
    <3>2. CASE q = r
      BY <1>5, <2>1, <2>2, <3>1, <3>2 DEF Replaces
    <3>3. CASE q # r
      <4>1. req'[q] = req[q] /\ req[q].on \in Creators /\ req[q].on # x
        BY <1>5, <2>1, <3>1, <3>3, HereToo DEF Replaces
      <4>2. QED
        BY <2>2, <3>1, <4>1 DEF WInv, Exact
    <3>4. QED
      BY <3>2, <3>3
  <2>4. Unreserved'
    BY <1>5, <2>1, <2>2 DEF WInv, Unreserved, Rowless, Replaces
  <2>5. QED
    BY <2>3, <2>4
<1>6. ASSUME NEW r \in Requests, NEW new \in Request, req' = [req EXCEPT ![r] = new],
             Saves(r, new)
      PROVE  (Exact /\ Unreserved)'
  <2>1. r \in Creators /\ NewRow \in Row /\ ~NewRow.reserved /\ new.on = r /\ new.copy = NewRow
    BY <1>6, Facts DEF Saves, NewRow
  <2>2. \A q \in Requests : q # r /\ req[q].at \notin Rowless => req[q].on # r
    BY <1>6, HereToo DEF Saves
  <2>3. Replaces(r, new, r, NewRow)
    BY <1>6, <2>1, <2>2 DEF Saves, Replaces
  <2>4. QED
    BY <1>5, <2>1, <2>3
<1>7. ASSUME NEW r \in Requests, NEW new \in Request, req' = [req EXCEPT ![r] = new],
             NEW row \in Row, Updates(r, new, row)
      PROVE  (Exact /\ Unreserved)'
  <2>1. req[r].at \notin Rowless /\ req[r].on \in Creators
    BY <1>7, HereToo DEF Updates
  <2>2. \A q \in Requests : q # r /\ req[q].at \notin Rowless => req[q].on # req[r].on
    BY <2>1 DEF NoneShared
  <2>3. new.at \in {"routed", "comply"} => ~row.reserved
    BY <1>7 DEF Updates, WInv, Unreserved, At, Rowless
  <2>4. Replaces(r, new, req[r].on, row)
    BY <1>7, <2>2, <2>3 DEF Updates, Replaces
  <2>5. QED
    BY <1>5, <2>1, <2>4
<1>8. QED
  BY <1>1, <1>3, <1>4, <1>6, <1>7 DEF Shaped

\* The race between the daily limit and the reservation is the only way past
\* the limit that requests of different rows have: while one create at a time is
\* between the two, and no two requests work on one row, the rows that count
\* never exceed it.
THEOREM LimitHoldsUnraced == Spec /\ []NoneShared /\ []OneReserving => []DailyLimitRespected
<1>1. Init => WInv
  <2>1. SUFFICES ASSUME Init PROVE WInv
    OBVIOUS
  <2>2. \A r \in Requests : req[r].at \in {"lookup", "get"}
    BY <2>1, Facts DEF Init, Location
  <2>3. Spending = {} /\ Cardinality({}) = 0 /\ DailyLimit \in Nat
    BY <2>1, FS_EmptySet, OrchestrationAssumption DEF Spending, Init
  <2>4. DailyLimitRespected
    BY <2>3, SpendingIs
  <2>5. \A x \in Creators : rows[x] = None
    BY <2>1 DEF Init
  <2>6. Exact /\ Unreserved
    BY <2>2, <2>5 DEF Exact, Unreserved, Rowless
  <2>7. RoomKept
    BY <2>2 DEF RoomKept, At, Requests
  <2>8. QED
    BY <2>4, <2>6, <2>7 DEF WInv
<1>2. LInv /\ NoneShared /\ OneReserving /\ WInv /\ [Next]_vars => WInv'
  BY StepShaped, ExactStays, LimitStays DEF WInv
<1>3. WInv => DailyLimitRespected
  BY DEF WInv
<1>4. QED
  BY <1>1, <1>2, <1>3, InvariantToo, PTL DEF Spec

-----------------------------------------------------------------------------
(* One instruction per key, while no row is screened twice at once         *)

\* Only a create that has just been dispatched adds an instruction.
Instructs ==
    \A i \in Creators :
        instr[i] = None /\ instr'[i] # None => At(i, "instruct") /\ rows' = rows

LEMMA CreateInstructs ==
    ASSUME LInv, NEW c \in Creators, CreateStep(c) \/ DispatchWriteFails(c)
    PROVE  Instructs
<1>1. CASE SaveInstruction(c)
  BY <1>1, HereToo DEF SaveInstruction, Instructs, TypeOK, Requests
<1>2. CASE \/ Lookup(c) \/ ReadMandate(c) \/ ReadRoute(c) \/ Reread(c) \/ CheckLimit(c)
           \/ Dispatch(c) \/ DispatchWriteFails(c)
  BY <1>2 DEF Lookup, ReadMandate, ReadRoute, Reread, CheckLimit, Dispatch, DispatchWriteFails,
              store, Instructs
<1>3. CASE \/ Save(c) \/ RouteOrExpire(c) \/ Comply(c) \/ Recheck(c) \/ Block(c) \/ Reserve(c)
           \/ MarkDispatched(c)
  BY <1>3 DEF Save, RouteOrExpire, Comply, Recheck, Block, Reserve, MarkDispatched, Instructs
<1>4. QED
  BY <1>1, <1>2, <1>3 DEF CreateStep

LEMMA SettleInstructs == ASSUME LInv, NEW r \in Requests, SettleStep(r) PROVE Instructs
<1>1. CASE RecordReport(r)
  <2>1. req[r].at \notin Early \cup Saving /\ req[r].at \in Sending
    BY <1>1 DEF RecordReport, At, Early, Saving, Sending
  <2>2. instr[req[r].copy.instr] # None
    BY <2>1, Working DEF LInv, SettleOK, RowOK
  <2>3. QED
    BY <1>1, <2>2, HereToo DEF RecordReport, Instructs, TypeOK
<1>2. CASE Poll(r) \/ ReadMandateAgain(r) \/ FindReceipt(r) \/ RefuseReceipt(r)
  BY <1>2 DEF Poll, ReadMandateAgain, FindReceipt, RefuseReceipt, store, Instructs
<1>3. CASE \/ Fail(r) \/ MarkSettling(r) \/ PollsSpent(r) \/ RecordEvent(r) \/ MarkSettled(r)
           \/ SaveReceipt(r) \/ LinkReceipt(r)
  BY <1>3 DEF Fail, MarkSettling, PollsSpent, RecordEvent, MarkSettled, SaveReceipt, LinkReceipt,
              Instructs
<1>4. QED
  BY <1>1, <1>2, <1>3 DEF SettleStep

LEMMA StepInstructs == ASSUME LInv, [Next]_vars PROVE Instructs
<1>1. ASSUME NEW h \in Hooks, RecordWebhook(h) PROVE Instructs
  BY <1>1 DEF LInv, IInv, TypeOK, HookOK, RecordWebhook, Instructs
<1>2. ASSUME NEW h \in Hooks, WebhookArrives(h) PROVE Instructs
  BY <1>2 DEF WebhookArrives, store, Instructs
<1>3. ASSUME NEW g \in Readers, Get(g) PROVE Instructs
  BY <1>3 DEF Get, store, Instructs
<1>4. CASE MandateEnds \/ QuoteExpires \/ Crash \/ UNCHANGED vars
  BY <1>4 DEF MandateEnds, QuoteExpires, Crash, vars, store, Instructs
<1>5. QED
  BY <1>1, <1>2, <1>3, <1>4, CreateInstructs, SettleInstructs DEF Next, Finished

LEMMA FixedStays == ASSUME [Next]_vars PROVE UNCHANGED fixed
<1>1. ASSUME NEW c \in Creators, CreateStep(c) PROVE UNCHANGED fixed
  BY <1>1 DEF CreateStep, Lookup, ReadMandate, ReadRoute, Save, Reread, RouteOrExpire, Comply,
              Recheck, CheckLimit, Block, Reserve, Dispatch, SaveInstruction, MarkDispatched
<1>2. ASSUME NEW r \in Requests, SettleStep(r) PROVE UNCHANGED fixed
  BY <1>2 DEF SettleStep, Fail, Poll, RecordReport, MarkSettling, PollsSpent, RecordEvent,
              MarkSettled, ReadMandateAgain, FindReceipt, RefuseReceipt, SaveReceipt,
              LinkReceipt
<1>3. QED
  BY <1>1, <1>2 DEF Next, DispatchWriteFails, Get, WebhookArrives, RecordWebhook, MandateEnds,
                    QuoteExpires, Crash, Finished, vars

SameKey(i, j) == KeyOf(i) = KeyOf(j) /\ KeyOf(j) # NoKey

\* An instruction's key has a row; a row still CREATED, or one on its way to a
\* partner, is the first of its key to be instructed.
KInv ==
    /\ \A i \in Creators : instr[i] # None /\ KeyOf(i) # NoKey =>
          \E x \in Creators : rows[x] # None /\ SameKey(x, i)
    /\ \A i, x \in Creators :
          rows[x] # None /\ rows[x].status = "CREATED" /\ SameKey(i, x) => instr[i] = None
    /\ \A c, i \in Creators :
          req[c].at \in Pipeline /\ i # c /\ SameKey(i, c) => instr[i] = None
    /\ \A c \in Creators :
          req[c].at \in Pipeline \ {"routed"} => rows[req[c].on].status # "CREATED"
    /\ OneInstructionPerKey

\* What a step does to the rows that are CREATED and to the creates in the
\* pipeline.
PipelineStep ==
    /\ \A x \in Creators : rows[x] # None => rows'[x] # None
    /\ \A x \in Creators : rows'[x] # None /\ rows'[x].status = "CREATED" =>
          (rows[x] # None /\ rows[x].status = "CREATED") \/ Holders(x) = {}
    /\ \A c \in Creators : req'[c].at \in Pipeline =>
          \/ req[c].at \in Pipeline
          \/ /\ req'[c].at = "routed"
             /\ \/ Holders(c) = {}
                \/ \E x \in Creators : /\ rows[x] # None /\ rows[x].status = "CREATED"
                                       /\ KeyOf(x) = KeyOf(c)
    /\ \A c \in Creators : req'[c].at \in Pipeline \ {"routed"} =>
          \/ rows'[req'[c].on].status # "CREATED"
          \/ /\ req[c].at \in Pipeline \ {"routed"} /\ req'[c].on = req[c].on
             /\ rows'[req[c].on] = rows[req[c].on]

LEMMA StepInPipeline == ASSUME LInv, Shaped PROVE PipelineStep
<1>1. /\ TypeOK /\ Pipeline = {"routed", "comply"} \cup Screening /\ Pipeline \cap Rowless = {}
      /\ "poll" \notin Pipeline /\ {"routed", "comply"} \cap Screening = {}
      /\ Creators \subseteq Requests
  BY PipelineIs DEF LInv, IInv, Pipeline, Rowless, Screening, Requests
<1>2. CASE Idles
  <2>1. \A c \in Creators : req'[c].at \in Pipeline => req'[c] = req[c]
    BY <1>1, <1>2 DEF Idles
  <2>2. QED
    BY <1>2, <2>1 DEF Idles, PipelineStep
<1>3. ASSUME NEW r \in Requests, NEW new \in Request, req' = [req EXCEPT ![r] = new]
      PROVE  req'[r] = new /\ \A q \in Requests : q # r => req'[q] = req[q]
  BY <1>1, <1>3, ViewsAre
<1>4. ASSUME NEW r \in Requests, NEW new \in Request, req' = [req EXCEPT ![r] = new],
             Walks(r, new)
      PROVE  PipelineStep
  <2>1. req'[r] = new /\ \A q \in Requests : q # r => req'[q] = req[q]
    BY <1>3, <1>4
  <2>2. QED
    BY <1>1, <1>4, <2>1 DEF Walks, PipelineStep
<1>5. ASSUME NEW r \in Requests, NEW new \in Request, req' = [req EXCEPT ![r] = new],
             NEW x \in Creators, Takes(r, new, x)
      PROVE  PipelineStep
  <2>1. req'[r] = new /\ \A q \in Requests : q # r => req'[q] = req[q]
    BY <1>3, <1>5
  <2>2. QED
    BY <1>1, <1>5, <2>1 DEF Takes, PipelineStep
<1>6. ASSUME NEW r \in Requests, NEW new \in Request, req' = [req EXCEPT ![r] = new],
             Saves(r, new)
      PROVE  PipelineStep
  <2>1. req'[r] = new /\ \A q \in Requests : q # r => req'[q] = req[q]
    BY <1>3, <1>6
  <2>2. /\ r \in Creators /\ Holders(r) = {} /\ new.at = "routed" /\ rows[r] = None
        /\ rows'[r] = NewRow /\ NewRow # None /\ \A y \in Creators : y # r => rows'[y] = rows[y]
    BY <1>1, <1>6, Facts, StatusesAre, ZenonT(60) DEF Saves
  <2>3. \A c \in Creators : req[c].at \in Pipeline =>
            req[c].on \in Creators /\ req[c].on # r /\ rows'[req[c].on] = rows[req[c].on]
    BY <1>1, <2>2, HereToo
  <2>4. QED
    BY <1>1, <2>1, <2>2, <2>3 DEF PipelineStep
<1>7. ASSUME NEW r \in Requests, NEW new \in Request, req' = [req EXCEPT ![r] = new],
             NEW row \in Row, Updates(r, new, row)
      PROVE  PipelineStep
  <2>1. req'[r] = new /\ \A q \in Requests : q # r => req'[q] = req[q]
    BY <1>3, <1>7
  <2>2. /\ req[r].on \in Creators /\ rows[req[r].on] # None /\ row.status # "CREATED"
        /\ rows'[req[r].on] = row /\ rows'[req[r].on] # None
        /\ \A y \in Creators : y # req[r].on => rows'[y] = rows[y]
    <3>1. /\ req[r].on \in Creators /\ rows[req[r].on] # None /\ row.status # "CREATED"
          /\ rows' = [rows EXCEPT ![req[r].on] = row]
      BY <1>7, HereToo DEF Updates
    <3>2. QED
      BY <1>1, <3>1, StatusesAre
  <2>3. new.at \in Pipeline => req[r].at \in Pipeline /\ new.on = req[r].on
    BY <1>1, <1>7 DEF Updates
  <2>4. \A c \in Creators : req[c].at \in Pipeline => req[c].on \in Creators
    BY <1>1, HereToo
  <2>5. QED
    BY <1>1, <2>1, <2>2, <2>3, <2>4 DEF PipelineStep
<1>8. QED
  BY <1>2, <1>4, <1>5, <1>6, <1>7 DEF Shaped

LEMMA InstructedOnce ==
    ASSUME LInv, NoneScreenedTwice, KInv, PipelineStep, Instructs, UNCHANGED fixed, KeysApart'
    PROVE  KInv'
<1>1. \A i, j \in Creators : SameKey(i, j)' <=> SameKey(i, j)
  BY DEF SameKey, KeyOf, fixed
<1>2. KeysApart
  BY DEF LInv, IInv
<1>3. "instruct" \in Pipeline \ {"routed"} /\ Creators \subseteq Requests
  BY DEF Pipeline, Requests
\* A new instruction: its create works on the row of its key, and alone.
<1>4. ASSUME NEW i \in Creators, instr[i] = None, instr'[i] # None
      PROVE  /\ rows' = rows /\ req[i].at \in Pipeline \ {"routed"}
             /\ req[i].on \in Creators /\ rows[req[i].on] # None
             /\ rows[req[i].on].status # "CREATED"
             /\ KeyOf(req[i].on) = KeyOf(i)
  <2>1. rows' = rows /\ req[i].at = "instruct" /\ req[i].at \notin Early \cup Saving
    BY <1>4 DEF Instructs, At, Early, Saving
  <2>2. req[i].on \in Creators /\ rows[req[i].on] # None /\ SharedOK(i, req[i])
    BY <1>3, <2>1, Working DEF LInv
  <2>3. KeyOf(req[i].on) = KeyOf(i)
    BY <2>2, OrchestrationAssumption DEF SharedOK
  <2>4. QED
    BY <1>3, <2>1, <2>2, <2>3 DEF KInv
<1>5. ASSUME NEW i \in Creators, NEW x \in Creators, instr[i] = None, instr'[i] # None,
             rows[x] # None, SameKey(x, i)
      PROVE  x = req[i].on /\ rows[x].status # "CREATED"
  BY <1>2, <1>4, <1>5 DEF KeysApart, SameKey
<1>6. ASSUME NEW i \in Creators, KeyOf(i) # NoKey, instr[i] # None \/ instr'[i] # None
      PROVE  \E x \in Creators : rows[x] # None /\ SameKey(x, i)
  BY <1>4, <1>6 DEF KInv, SameKey
<1>7. ASSUME NEW i \in Creators, instr'[i] # None, KeyOf(i) # NoKey
      PROVE  \E x \in Creators : rows'[x] # None /\ SameKey(x, i)
  BY <1>6, <1>7 DEF PipelineStep
\* A create that finds no row of its key finds no instruction of its key.
<1>8. ASSUME NEW c \in Creators, NEW i \in Creators, Holders(c) = {}, SameKey(i, c)
      PROVE  instr[i] = None /\ instr'[i] = None
  <2>1. ASSUME NEW x \in Creators, rows[x] # None, SameKey(x, i) PROVE FALSE
    BY <1>8, <2>1 DEF Holders, SameKey
  <2>2. QED
    BY <1>6, <1>8, <2>1 DEF SameKey
<1>9. ASSUME NEW i \in Creators, NEW x \in Creators, rows[x] # None, rows[x].status = "CREATED",
             SameKey(i, x)
      PROVE  instr'[i] = None
  <2>1. instr[i] = None
    BY <1>9 DEF KInv
  <2>2. SameKey(x, i)
    BY <1>9 DEF SameKey
  <2>3. QED
    BY <1>5, <1>9, <2>1, <2>2
<1>10. ASSUME NEW i \in Creators, NEW x \in Creators, rows'[x] # None, rows'[x].status = "CREATED",
              SameKey(i, x)
       PROVE  instr'[i] = None
  BY <1>8, <1>9, <1>10 DEF PipelineStep
<1>11. ASSUME NEW c \in Creators, NEW i \in Creators, req[c].at \in Pipeline, i # c, SameKey(i, c)
       PROVE  instr'[i] = None
  <2>1. instr[i] = None
    BY <1>11 DEF KInv
  <2>2. SUFFICES ASSUME instr'[i] # None PROVE FALSE
    OBVIOUS
  <2>3. req[i].at \in Pipeline /\ req[i].on \in Creators /\ rows[req[i].on] # None
        /\ KeyOf(req[i].on) = KeyOf(i)
    BY <1>4, <2>1, <2>2
  <2>4. req[c].on \in Creators /\ rows[req[c].on] # None /\ KeyOf(req[c].on) = KeyOf(c)
    <3>1. req[c].at \notin Rowless
      BY <1>11 DEF Pipeline, Rowless
    <3>2. req[c].on \in Creators /\ rows[req[c].on] # None /\ SharedOK(c, req[c])
      BY <1>3, <3>1, HereToo, Working
    <3>3. QED
      BY <3>2, OrchestrationAssumption DEF SharedOK
  <2>5. req[c].on = req[i].on
    BY <1>2, <1>11, <2>3, <2>4 DEF KeysApart, SameKey
  <2>6. QED
    BY <1>11, <2>3, <2>5 DEF NoneScreenedTwice
<1>12. ASSUME NEW c \in Creators, NEW i \in Creators, req'[c].at \in Pipeline, i # c, SameKey(i, c)
       PROVE  instr'[i] = None
  <2>1. CASE req[c].at \in Pipeline
    BY <1>11, <1>12, <2>1
  <2>2. CASE Holders(c) = {}
    BY <1>8, <1>12, <2>2
  <2>3. ASSUME NEW x \in Creators, rows[x] # None, rows[x].status = "CREATED", KeyOf(x) = KeyOf(c)
        PROVE  instr'[i] = None
    BY <1>9, <1>12, <2>3 DEF SameKey
  <2>4. QED
    BY <1>12, <2>1, <2>2, <2>3 DEF PipelineStep
<1>13. ASSUME NEW c \in Creators, req'[c].at \in Pipeline \ {"routed"}
       PROVE  rows'[req'[c].on].status # "CREATED"
  BY <1>13 DEF PipelineStep, KInv
<1>14. ASSUME NEW i \in Creators, NEW j \in Creators, instr'[i] # None, instr'[j] # None,
              SameKey(i, j)
       PROVE  i = j
  <2>1. SUFFICES ASSUME i # j PROVE FALSE
    OBVIOUS
  <2>2. SameKey(j, i)
    BY <1>14 DEF SameKey
  <2>3. CASE instr[i] = None
    BY <1>4, <1>11, <1>14, <2>1, <2>2, <2>3
  <2>4. CASE instr[j] = None
    BY <1>4, <1>11, <1>14, <2>1, <2>4
  <2>5. CASE instr[i] # None /\ instr[j] # None
    BY <1>14, <2>1, <2>5 DEF KInv, OneInstructionPerKey, SameKey
  <2>6. QED
    BY <2>3, <2>4, <2>5
<1>15. \A i, j \in Creators : (KeyOf(i) # NoKey)' <=> KeyOf(i) # NoKey
  BY DEF KeyOf, fixed
<1>16. OneInstructionPerKey'
  BY <1>14 DEF OneInstructionPerKey, SameKey, KeyOf, fixed
<1>17. QED
  BY <1>1, <1>7, <1>10, <1>12, <1>13, <1>15, <1>16 DEF KInv

\* The row a losing create finds still CREATED is the only way to a second
\* instruction for an idempotency key: while no two creates take one row through
\* the pipeline at once, a key has one instruction at most.
THEOREM InstructedOnceUnraced == Spec /\ []NoneScreenedTwice => []OneInstructionPerKey
<1>1. Init => KInv
  <2>1. SUFFICES ASSUME Init PROVE KInv
    OBVIOUS
  <2>2. \A c \in Creators : req[c].at = "lookup"
    BY <2>1, Facts DEF Init, Location, Requests
  <2>3. \A x \in Creators : rows[x] = None /\ instr[x] = None
    BY <2>1 DEF Init
  <2>4. QED
    BY <2>2, <2>3 DEF KInv, OneInstructionPerKey, Pipeline
<1>2. LInv /\ NoneScreenedTwice /\ KInv /\ [Next]_vars /\ LInv' => KInv'
  <2>1. SUFFICES ASSUME LInv, NoneScreenedTwice, KInv, [Next]_vars, LInv' PROVE KInv'
    OBVIOUS
  <2>2. UNCHANGED fixed
    BY <2>1, FixedStays
  <2>3. KeysApart'
    BY <2>1 DEF LInv, IInv
  <2>4. PipelineStep /\ Instructs
    BY <2>1, StepShaped, StepInPipeline, StepInstructs
  <2>5. QED
    BY <2>1, <2>2, <2>3, <2>4, InstructedOnce
<1>3. KInv => OneInstructionPerKey
  BY DEF KInv
<1>4. QED
  BY <1>1, <1>2, <1>3, InvariantToo, PTL DEF Spec

\* Creates that never give one key with one payload have one instruction per
\* key outright, with any GETs beside them: only a replay can be dispatched again.
THEOREM InstructedOnceSeparate ==
    ASSUME \A l \in Loads : \A c, d \in Creators : l[c] = l[d] => c = d
    PROVE  Spec => []OneInstructionPerKey
<1>1. LInv => NoneScreenedTwice
  <2>1. \A at \in Pipeline : at \notin Rowless
    BY DEF Pipeline, Rowless
  <2>2. QED
    BY <2>1, OwnRow DEF NoneScreenedTwice
<1>2. QED
  BY <1>1, InvariantToo, InstructedOnceUnraced, PTL

-----------------------------------------------------------------------------
(* How many steps a request has left                                       *)

\* The await of a request and the polls it has made bound the steps it has left.
\* Every poll is worth four: itself, its record, and a SETTLING row.
RankOf(at, polls) ==
    CASE at = "lookup" -> 4 * MaxPolls + 23
      [] at = "mandate" -> 4 * MaxPolls + 22
      [] at = "route" -> 4 * MaxPolls + 21
      [] at = "save" -> 4 * MaxPolls + 20
      [] at = "reread" -> 4 * MaxPolls + 19
      [] at = "routed" -> 4 * MaxPolls + 18
      [] at = "comply" -> 4 * MaxPolls + 17
      [] at = "recheck" -> 4 * MaxPolls + 16
      [] at = "limit" -> 4 * MaxPolls + 15
      [] at \in {"block", "reserve"} -> 4 * MaxPolls + 14
      [] at = "dispatch" -> 4 * MaxPolls + 13
      [] at = "instruct" -> 4 * MaxPolls + 12
      [] at \in {"dispatched", "get"} -> 4 * MaxPolls + 11
      [] at = "settling" -> 4 * (MaxPolls - polls) + 10
      [] at = "poll" -> 4 * (MaxPolls - polls) + 9
      [] at = "record" -> 4 * (MaxPolls - polls) + 8
      [] at = "event" -> 7
      [] at = "settled" -> 6
      [] at = "remandate" -> 5
      [] at = "issue" -> 4
      [] at = "sign" -> 3
      [] at = "link" -> 2
      [] at = "failed" -> 1
      [] OTHER -> 0

Rank(r) == RankOf(req[r].at, req[r].polls)

LEMMA RankIs ==
    /\ \A at \in Location, polls \in 0 .. MaxPolls : RankOf(at, polls) \in 0 .. 4 * MaxPolls + 23
    /\ \A at \in Location \ {"done"}, polls \in 0 .. MaxPolls : RankOf(at, polls) > 0
    /\ \A polls \in 0 .. MaxPolls : RankOf("done", polls) = 0
BY Facts DEF RankOf, Location

\* What is left at each await but those of a settlement's end.
LEMMA RankValues ==
    ASSUME NEW polls \in 0 .. MaxPolls
    PROVE  /\ RankOf("lookup", polls) = 4 * MaxPolls + 23
           /\ RankOf("mandate", polls) = 4 * MaxPolls + 22
           /\ RankOf("route", polls) = 4 * MaxPolls + 21
           /\ RankOf("save", polls) = 4 * MaxPolls + 20
           /\ RankOf("reread", polls) = 4 * MaxPolls + 19
           /\ RankOf("routed", polls) = 4 * MaxPolls + 18
           /\ RankOf("comply", polls) = 4 * MaxPolls + 17
           /\ RankOf("recheck", polls) = 4 * MaxPolls + 16
           /\ RankOf("limit", polls) = 4 * MaxPolls + 15
           /\ RankOf("block", polls) = 4 * MaxPolls + 14
           /\ RankOf("reserve", polls) = 4 * MaxPolls + 14
           /\ RankOf("dispatch", polls) = 4 * MaxPolls + 13
           /\ RankOf("instruct", polls) = 4 * MaxPolls + 12
           /\ RankOf("dispatched", polls) = 4 * MaxPolls + 11
           /\ RankOf("get", polls) = 4 * MaxPolls + 11
           /\ RankOf("settling", polls) = 4 * (MaxPolls - polls) + 10
           /\ RankOf("poll", polls) = 4 * (MaxPolls - polls) + 9
           /\ RankOf("record", polls) = 4 * (MaxPolls - polls) + 8
           /\ RankOf("failed", polls) = 1
           /\ RankOf("done", polls) = 0
<1>1. /\ RankOf("lookup", polls) = 4 * MaxPolls + 23
      /\ RankOf("mandate", polls) = 4 * MaxPolls + 22
      /\ RankOf("route", polls) = 4 * MaxPolls + 21
      /\ RankOf("save", polls) = 4 * MaxPolls + 20
      /\ RankOf("reread", polls) = 4 * MaxPolls + 19
  BY Facts DEF RankOf
<1>2. /\ RankOf("routed", polls) = 4 * MaxPolls + 18
      /\ RankOf("comply", polls) = 4 * MaxPolls + 17
      /\ RankOf("recheck", polls) = 4 * MaxPolls + 16
      /\ RankOf("limit", polls) = 4 * MaxPolls + 15
  BY Facts DEF RankOf
<1>3. /\ RankOf("block", polls) = 4 * MaxPolls + 14
      /\ RankOf("reserve", polls) = 4 * MaxPolls + 14
      /\ RankOf("dispatch", polls) = 4 * MaxPolls + 13
  BY Facts DEF RankOf
<1>4. /\ RankOf("instruct", polls) = 4 * MaxPolls + 12
      /\ RankOf("dispatched", polls) = 4 * MaxPolls + 11
      /\ RankOf("get", polls) = 4 * MaxPolls + 11
  BY Facts DEF RankOf
<1>5. /\ RankOf("settling", polls) = 4 * (MaxPolls - polls) + 10
      /\ RankOf("poll", polls) = 4 * (MaxPolls - polls) + 9
      /\ RankOf("record", polls) = 4 * (MaxPolls - polls) + 8
  BY Facts DEF RankOf
<1>6. /\ RankOf("failed", polls) = 1
      /\ RankOf("done", polls) = 0
  BY Facts DEF RankOf
<1>7. QED
  BY <1>1, <1>2, <1>3, <1>4, <1>5, <1>6

\* Request r has fewer steps left than before, and the others have not moved.
Falls(r) ==
    \E new \in Request : /\ req' = [req EXCEPT ![r] = new]
                         /\ RankOf(new.at, new.polls) < Rank(r)

LEMMA GotoFalls ==
    ASSUME TypeOK, NEW r \in Requests, NEW to \in Location, Goto(r, to),
           RankOf(to, req[r].polls) < Rank(r)
    PROVE  Falls(r)
<1>1. CASE to = "done"
  <2>1. PICK new \in Request : new = RequestAt("done") /\ new.at = "done"
    BY Facts DEF Location
  <2>2. new.polls \in 0 .. MaxPolls /\ req[r].polls \in 0 .. MaxPolls
    BY DEF TypeOK, Request
  <2>3. RankOf(new.at, new.polls) < Rank(r)
    BY <1>1, <2>1, <2>2, RankIs
  <2>4. QED
    BY <1>1, <2>1, <2>3 DEF Falls, Goto
<1>2. CASE to # "done"
  BY <1>2, GotoIs DEF Falls
<1>3. QED
  BY <1>1, <1>2

LEMMA CarryFalls ==
    ASSUME TypeOK, NEW r \in Requests, NEW to \in Location, NEW row \in Row, Carry(r, to, row),
           RankOf(to, req[r].polls) < Rank(r)
    PROVE  Falls(r)
<1>1. CASE to = "done"
  BY <1>1, GotoFalls DEF Carry, Goto
<1>2. CASE to # "done"
  BY <1>2, CarryIs DEF Falls
<1>3. QED
  BY <1>1, <1>2

LEMMA StatusFalls ==
    ASSUME LInv, NEW r \in Requests, NEW to \in Location, NEW status \in Status,
           PutStatus(r, to, status), RankOf(to, req[r].polls) < Rank(r)
    PROVE  Falls(r)
<1>1. \A copy \in Row : [copy EXCEPT !.status = status] \in Row
  BY DEF Row
<1>2. PICK row \in Row : row = [req[r].copy EXCEPT !.status = status]
  BY <1>1, HereToo
<1>3. QED
  BY <1>2, CarryFalls, HereToo DEF PutStatus, Put

LEMMA AdoptFalls ==
    ASSUME LInv, NEW r \in Requests, NEW x \in Creators, rows[x] # None, NEW to \in Location,
           Adopt(r, to, x), \A polls \in 0 .. MaxPolls : RankOf(to, polls) < Rank(r)
    PROVE  Falls(r)
<1>1. TypeOK /\ req[r].polls \in 0 .. MaxPolls
  BY HereToo DEF Request
<1>2. CASE to = "done"
  BY <1>1, <1>2, GotoFalls DEF Adopt, Goto
<1>3. CASE to # "done"
  <2>1. PICK new \in Request : req' = [req EXCEPT ![r] = new] /\ new.at = to
    BY <1>1, <1>3, AdoptIs
  <2>2. new.polls \in 0 .. MaxPolls
    BY DEF Request
  <2>3. QED
    BY <2>1, <2>2 DEF Falls
<1>4. QED
  BY <1>2, <1>3

LEMMA LookupFalls ==
    ASSUME LInv, NEW c \in Creators, Lookup(c) \/ Reread(c)
    PROVE  Falls(c)
<1>1. /\ c \in Requests /\ TypeOK /\ req[c].at \in {"lookup", "reread"}
      /\ req[c].polls \in 0 .. MaxPolls
      /\ {"mandate", "routed", "poll", "done"} \subseteq Location
  BY HereToo DEF Lookup, Reread, At, Requests, Request, Location
<1>2. /\ \A to \in {"routed", "poll", "done"}, polls \in 0 .. MaxPolls : RankOf(to, polls) < Rank(c)
      /\ req[c].at = "lookup" => RankOf("mandate", req[c].polls) < Rank(c)
  BY <1>1, RankValues, Facts DEF Rank
<1>3. ASSUME NEW x \in Holders(c), NEW to \in {"routed", "poll", "done"}, Adopt(c, to, x)
      PROVE  Falls(c)
  BY <1>1, <1>2, <1>3, Shares, AdoptFalls
<1>4. \A x \in Creators : AdvanceTo(rows[x]) \in {"routed", "poll", "done"}
  BY DEF AdvanceTo
<1>5. ASSUME NEW to \in {"mandate", "done"}, Goto(c, to), to = "mandate" => req[c].at = "lookup"
      PROVE  Falls(c)
  BY <1>1, <1>2, <1>5, GotoFalls
<1>6. QED
  BY <1>3, <1>4, <1>5, Shares DEF Lookup, Reread, At

LEMMA PipelineRanks ==
    ASSUME LInv, NEW c \in Creators, req[c].at # "done"
    PROVE  /\ At(c, "mandate") => RankOf("route", req[c].polls) < Rank(c)
           /\ At(c, "route") => RankOf("save", req[c].polls) < Rank(c)
           /\ At(c, "save") => /\ RankOf("reread", req[c].polls) < Rank(c)
                              /\ RankOf("routed", req[c].polls) < Rank(c)
           /\ At(c, "routed") => RankOf("comply", req[c].polls) < Rank(c)
           /\ At(c, "comply") => RankOf("recheck", req[c].polls) < Rank(c)
           /\ At(c, "recheck") => RankOf("limit", req[c].polls) < Rank(c)
           /\ At(c, "limit") => /\ RankOf("reserve", req[c].polls) < Rank(c)
                               /\ RankOf("block", req[c].polls) < Rank(c)
           /\ RankOf("done", req[c].polls) < Rank(c)
<1>1. req[c].at \in Location \ {"done"} /\ req[c].polls \in 0 .. MaxPolls
  BY HereToo DEF Requests, Request
<1>2. Rank(c) > 0 /\ RankOf("done", req[c].polls) = 0
  BY <1>1, RankIs DEF Rank
<1>3. /\ At(c, "mandate") => RankOf("route", req[c].polls) < Rank(c)
      /\ At(c, "route") => RankOf("save", req[c].polls) < Rank(c)
      /\ At(c, "save") => /\ RankOf("reread", req[c].polls) < Rank(c)
                         /\ RankOf("routed", req[c].polls) < Rank(c)
      /\ At(c, "routed") => RankOf("comply", req[c].polls) < Rank(c)
  BY <1>1, RankValues, Facts DEF At, Rank
<1>4. /\ At(c, "comply") => RankOf("recheck", req[c].polls) < Rank(c)
      /\ At(c, "recheck") => RankOf("limit", req[c].polls) < Rank(c)
      /\ At(c, "limit") => /\ RankOf("reserve", req[c].polls) < Rank(c)
                          /\ RankOf("block", req[c].polls) < Rank(c)
  BY <1>1, RankValues, Facts DEF At, Rank
<1>5. QED
  BY <1>2, <1>3, <1>4

LEMMA PipelineFalls ==
    ASSUME LInv, NEW c \in Creators,
           \/ ReadMandate(c) \/ ReadRoute(c) \/ Save(c) \/ RouteOrExpire(c) \/ Comply(c)
           \/ Recheck(c) \/ CheckLimit(c) \/ Block(c)
    PROVE  Falls(c)
<1>1. /\ c \in Requests /\ TypeOK /\ req[c] \in Request /\ req[c].polls \in 0 .. MaxPolls
      /\ {"route", "save", "reread", "routed", "comply", "recheck", "limit", "reserve", "block",
          "done"} \subseteq Location
  BY HereToo DEF Requests, Request, Location
<1>2. ASSUME NEW to \in {"route", "reread", "limit", "reserve", "block", "done"}, Goto(c, to),
             RankOf(to, req[c].polls) < Rank(c)
      PROVE  Falls(c)
  BY <1>1, <1>2, GotoFalls
<1>3. ASSUME NEW to \in {"comply", "recheck", "done"}, NEW status \in Status, PutStatus(c, to, status),
             RankOf(to, req[c].polls) < Rank(c)
      PROVE  Falls(c)
  BY <1>1, <1>3, StatusFalls
<1>4. {"EXPIRED", "ROUTED", "BLOCKED", "COMPLIANCE_REVIEW", "COMPLIANCE_PASSED"} \subseteq Status
      /\ req[c].at # "done"
  BY DEF Status, ReadMandate, ReadRoute, Save, RouteOrExpire, Comply, Recheck, CheckLimit, Block, At
<1>5. CASE ReadMandate(c) \/ CheckLimit(c)
  BY <1>2, <1>4, <1>5, PipelineRanks DEF ReadMandate, CheckLimit, At
<1>6. CASE ReadRoute(c)
  <2>1. PICK late \in BOOLEAN : late = (quote = "expired")
    OBVIOUS
  <2>2. req' = [req EXCEPT ![c] = [req[c] EXCEPT !.at = "save", !.on = c, !.late = late]]
    BY <1>1, <1>6, <2>1 DEF ReadRoute, TypeOK
  <2>3. \A q \in Request : LET changed == [q EXCEPT !.at = "save", !.on = c, !.late = late]
                           IN  changed \in Request /\ changed.at = "save" /\ changed.polls = q.polls
    BY DEF Request, Location
  <2>4. PICK new \in Request : /\ req' = [req EXCEPT ![c] = new]
                               /\ new.at = "save" /\ new.polls = req[c].polls
    BY <1>1, <2>2, <2>3
  <2>5. RankOf("save", req[c].polls) < Rank(c)
    BY <1>4, <1>6, PipelineRanks DEF ReadRoute
  <2>6. QED
    BY <2>4, <2>5 DEF Falls
<1>7. CASE Save(c)
  <2>1. CASE Goto(c, "reread")
    BY <1>2, <1>4, <1>7, <2>1, PipelineRanks DEF Save, At
  <2>2. CASE Put(c, "routed", req[c].copy)
    <3>1. RankOf("routed", req[c].polls) < Rank(c)
      BY <1>4, <1>7, PipelineRanks DEF Save
    <3>2. QED
      BY <1>1, <2>2, <3>1, CarryFalls, HereToo DEF Put
  <2>3. QED
    BY <1>7, <2>1, <2>2 DEF Save
<1>8. CASE RouteOrExpire(c)
  BY <1>3, <1>4, <1>8, PipelineRanks DEF RouteOrExpire, At
<1>9. CASE Comply(c)
  BY <1>3, <1>4, <1>9, PipelineRanks DEF Comply, At
<1>10. CASE Recheck(c)
  BY <1>2, <1>3, <1>4, <1>10, PipelineRanks DEF Recheck, At
<1>11. CASE Block(c)
  BY <1>3, <1>4, <1>11, PipelineRanks DEF Block, At
<1>12. QED
  BY <1>5, <1>6, <1>7, <1>8, <1>9, <1>10, <1>11

LEMMA DispatchFalls ==
    ASSUME LInv, NEW c \in Creators,
           \/ Reserve(c) \/ Dispatch(c) \/ SaveInstruction(c) \/ DispatchWriteFails(c)
           \/ MarkDispatched(c)
    PROVE  Falls(c)
<1>1. /\ c \in Requests /\ TypeOK /\ req[c] \in Request /\ req[c].polls \in 0 .. MaxPolls
      /\ req[c].copy \in Row
      /\ {"dispatch", "instruct", "dispatched", "poll", "failed"} \subseteq Location
  BY HereToo DEF Requests, Request, Location
<1>2. /\ At(c, "reserve") => RankOf("dispatch", req[c].polls) < Rank(c)
      /\ At(c, "dispatch") => RankOf("instruct", req[c].polls) < Rank(c)
      /\ At(c, "instruct") => RankOf("dispatched", req[c].polls) < Rank(c)
      /\ At(c, "dispatched") => RankOf("poll", req[c].polls) < Rank(c)
      /\ req[c].at \in {"dispatch", "instruct", "dispatched"} =>
            RankOf("failed", req[c].polls) < Rank(c)
  BY <1>1, RankValues, Facts DEF At, Rank
<1>3. CASE Reserve(c)
  <2>1. \A copy \in Row : [copy EXCEPT !.reserved = TRUE] \in Row
    BY DEF Row
  <2>2. PICK row \in Row : row = [req[c].copy EXCEPT !.reserved = TRUE]
    BY <1>1, <2>1
  <2>3. QED
    BY <1>1, <1>2, <1>3, <2>2, CarryFalls DEF Reserve, Put
<1>4. CASE MarkDispatched(c)
  <2>1. \A copy \in Row : [copy EXCEPT !.status = "DISPATCHED", !.instr = c] \in Row
    BY DEF Row, Status
  <2>2. PICK row \in Row : row = [req[c].copy EXCEPT !.status = "DISPATCHED", !.instr = c]
    BY <1>1, <2>1
  <2>3. QED
    BY <1>1, <1>2, <1>4, <2>2, CarryFalls DEF MarkDispatched, Put
<1>5. CASE Dispatch(c) \/ SaveInstruction(c) \/ DispatchWriteFails(c)
  BY <1>1, <1>2, <1>5, GotoFalls DEF Dispatch, SaveInstruction, DispatchWriteFails, At
<1>6. QED
  BY <1>3, <1>4, <1>5

LEMMA PollFalls == ASSUME LInv, NEW r \in Requests, Poll(r) \/ RecordReport(r) PROVE Falls(r)
<1>1. /\ TypeOK /\ req[r] \in Request /\ req[r].polls \in 0 .. MaxPolls
      /\ req[r].at \in {"poll", "record"}
  BY HereToo DEF Request, Poll, RecordReport, At
<1>2. req'[r] \in Request
  BY PollKeeps, RecordReportKeeps DEF LInv, IInv, TypeOK
<1>3. CASE Poll(r)
  <2>1. /\ req' = [req EXCEPT ![r] = req'[r]] /\ req'[r].at = "record"
        /\ req'[r].polls = req[r].polls /\ req[r].at = "poll"
    BY <1>1, <1>3 DEF Poll, TypeOK, Request, At
  <2>2. PICK new \in Request : /\ req' = [req EXCEPT ![r] = new]
                               /\ new.at = "record" /\ new.polls = req[r].polls
    BY <1>2, <2>1
  <2>3. RankOf("record", req[r].polls) < Rank(r)
    BY <1>1, <2>1, Facts DEF RankOf, Rank
  <2>4. QED
    BY <2>2, <2>3 DEF Falls
<1>4. CASE RecordReport(r)
  <2>1. PICK to \in {"event", "failed", "settling", "poll"} : to = AfterReport(r)
    BY DEF AfterReport
  <2>2. /\ req' = [req EXCEPT ![r] = req'[r]] /\ req'[r].at = to
        /\ req'[r].polls = req[r].polls + 1 /\ req[r].at = "record"
    BY <1>1, <1>4, <2>1 DEF RecordReport, TypeOK, Request, At
  <2>3. PICK new \in Request : /\ req' = [req EXCEPT ![r] = new]
                               /\ new.at = to /\ new.polls = req[r].polls + 1
    BY <1>2, <2>2
  <2>4. new.polls \in 0 .. MaxPolls
    BY DEF Request
  <2>5. RankOf(to, req[r].polls + 1) < Rank(r)
    BY <1>1, <2>2, <2>3, <2>4, Facts DEF RankOf, Rank
  <2>6. QED
    BY <2>3, <2>5 DEF Falls
<1>5. QED
  BY <1>3, <1>4

LEMMA SettleFalls ==
    ASSUME LInv, NEW r \in Requests,
           \/ Fail(r) \/ MarkSettling(r) \/ PollsSpent(r) \/ RecordEvent(r) \/ MarkSettled(r)
           \/ ReadMandateAgain(r) \/ FindReceipt(r) \/ RefuseReceipt(r) \/ SaveReceipt(r)
           \/ LinkReceipt(r)
    PROVE  Falls(r)
<1>1. /\ TypeOK /\ req[r].polls \in 0 .. MaxPolls /\ req[r].copy \in Row
      /\ {"poll", "settled", "remandate", "issue", "sign", "link", "done"} \subseteq Location
      /\ {"FAILED", "SETTLING", "SETTLED"} \subseteq Status
  BY HereToo DEF Request, Location, Status
<1>2. /\ At(r, "settling") => RankOf("poll", req[r].polls) < Rank(r)
      /\ At(r, "event") => RankOf("settled", req[r].polls) < Rank(r)
      /\ At(r, "settled") => RankOf("remandate", req[r].polls) < Rank(r)
      /\ At(r, "remandate") => RankOf("issue", req[r].polls) < Rank(r)
      /\ At(r, "issue") => /\ RankOf("sign", req[r].polls) < Rank(r)
                           /\ RankOf("link", req[r].polls) < Rank(r)
      /\ At(r, "sign") => RankOf("link", req[r].polls) < Rank(r)
      /\ req[r].at \in {"failed", "poll", "remandate", "sign", "link"} =>
            RankOf("done", req[r].polls) < Rank(r)
  <2>1. At(r, "settling") => RankOf("poll", req[r].polls) < Rank(r)
    <3>1. \A polls \in 0 .. MaxPolls : RankOf("poll", polls) < RankOf("settling", polls)
      BY Facts DEF RankOf
    <3>2. QED
      BY <1>1, <3>1 DEF At, Rank
  <2>2. /\ At(r, "event") => RankOf("settled", req[r].polls) < Rank(r)
        /\ At(r, "settled") => RankOf("remandate", req[r].polls) < Rank(r)
        /\ At(r, "remandate") => RankOf("issue", req[r].polls) < Rank(r)
        /\ At(r, "issue") => /\ RankOf("sign", req[r].polls) < Rank(r)
                            /\ RankOf("link", req[r].polls) < Rank(r)
        /\ At(r, "sign") => RankOf("link", req[r].polls) < Rank(r)
    <3>1. \A polls \in 0 .. MaxPolls :
             /\ RankOf("event", polls) = 7 /\ RankOf("settled", polls) = 6
             /\ RankOf("remandate", polls) = 5 /\ RankOf("issue", polls) = 4
             /\ RankOf("sign", polls) = 3 /\ RankOf("link", polls) = 2
      BY DEF RankOf
    <3>2. QED
      BY <1>1, <3>1 DEF At, Rank
  <2>3. req[r].at \in {"failed", "poll", "remandate", "sign", "link"} =>
            RankOf("done", req[r].polls) < Rank(r)
    <3>1. {"failed", "poll", "remandate", "sign", "link"} \subseteq Location \ {"done"}
      BY DEF Location
    <3>2. QED
      BY <1>1, <3>1, RankIs DEF Rank
  <2>4. QED
    BY <2>1, <2>2, <2>3
<1>3. CASE Fail(r) \/ MarkSettling(r) \/ PollsSpent(r) \/ MarkSettled(r)
  BY <1>1, <1>2, <1>3, StatusFalls DEF Fail, MarkSettling, PollsSpent, MarkSettled, At
<1>4. CASE \/ RecordEvent(r) \/ ReadMandateAgain(r) \/ FindReceipt(r)
           \/ RefuseReceipt(r) \/ SaveReceipt(r)
  BY <1>1, <1>2, <1>4, GotoFalls
     DEF RecordEvent, ReadMandateAgain, FindReceipt, RefuseReceipt, SaveReceipt, At
<1>5. CASE LinkReceipt(r)
  <2>1. \A copy \in Row : [copy EXCEPT !.receipt = TRUE] \in Row
    BY DEF Row
  <2>2. PICK row \in Row : row = [req[r].copy EXCEPT !.receipt = TRUE]
    BY <1>1, <2>1
  <2>3. QED
    BY <1>1, <1>2, <1>5, <2>2, CarryFalls DEF LinkReceipt, Put, At
<1>6. QED
  BY <1>3, <1>4, <1>5

LEMMA GetFalls == ASSUME LInv, NEW g \in Readers, Get(g) PROVE Falls(g)
<1>1. g \in Requests /\ req[g].at = "get" /\ {"poll", "done"} \subseteq Location
  BY DEF Get, At, Requests, Location
<1>2. \A to \in {"poll", "done"}, polls \in 0 .. MaxPolls : RankOf(to, polls) < Rank(g)
  BY <1>1, Facts DEF RankOf, Rank
<1>3. PICK x \in Creators, to \in {"poll", "done"} : rows[x] # None /\ Adopt(g, to, x)
  BY DEF Get, AdvanceTo
<1>4. QED
  BY <1>1, <1>2, <1>3, AdoptFalls

\* The steps of a request, by its rank.
AnswersInTime ==
    /\ \A r \in Requests : Rank(r) \in 0 .. 4 * MaxPolls + 23 /\ (Rank(r) = 0 <=> At(r, "done"))
    /\ \A r \in Requests : Rank(r)' <= Rank(r)
    /\ \A c \in Creators : CreateStep(c) => Rank(c)' < Rank(c)
    /\ \A r \in Requests : SettleStep(r) => Rank(r)' < Rank(r)

LEMMA FallsIs ==
    ASSUME LInv, NEW r \in Requests, Falls(r)
    PROVE  Rank(r)' < Rank(r) /\ \A q \in Requests : q # r => req'[q] = req[q]
<1>1. PICK new \in Request : /\ req' = [req EXCEPT ![r] = new]
                             /\ RankOf(new.at, new.polls) < Rank(r)
  BY DEF Falls
<1>2. req'[r] = new /\ \A q \in Requests : q # r => req'[q] = req[q]
  BY <1>1, ViewsAre, HereToo
<1>3. QED
  BY <1>1, <1>2 DEF Rank, RankOf

LEMMA StepFalls ==
    ASSUME LInv
    PROVE  /\ \A c \in Creators : CreateStep(c) \/ DispatchWriteFails(c) => Falls(c)
           /\ \A r \in Requests : SettleStep(r) => Falls(r)
           /\ \A g \in Readers : Get(g) => Falls(g)
BY LookupFalls, PipelineFalls, DispatchFalls, PollFalls, SettleFalls, GetFalls
   DEF CreateStep, SettleStep

LEMMA RanksAre ==
    ASSUME LInv
    PROVE  \A r \in Requests : Rank(r) \in 0 .. 4 * MaxPolls + 23 /\ (Rank(r) = 0 <=> At(r, "done"))
<1>1. ASSUME NEW r \in Requests
      PROVE  req[r].at \in Location /\ req[r].polls \in 0 .. MaxPolls
  BY HereToo DEF Request
<1>2. QED
  BY <1>1, RankIs DEF Rank, At

\* A request has at most 4 * MaxPolls + 23 steps, counted by its rank: each step
\* of its own lowers the rank, no step of anything else raises it, and at zero
\* the request has answered.  So its settlement poll ends, whatever the partner
\* reports, if only its awaits return.
THEOREM RequestsAnswerInTime == Spec => [][AnswersInTime]_vars
<1>1. ASSUME LInv, LInv', Next PROVE AnswersInTime
  <2>1. \A r \in Requests : Rank(r) \in 0 .. 4 * MaxPolls + 23 /\ (Rank(r) = 0 <=> At(r, "done"))
    BY <1>1, RanksAre
  <2>2. \A r \in Requests : Rank(r)' \in Nat /\ (Rank(r)' = 0 <=> At(r, "done")')
    <3>1. (\A r \in Requests : Rank(r) \in 0 .. 4 * MaxPolls + 23 /\ (Rank(r) = 0 <=> At(r, "done")))'
      BY <1>1, RanksAre, PTL
    <3>2. QED
      BY <3>1, Facts
  <2>3. \A r \in Requests : Rank(r) \in Nat
    BY <2>1, Facts
  <2>4. ASSUME NEW r \in Requests, Falls(r)
        PROVE  Rank(r)' < Rank(r) /\ \A q \in Requests : Rank(q)' <= Rank(q)
    <3>1. Rank(r)' < Rank(r) /\ \A q \in Requests : q # r => req'[q] = req[q]
      BY <1>1, <2>4, FallsIs
    <3>2. \A q \in Requests : q # r => Rank(q)' = Rank(q)
      BY <3>1 DEF Rank
    <3>3. QED
      BY <2>2, <2>3, <3>1, <3>2
  <2>5. ASSUME req' = req PROVE \A r \in Requests : Rank(r)' <= Rank(r)
    <3>1. \A r \in Requests : Rank(r)' = Rank(r)
      BY <2>5 DEF Rank
    <3>2. QED
      BY <2>3, <3>1
  <2>6. ASSUME Crash PROVE \A r \in Requests : Rank(r)' <= Rank(r)
    <3>1. ASSUME NEW r \in Requests PROVE Rank(r)' <= Rank(r)
      <4>1. CASE At(r, "get") \/ At(r, "lookup")
        <5>1. req'[r] = req[r]
          BY <2>6, <4>1 DEF Crash
        <5>2. Rank(r)' = Rank(r)
          BY <5>1 DEF Rank
        <5>3. QED
          BY <2>3, <5>2
      <4>2. CASE ~At(r, "get") /\ ~At(r, "lookup")
        <5>1. At(r, "done")'
          <6>1. req'[r] = RequestAt("done")
            BY <2>6, <4>2 DEF Crash
          <6>2. QED
            BY <6>1, Facts DEF At, Location
        <5>2. QED
          BY <2>2, <2>3, <5>1
      <4>3. QED
        BY <4>1, <4>2
    <3>2. QED
      BY <3>1
  <2>7. Creators \subseteq Requests /\ Readers \subseteq Requests
    BY DEF Requests
  <2>8. \A r \in Requests : Rank(r)' <= Rank(r)
    <3>1. ASSUME NEW h \in Hooks, WebhookArrives(h) \/ RecordWebhook(h) PROVE req' = req
      BY <3>1 DEF WebhookArrives, RecordWebhook
    <3>2. ASSUME MandateEnds \/ QuoteExpires \/ Finished PROVE req' = req
      BY <3>2 DEF MandateEnds, QuoteExpires, Finished, locals, vars
    <3>3. ASSUME NEW r \in Requests, Falls(r) PROVE \A q \in Requests : Rank(q)' <= Rank(q)
      BY <2>4, <3>3
    <3>4. QED
      BY <1>1, <2>5, <2>6, <2>7, <3>1, <3>2, <3>3, StepFalls DEF Next
  <2>9. QED
    BY <1>1, <2>1, <2>4, <2>7, <2>8, StepFalls DEF AnswersInTime
<1>2. LInv /\ LInv' /\ [Next]_vars => [AnswersInTime]_vars
  BY <1>1
<1>3. QED
  BY <1>2, InvariantToo, PTL DEF Spec
=============================================================================
