----------------------- MODULE OperatorControlsProofs -----------------------
(***************************************************************************)
(* Proofs about OperatorControls, for any set of targets, shapes and       *)
(* concurrent requests and any number of rows and crashes.                 *)
(***************************************************************************)
EXTENDS OperatorControls, TLAPS

-----------------------------------------------------------------------------
(* The inductive invariant                                                 *)

\* What a request at each await is doing, and on what.
Placed ==
    \A r \in Requests :
        /\ req[r].at \in {"idle", "audit"} => req[r].op = "list"
        /\ req[r].at \in {"engage", "engaged"} => req[r].op = "engage" /\ req[r].on \in Targets
        /\ req[r].at \in {"release", "released"} => req[r].op = "release" /\ req[r].on \in Targets
        /\ req[r].at = "enable" => req[r].op = "enable" /\ req[r].on \in Shapes
        /\ req[r].at = "disable" => req[r].op = "disable" /\ req[r].on \in Shapes
        /\ req[r].op = "disable" => req[r].on \in Shapes

\* A request that is alone has no opposite request on its target in flight.
Apart ==
    \A r \in Requests : Busy(r) /\ req[r].alone =>
        /\ req[r].op = "engage" => ~InFlight("release", req[r].on)
        /\ req[r].op = "disable" => ~InFlight("enable", req[r].on)

\* An engagement nobody contests has a row from the moment it found one or
\* created one.
EngageBacked ==
    \A r \in Requests : req[r].alone =>
        /\ req[r].at = "engage" /\ req[r].found # 0 => active[req[r].on] # 0
        /\ req[r].at = "engaged" => active[req[r].on] # 0

\* What is asserted is not being released.
AssertedUncontested == \A t \in asserted : ~InFlight("release", t)

\* A disable nobody contests stays in force until the handler has hydrated.
DisableBacked ==
    \A r \in Requests : req[r].op = "disable" /\ req[r].alone =>
        /\ req[r].at \in {"list", "hydrate"} => req[r].on \notin enabled
        /\ req[r].at = "hydrate" => req[r].on \notin req[r].copy

\* Nobody is about to hydrate a list in which a withdrawn shape is enabled.
WithdrawnUnlisted ==
    \A s \in withdrawn, r \in Requests : req[r].at = "hydrate" => s \notin req[r].copy

IInv ==
    /\ TypeOK
    /\ Placed
    /\ Apart
    /\ EngageBacked
    /\ AssertedUncontested
    /\ EngagedHolds
    /\ DisableBacked
    /\ WithdrawnUnlisted
    /\ DisableHolds

-----------------------------------------------------------------------------
(* Requests that start and move on                                         *)

\* What Start does to each request.
LEMMA StartProps ==
    ASSUME TypeOK, NEW r \in Requests,
           NEW to \in Location \ {"idle"},
           NEW op \in {"engage", "release", "enable", "disable"},
           NEW opposite \in {"engage", "release", "enable", "disable"},
           NEW x \in Targets \cup Shapes, NEW found \in 0 .. MaxRows,
           Start(r, to, op, x, opposite, found)
    PROVE  /\ req' \in [Requests -> Request]
           /\ req'[r].at = to /\ req'[r].op = op /\ req'[r].on = x /\ req'[r].found = found
           /\ req'[r].alone <=> ~InFlight(opposite, x)
           /\ \A p \in Requests \ {r} :
                 /\ req'[p].at = req[p].at /\ req'[p].op = req[p].op
                 /\ req'[p].on = req[p].on /\ req'[p].found = req[p].found
                 /\ req'[p].copy = req[p].copy
                 /\ req'[p].alone =>
                       /\ req[p].alone
                       /\ ~(Busy(p) /\ req[p].op = opposite /\ req[p].on = x)
<1>1. req \in [Requests -> Request]
  BY DEF TypeOK
<1>2. InFlight(opposite, x) \in BOOLEAN
  BY DEF InFlight
<1> DEFINE apart == ~InFlight(opposite, x)
           new == [Idle EXCEPT !.at = to, !.op = op, !.on = x, !.found = found, !.alone = apart]
<1>a. apart \in BOOLEAN
  BY <1>2
<1>b. Start(r, to, op, x, opposite, found) <=>
      req' = [p \in Requests |->
                 IF p = r THEN new
                 ELSE IF Busy(p) /\ req[p].op = opposite /\ req[p].on = x
                      THEN [req[p] EXCEPT !.alone = FALSE]
                      ELSE req[p]]
  BY DEF Start
<1> HIDE DEF apart
<1>3. new \in Request
  BY <1>a, OperatorAssumption DEF Request, Idle
<1>4. new.at = to /\ new.op = op /\ new.on = x /\ new.found = found /\ new.alone = apart
  BY <1>a, Zenon DEF Idle
<1>5. req' = [p \in Requests |->
                 IF p = r THEN new
                 ELSE IF Busy(p) /\ req[p].op = opposite /\ req[p].on = x
                      THEN [req[p] EXCEPT !.alone = FALSE]
                      ELSE req[p]]
  BY <1>b
<1> HIDE DEF new
<1>6. \A p \in Requests : [req[p] EXCEPT !.alone = FALSE] \in Request
  BY <1>1 DEF Request
<1>7. req' \in [Requests -> Request] /\ req'[r] = new
  BY <1>1, <1>3, <1>5, <1>6
<1>8. ASSUME NEW p \in Requests \ {r}
      PROVE  /\ req'[p].at = req[p].at /\ req'[p].op = req[p].op
             /\ req'[p].on = req[p].on /\ req'[p].found = req[p].found
             /\ req'[p].copy = req[p].copy
             /\ req'[p].alone =>
                   /\ req[p].alone
                   /\ ~(Busy(p) /\ req[p].op = opposite /\ req[p].on = x)
  <2>1. req[p] \in Request
    BY <1>1
  <2>2. CASE Busy(p) /\ req[p].op = opposite /\ req[p].on = x
    <3>1. req'[p] = [req[p] EXCEPT !.alone = FALSE]
      BY <1>5, <2>2
    <3> QED
      BY <2>1, <3>1 DEF Request
  <2>3. CASE ~(Busy(p) /\ req[p].op = opposite /\ req[p].on = x)
    <3>1. req'[p] = req[p]
      BY <1>5, <2>3
    <3> QED
      BY <2>3, <3>1
  <2> QED
    BY <2>2, <2>3
<1> QED
  BY <1>4, <1>7, <1>8 DEF apart

\* A request that moves to another await keeps the rest of its state.
LEMMA GotoProps ==
    ASSUME TypeOK, NEW r \in Requests, NEW to \in Location, Goto(r, to)
    PROVE  /\ req' \in [Requests -> Request]
           /\ req'[r].at = to
           /\ \A p \in Requests :
                 /\ req'[p].op = req[p].op /\ req'[p].on = req[p].on
                 /\ req'[p].found = req[p].found /\ req'[p].copy = req[p].copy
                 /\ req'[p].alone = req[p].alone
           /\ \A p \in Requests \ {r} : req'[p] = req[p]
BY DEF TypeOK, Goto, Request

\* A request that answers, or has its audit entry left, forgets what it did.
LEMMA AnswerProps ==
    ASSUME TypeOK, NEW r \in Requests, Answer(r) \/ Audit(r)
    PROVE  /\ req' \in [Requests -> Request]
           /\ req'[r].at \in {"idle", "audit"} /\ req'[r].op = "list"
           /\ \A p \in Requests \ {r} : req'[p] = req[p]
<1>1. Idle \in Request /\ Idle.at = "idle" /\ Idle.op = "list"
  BY OperatorAssumption DEF Idle, Request, Location
<1>2. \A idle \in Request : LET left == [idle EXCEPT !.at = "audit"]
                            IN  left \in Request /\ left.at = "audit" /\ left.op = idle.op
  BY DEF Request, Location
<1>3. PICK left \in Request : /\ req' = [req EXCEPT ![r] = left]
                              /\ left.at \in {"idle", "audit"} /\ left.op = "list"
  BY <1>1, <1>2 DEF Answer, Audit
<1> QED
  BY <1>3 DEF TypeOK

-----------------------------------------------------------------------------
(* Steps keep the invariant                                                *)

\* The kinds of request that may start, with the await they start at and the
\* operation that contradicts them.
Starting(to, op, opposite, x) ==
    \/ to = "engage" /\ op = "engage" /\ opposite = "release" /\ x \in Targets
    \/ to = "release" /\ op = "release" /\ opposite = "engage" /\ x \in Targets
    \/ to = "enable" /\ op = "enable" /\ opposite = "disable" /\ x \in Shapes
    \/ to = "disable" /\ op = "disable" /\ opposite = "enable" /\ x \in Shapes

\* A request starts and the stores and views stay: who was alone and met an
\* opposite no longer is.
LEMMA StartKeeps ==
    ASSUME IInv, NEW r \in Requests, ~Busy(r),
           NEW to, NEW op, NEW opposite, NEW x, Starting(to, op, opposite, x),
           NEW found \in 0 .. MaxRows, op = "engage" => found = active[x],
           Start(r, to, op, x, opposite, found), UNCHANGED <<active, enabled>>
    PROVE  /\ req' \in [Requests -> Request]
           /\ Placed' /\ Apart' /\ EngageBacked' /\ DisableBacked'
           /\ UNCHANGED withdrawn => WithdrawnUnlisted'
           /\ \A t \in asserted : (op = "release" /\ t = x) \/ ~InFlight("release", t)'
<1>1. /\ to \in Location \ {"idle"}
      /\ op \in {"engage", "release", "enable", "disable"}
      /\ opposite \in {"engage", "release", "enable", "disable"}
      /\ x \in Targets \cup Shapes
  BY DEF Starting, Location
<1>2. TypeOK
  BY DEF IInv
<1>3. /\ req' \in [Requests -> Request]
      /\ req'[r].at = to /\ req'[r].op = op /\ req'[r].on = x /\ req'[r].found = found
      /\ req'[r].alone <=> ~InFlight(opposite, x)
      /\ \A p \in Requests \ {r} :
            /\ req'[p].at = req[p].at /\ req'[p].op = req[p].op
            /\ req'[p].on = req[p].on /\ req'[p].found = req[p].found
            /\ req'[p].copy = req[p].copy
            /\ req'[p].alone =>
                  /\ req[p].alone
                  /\ ~(Busy(p) /\ req[p].op = opposite /\ req[p].on = x)
  BY <1>1, <1>2, StartProps
<1>4. Placed'
  BY <1>3 DEF IInv, Placed, Starting
<1>5. Apart'
  <2> SUFFICES ASSUME NEW p \in Requests, Busy(p)', req'[p].alone, NEW q \in Requests, Busy(q)',
                      req'[q].on = req'[p].on
               PROVE  /\ ~(req'[p].op = "engage" /\ req'[q].op = "release")
                      /\ ~(req'[p].op = "disable" /\ req'[q].op = "enable")
    BY DEF Apart, InFlight
  <2>1. CASE p = r
    BY <1>3, <2>1 DEF Starting, InFlight, Busy
  <2>2. CASE p # r /\ q = r
    BY <1>3, <2>2 DEF Starting, Busy
  <2>3. CASE p # r /\ q # r
    BY <1>3, <2>3 DEF IInv, Apart, InFlight, Busy
  <2> QED
    BY <2>1, <2>2, <2>3
<1>6. EngageBacked'
  BY <1>3 DEF IInv, EngageBacked, Starting
<1>7. DisableBacked'
  BY <1>3 DEF IInv, DisableBacked, Starting
<1>8. \A t \in asserted : (op = "release" /\ t = x) \/ ~InFlight("release", t)'
  BY <1>3 DEF IInv, AssertedUncontested, InFlight, Busy
<1>9. UNCHANGED withdrawn => WithdrawnUnlisted'
  BY <1>3 DEF IInv, WithdrawnUnlisted, Starting
<1> QED
  BY <1>3, <1>4, <1>5, <1>6, <1>7, <1>8, <1>9

\* A request that answers is in nobody's way.
LEMMA AnswerKeeps ==
    ASSUME IInv, NEW r \in Requests, Answer(r) \/ Audit(r)
    PROVE  /\ req' \in [Requests -> Request]
           /\ Placed' /\ Apart'
           /\ UNCHANGED active => EngageBacked'
           /\ UNCHANGED enabled => DisableBacked'
           /\ UNCHANGED withdrawn => WithdrawnUnlisted'
           /\ \A op, x : InFlight(op, x)' => InFlight(op, x) \/ op = "list"
<1>1. /\ req' \in [Requests -> Request]
      /\ req'[r].at \in {"idle", "audit"} /\ req'[r].op = "list"
      /\ \A p \in Requests \ {r} : req'[p] = req[p]
  BY AnswerProps DEF IInv
<1>2. Placed'
  BY <1>1 DEF IInv, Placed
<1>3. \A op, x : InFlight(op, x)' => InFlight(op, x) \/ op = "list"
  BY <1>1 DEF InFlight, Busy
<1>4. Apart'
  BY <1>1, <1>3 DEF IInv, Apart, Busy
<1>5. UNCHANGED active => EngageBacked'
  BY <1>1 DEF IInv, EngageBacked
<1>6. UNCHANGED enabled => DisableBacked'
  BY <1>1 DEF IInv, DisableBacked
<1>7. UNCHANGED withdrawn => WithdrawnUnlisted'
  BY <1>1 DEF IInv, WithdrawnUnlisted
<1> QED
  BY <1>1, <1>2, <1>3, <1>4, <1>5, <1>6, <1>7

\* A request that moves on works on what it did; it is in flight as before.
LEMMA GotoKeeps ==
    ASSUME IInv, NEW r \in Requests, Busy(r), NEW to \in Location \ {"idle"}, Goto(r, to)
    PROVE  /\ Apart'
           /\ \A op, x : InFlight(op, x)' <=> InFlight(op, x)
<1>1. /\ req' \in [Requests -> Request]
      /\ req'[r].at = to
      /\ \A p \in Requests :
            /\ req'[p].op = req[p].op /\ req'[p].on = req[p].on
            /\ req'[p].found = req[p].found /\ req'[p].copy = req[p].copy
            /\ req'[p].alone = req[p].alone
      /\ \A p \in Requests \ {r} : req'[p] = req[p]
  BY GotoProps DEF IInv
<1>2. \A p \in Requests : Busy(p)' <=> Busy(p)
  BY <1>1 DEF Busy
<1>3. \A op, x : InFlight(op, x)' <=> InFlight(op, x)
  BY <1>1, <1>2 DEF InFlight
<1>4. Apart'
  BY <1>1, <1>2, <1>3 DEF IInv, Apart
<1> QED
  BY <1>3, <1>4

\* A contested engagement is not alone: its release is in flight.
LEMMA ReleaseContests ==
    ASSUME IInv, NEW r \in Requests, NEW p \in Requests,
           req[r].at \in {"release", "released"},
           req[p].at \in {"engage", "engaged"}, req[p].alone
    PROVE  req[p].on # req[r].on
BY DEF IInv, Placed, Apart, InFlight, Busy

\* A contested disable is not alone: its enable is in flight.
LEMMA EnableContests ==
    ASSUME IInv, NEW r \in Requests, NEW p \in Requests, req[r].at = "enable",
           req[p].at # "idle", req[p].op = "disable", req[p].alone
    PROVE  req[p].on # req[r].on
BY DEF IInv, Placed, Apart, InFlight, Busy

LEMMA InitIInv == Init => IInv
<1> SUFFICES ASSUME Init PROVE IInv
  OBVIOUS
<1>1. \A r \in Requests : req[r] = Idle
  BY DEF Init
<1>2. TypeOK
  BY OperatorAssumption DEF Init, TypeOK, Request, Idle, Location
<1>3. Placed /\ Apart /\ EngageBacked /\ DisableBacked
  BY <1>1 DEF Placed, Apart, EngageBacked, DisableBacked, Busy, Idle
<1>4. AssertedUncontested /\ EngagedHolds /\ WithdrawnUnlisted /\ DisableHolds
  BY DEF Init, AssertedUncontested, EngagedHolds, WithdrawnUnlisted, DisableHolds
<1> QED
  BY <1>2, <1>3, <1>4 DEF IInv

\* Every step keeps the inductive invariant.
LEMMA NextIInv == IInv /\ [Next]_vars => IInv'
<1> SUFFICES ASSUME IInv, [Next]_vars PROVE IInv'
  OBVIOUS
<1>t. TypeOK
  BY DEF IInv
<1>r. rows \in Nat /\ \A t \in Targets : active[t] \in 0 .. MaxRows
  BY <1>t, OperatorAssumption DEF TypeOK
<1>1. ASSUME NEW r \in Requests, Engage(r)
      PROVE  IInv'
  <2>1. PICK t \in Targets : Start(r, "engage", "engage", t, "release", active[t])
    BY <1>1 DEF Engage
  <2>2. ~Busy(r) /\ UNCHANGED <<active, enabled, withdrawn>> /\ asserted' = asserted
    BY <1>1 DEF Engage, At, Busy, switches, shapes
  <2>3. /\ req' \in [Requests -> Request]
        /\ Placed' /\ Apart' /\ EngageBacked' /\ DisableBacked' /\ WithdrawnUnlisted'
        /\ \A u \in asserted : ~InFlight("release", u)'
    BY <1>r, <2>1, <2>2, StartKeeps DEF Starting
  <2>4. TypeOK' /\ EngagedHolds' /\ DisableHolds'
    BY <1>1, <1>t, <2>3 DEF Engage, IInv, TypeOK, EngagedHolds, DisableHolds, switches, shapes
  <2>5. AssertedUncontested'
    BY <2>2, <2>3 DEF AssertedUncontested
  <2> QED
    BY <2>3, <2>4, <2>5 DEF IInv
<1>2. ASSUME NEW r \in Requests, EngageWrite(r)
      PROVE  IInv'
  <2> DEFINE t == req[r].on
  <2>1. /\ req[r].at = "engage" /\ Busy(r) /\ t \in Targets
        /\ UNCHANGED <<engaged, asserted, enabled, open, withdrawn, up, crashes>>
    BY <1>2 DEF EngageWrite, At, Busy, IInv, Placed, shapes
  <2>2. CASE Answer(r) /\ UNCHANGED <<rows, active>>
    <3>1. /\ req' \in [Requests -> Request]
          /\ Placed' /\ Apart' /\ EngageBacked' /\ DisableBacked' /\ WithdrawnUnlisted'
          /\ \A u \in asserted : ~InFlight("release", u)'
      BY <2>1, <2>2, AnswerKeeps DEF IInv, AssertedUncontested
    <3>2. TypeOK' /\ EngagedHolds' /\ AssertedUncontested' /\ DisableHolds'
      BY <1>t, <2>1, <2>2, <3>1 DEF IInv, TypeOK, EngagedHolds, DisableHolds, AssertedUncontested
    <3> QED
      BY <3>1, <3>2 DEF IInv
  <2>3. CASE /\ Goto(r, "engaged")
             /\ \/ req[r].found # 0 /\ UNCHANGED <<rows, active>>
                \/ /\ rows < MaxRows
                   /\ rows' = rows + 1
                   /\ active' = [active EXCEPT ![t] = rows']
    <3>1. /\ req' \in [Requests -> Request]
          /\ req'[r].at = "engaged"
          /\ \A p \in Requests :
                /\ req'[p].op = req[p].op /\ req'[p].on = req[p].on
                /\ req'[p].found = req[p].found /\ req'[p].copy = req[p].copy
                /\ req'[p].alone = req[p].alone
          /\ \A p \in Requests \ {r} : req'[p] = req[p]
      BY <1>t, <2>3, GotoProps DEF Location
    <3>2. Apart' /\ \A op, x : InFlight(op, x)' <=> InFlight(op, x)
      BY <2>1, <2>3, GotoKeeps DEF Location
    <3>3. \A u \in Targets : active[u] # 0 => active'[u] # 0
      BY <1>r, <1>t, <2>3 DEF TypeOK
    <3>4. req[r].found = 0 => active'[t] # 0
      BY <1>r, <1>t, <2>1, <2>3 DEF TypeOK
    <3>5. TypeOK'
      BY <1>r, <1>t, <2>1, <2>3, <3>1, OperatorAssumption DEF TypeOK
    <3>6. Placed'
      BY <2>1, <3>1 DEF IInv, Placed
    <3>7. EngageBacked'
      BY <2>1, <3>1, <3>3, <3>4 DEF IInv, Placed, EngageBacked
    <3>8. AssertedUncontested' /\ EngagedHolds' /\ DisableHolds'
      BY <1>t, <2>1, <3>2, <3>3 DEF IInv, TypeOK, AssertedUncontested, EngagedHolds, DisableHolds
    <3>9. DisableBacked' /\ WithdrawnUnlisted'
      BY <2>1, <3>1 DEF IInv, DisableBacked, WithdrawnUnlisted
    <3> QED
      BY <3>2, <3>5, <3>6, <3>7, <3>8, <3>9 DEF IInv
  <2> QED
    BY <1>2, <2>2, <2>3 DEF EngageWrite
<1>3. ASSUME NEW r \in Requests, EngageApply(r)
      PROVE  IInv'
  <2> DEFINE t == req[r].on
  <2>1. /\ req[r].at = "engaged" /\ req[r].op = "engage" /\ t \in Targets /\ Busy(r)
        /\ Audit(r)
        /\ UNCHANGED <<rows, active, enabled, open, withdrawn, up, crashes>>
        /\ engaged' = engaged \cup {t}
        /\ asserted' = IF req[r].alone THEN asserted \cup {t} ELSE asserted
    BY <1>3 DEF EngageApply, At, Busy, IInv, Placed, shapes
  <2>2. /\ req' \in [Requests -> Request]
        /\ Placed' /\ Apart' /\ EngageBacked' /\ DisableBacked' /\ WithdrawnUnlisted'
        /\ \A op, x : InFlight(op, x)' => InFlight(op, x) \/ op = "list"
    BY <2>1, AnswerKeeps
  <2>3. req[r].alone => active[t] # 0 /\ ~InFlight("release", t)
    BY <2>1 DEF IInv, EngageBacked, Apart
  <2>4. TypeOK'
    BY <1>t, <2>1, <2>2 DEF TypeOK
  <2>5. EngagedHolds' /\ AssertedUncontested' /\ DisableHolds'
    BY <2>1, <2>2, <2>3 DEF IInv, EngagedHolds, DisableHolds, AssertedUncontested
  <2> QED
    BY <2>2, <2>4, <2>5 DEF IInv
<1>4. ASSUME NEW r \in Requests, Release(r)
      PROVE  IInv'
  <2>1. PICK t \in Targets : /\ Start(r, "release", "release", t, "engage", active[t])
                             /\ asserted' = asserted \ {t}
    BY <1>4 DEF Release
  <2>2. ~Busy(r) /\ UNCHANGED <<rows, active, engaged, enabled, open, withdrawn, up, crashes>>
    BY <1>4 DEF Release, At, Busy, shapes
  <2>3. /\ req' \in [Requests -> Request]
        /\ Placed' /\ Apart' /\ EngageBacked' /\ DisableBacked' /\ WithdrawnUnlisted'
        /\ \A u \in asserted : u = t \/ ~InFlight("release", u)'
    BY <1>r, <2>1, <2>2, StartKeeps DEF Starting
  <2>4. TypeOK' /\ EngagedHolds' /\ AssertedUncontested' /\ DisableHolds'
    BY <1>t, <2>1, <2>2, <2>3 DEF IInv, TypeOK, EngagedHolds, DisableHolds, AssertedUncontested
  <2> QED
    BY <2>3, <2>4 DEF IInv
<1>5. ASSUME NEW r \in Requests, ReleaseWrite(r)
      PROVE  IInv'
  <2> DEFINE t == req[r].on
  <2>1. /\ req[r].at = "release" /\ req[r].op = "release" /\ t \in Targets /\ Busy(r)
        /\ active' = [active EXCEPT ![t] = IF @ = req[r].found THEN 0 ELSE @]
        /\ Goto(r, "released")
        /\ UNCHANGED <<rows, engaged, asserted, enabled, open, withdrawn, up, crashes>>
    BY <1>5 DEF ReleaseWrite, At, Busy, IInv, Placed, shapes
  <2>2. /\ req' \in [Requests -> Request]
        /\ req'[r].at = "released"
        /\ \A p \in Requests :
              /\ req'[p].op = req[p].op /\ req'[p].on = req[p].on
              /\ req'[p].found = req[p].found /\ req'[p].copy = req[p].copy
              /\ req'[p].alone = req[p].alone
        /\ \A p \in Requests \ {r} : req'[p] = req[p]
    BY <1>t, <2>1, GotoProps DEF Location
  <2>3. Apart' /\ \A op, x : InFlight(op, x)' <=> InFlight(op, x)
    BY <2>1, GotoKeeps DEF Location
  <2>4. /\ active' \in [Targets -> 0 .. rows]
        /\ \A u \in Targets \ {t} : active'[u] = active[u]
    BY <1>r, <1>t, <2>1 DEF TypeOK
  <2>5. TypeOK' /\ Placed'
    BY <1>t, <2>1, <2>2, <2>4 DEF IInv, TypeOK, Placed
  <2>6. EngageBacked'
    <3> SUFFICES ASSUME NEW p \in Requests, req'[p].alone, req'[p].at \in {"engage", "engaged"}
                 PROVE  /\ req'[p].at = "engage" /\ req'[p].found # 0 => active'[req'[p].on] # 0
                        /\ req'[p].at = "engaged" => active'[req'[p].on] # 0
      BY DEF EngageBacked
    <3>1. p # r /\ req'[p] = req[p] /\ req[p].on \in Targets
      BY <2>2, <2>1 DEF IInv, Placed
    <3>2. req[p].on # t
      BY <2>1, <3>1, ReleaseContests
    <3> QED
      BY <2>4, <3>1, <3>2 DEF IInv, EngageBacked
  <2>7. AssertedUncontested' /\ EngagedHolds' /\ DisableHolds'
    <3>1. t \notin asserted
      BY <2>1 DEF IInv, AssertedUncontested, InFlight
    <3> QED
      BY <1>t, <2>1, <2>3, <2>4, <3>1 DEF IInv, TypeOK, AssertedUncontested, EngagedHolds, DisableHolds
  <2>8. DisableBacked' /\ WithdrawnUnlisted'
    BY <2>1, <2>2 DEF IInv, DisableBacked, WithdrawnUnlisted
  <2> QED
    BY <2>3, <2>5, <2>6, <2>7, <2>8 DEF IInv
<1>6. ASSUME NEW r \in Requests, ReleaseApply(r)
      PROVE  IInv'
  <2> DEFINE t == req[r].on
  <2>1. /\ req[r].at = "released" /\ req[r].op = "release" /\ Busy(r)
        /\ Audit(r)
        /\ engaged' = engaged \ {t}
        /\ UNCHANGED <<rows, active, asserted, enabled, open, withdrawn, up, crashes>>
    BY <1>6 DEF ReleaseApply, At, Busy, IInv, Placed, shapes
  <2>2. /\ req' \in [Requests -> Request]
        /\ Placed' /\ Apart' /\ EngageBacked' /\ DisableBacked' /\ WithdrawnUnlisted'
        /\ \A op, x : InFlight(op, x)' => InFlight(op, x) \/ op = "list"
    BY <2>1, AnswerKeeps
  <2>3. t \notin asserted
    BY <2>1 DEF IInv, AssertedUncontested, InFlight
  <2>4. TypeOK' /\ EngagedHolds' /\ AssertedUncontested' /\ DisableHolds'
    BY <1>t, <2>1, <2>2, <2>3 DEF IInv, TypeOK, EngagedHolds, DisableHolds, AssertedUncontested
  <2> QED
    BY <2>2, <2>4 DEF IInv
<1>7. ASSUME NEW r \in Requests, Enable(r)
      PROVE  IInv'
  <2>1. PICK s \in Shapes : Start(r, "enable", "enable", s, "disable", 0)
    BY <1>7 DEF Enable
  <2>2. ~Busy(r) /\ UNCHANGED <<switches, shapes, up, crashes>>
    BY <1>7 DEF Enable, At, Busy
  <2>3. 0 \in 0 .. MaxRows
    BY OperatorAssumption
  <2>4. /\ req' \in [Requests -> Request]
        /\ Placed' /\ Apart' /\ EngageBacked' /\ DisableBacked' /\ WithdrawnUnlisted'
        /\ \A u \in asserted : ~InFlight("release", u)'
    BY <2>1, <2>2, <2>3, StartKeeps DEF Starting, switches, shapes
  <2>5. TypeOK' /\ EngagedHolds' /\ AssertedUncontested' /\ DisableHolds'
    BY <1>t, <2>2, <2>4 DEF IInv, TypeOK, EngagedHolds, DisableHolds, AssertedUncontested, switches, shapes
  <2> QED
    BY <2>4, <2>5 DEF IInv
<1>8. ASSUME NEW r \in Requests, EnableWrite(r)
      PROVE  IInv'
  <2> DEFINE s == req[r].on
  <2>1. /\ req[r].at = "enable" /\ req[r].op = "enable" /\ s \in Shapes /\ Busy(r)
        /\ enabled' = enabled \cup {s} /\ withdrawn' = withdrawn \ {s}
        /\ Goto(r, "list")
        /\ UNCHANGED <<switches, open, up, crashes>>
    BY <1>8 DEF EnableWrite, At, Busy, IInv, Placed
  <2>2. /\ req' \in [Requests -> Request]
        /\ req'[r].at = "list"
        /\ \A p \in Requests :
              /\ req'[p].op = req[p].op /\ req'[p].on = req[p].on
              /\ req'[p].found = req[p].found /\ req'[p].copy = req[p].copy
              /\ req'[p].alone = req[p].alone
        /\ \A p \in Requests \ {r} : req'[p] = req[p]
    BY <1>t, <2>1, GotoProps DEF Location
  <2>3. Apart' /\ \A op, x : InFlight(op, x)' <=> InFlight(op, x)
    BY <2>1, GotoKeeps DEF Location
  <2>4. DisableBacked'
    <3> SUFFICES ASSUME NEW p \in Requests, req'[p].op = "disable", req'[p].alone,
                        req'[p].at \in {"list", "hydrate"}
                 PROVE  /\ req'[p].on \notin enabled'
                        /\ req'[p].at = "hydrate" => req'[p].on \notin req'[p].copy
      BY DEF DisableBacked
    <3>1. p # r /\ req'[p] = req[p]
      BY <2>1, <2>2
    <3>2. req[p].on # s
      BY <2>1, <3>1, EnableContests
    <3> QED
      BY <2>1, <3>1, <3>2 DEF IInv, DisableBacked
  <2>5. Placed' /\ EngageBacked' /\ WithdrawnUnlisted'
    BY <2>1, <2>2 DEF IInv, Placed, EngageBacked, WithdrawnUnlisted, switches
  <2>6. TypeOK' /\ EngagedHolds' /\ AssertedUncontested' /\ DisableHolds'
    BY <1>t, <2>1, <2>2, <2>3 DEF IInv, TypeOK, EngagedHolds, DisableHolds, AssertedUncontested, switches
  <2> QED
    BY <2>3, <2>4, <2>5, <2>6 DEF IInv
<1>9. ASSUME NEW r \in Requests, Disable(r)
      PROVE  IInv'
  <2>1. PICK s \in Shapes : Start(r, "disable", "disable", s, "enable", 0)
    BY <1>9 DEF Disable
  <2>2. ~Busy(r) /\ UNCHANGED <<switches, shapes, up, crashes>>
    BY <1>9 DEF Disable, At, Busy
  <2>3. 0 \in 0 .. MaxRows
    BY OperatorAssumption
  <2>4. /\ req' \in [Requests -> Request]
        /\ Placed' /\ Apart' /\ EngageBacked' /\ DisableBacked' /\ WithdrawnUnlisted'
        /\ \A u \in asserted : ~InFlight("release", u)'
    BY <2>1, <2>2, <2>3, StartKeeps DEF Starting, switches, shapes
  <2>5. TypeOK' /\ EngagedHolds' /\ AssertedUncontested' /\ DisableHolds'
    BY <1>t, <2>2, <2>4 DEF IInv, TypeOK, EngagedHolds, DisableHolds, AssertedUncontested, switches, shapes
  <2> QED
    BY <2>4, <2>5 DEF IInv
<1>10. ASSUME NEW r \in Requests, DisableWrite(r)
       PROVE  IInv'
  <2>1. /\ req[r].at = "disable" /\ req[r].op = "disable" /\ Busy(r)
        /\ enabled' = enabled \ {req[r].on}
        /\ Goto(r, "list")
        /\ UNCHANGED <<switches, open, withdrawn, up, crashes>>
    BY <1>10 DEF DisableWrite, At, Busy, IInv, Placed
  <2>2. /\ req' \in [Requests -> Request]
        /\ req'[r].at = "list"
        /\ \A p \in Requests :
              /\ req'[p].op = req[p].op /\ req'[p].on = req[p].on
              /\ req'[p].found = req[p].found /\ req'[p].copy = req[p].copy
              /\ req'[p].alone = req[p].alone
        /\ \A p \in Requests \ {r} : req'[p] = req[p]
    BY <1>t, <2>1, GotoProps DEF Location
  <2>3. Apart' /\ \A op, x : InFlight(op, x)' <=> InFlight(op, x)
    BY <2>1, GotoKeeps DEF Location
  <2>4. DisableBacked'
    BY <2>1, <2>2 DEF IInv, DisableBacked
  <2>5. Placed' /\ EngageBacked' /\ WithdrawnUnlisted'
    BY <2>1, <2>2 DEF IInv, Placed, EngageBacked, WithdrawnUnlisted, switches
  <2>6. TypeOK' /\ EngagedHolds' /\ AssertedUncontested' /\ DisableHolds'
    BY <1>t, <2>1, <2>2, <2>3 DEF IInv, TypeOK, EngagedHolds, DisableHolds, AssertedUncontested, switches
  <2> QED
    BY <2>3, <2>4, <2>5, <2>6 DEF IInv
<1>11. ASSUME NEW r \in Requests, List(r)
       PROVE  IInv'
  <2>1. /\ req[r].at \in {"idle", "list"}
        /\ req' = [req EXCEPT ![r].at = "hydrate", ![r].copy = enabled]
        /\ UNCHANGED <<switches, shapes, up, crashes>>
    BY <1>11 DEF List, At
  <2>2. /\ req' \in [Requests -> Request]
        /\ req'[r].at = "hydrate" /\ req'[r].copy = enabled
        /\ \A p \in Requests : /\ req'[p].op = req[p].op /\ req'[p].on = req[p].on
                               /\ req'[p].alone = req[p].alone
        /\ \A p \in Requests \ {r} : req'[p] = req[p]
    BY <1>t, <2>1, ZenonT(60) DEF TypeOK, Request, Location
  <2>3. req[r].at = "idle" => req[r].op = "list"
    BY DEF IInv, Placed
  <2>4. \A op, x : InFlight(op, x)' => InFlight(op, x) \/ op = "list"
    BY <2>1, <2>2, <2>3 DEF InFlight, Busy
  <2>5. Apart'
    <3> SUFFICES ASSUME NEW p \in Requests, Busy(p)', req'[p].alone
                 PROVE  /\ req[p].op = "engage" => ~InFlight("release", req[p].on)
                        /\ req[p].op = "disable" => ~InFlight("enable", req[p].on)
      BY <2>2, <2>4 DEF Apart
    <3>1. CASE p = r /\ req[r].at = "idle"
      BY <2>3, <3>1
    <3>2. CASE p # r \/ req[r].at # "idle"
      BY <2>2, <3>2 DEF IInv, Apart, Busy
    <3> QED
      BY <3>1, <3>2
  <2>6. Placed' /\ EngageBacked' /\ DisableBacked'
    BY <2>1, <2>2, <2>3 DEF IInv, Placed, EngageBacked, DisableBacked, switches, shapes
  <2>7. TypeOK'
    BY <1>t, <2>1, <2>2 DEF TypeOK, switches, shapes
  <2>8. EngagedHolds' /\ AssertedUncontested' /\ DisableHolds'
    BY <2>1, <2>4 DEF IInv, EngagedHolds, DisableHolds, AssertedUncontested, switches, shapes
  <2>9. WithdrawnUnlisted'
    BY <2>1, <2>2 DEF IInv, WithdrawnUnlisted, DisableHolds, shapes
  <2> QED
    BY <2>5, <2>6, <2>7, <2>8, <2>9 DEF IInv
<1>12. ASSUME NEW r \in Requests, Hydrate(r)
       PROVE  IInv'
  <2>1. /\ req[r].at = "hydrate" /\ (Answer(r) \/ Audit(r)) /\ open' = req[r].copy
        /\ UNCHANGED <<switches, enabled, up, crashes>> /\ up
        /\ withdrawn' = withdrawn \cup Withdraws(r)
    BY <1>12 DEF Hydrate, At
  <2>2. /\ req' \in [Requests -> Request]
        /\ Placed' /\ Apart' /\ EngageBacked' /\ DisableBacked'
        /\ \A op, x : InFlight(op, x)' => InFlight(op, x) \/ op = "list"
        /\ req'[r].at # "hydrate" /\ \A p \in Requests \ {r} : req'[p] = req[p]
    BY <1>t, <2>1, AnswerKeeps, AnswerProps DEF switches
  <2>3. \A s \in Withdraws(r) :
           /\ s \in Shapes /\ s \notin enabled /\ s \notin req[r].copy
           /\ \A p \in Requests \ {r} : req[p].at = "hydrate" => s \notin req[p].copy
    BY <2>1 DEF Withdraws, StillListed, At, IInv, Placed, DisableBacked
  <2>4. open' \subseteq Shapes /\ withdrawn' \subseteq Shapes
    BY <1>t, <2>1, <2>3 DEF TypeOK, Request
  <2>5. TypeOK' /\ EngagedHolds' /\ AssertedUncontested'
    BY <1>t, <2>1, <2>2, <2>4 DEF IInv, TypeOK, EngagedHolds, AssertedUncontested, switches
  <2>6. WithdrawnUnlisted'
    BY <2>1, <2>2, <2>3 DEF IInv, WithdrawnUnlisted
  <2>7. DisableHolds'
    BY <2>1, <2>3 DEF IInv, WithdrawnUnlisted, DisableHolds
  <2> QED
    BY <2>2, <2>5, <2>6, <2>7 DEF IInv
<1>13. ASSUME NEW r \in Requests, StoreFails(r) \/ CommitUnknown(r) \/ Audited(r)
       PROVE  IInv'
  <2>1. Answer(r) /\ UNCHANGED <<switches, shapes, up, crashes>>
    BY <1>13 DEF StoreFails, CommitUnknown, Audited
  <2>2. /\ req' \in [Requests -> Request]
        /\ Placed' /\ Apart' /\ EngageBacked' /\ DisableBacked' /\ WithdrawnUnlisted'
        /\ \A op, x : InFlight(op, x)' => InFlight(op, x) \/ op = "list"
    BY <2>1, AnswerKeeps DEF switches, shapes
  <2>3. TypeOK' /\ EngagedHolds' /\ AssertedUncontested' /\ DisableHolds'
    BY <1>t, <2>1, <2>2
    DEF IInv, TypeOK, EngagedHolds, DisableHolds, AssertedUncontested, switches, shapes
  <2> QED
    BY <2>2, <2>3 DEF IInv
<1>14. ASSUME Crash
       PROVE  IInv'
  <2>1. /\ req' = [r \in Requests |-> Idle] /\ up' = FALSE
        /\ crashes < MaxCrashes /\ crashes' = crashes + 1
        /\ UNCHANGED <<switches, shapes>>
    BY <1>14 DEF Crash
  <2>2. Idle \in Request
    BY OperatorAssumption DEF Idle, Request, Location
  <2>3. TypeOK'
    <3>1. crashes' \in 0 .. MaxCrashes
      BY <1>t, <2>1, OperatorAssumption DEF TypeOK
    <3>2. req' \in [Requests -> Request]
      BY <2>1, <2>2
    <3> QED
      BY <1>t, <2>1, <3>1, <3>2 DEF TypeOK, switches, shapes
  <2>4. Placed' /\ Apart' /\ EngageBacked' /\ DisableBacked' /\ WithdrawnUnlisted' /\ AssertedUncontested'
    BY <2>1 DEF Placed, Apart, EngageBacked, DisableBacked, WithdrawnUnlisted,
                AssertedUncontested, InFlight, Busy, Idle
  <2>5. EngagedHolds' /\ DisableHolds'
    BY <2>1 DEF IInv, EngagedHolds, DisableHolds, switches, shapes
  <2> QED
    BY <2>3, <2>4, <2>5 DEF IInv
<1>15. ASSUME Boot
       PROVE  IInv'
  <2>1. /\ up' = TRUE /\ open' = enabled
        /\ \/ engaged' = EngagedRows /\ asserted' = asserted
           \/ engaged' = {} /\ asserted' = {}
        /\ UNCHANGED <<rows, active, enabled, withdrawn, req, crashes>>
        /\ enabled = Shapes
    BY <1>15 DEF Boot
  <2>2. TypeOK'
    BY <1>t, <2>1 DEF TypeOK, EngagedRows
  <2>3. Placed' /\ Apart' /\ EngageBacked' /\ DisableBacked' /\ WithdrawnUnlisted' /\ AssertedUncontested'
    BY <2>1 DEF IInv, Placed, Apart, EngageBacked, DisableBacked, WithdrawnUnlisted,
                AssertedUncontested, InFlight, Busy
  <2>4. EngagedHolds' /\ DisableHolds'
    BY <1>t, <2>1 DEF IInv, TypeOK, EngagedHolds, EngagedRows, DisableHolds
  <2> QED
    BY <2>2, <2>3, <2>4 DEF IInv
<1>16. CASE UNCHANGED vars
  BY <1>16
  DEF vars, IInv, TypeOK, Placed, Apart, EngageBacked, DisableBacked, WithdrawnUnlisted,
      AssertedUncontested, EngagedHolds, DisableHolds, InFlight, Busy
<1> QED
  BY <1>1, <1>2, <1>3, <1>4, <1>5, <1>6, <1>7, <1>8, <1>9, <1>10, <1>11, <1>12, <1>13,
     <1>14, <1>15, <1>16
  DEF Next

LEMMA Invariance == Spec => []IInv
BY InitIInv, NextIInv, PTL DEF Spec

-----------------------------------------------------------------------------
(* Theorems                                                                *)

\* Every variable keeps its type, for any instance of the parameters.
THEOREM TypeCorrect == Spec => []TypeOK
<1>1. IInv => TypeOK
  BY DEF IInv
<1> QED
  BY <1>1, Invariance, PTL

\* A target whose engagement was answered and not contested stays shut off, in
\* the rows and in the running process, over failures, crashes and restarts.
THEOREM EngagedHoldsAlways == Spec => []EngagedHolds
<1>1. IInv => EngagedHolds
  BY DEF IInv
<1> QED
  BY <1>1, Invariance, PTL

\* Once a disable that overlapped no enable has hydrated, and no handler still
\* has an older list to hydrate, its shape stays closed until it is enabled.
THEOREM DisableHoldsAlways == Spec => []DisableHolds
<1>1. IInv => DisableHolds
  BY DEF IInv
<1> QED
  BY <1>1, Invariance, PTL
=============================================================================
