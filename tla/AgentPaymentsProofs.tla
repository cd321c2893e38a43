------------------------ MODULE AgentPaymentsProofs ------------------------
(***************************************************************************)
(* Proofs about AgentPayments: the daily limit, for any number of intents, *)
(* of requests of every kind, of days and of crashes.                      *)
(***************************************************************************)
EXTENDS AgentPayments, FiniteSetTheorems, TLAPS

-----------------------------------------------------------------------------
(* The inductive invariant                                                 *)

\* What counts today.
SpentToday ==
    {i \in Intents : /\ intents[i] # None
                     /\ intents[i].status \in Spending
                     /\ SpendDay(intents[i]) = day}

\* The awaits of a locked operation that may still go on.
Held == {"check", "write", "complete"}

\* Who is past its start works on an intent, and a locked operation holds the
\* lock until it answers.
Exclusive ==
    \A r \in Requests :
        /\ req[r].at # "idle" => req[r].on \in Intents
        /\ r \in Lockers => req[r].at \in Held \cup {"idle", "expire"}
        /\ r \in Lockers /\ req[r].at # "idle" => lock = r
        /\ r \notin Lockers => req[r].at \notin Held
        /\ req[r].at \in {"check", "write"} => req[r].copy.status \in Allowed(req[r].kind)
        /\ req[r].at = "complete" =>
              req[r].kind = "simulate" /\ req[r].copy.status = "POLICY_APPROVED"

\* A row carries no date of a later day, and what was authorized says when.
DatedRow(row) ==
    /\ row.created <= day
    /\ row.authorized # None => row.authorized <= day
    /\ row.status \in Authorized => row.authorized # None

Dated ==
    /\ \A i \in Intents : intents[i] # None => DatedRow(intents[i])
    /\ \A r \in Requests : req[r].at # "idle" => DatedRow(req[r].copy)

\* A locked operation that has passed its check has room for its intent today.
RoomToday ==
    \A l \in Lockers : req[l].at \in {"write", "complete"} =>
        Cardinality(SpentToday \ {req[l].on}) + 1 <= Limit

\* A simulation's copy may put its intent back among those authorized on its
\* day, though a request without the lock has taken it out.
RoomAuthorized ==
    \A l \in Lockers : req[l].at \in Held /\ req[l].kind = "simulate" =>
        Cardinality(AuthorizedOn(req[l].copy.authorized) \cup {req[l].on}) <= Limit

\* The limit holds and whoever is past a check has room to write.
Limits == RoomToday /\ RoomAuthorized /\ AuthorizedWithinLimit /\ TodayWithinLimit

IInv ==
    /\ TypeOK
    /\ Exclusive
    /\ Dated
    /\ Limits

-----------------------------------------------------------------------------
(* Sets of intents                                                         *)

LEMMA CardLeq ==
    ASSUME NEW T \in SUBSET Intents, NEW S \in SUBSET T
    PROVE  Cardinality(S) \in Nat /\ Cardinality(T) \in Nat /\ Cardinality(S) <= Cardinality(T)
<1>1. IsFiniteSet(T)
  BY AgentAssumption, FS_Subset
<1> QED
  BY <1>1, FS_Subset, FS_CardinalityType

LEMMA CardAdd ==
    ASSUME NEW T \in SUBSET Intents, NEW x \in Intents
    PROVE  Cardinality(T \cup {x}) <= Cardinality(T \ {x}) + 1
<1>1. IsFiniteSet(T \ {x})
  BY AgentAssumption, FS_Subset
<1>2. Cardinality((T \ {x}) \cup {x}) = Cardinality(T \ {x}) + 1
  BY <1>1, FS_AddElement
<1>3. (T \ {x}) \cup {x} = T \cup {x}
  OBVIOUS
<1>4. Cardinality(T \cup {x}) = Cardinality(T \ {x}) + 1
  BY <1>2, <1>3, Zenon
<1>5. Cardinality(T \ {x}) \in Nat
  BY <1>1, FS_CardinalityType
<1> QED
  BY <1>4, <1>5

-----------------------------------------------------------------------------
(* Rows and requests                                                       *)

LEMMA RestatusProps ==
    ASSUME NEW row \in Intent, NEW s \in Status
    PROVE  /\ Restatus(row, s) \in Intent
           /\ Restatus(row, s).status = s
           /\ Restatus(row, s).created = row.created
           /\ Restatus(row, s).authorized = row.authorized
BY DEF Restatus, Intent

\* What a write may change in the sets the limit speaks of.
LEMMA StoreProps ==
    ASSUME TypeOK, NEW i \in Intents, NEW row \in Intent, Store(i, row), day' = day
    PROVE  /\ intents' \in [Intents -> Intent \cup {None}]
           /\ intents'[i] = row
           /\ \A j \in Intents \ {i} : intents'[j] = intents[j]
           /\ SpentToday' \subseteq SpentToday \cup {i}
           /\ row.status \notin Spending => SpentToday' \subseteq SpentToday
           /\ \A d : AuthorizedOn(d)' \subseteq AuthorizedOn(d) \cup {i}
           /\ \A d : (row.status \in Authorized /\ row.authorized = d)
                        \/ AuthorizedOn(d)' \subseteq AuthorizedOn(d)
<1>1. /\ intents' \in [Intents -> Intent \cup {None}]
      /\ intents'[i] = row
      /\ \A j \in Intents \ {i} : intents'[j] = intents[j]
  BY DEF TypeOK, Store
<1>2. /\ SpentToday' \subseteq SpentToday \cup {i}
      /\ row.status \notin Spending => SpentToday' \subseteq SpentToday
  BY <1>1 DEF SpentToday, SpendDay
<1>3. /\ \A d : AuthorizedOn(d)' \subseteq AuthorizedOn(d) \cup {i}
      /\ \A d : (row.status \in Authorized /\ row.authorized = d)
                   \/ AuthorizedOn(d)' \subseteq AuthorizedOn(d)
  BY <1>1 DEF AuthorizedOn
<1> QED
  BY <1>1, <1>2, <1>3

LEMMA BeginProps ==
    ASSUME TypeOK, NEW r \in Requests, NEW i \in Intents, intents[i] # None,
           NEW to \in Location, NEW kind \in Kinds, Begin(r, to, kind, i)
    PROVE  /\ req' \in [Requests -> Request]
           /\ req'[r].at = to /\ req'[r].kind = kind /\ req'[r].on = i
           /\ req'[r].copy = intents[i] /\ intents[i] \in Intent
           /\ \A p \in Requests \ {r} : req'[p] = req[p]
BY DEF TypeOK, Begin, Request

LEMMA GotoProps ==
    ASSUME TypeOK, NEW r \in Requests, NEW to \in Location, Goto(r, to)
    PROVE  /\ req' \in [Requests -> Request]
           /\ req'[r].at = to /\ req'[r].kind = req[r].kind
           /\ req'[r].on = req[r].on /\ req'[r].copy = req[r].copy
           /\ \A p \in Requests \ {r} : req'[p] = req[p]
BY DEF TypeOK, Goto, Request

LEMMA IdleTyped == Idle \in Request
<1>1. 0 \in Day
  BY AgentAssumption DEF Day
<1> QED
  BY <1>1 DEF Idle, Request, Location, Kinds, NewIntent, Intent, Status

LEMMA AnswerProps ==
    ASSUME TypeOK, NEW r \in Requests, Answer(r)
    PROVE  /\ req' \in [Requests -> Request]
           /\ req'[r].at = "idle"
           /\ \A p \in Requests \ {r} : req'[p] = req[p]
<1>1. req' = [req EXCEPT ![r] = Idle] /\ Idle.at = "idle"
  BY DEF Answer, Idle
<1> QED
  BY <1>1, IdleTyped DEF TypeOK

-----------------------------------------------------------------------------
(* Steps that only take away                                               *)

\* When nothing is added to what counts, and no locked operation comes past a
\* check, the limits stay.
LEMMA Shrinks ==
    ASSUME IInv, SpentToday' \subseteq SpentToday,
           \A d : AuthorizedOn(d)' \subseteq AuthorizedOn(d),
           \A l \in Lockers : req'[l] = req[l] \/ req'[l].at \notin Held
    PROVE  Limits'
<1>1. SpentToday \subseteq Intents /\ \A d : AuthorizedOn(d) \subseteq Intents
  BY DEF SpentToday, AuthorizedOn
<1>2. Limit \in Nat
  BY AgentAssumption
<1>3. RoomToday'
  <2> SUFFICES ASSUME NEW l \in Lockers, req'[l].at \in {"write", "complete"}
               PROVE  Cardinality(SpentToday' \ {req'[l].on}) + 1 <= Limit
    BY DEF RoomToday
  <2>1. req'[l] = req[l]
    BY DEF Held
  <2>2. Cardinality(SpentToday \ {req[l].on}) + 1 <= Limit
    BY <2>1 DEF IInv, Limits, RoomToday
  <2>3. /\ SpentToday \ {req[l].on} \in SUBSET Intents
        /\ SpentToday' \ {req[l].on} \in SUBSET (SpentToday \ {req[l].on})
    BY <1>1
  <2>4. /\ Cardinality(SpentToday' \ {req[l].on}) \in Nat
        /\ Cardinality(SpentToday \ {req[l].on}) \in Nat
        /\ Cardinality(SpentToday' \ {req[l].on}) <= Cardinality(SpentToday \ {req[l].on})
    BY <2>3, CardLeq
  <2> QED
    BY <1>2, <2>1, <2>2, <2>4
<1>4. RoomAuthorized'
  <2> SUFFICES ASSUME NEW l \in Lockers, req'[l].at \in Held, req'[l].kind = "simulate"
               PROVE  (Cardinality(AuthorizedOn(req[l].copy.authorized) \cup {req[l].on}) <= Limit)'
    BY DEF RoomAuthorized
  <2>1. req'[l] = req[l] /\ req[l].on \in Intents
    BY DEF IInv, Exclusive, Held, Requests
  <2>2. PICK d, x : d = req[l].copy.authorized /\ x = req[l].on
    OBVIOUS
  <2>3. Cardinality(AuthorizedOn(d) \cup {x}) <= Limit
    BY <2>1, <2>2 DEF IInv, Limits, RoomAuthorized
  <2>4. /\ AuthorizedOn(d) \cup {x} \in SUBSET Intents
        /\ AuthorizedOn(d)' \cup {x} \in SUBSET (AuthorizedOn(d) \cup {x})
    BY <1>1, <2>1, <2>2
  <2>5. Cardinality(AuthorizedOn(d)' \cup {x}) <= Limit
    BY <1>2, <2>3, <2>4, CardLeq
  <2>6. AuthorizedOn(req[l].copy.authorized)' = AuthorizedOn(d)' /\ req'[l].on = x
    BY <2>1, <2>2 DEF AuthorizedOn
  <2> QED
    BY <2>5, <2>6
<1>5. AuthorizedWithinLimit'
  <2> SUFFICES ASSUME NEW d \in Day PROVE Cardinality(AuthorizedOn(d)') <= Limit
    BY DEF AuthorizedWithinLimit
  <2>1. Cardinality(AuthorizedOn(d)) <= Limit
    BY DEF IInv, Limits, AuthorizedWithinLimit
  <2> QED
    BY <1>1, <1>2, <2>1, CardLeq
<1>6. TodayWithinLimit'
  <2>1. Cardinality(SpentToday) <= Limit
    BY DEF IInv, Limits, TodayWithinLimit, SpentToday
  <2>2. Cardinality(SpentToday') <= Limit
    BY <1>1, <1>2, <2>1, CardLeq
  <2> QED
    BY <2>2 DEF TodayWithinLimit, SpentToday
<1> QED
  BY <1>3, <1>4, <1>5, <1>6 DEF Limits

\* A request writes back the copy it read with a status that does not count.
LEMMA InactiveWrite ==
    ASSUME IInv, NEW r \in Requests, req[r].at # "idle", NEW s \in Status \ Spending,
           Store(req[r].on, Restatus(req[r].copy, s)), UNCHANGED day,
           \A l \in Lockers : req'[l] = req[l] \/ req'[l].at \notin Held
    PROVE  /\ intents' \in [Intents -> Intent \cup {None}]
           /\ (\A i \in Intents : intents[i] # None => DatedRow(intents[i]))'
           /\ Limits'
<1> DEFINE row == Restatus(req[r].copy, s)
<1>1. TypeOK /\ req[r].on \in Intents /\ req[r].copy \in Intent /\ DatedRow(req[r].copy)
  BY DEF IInv, Exclusive, Dated, TypeOK, Request
<1>2. /\ row \in Intent /\ row.status = s /\ row.created = req[r].copy.created
      /\ row.authorized = req[r].copy.authorized
  BY <1>1, RestatusProps
<1>3. s \notin Spending /\ s \notin Authorized
  BY DEF Authorized
<1> HIDE DEF row
<1>4. Store(req[r].on, row)
  BY DEF row
<1>5. /\ intents' \in [Intents -> Intent \cup {None}]
      /\ intents'[req[r].on] = row
      /\ \A j \in Intents \ {req[r].on} : intents'[j] = intents[j]
      /\ SpentToday' \subseteq SpentToday
      /\ \A d : AuthorizedOn(d)' \subseteq AuthorizedOn(d)
  BY <1>1, <1>2, <1>3, <1>4, StoreProps
<1>6. (\A i \in Intents : intents[i] # None => DatedRow(intents[i]))'
  BY <1>1, <1>2, <1>3, <1>5 DEF IInv, Dated, DatedRow
<1> QED
  BY <1>5, <1>6, Shrinks

-----------------------------------------------------------------------------
(* Steps of the locked operations                                          *)

\* The others are idle while an operation holds the lock.
LEMMA Alone ==
    ASSUME IInv, NEW l \in Lockers, req[l].at # "idle", NEW m \in Lockers \ {l}
    PROVE  req[m].at = "idle"
BY DEF IInv, Exclusive, Requests

\* Past the check there is room for the intent, whatever its row becomes.
LEMMA RoomyWrite ==
    ASSUME IInv, NEW l \in Lockers, req[l].at \in {"write", "complete"},
           NEW row \in Intent, Store(req[l].on, row), UNCHANGED day
    PROVE  /\ TodayWithinLimit'
           /\ Cardinality(SpentToday' \ {req[l].on}) + 1 <= Limit
<1>1. TypeOK /\ req[l].on \in Intents
  BY DEF IInv, Exclusive, Requests
<1>2. PICK x \in Intents : x = req[l].on
  BY <1>1
<1>3. SpentToday' \subseteq SpentToday \cup {x}
  BY <1>1, <1>2, StoreProps
<1>4. Cardinality(SpentToday \ {x}) + 1 <= Limit
  BY <1>2 DEF IInv, Limits, RoomToday
<1>5. /\ SpentToday \in SUBSET Intents /\ SpentToday' \in SUBSET Intents
      /\ SpentToday' \ {x} \in SUBSET (SpentToday \ {x})
      /\ SpentToday \ {x} \in SUBSET Intents
      /\ SpentToday' \in SUBSET (SpentToday' \cup {x})
      /\ SpentToday' \cup {x} \in SUBSET Intents
  BY <1>3 DEF SpentToday
<1>6. /\ Cardinality(SpentToday' \ {x}) \in Nat
      /\ Cardinality(SpentToday \ {x}) \in Nat
      /\ Cardinality(SpentToday' \ {x}) <= Cardinality(SpentToday \ {x})
  BY <1>5, CardLeq
<1>7. Limit \in Nat
  BY AgentAssumption
<1>8. Cardinality(SpentToday' \ {x}) + 1 <= Limit
  BY <1>4, <1>6, <1>7
<1>9. Cardinality(SpentToday' \cup {x}) <= Cardinality(SpentToday' \ {x}) + 1
  BY <1>5, CardAdd
<1>10. /\ Cardinality(SpentToday') \in Nat /\ Cardinality(SpentToday' \cup {x}) \in Nat
       /\ Cardinality(SpentToday') <= Cardinality(SpentToday' \cup {x})
  BY <1>5, CardLeq
<1>11. Cardinality(SpentToday') <= Limit
  BY <1>6, <1>7, <1>8, <1>9, <1>10
<1> QED
  BY <1>2, <1>8, <1>11 DEF TodayWithinLimit, SpentToday

\* A simulation's writes: what is authorized on its day stays in its room.
LEMMA SimulatedWrite ==
    ASSUME IInv, NEW l \in Lockers, req[l].at \in {"write", "complete"},
           req[l].kind = "simulate", NEW s \in Status,
           Store(req[l].on, Restatus(req[l].copy, s)), UNCHANGED day
    PROVE  /\ AuthorizedWithinLimit'
           /\ \A d, x : d = req[l].copy.authorized /\ x = req[l].on =>
                  Cardinality(AuthorizedOn(d)' \cup {x}) <= Limit
<1> DEFINE row == Restatus(req[l].copy, s)
<1>1. /\ TypeOK /\ req[l].on \in Intents /\ req[l].copy \in Intent
      /\ l \in Requests
  BY DEF IInv, Exclusive, TypeOK, Request, Requests
<1>2. row \in Intent /\ row.authorized = req[l].copy.authorized
  BY <1>1, RestatusProps
<1>3. PICK e, y : e = req[l].copy.authorized /\ y = req[l].on
  OBVIOUS
<1> HIDE DEF row
<1>4. Store(y, row) /\ y \in Intents
  BY <1>1, <1>3 DEF row
<1>5. /\ \A d : AuthorizedOn(d)' \subseteq AuthorizedOn(d) \cup {y}
      /\ \A d : d = e \/ AuthorizedOn(d)' \subseteq AuthorizedOn(d)
  BY <1>1, <1>2, <1>3, <1>4, StoreProps
<1>6. Cardinality(AuthorizedOn(e) \cup {y}) <= Limit
  BY <1>3 DEF IInv, Limits, RoomAuthorized, Held
<1>7. Limit \in Nat /\ \A d : AuthorizedOn(d) \subseteq Intents
  BY AgentAssumption DEF AuthorizedOn
<1>8. /\ AuthorizedOn(e) \cup {y} \in SUBSET Intents
      /\ AuthorizedOn(e)' \in SUBSET (AuthorizedOn(e) \cup {y})
      /\ AuthorizedOn(e)' \cup {y} \in SUBSET (AuthorizedOn(e) \cup {y})
  BY <1>4, <1>5, <1>7
<1>9. Cardinality(AuthorizedOn(e)') <= Limit /\ Cardinality(AuthorizedOn(e)' \cup {y}) <= Limit
  BY <1>6, <1>7, <1>8, CardLeq
<1>10. ASSUME NEW d \in Day PROVE Cardinality(AuthorizedOn(d)') <= Limit
  <2>1. CASE d = e
    BY <1>9, <2>1
  <2>2. CASE d # e
    <3>1. Cardinality(AuthorizedOn(d)) <= Limit
      BY DEF IInv, Limits, AuthorizedWithinLimit
    <3>2. AuthorizedOn(d) \in SUBSET Intents /\ AuthorizedOn(d)' \in SUBSET AuthorizedOn(d)
      BY <1>5, <1>7, <2>2
    <3> QED
      BY <1>7, <3>1, <3>2, CardLeq
  <2> QED
    BY <2>1, <2>2
<1>11. AuthorizedWithinLimit'
  BY <1>10 DEF AuthorizedWithinLimit
<1> QED
  BY <1>3, <1>9, <1>11

-----------------------------------------------------------------------------
(* The initial states                                                      *)

LEMMA InitIInv == Init => IInv
<1> SUFFICES ASSUME Init PROVE IInv
  OBVIOUS
<1>1. /\ Limit \in Nat /\ MaxCrashes \in Nat /\ 0 \in Day
      /\ 0 \in 0 .. MaxCrashes
  BY AgentAssumption DEF Day
<1>2. TypeOK
  BY <1>1, IdleTyped DEF Init, TypeOK
<1>3. \A r \in Requests : req[r].at = "idle"
  BY DEF Init, Idle
<1>4. Exclusive
  BY <1>3 DEF Exclusive, Held
<1>5. Dated
  BY <1>3 DEF Dated, Init
<1>6. RoomToday /\ RoomAuthorized
  BY <1>3 DEF RoomToday, RoomAuthorized, Held, Requests
<1>7. SpentToday = {} /\ \A d \in Day : AuthorizedOn(d) = {}
  BY DEF Init, SpentToday, AuthorizedOn
<1>8. Cardinality({}) = 0
  BY FS_EmptySet
<1>9. AuthorizedWithinLimit
  BY <1>1, <1>7, <1>8 DEF AuthorizedWithinLimit
<1>10. TodayWithinLimit
  BY <1>1, <1>7, <1>8 DEF TodayWithinLimit, SpentToday
<1> QED
  BY <1>2, <1>4, <1>5, <1>6, <1>9, <1>10 DEF IInv, Limits

-----------------------------------------------------------------------------
(* Requests without the lock                                               *)

\* A step of a request without the lock disturbs no locked operation.
LEMMA UnlockedStep ==
    ASSUME IInv, NEW r \in Requests \ Lockers,
           req' \in [Requests -> Request], \A p \in Requests \ {r} : req'[p] = req[p],
           req'[r].at \notin Held,
           req'[r].at # "idle" => req'[r].on \in Intents /\ DatedRow(req'[r].copy),
           UNCHANGED <<lock, day>>
    PROVE  /\ Exclusive'
           /\ (\A p \in Requests : req[p].at # "idle" => DatedRow(req[p].copy))'
           /\ \A l \in Lockers : req'[l] = req[l] \/ req'[l].at \notin Held
<1>1. Exclusive'
  BY DEF IInv, Exclusive, Held
<1>2. (\A p \in Requests : req[p].at # "idle" => DatedRow(req[p].copy))'
  BY DEF IInv, Dated, DatedRow
<1>3. \A l \in Lockers : req'[l] = req[l] \/ req'[l].at \notin Held
  BY DEF Requests
<1> QED
  BY <1>1, <1>2, <1>3

\* A request without the lock reads an intent.
LEMMA ReadStep ==
    ASSUME IInv, NEW r \in Requests \ Lockers, NEW i \in Intents, intents[i] # None,
           NEW to \in Location \ Held, Begin(r, to, "gate", i),
           UNCHANGED <<intents, lock, day, lapsed, completed, crashes>>
    PROVE  IInv'
<1>1. TypeOK /\ DatedRow(intents[i]) /\ "gate" \in Kinds
  BY DEF IInv, Dated, Kinds
<1>2. /\ req' \in [Requests -> Request]
      /\ req'[r].at = to /\ req'[r].on = i /\ req'[r].copy = intents[i]
      /\ \A p \in Requests \ {r} : req'[p] = req[p]
  BY <1>1, BeginProps
<1>3. TypeOK'
  BY <1>1, <1>2 DEF TypeOK
<1>4. /\ Exclusive'
      /\ (\A p \in Requests : req[p].at # "idle" => DatedRow(req[p].copy))'
      /\ \A l \in Lockers : req'[l] = req[l] \/ req'[l].at \notin Held
  BY <1>1, <1>2, UnlockedStep
<1>5. Dated'
  BY <1>4 DEF IInv, Dated, DatedRow
<1>6. SpentToday' \subseteq SpentToday /\ \A d : AuthorizedOn(d)' \subseteq AuthorizedOn(d)
  BY DEF SpentToday, AuthorizedOn, SpendDay
<1> QED
  BY <1>3, <1>4, <1>5, <1>6, Shrinks DEF IInv

\* A request without the lock writes a status that does not count, or nothing.
LEMMA UnlockedWrite ==
    ASSUME IInv, NEW r \in Requests \ Lockers, req[r].at # "idle",
           Answer(r) \/ Goto(r, "quoted"), NEW s \in Status \ Spending,
           Store(req[r].on, Restatus(req[r].copy, s)) \/ UNCHANGED intents,
           UNCHANGED <<lock, day, lapsed, completed, crashes>>
    PROVE  IInv'
<1>1. /\ TypeOK /\ req[r].on \in Intents /\ DatedRow(req[r].copy)
      /\ "quoted" \in Location /\ "quoted" \notin Held
  BY DEF IInv, Exclusive, Dated, Location, Held
<1>2. /\ req' \in [Requests -> Request]
      /\ \A p \in Requests \ {r} : req'[p] = req[p]
      /\ req'[r].at \notin Held
      /\ req'[r].at # "idle" => req'[r].on \in Intents /\ DatedRow(req'[r].copy)
  <2>1. CASE Answer(r)
    BY <1>1, <2>1, AnswerProps DEF Held
  <2>2. CASE Goto(r, "quoted")
    BY <1>1, <2>2, GotoProps
  <2> QED
    BY <2>1, <2>2
<1>3. /\ Exclusive'
      /\ (\A p \in Requests : req[p].at # "idle" => DatedRow(req[p].copy))'
      /\ \A l \in Lockers : req'[l] = req[l] \/ req'[l].at \notin Held
  BY <1>2, UnlockedStep
<1>4. /\ intents' \in [Intents -> Intent \cup {None}]
      /\ (\A i \in Intents : intents[i] # None => DatedRow(intents[i]))'
      /\ Limits'
  <2>1. CASE Store(req[r].on, Restatus(req[r].copy, s))
    BY <1>3, <2>1, InactiveWrite
  <2>2. CASE UNCHANGED intents
    <3>1. SpentToday' \subseteq SpentToday /\ \A d : AuthorizedOn(d)' \subseteq AuthorizedOn(d)
      BY <2>2 DEF SpentToday, AuthorizedOn, SpendDay
    <3>2. (\A i \in Intents : intents[i] # None => DatedRow(intents[i]))'
      BY <2>2 DEF IInv, Dated, DatedRow
    <3> QED
      BY <1>1, <1>3, <2>2, <3>1, <3>2, Shrinks DEF TypeOK
  <2> QED
    BY <2>1, <2>2
<1>5. TypeOK'
  BY <1>1, <1>2, <1>4 DEF TypeOK
<1> QED
  BY <1>3, <1>4, <1>5 DEF IInv, Dated

-----------------------------------------------------------------------------
(* Steps under the lock                                                    *)

LEMMA LockedStep ==
    ASSUME IInv, NEW l \in Lockers, \A m \in Lockers \ {l} : req[m].at = "idle",
           req' \in [Requests -> Request], \A p \in Requests \ {l} : req'[p] = req[p],
           req'[l].at # "idle" =>
               /\ lock' = l
               /\ req'[l].at \in Held \cup {"expire"}
               /\ req'[l].on \in Intents
               /\ DatedRow(req'[l].copy),
           req'[l].at \in {"check", "write"} =>
               req'[l].copy.status \in Allowed(req'[l].kind),
           req'[l].at = "complete" =>
               req'[l].kind = "simulate" /\ req'[l].copy.status = "POLICY_APPROVED",
           UNCHANGED day
    PROVE  /\ Exclusive'
           /\ (\A p \in Requests : req[p].at # "idle" => DatedRow(req[p].copy))'
           /\ \A m \in Lockers \ {l} : req'[m].at = "idle"
<1>1. \A m \in Lockers \ {l} : req'[m] = req[m] /\ req'[m].at = "idle"
  BY DEF Requests
<1>2. Exclusive'
  <2> SUFFICES ASSUME NEW r \in Requests
               PROVE  /\ req'[r].at # "idle" => req'[r].on \in Intents
                      /\ r \in Lockers => req'[r].at \in Held \cup {"idle", "expire"}
                      /\ r \in Lockers /\ req'[r].at # "idle" => lock' = r
                      /\ r \notin Lockers => req'[r].at \notin Held
                      /\ req'[r].at \in {"check", "write"} =>
                            req'[r].copy.status \in Allowed(req'[r].kind)
                      /\ req'[r].at = "complete" =>
                            req'[r].kind = "simulate" /\ req'[r].copy.status = "POLICY_APPROVED"
    BY DEF Exclusive
  <2>1. CASE r = l
    BY <2>1
  <2>2. CASE r # l
    <3>1. req'[r] = req[r]
      BY <2>2
    <3> QED
      BY <1>1, <2>2, <3>1 DEF IInv, Exclusive
  <2> QED
    BY <2>1, <2>2
<1>3. (\A p \in Requests : req[p].at # "idle" => DatedRow(req[p].copy))'
  BY DEF IInv, Dated, DatedRow
<1> QED
  BY <1>1, <1>2, <1>3

\* A locked operation leaves: nobody is past a check any more.
LEMMA LeaveStep ==
    ASSUME IInv, NEW l \in Lockers, req[l].at # "idle", Leave(l),
           intents' \in [Intents -> Intent \cup {None}],
           (\A i \in Intents : intents[i] # None => DatedRow(intents[i]))',
           AuthorizedWithinLimit', TodayWithinLimit',
           completed' \subseteq Intents \X Day, UNCHANGED <<day, lapsed, crashes>>
    PROVE  IInv'
<1>1. TypeOK /\ l \in Requests
  BY DEF IInv, Requests
<1>2. \A m \in Lockers \ {l} : req[m].at = "idle"
  BY Alone
<1>3. /\ req' \in [Requests -> Request] /\ req'[l].at = "idle"
      /\ \A p \in Requests \ {l} : req'[p] = req[p]
  BY <1>1, AnswerProps DEF Leave
<1>4. /\ Exclusive'
      /\ (\A p \in Requests : req[p].at # "idle" => DatedRow(req[p].copy))'
      /\ \A m \in Lockers \ {l} : req'[m].at = "idle"
  BY <1>2, <1>3, LockedStep
<1>5. TypeOK'
  BY <1>1, <1>3 DEF TypeOK, Leave
<1>6. RoomToday' /\ RoomAuthorized'
  BY <1>3, <1>4 DEF RoomToday, RoomAuthorized, Held
<1> QED
  BY <1>4, <1>5, <1>6 DEF IInv, Dated, Limits

\* The row a locked operation writes on its way out.
LEMMA WriteDated ==
    ASSUME IInv, NEW i \in Intents, NEW row \in Intent, DatedRow(row), Store(i, row),
           UNCHANGED day
    PROVE  /\ intents' \in [Intents -> Intent \cup {None}]
           /\ (\A j \in Intents : intents[j] # None => DatedRow(intents[j]))'
<1>1. /\ intents' \in [Intents -> Intent \cup {None}]
      /\ intents'[i] = row
      /\ \A j \in Intents \ {i} : intents'[j] = intents[j]
  BY StoreProps DEF IInv
<1> QED
  BY <1>1 DEF IInv, Dated, DatedRow

LEMMA EnterStep ==
    ASSUME IInv, NEW l \in Lockers, Enter(l)
    PROVE  IInv'
<1>1. TypeOK /\ l \in Requests /\ lock = None /\ lock' = l
  BY DEF IInv, Requests, Enter, Lock
<1>2. \A m \in Lockers : req[m].at = "idle"
  BY <1>1, AgentAssumption DEF IInv, Exclusive, Requests
<1>3. PICK i \in Intents, kind \in Kinds :
        /\ intents[i] # None
        /\ \/ MustExpire(i, intents[i]) /\ Begin(l, "expire", kind, i)
           \/ /\ ~MustExpire(i, intents[i])
              /\ intents[i].status \in Allowed(kind)
              /\ Begin(l, "check", kind, i)
  BY DEF Enter
<1>4. PICK to \in {"expire", "check"} :
        /\ Begin(l, to, kind, i)
        /\ to = "check" => intents[i].status \in Allowed(kind)
  BY <1>3
<1>5. /\ req' \in [Requests -> Request]
      /\ req'[l].at = to /\ req'[l].kind = kind /\ req'[l].on = i
      /\ req'[l].copy = intents[i]
      /\ \A p \in Requests \ {l} : req'[p] = req[p]
  BY <1>1, <1>3, <1>4, BeginProps DEF Location
<1>6. DatedRow(intents[i])
  BY <1>3 DEF IInv, Dated
<1>7. UNCHANGED <<intents, day, lapsed, completed, crashes>>
  BY DEF Enter
<1>8. to \in Held \cup {"expire"}
  BY DEF Held
<1>9. /\ Exclusive'
      /\ (\A p \in Requests : req[p].at # "idle" => DatedRow(req[p].copy))'
      /\ \A m \in Lockers \ {l} : req'[m].at = "idle"
  BY <1>1, <1>2, <1>4, <1>5, <1>6, <1>7, <1>8, LockedStep
<1>10. TypeOK'
  BY <1>1, <1>5, <1>7 DEF TypeOK
<1>11. Dated'
  BY <1>7, <1>9 DEF IInv, Dated, DatedRow
<1>12. RoomToday'
  BY <1>5, <1>9 DEF RoomToday
<1>13. AuthorizedWithinLimit' /\ TodayWithinLimit'
  BY <1>7 DEF IInv, Limits, AuthorizedWithinLimit, TodayWithinLimit, AuthorizedOn, SpendDay
<1>14. RoomAuthorized'
  <2> SUFFICES ASSUME to = "check", kind = "simulate"
               PROVE  (Cardinality(AuthorizedOn(req[l].copy.authorized) \cup {req[l].on}) <= Limit)'
    BY <1>5, <1>9 DEF RoomAuthorized, Held
  <2>1. intents[i].status = "POLICY_APPROVED"
    BY <1>4 DEF Allowed
  <2>2. PICK d : d = intents[i].authorized
    OBVIOUS
  <2>3. intents[i] \in Intent /\ d # None
    BY <1>1, <1>3, <1>6, <2>1, <2>2 DEF TypeOK, DatedRow, Authorized, Spending
  <2>4. d \in Day
    BY <2>2, <2>3 DEF Intent
  <2>5. AuthorizedOn(d) \cup {i} = AuthorizedOn(d)
    BY <1>3, <2>1, <2>2 DEF AuthorizedOn, Authorized, Spending
  <2>6. Cardinality(AuthorizedOn(d)) <= Limit
    BY <2>4 DEF IInv, Limits, AuthorizedWithinLimit
  <2>7. AuthorizedOn(req[l].copy.authorized)' = AuthorizedOn(d) /\ req'[l].on = i
    BY <1>5, <1>7, <2>2 DEF AuthorizedOn
  <2> QED
    BY <2>5, <2>6, <2>7
<1> QED
  BY <1>9, <1>10, <1>11, <1>12, <1>13, <1>14 DEF IInv, Limits

LEMMA ExpireLockedStep ==
    ASSUME IInv, NEW l \in Lockers, ExpireLocked(l)
    PROVE  IInv'
<1>1. /\ l \in Requests /\ req[l].at # "idle" /\ "EXPIRED" \in Status \ Spending
      /\ Store(req[l].on, Restatus(req[l].copy, "EXPIRED")) /\ Leave(l)
      /\ UNCHANGED <<day, lapsed, completed, crashes>> /\ TypeOK
  BY DEF ExpireLocked, At, Requests, Status, Spending, IInv
<1>2. \A m \in Lockers : req'[m] = req[m] \/ req'[m].at \notin Held
  BY <1>1, AnswerProps DEF Leave, Requests, Held
<1>3. /\ intents' \in [Intents -> Intent \cup {None}]
      /\ (\A i \in Intents : intents[i] # None => DatedRow(intents[i]))'
      /\ Limits'
  BY <1>1, <1>2, InactiveWrite
<1> QED
  BY <1>1, <1>3, LeaveStep DEF TypeOK, Limits
LEMMA CheckStep ==
    ASSUME IInv, NEW l \in Lockers, Check(l)
    PROVE  IInv'
<1>1. /\ TypeOK /\ l \in Requests /\ req[l].at = "check"
      /\ UNCHANGED <<intents, day, lapsed, completed, crashes>>
  BY DEF IInv, Requests, Check, At
<1>2. AuthorizedWithinLimit' /\ TodayWithinLimit'
  BY <1>1 DEF IInv, Limits, AuthorizedWithinLimit, TodayWithinLimit, AuthorizedOn, SpendDay
<1>3. (\A i \in Intents : intents[i] # None => DatedRow(intents[i]))'
  BY <1>1 DEF IInv, Dated, DatedRow
<1>4. CASE Leave(l)
  BY <1>1, <1>2, <1>3, <1>4, LeaveStep DEF TypeOK
<1>5. CASE /\ req[l].kind # "gate"
           /\ WithinLimit(req[l].on)
           /\ Goto(l, "write")
           /\ UNCHANGED lock
  <2>1. \A m \in Lockers \ {l} : req[m].at = "idle"
    BY <1>1, Alone
  <2>2. /\ req' \in [Requests -> Request]
        /\ req'[l].at = "write" /\ req'[l].kind = req[l].kind
        /\ req'[l].on = req[l].on /\ req'[l].copy = req[l].copy
        /\ \A p \in Requests \ {l} : req'[p] = req[p]
    BY <1>1, <1>5, GotoProps DEF Location
  <2>3. /\ req[l].on \in Intents /\ lock = l /\ DatedRow(req[l].copy)
        /\ req[l].copy.status \in Allowed(req[l].kind)
    BY <1>1 DEF IInv, Exclusive, Dated
  <2>4. "write" \in Held /\ "check" \in Held
    BY DEF Held
  <2>5. /\ Exclusive'
        /\ (\A p \in Requests : req[p].at # "idle" => DatedRow(req[p].copy))'
        /\ \A m \in Lockers \ {l} : req'[m].at = "idle"
    BY <1>1, <1>5, <2>1, <2>2, <2>3, <2>4, LockedStep
  <2>6. TypeOK'
    BY <1>1, <1>5, <2>2 DEF TypeOK
  <2>7. RoomToday'
    <3>1. PICK x : x = req[l].on
      OBVIOUS
    <3>2. SpentBesides(x, day) = Cardinality(SpentToday \ {x})
      <4>1. {i \in Intents \ {x} : /\ intents[i] # None
                                    /\ intents[i].status \in Spending
                                    /\ SpendDay(intents[i]) = day} = SpentToday \ {x}
        BY DEF SpentToday
      <4> QED
        BY <4>1 DEF SpentBesides
    <3>3. Cardinality(SpentToday \ {x}) + 1 <= Limit
      BY <1>5, <3>1, <3>2 DEF WithinLimit
    <3>4. SpentToday' = SpentToday
      BY <1>1 DEF SpentToday, SpendDay
    <3> QED
      BY <2>2, <2>5, <3>1, <3>3, <3>4 DEF RoomToday
  <2>8. RoomAuthorized'
    <3> SUFFICES ASSUME req[l].kind = "simulate"
                 PROVE  (Cardinality(AuthorizedOn(req[l].copy.authorized) \cup {req[l].on}) <= Limit)'
      BY <2>2, <2>5 DEF RoomAuthorized, Held
    <3>1. Cardinality(AuthorizedOn(req[l].copy.authorized) \cup {req[l].on}) <= Limit
      BY <1>1, <2>4 DEF IInv, Limits, RoomAuthorized
    <3> QED
      BY <1>1, <2>2, <3>1 DEF AuthorizedOn
  <2> QED
    BY <1>2, <1>3, <2>5, <2>6, <2>7, <2>8 DEF IInv, Dated, Limits
<1> QED
  BY <1>4, <1>5 DEF Check

LEMMA SelectStep ==
    ASSUME IInv, NEW l \in Lockers, Select(l)
    PROVE  IInv'
<1>1. /\ TypeOK /\ l \in Requests /\ req[l].at = "write" /\ req[l].at # "idle"
      /\ Store(req[l].on, Restatus(req[l].copy, "ROUTED")) /\ Leave(l)
      /\ UNCHANGED <<day, lapsed, completed, crashes>>
      /\ "ROUTED" \in Status /\ "ROUTED" \notin Authorized
  BY DEF Select, At, Requests, IInv, Status, Authorized
<1>2. req[l].on \in Intents /\ req[l].copy \in Intent /\ DatedRow(req[l].copy)
  BY <1>1 DEF IInv, Exclusive, Dated, TypeOK, Request
<1>3. PICK row \in Intent :
        /\ row = Restatus(req[l].copy, "ROUTED") /\ row.status = "ROUTED"
        /\ row.created = req[l].copy.created /\ row.authorized = req[l].copy.authorized
  BY <1>1, <1>2, RestatusProps
<1>4. DatedRow(row) /\ Store(req[l].on, row)
  BY <1>1, <1>2, <1>3 DEF DatedRow
<1>5. TodayWithinLimit'
  BY <1>1, <1>4, RoomyWrite
<1>6. AuthorizedWithinLimit'
  <2> SUFFICES ASSUME NEW d \in Day PROVE Cardinality(AuthorizedOn(d)') <= Limit
    BY <1>1 DEF AuthorizedWithinLimit
  <2>1. AuthorizedOn(d)' \in SUBSET AuthorizedOn(d) /\ AuthorizedOn(d) \in SUBSET Intents
    <3>1. AuthorizedOn(d)' \subseteq AuthorizedOn(d)
      BY <1>1, <1>2, <1>3, <1>4, StoreProps
    <3> QED
      BY <3>1 DEF AuthorizedOn
  <2>2. Cardinality(AuthorizedOn(d)) <= Limit /\ Limit \in Nat
    BY AgentAssumption DEF IInv, Limits, AuthorizedWithinLimit
  <2> QED
    BY <2>1, <2>2, CardLeq
<1>7. /\ intents' \in [Intents -> Intent \cup {None}]
      /\ (\A j \in Intents : intents[j] # None => DatedRow(intents[j]))'
  BY <1>1, <1>2, <1>4, WriteDated
<1> QED
  BY <1>1, <1>5, <1>6, <1>7, LeaveStep DEF TypeOK

LEMMA AuthorizeStep ==
    ASSUME IInv, NEW l \in Lockers, Authorize(l)
    PROVE  IInv'
<1>1. /\ TypeOK /\ l \in Requests /\ req[l].at = "write" /\ req[l].at # "idle"
      /\ Store(req[l].on, [req[l].copy EXCEPT !.status = "POLICY_APPROVED", !.authorized = day])
      /\ Leave(l)
      /\ UNCHANGED <<day, lapsed, completed, crashes>>
  BY DEF Authorize, At, Requests, IInv
<1>2. req[l].on \in Intents /\ req[l].copy \in Intent /\ DatedRow(req[l].copy)
  BY <1>1 DEF IInv, Exclusive, Dated, TypeOK, Request
<1>3. day \in Day /\ day \in Nat /\ day # None
  BY <1>1, AgentAssumption DEF TypeOK, Day
<1>4. PICK row \in Intent :
        /\ row = [req[l].copy EXCEPT !.status = "POLICY_APPROVED", !.authorized = day]
        /\ row.created = req[l].copy.created /\ row.authorized = day
  <2> DEFINE row == [req[l].copy EXCEPT !.status = "POLICY_APPROVED", !.authorized = day]
  <2>1. row \in Intent /\ row.created = req[l].copy.created /\ row.authorized = day
    BY <1>2, <1>3 DEF Intent, Status
  <2> QED
    BY <2>1
<1>5. DatedRow(row) /\ Store(req[l].on, row)
  BY <1>1, <1>2, <1>3, <1>4 DEF DatedRow
<1>6. TodayWithinLimit'
  BY <1>1, <1>5, RoomyWrite
<1>7. AuthorizedWithinLimit'
  <2> SUFFICES ASSUME NEW d \in Day PROVE Cardinality(AuthorizedOn(d)') <= Limit
    BY <1>1 DEF AuthorizedWithinLimit
  <2>1. Limit \in Nat
    BY AgentAssumption
  <2>2. CASE d = day
    <3>1. AuthorizedOn(d)' \in SUBSET SpentToday' /\ SpentToday' \in SUBSET Intents
      BY <1>1, <1>3, <2>2 DEF AuthorizedOn, SpentToday, Authorized, SpendDay
    <3>2. Cardinality(SpentToday') <= Limit
      BY <1>6 DEF TodayWithinLimit, SpentToday
    <3> QED
      BY <2>1, <3>1, <3>2, CardLeq
  <2>3. CASE d # day
    <3>1. \A e : \/ row.status \in Authorized /\ row.authorized = e
                 \/ AuthorizedOn(e)' \subseteq AuthorizedOn(e)
      BY <1>1, <1>2, <1>5, StoreProps
    <3>2. AuthorizedOn(d)' \subseteq AuthorizedOn(d)
      BY <1>4, <2>3, <3>1
    <3>3. AuthorizedOn(d)' \in SUBSET AuthorizedOn(d) /\ AuthorizedOn(d) \in SUBSET Intents
      BY <3>2 DEF AuthorizedOn
    <3>4. Cardinality(AuthorizedOn(d)) <= Limit
      BY DEF IInv, Limits, AuthorizedWithinLimit
    <3> QED
      BY <2>1, <3>3, <3>4, CardLeq
  <2> QED
    BY <2>2, <2>3
<1>8. /\ intents' \in [Intents -> Intent \cup {None}]
      /\ (\A j \in Intents : intents[j] # None => DatedRow(intents[j]))'
  BY <1>1, <1>2, <1>5, WriteDated
<1> QED
  BY <1>1, <1>6, <1>7, <1>8, LeaveStep DEF TypeOK

LEMMA SimulateStep ==
    ASSUME IInv, NEW l \in Lockers, Simulate(l)
    PROVE  IInv'
<1>1. /\ TypeOK /\ l \in Requests /\ req[l].at = "write" /\ req[l].kind = "simulate"
      /\ Store(req[l].on, Restatus(req[l].copy, "SIMULATION_PENDING"))
      /\ Goto(l, "complete")
      /\ UNCHANGED <<lock, day, lapsed, completed, crashes>>
      /\ "SIMULATION_PENDING" \in Status /\ "complete" \in Location
  BY DEF Simulate, At, Requests, IInv, Status, Location
<1>2. /\ req[l].on \in Intents /\ req[l].copy \in Intent /\ DatedRow(req[l].copy)
      /\ lock = l /\ req[l].copy.status = "POLICY_APPROVED"
  BY <1>1 DEF IInv, Exclusive, Dated, TypeOK, Request, Allowed
<1>3. PICK row \in Intent :
        /\ row = Restatus(req[l].copy, "SIMULATION_PENDING")
        /\ row.created = req[l].copy.created /\ row.authorized = req[l].copy.authorized
  BY <1>1, <1>2, RestatusProps
<1>4. row.authorized # None
  BY <1>2, <1>3 DEF DatedRow, Authorized, Spending
<1>5. DatedRow(row) /\ Store(req[l].on, row)
  BY <1>1, <1>2, <1>3, <1>4 DEF DatedRow
<1>6. /\ req' \in [Requests -> Request]
      /\ req'[l].at = "complete" /\ req'[l].kind = req[l].kind
      /\ req'[l].on = req[l].on /\ req'[l].copy = req[l].copy
      /\ \A p \in Requests \ {l} : req'[p] = req[p]
  BY <1>1, GotoProps
<1>7. \A m \in Lockers \ {l} : req[m].at = "idle"
  BY <1>1, Alone
<1>8. "complete" \in Held
  BY DEF Held
<1>9. /\ Exclusive'
      /\ (\A p \in Requests : req[p].at # "idle" => DatedRow(req[p].copy))'
      /\ \A m \in Lockers \ {l} : req'[m].at = "idle"
  BY <1>1, <1>2, <1>6, <1>7, <1>8, LockedStep
<1>10. /\ intents' \in [Intents -> Intent \cup {None}]
       /\ (\A j \in Intents : intents[j] # None => DatedRow(intents[j]))'
  BY <1>1, <1>2, <1>5, WriteDated
<1>11. TypeOK'
  BY <1>1, <1>6, <1>10 DEF TypeOK
<1>12. TodayWithinLimit' /\ Cardinality(SpentToday' \ {req[l].on}) + 1 <= Limit
  BY <1>1, <1>5, RoomyWrite
<1>13. /\ AuthorizedWithinLimit'
       /\ \A d, x : d = req[l].copy.authorized /\ x = req[l].on =>
              Cardinality(AuthorizedOn(d)' \cup {x}) <= Limit
  BY <1>1, SimulatedWrite
<1>14. RoomToday'
  BY <1>6, <1>9, <1>12 DEF RoomToday
<1>15. RoomAuthorized'
  <2> SUFFICES (Cardinality(AuthorizedOn(req[l].copy.authorized) \cup {req[l].on}) <= Limit)'
    BY <1>6, <1>9 DEF RoomAuthorized, Held
  <2>1. PICK d, x : d = req[l].copy.authorized /\ x = req[l].on
    OBVIOUS
  <2>2. Cardinality(AuthorizedOn(d)' \cup {x}) <= Limit
    BY <1>13, <2>1
  <2>3. AuthorizedOn(req[l].copy.authorized)' = AuthorizedOn(d)' /\ req'[l].on = x
    BY <1>6, <2>1 DEF AuthorizedOn
  <2> QED
    BY <2>2, <2>3
<1> QED
  BY <1>9, <1>10, <1>11, <1>12, <1>13, <1>14, <1>15 DEF IInv, Dated, Limits

LEMMA CompleteStep ==
    ASSUME IInv, NEW l \in Lockers, Complete(l)
    PROVE  IInv'
<1>1. /\ TypeOK /\ l \in Requests /\ req[l].at = "complete" /\ req[l].at # "idle"
      /\ Store(req[l].on, Restatus(req[l].copy, "SIMULATION_COMPLETED"))
      /\ completed' = completed \cup {<<req[l].on, req[l].copy.authorized>>}
      /\ Leave(l)
      /\ UNCHANGED <<day, lapsed, crashes>>
      /\ "SIMULATION_COMPLETED" \in Status
  BY DEF Complete, At, Requests, IInv, Status
<1>2. /\ req[l].on \in Intents /\ req[l].copy \in Intent /\ DatedRow(req[l].copy)
      /\ req[l].copy.status = "POLICY_APPROVED" /\ req[l].kind = "simulate"
  BY <1>1 DEF IInv, Exclusive, Dated, TypeOK, Request
<1>3. PICK row \in Intent :
        /\ row = Restatus(req[l].copy, "SIMULATION_COMPLETED")
        /\ row.created = req[l].copy.created /\ row.authorized = req[l].copy.authorized
  BY <1>1, <1>2, RestatusProps
<1>4. row.authorized # None
  BY <1>2, <1>3 DEF DatedRow, Authorized, Spending
<1>5. DatedRow(row) /\ Store(req[l].on, row)
  BY <1>1, <1>2, <1>3, <1>4 DEF DatedRow
<1>6. TodayWithinLimit'
  BY <1>1, <1>5, RoomyWrite
<1>7. AuthorizedWithinLimit'
  BY <1>1, <1>2, SimulatedWrite
<1>8. /\ intents' \in [Intents -> Intent \cup {None}]
      /\ (\A j \in Intents : intents[j] # None => DatedRow(intents[j]))'
  BY <1>1, <1>2, <1>5, WriteDated
<1>9. completed' \subseteq Intents \X Day
  BY <1>1, <1>2, <1>3, <1>4 DEF TypeOK, Intent
<1> QED
  BY <1>1, <1>6, <1>7, <1>8, <1>9, LeaveStep

-----------------------------------------------------------------------------
(* The environment                                                         *)

LEMMA CreateStep ==
    ASSUME IInv, NEW i \in Intents, Create(i)
    PROVE  IInv'
<1>1. /\ TypeOK /\ Store(i, NewIntent(day))
      /\ UNCHANGED <<req, lock, day, lapsed, completed, crashes>>
  BY DEF IInv, Create
<1>2. PICK row \in Intent :
        row = NewIntent(day) /\ row.status = "CREATED" /\ row.created = day
        /\ row.authorized = None
  BY <1>1 DEF TypeOK, NewIntent, Intent, Status
<1>3. row.status \notin Spending /\ row.status \notin Authorized
  BY <1>2 DEF Spending, Authorized
<1>4. DatedRow(row)
  BY <1>1, <1>2, <1>3 DEF DatedRow, TypeOK, Day
<1>5. SpentToday' \subseteq SpentToday /\ \A d : AuthorizedOn(d)' \subseteq AuthorizedOn(d)
  BY <1>1, <1>2, <1>3, StoreProps
<1>6. /\ intents' \in [Intents -> Intent \cup {None}]
      /\ (\A j \in Intents : intents[j] # None => DatedRow(intents[j]))'
  BY <1>1, <1>2, <1>4, WriteDated
<1>7. Limits'
  BY <1>1, <1>5, Shrinks
<1> QED
  BY <1>1, <1>6, <1>7 DEF IInv, TypeOK, Exclusive, Dated, DatedRow

\* What has been spent by midnight counts no more, and a request that has
\* passed its check has the room of a whole day.
LEMMA MidnightStep ==
    ASSUME IInv, Midnight
    PROVE  IInv'
<1>1. /\ TypeOK /\ day \in Nat /\ day' = day + 1 /\ day' \in Day /\ Limit \in Nat
      /\ UNCHANGED <<intents, req, lock, lapsed, completed, crashes>>
  BY AgentAssumption DEF IInv, TypeOK, Midnight, Day
<1>2. TypeOK'
  BY <1>1 DEF TypeOK
<1>3. Exclusive'
  BY <1>1 DEF IInv, Exclusive
<1>4. ASSUME NEW row \in Intent, DatedRow(row)
      PROVE  DatedRow(row)' /\ SpendDay(row) <= day
  <2>1. row.created \in Nat /\ (row.authorized # None => row.authorized \in Nat)
    BY DEF Intent, Day
  <2> QED
    BY <1>1, <1>4, <2>1 DEF DatedRow, SpendDay
<1>5. ASSUME NEW i \in Intents, intents[i] # None
      PROVE  DatedRow(intents[i])' /\ SpendDay(intents[i]) <= day
  <2>1. PICK row \in Intent : row = intents[i] /\ row = intents'[i]
    BY <1>1, <1>5 DEF TypeOK
  <2>2. DatedRow(row)
    BY <1>5, <2>1 DEF IInv, Dated
  <2>3. DatedRow(row)' /\ SpendDay(row) <= day
    BY <1>4, <2>2
  <2> QED
    BY <2>1, <2>3 DEF DatedRow
<1>6. ASSUME NEW r \in Requests, req[r].at # "idle"
      PROVE  DatedRow(req[r].copy)'
  <2>1. PICK row \in Intent : row = req[r].copy /\ row = req'[r].copy
    BY <1>1, <1>6 DEF TypeOK, Request
  <2>2. DatedRow(row)
    BY <1>6, <2>1 DEF IInv, Dated
  <2>3. DatedRow(row)'
    BY <1>4, <2>2
  <2> QED
    BY <2>1, <2>3 DEF DatedRow
<1>7. Dated'
  BY <1>1, <1>5, <1>6 DEF Dated
<1>8. SpentToday' = {}
  <2> SUFFICES ASSUME NEW i \in Intents, intents[i] # None, SpendDay(intents[i]) = day'
               PROVE  FALSE
    BY <1>1 DEF SpentToday, SpendDay
  <2>1. SpendDay(intents[i]) <= day
    BY <1>5
  <2> QED
    BY <1>1, <2>1
<1>9. Cardinality({}) = 0
  BY FS_EmptySet
<1>10. TodayWithinLimit'
  BY <1>1, <1>8, <1>9 DEF TodayWithinLimit, SpentToday
<1>11. RoomToday'
  <2> SUFFICES ASSUME NEW l \in Lockers, req[l].at \in {"write", "complete"}
               PROVE  Cardinality(SpentToday' \ {req'[l].on}) + 1 <= Limit
    BY <1>1 DEF RoomToday
  <2>1. Cardinality(SpentToday \ {req[l].on}) + 1 <= Limit
    BY DEF IInv, Limits, RoomToday
  <2>2. SpentToday \ {req[l].on} \in SUBSET Intents
    BY DEF SpentToday
  <2>3. Cardinality(SpentToday \ {req[l].on}) \in Nat
    BY <2>2, CardLeq
  <2>4. 1 <= Limit
    BY <1>1, <2>1, <2>3
  <2>5. SpentToday' \ {req'[l].on} = {}
    BY <1>8
  <2>6. Cardinality(SpentToday' \ {req'[l].on}) = 0
    BY <1>9, <2>5, Zenon
  <2> QED
    BY <1>1, <2>4, <2>6
<1>12. RoomAuthorized' /\ AuthorizedWithinLimit'
  BY <1>1 DEF IInv, Limits, RoomAuthorized, AuthorizedWithinLimit, AuthorizedOn
<1> QED
  BY <1>2, <1>3, <1>7, <1>10, <1>11, <1>12 DEF IInv, Limits

LEMMA CrashStep ==
    ASSUME IInv, Crash
    PROVE  IInv'
<1>1. /\ TypeOK /\ crashes' \in 0 .. MaxCrashes
      /\ req' = [r \in Requests |-> Idle] /\ lock' = None
      /\ UNCHANGED <<intents, day, lapsed, completed>>
  BY AgentAssumption DEF IInv, TypeOK, Crash
<1>2. TypeOK'
  BY <1>1, IdleTyped DEF TypeOK
<1>3. \A r \in Requests : req'[r].at = "idle"
  BY <1>1 DEF Idle
<1>4. Exclusive' /\ Dated'
  BY <1>1, <1>3 DEF IInv, Exclusive, Dated, DatedRow, Held
<1>5. SpentToday' \subseteq SpentToday /\ \A d : AuthorizedOn(d)' \subseteq AuthorizedOn(d)
  BY <1>1 DEF SpentToday, AuthorizedOn, SpendDay
<1>6. \A l \in Lockers : req'[l].at \notin Held
  BY <1>3 DEF Requests, Held
<1> QED
  BY <1>2, <1>4, <1>5, <1>6, Shrinks DEF IInv

LEMMA LapseStep ==
    ASSUME IInv, NEW i \in Intents, Lapse(i)
    PROVE  IInv'
<1>1. /\ TypeOK /\ lapsed' = lapsed \cup {i}
      /\ UNCHANGED <<intents, req, lock, day, completed, crashes>>
  BY DEF IInv, Lapse
<1>2. TypeOK' /\ Exclusive' /\ Dated'
  BY <1>1 DEF IInv, TypeOK, Exclusive, Dated, DatedRow
<1>3. SpentToday' \subseteq SpentToday /\ \A d : AuthorizedOn(d)' \subseteq AuthorizedOn(d)
  BY <1>1 DEF SpentToday, AuthorizedOn, SpendDay
<1> QED
  BY <1>1, <1>2, <1>3, Shrinks DEF IInv

-----------------------------------------------------------------------------
(* The theorems                                                            *)

LEMMA NextIInv == IInv /\ [Next]_vars => IInv'
<1> SUFFICES ASSUME IInv, [Next]_vars PROVE IInv'
  OBVIOUS
<1>1. ASSUME NEW i \in Intents, Create(i) PROVE IInv'
  BY <1>1, CreateStep
<1>2. ASSUME NEW i \in Intents, Lapse(i) PROVE IInv'
  BY <1>2, LapseStep
<1>3. ASSUME NEW g \in Getters, Get(g) PROVE IInv'
  BY <1>3, ReadStep, AgentAssumption DEF Get, Requests, Location, Held
<1>4. ASSUME NEW g \in Getters, Expire(g) PROVE IInv'
  BY <1>4, UnlockedWrite, AgentAssumption DEF Expire, At, Requests, Status, Spending
<1>5. ASSUME NEW q \in Quoters, QuoteRead(q) PROVE IInv'
  BY <1>5, ReadStep, AgentAssumption DEF QuoteRead, Requests, Location, Held
<1>6. ASSUME NEW q \in Quoters, QuoteStart(q) PROVE IInv'
  BY <1>6, UnlockedWrite, AgentAssumption DEF QuoteStart, At, Requests, Status, Spending
<1>7. ASSUME NEW q \in Quoters, QuoteFinish(q) PROVE IInv'
  BY <1>7, UnlockedWrite, AgentAssumption DEF QuoteFinish, At, Requests, Status, Spending
<1>8. ASSUME NEW l \in Lockers,
             \/ Enter(l) \/ ExpireLocked(l) \/ Check(l)
             \/ Select(l) \/ Authorize(l) \/ Simulate(l) \/ Complete(l)
      PROVE  IInv'
  BY <1>8, EnterStep, ExpireLockedStep, CheckStep, SelectStep, AuthorizeStep, SimulateStep,
     CompleteStep
<1>9. CASE Midnight
  BY <1>9, MidnightStep
<1>10. CASE Crash
  BY <1>10, CrashStep
<1>11. CASE UNCHANGED vars
  <2>1. UNCHANGED <<intents, req, lock, day, lapsed, completed, crashes>>
    BY <1>11 DEF vars
  <2>2. TypeOK' /\ Exclusive' /\ Dated'
    BY <2>1 DEF IInv, TypeOK, Exclusive, Dated, DatedRow
  <2>3. SpentToday' \subseteq SpentToday /\ \A d : AuthorizedOn(d)' \subseteq AuthorizedOn(d)
    BY <2>1 DEF SpentToday, AuthorizedOn, SpendDay
  <2> QED
    BY <2>1, <2>2, <2>3, Shrinks DEF IInv
<1> QED
  BY <1>1, <1>2, <1>3, <1>4, <1>5, <1>6, <1>7, <1>8, <1>9, <1>10, <1>11 DEF Next

\* The inductive invariant holds in every state.
LEMMA Invariance == Spec => []IInv
<1>1. Init => IInv
  BY InitIInv
<1>2. IInv /\ [Next]_vars => IInv'
  BY NextIInv
<1> QED
  BY <1>1, <1>2, PTL DEF Spec

\* Every variable keeps its type: in particular what is simulated has a day on
\* which it was authorized, whatever the interleaving of reads and writes.
THEOREM TypeCorrect == Spec => []TypeOK
<1>1. IInv => TypeOK
  BY DEF IInv
<1> QED
  BY <1>1, Invariance, PTL

\* sumDailySpending under withExclusiveAgentAccess: what was authorized on a
\* day and has neither failed nor expired, and what evaluatePaymentPolicy counts
\* today, routes selected included, stay within the agent's limit, though
\* quoteIntent and getIntent write whole rows without the lock and midnight may
\* pass between a check and its write.
THEOREM WithinLimitsHold == Spec => []WithinLimits
<1>1. IInv => WithinLimits
  BY DEF IInv, Limits, WithinLimits
<1> QED
  BY <1>1, Invariance, PTL

-----------------------------------------------------------------------------
(* Permanent spend                                                         *)
(*                                                                         *)
(* quoteIntent and the expiry in getIntent are all that takes a simulated  *)
(* intent back.                                                            *)

\* What was simulated still says so, and on which day it was authorized.
Kept == \A i \in Intents, d \in Day :
            <<i, d>> \in completed => Simulated(i) /\ intents[i].authorized = d

\* A locked operation that is going to write works on no simulated intent.
Unsimulated ==
    \A l \in Lockers :
        req[l].at = "expire" \/ (req[l].at \in Held /\ req[l].kind # "gate") =>
            ~Simulated(req[l].on)

\* A write to an intent that has not been simulated.
LEMMA WritesUnsimulated ==
    ASSUME IInv, Kept, Unsimulated, NEW i \in Intents, ~Simulated(i), NEW row \in Intent,
           Store(i, row), UNCHANGED completed, row.status # "SIMULATION_COMPLETED",
           \A l \in Lockers : req'[l] = req[l] \/ req'[l].at = "idle" \/ req'[l].on = i
    PROVE  (Kept /\ Unsimulated)'
<1>1. /\ intents'[i] = row /\ \A j \in Intents \ {i} : intents'[j] = intents[j]
      /\ \A l \in Lockers : req[l].at # "idle" => req[l].on \in Intents
  BY DEF IInv, TypeOK, Store, Exclusive, Requests
<1>2. ~Simulated(i)' /\ \A j \in Intents \ {i} : Simulated(j)' <=> Simulated(j)
  BY <1>1 DEF Simulated
<1>3. Kept'
  BY <1>1, <1>2 DEF Kept
<1>4. Unsimulated'
  <2> SUFFICES ASSUME NEW l \in Lockers, NEW j, j = req'[l].on,
                      \/ req'[l].at = "expire"
                      \/ req'[l].at \in Held /\ req'[l].kind # "gate"
               PROVE  ~Simulated(j)'
    BY DEF Unsimulated, Simulated
  <2>1. CASE j = i
    BY <1>2, <2>1
  <2>2. CASE j # i
    <3>1. req'[l] = req[l] /\ req[l].at # "idle"
      BY <2>2 DEF Held
    <3>2. ~Simulated(j) /\ j \in Intents
      BY <1>1, <3>1 DEF Unsimulated
    <3> QED
      BY <1>2, <2>2, <3>2
  <2> QED
    BY <2>1, <2>2
<1> QED
  BY <1>3, <1>4

\* A step that writes nothing and lets nobody near a simulated intent.
LEMMA WritesNothing ==
    ASSUME IInv, Kept, Unsimulated, UNCHANGED <<intents, completed>>,
           \A l \in Lockers :
               \/ req'[l] = req[l]
               \/ req'[l].at = "idle"
               \/ req'[l].on \in Intents /\ ~Simulated(req'[l].on)
               \/ req'[l].at = "check" /\ req'[l].kind = "gate"
               \/ /\ req'[l].on = req[l].on /\ req'[l].kind = req[l].kind
                  /\ req[l].at \in Held /\ req'[l].at # "expire"
    PROVE  (Kept /\ Unsimulated)'
<1>1. \A i : Simulated(i)' <=> Simulated(i)
  BY DEF Simulated
<1>2. Kept'
  BY <1>1 DEF Kept
<1>3. Unsimulated'
  <2> SUFFICES ASSUME NEW l \in Lockers,
                      \/ req'[l].at = "expire"
                      \/ req'[l].at \in Held /\ req'[l].kind # "gate"
               PROVE  ~Simulated(req'[l].on)
    BY DEF Unsimulated, Simulated
  <2>1. CASE req'[l].on = req[l].on /\ req'[l].kind = req[l].kind /\ req[l].at \in Held
            /\ req[l].kind # "gate"
    BY <2>1 DEF Unsimulated
  <2>2. CASE req'[l] = req[l]
    BY <2>2 DEF Unsimulated
  <2> QED
    BY <2>1, <2>2 DEF Held
<1> QED
  BY <1>2, <1>3

LEMMA KeptStep ==
    ASSUME IInv, Kept, Unsimulated, NoneOvertaken, [Next]_vars
    PROVE  (Kept /\ Unsimulated)'
<1>0. TypeOK /\ \A l \in Lockers : l \in Requests
  BY DEF IInv, Requests
<1>1. ASSUME NEW i \in Intents, Create(i) PROVE (Kept /\ Unsimulated)'
  <2>1. NewIntent(day) \in Intent /\ NewIntent(day).status # "SIMULATION_COMPLETED"
    BY <1>0 DEF NewIntent, Intent, Status, TypeOK
  <2>2. ~Simulated(i)
    BY <1>1 DEF Create, Simulated
  <2> QED
    BY <1>1, <2>1, <2>2, WritesUnsimulated DEF Create
<1>2. ASSUME NEW i \in Intents, Lapse(i) PROVE (Kept /\ Unsimulated)'
  BY <1>2, WritesNothing DEF Lapse
<1>3. ASSUME NEW r \in Requests \ Lockers, NEW i \in Intents, NEW to \in Location,
             Begin(r, to, "gate", i), UNCHANGED <<intents, completed>>
      PROVE  (Kept /\ Unsimulated)'
  <2>1. \A l \in Lockers : req'[l] = req[l]
    BY <1>0, <1>3 DEF Begin, TypeOK
  <2> QED
    BY <1>3, <2>1, WritesNothing
<1>4. ASSUME NEW r \in Requests \ Lockers, ~At(r, "idle"), ~Simulated(req[r].on),
             Answer(r) \/ Goto(r, "quoted"),
             NEW s \in Status \ {"SIMULATION_COMPLETED"},
             Store(req[r].on, Restatus(req[r].copy, s)) \/ UNCHANGED intents,
             UNCHANGED completed
      PROVE  (Kept /\ Unsimulated)'
  <2>1. \A l \in Lockers : req'[l] = req[l]
    BY <1>0, <1>4 DEF Answer, Goto, TypeOK
  <2>2. CASE UNCHANGED intents
    BY <1>4, <2>1, <2>2, WritesNothing
  <2>3. CASE Store(req[r].on, Restatus(req[r].copy, s))
    <3>1. req[r].on \in Intents /\ req[r].copy \in Intent
      BY <1>0, <1>4 DEF IInv, Exclusive, At, TypeOK, Request
    <3>2. Restatus(req[r].copy, s) \in Intent /\ Restatus(req[r].copy, s).status = s
      BY <3>1, RestatusProps
    <3> QED
      BY <1>4, <2>1, <2>3, <3>1, <3>2, WritesUnsimulated
  <2> QED
    BY <1>4, <2>2, <2>3
<1>5. ASSUME NEW g \in Getters, Get(g) \/ Expire(g) PROVE (Kept /\ Unsimulated)'
  <2>1. g \in Requests \ Lockers /\ "expire" \in Location
        /\ "EXPIRED" \in Status \ {"SIMULATION_COMPLETED"}
    BY AgentAssumption DEF Requests, Location, Status
  <2>2. CASE Get(g)
    BY <1>3, <2>1, <2>2 DEF Get
  <2>3. CASE Expire(g)
    <3>1. ~At(g, "idle") /\ ~Simulated(req[g].on)
      BY <2>3 DEF Expire, At, NoneOvertaken
    <3> QED
      BY <1>4, <2>1, <2>3, <3>1 DEF Expire
  <2> QED
    BY <1>5, <2>2, <2>3
<1>6. ASSUME NEW q \in Quoters, QuoteRead(q) \/ QuoteStart(q) \/ QuoteFinish(q)
      PROVE (Kept /\ Unsimulated)'
  <2>1. /\ q \in Requests \ Lockers /\ "price" \in Location
        /\ {"QUOTING", "QUOTED", "FAILED"} \subseteq Status \ {"SIMULATION_COMPLETED"}
    BY AgentAssumption DEF Requests, Location, Status
  <2>2. CASE QuoteRead(q)
    BY <1>3, <2>1, <2>2 DEF QuoteRead
  <2>3. CASE QuoteStart(q) \/ QuoteFinish(q)
    <3>1. ~At(q, "idle") /\ ~Simulated(req[q].on)
      BY <2>3 DEF QuoteStart, QuoteFinish, At, NoneOvertaken
    <3>2. PICK s \in Status \ {"SIMULATION_COMPLETED"} :
            /\ Answer(q) \/ Goto(q, "quoted")
            /\ Store(req[q].on, Restatus(req[q].copy, s)) \/ UNCHANGED intents
            /\ UNCHANGED completed
      BY <2>1, <2>3 DEF QuoteStart, QuoteFinish
    <3> QED
      BY <1>4, <2>1, <3>1, <3>2
  <2> QED
    BY <1>6, <2>2, <2>3
<1>7. ASSUME NEW l \in Lockers, Enter(l) PROVE (Kept /\ Unsimulated)'
  <2>1. PICK i \in Intents, kind \in Kinds, to \in {"expire", "check"} :
          /\ intents[i] # None /\ Begin(l, to, kind, i)
          /\ to = "expire" => MustExpire(i, intents[i])
          /\ to = "check" => intents[i].status \in Allowed(kind)
    BY <1>7 DEF Enter
  <2>2. /\ req'[l].at = to /\ req'[l].kind = kind /\ req'[l].on = i
        /\ \A m \in Lockers \ {l} : req'[m] = req[m]
    BY <1>0, <2>1, BeginProps DEF Location
  <2>3. Simulated(i) => to = "check" /\ kind = "gate"
    BY <2>1 DEF Simulated, MustExpire, Allowed, Kinds
  <2> QED
    BY <1>7, <2>2, <2>3, WritesNothing DEF Enter
<1>8. ASSUME NEW l \in Lockers, Check(l) PROVE (Kept /\ Unsimulated)'
  <2>1. \A m \in Lockers : \/ req'[m] = req[m]
                           \/ req'[m].at = "idle"
                           \/ /\ req'[m].on = req[m].on /\ req'[m].kind = req[m].kind
                              /\ req[m].at \in Held /\ req'[m].at # "expire"
    <3>1. CASE Answer(l)
      BY <1>0, <3>1, AnswerProps
    <3>2. CASE Goto(l, "write")
      BY <1>0, <1>8, <3>2, GotoProps DEF Location, Held, Check, At
    <3> QED
      BY <1>8, <3>1, <3>2 DEF Check, Leave
  <2> QED
    BY <1>8, <2>1, WritesNothing DEF Check
<1>9. ASSUME NEW l \in Lockers, ExpireLocked(l) \/ Select(l) \/ Authorize(l) \/ Simulate(l)
      PROVE (Kept /\ Unsimulated)'
  <2>1. /\ req[l].on \in Intents /\ req[l].copy \in Intent /\ day \in Day /\ ~Simulated(req[l].on)
        /\ UNCHANGED completed
    BY <1>0, <1>9
    DEF ExpireLocked, Select, Authorize, Simulate, At, IInv, Exclusive, TypeOK, Request, Held,
        Unsimulated
  <2>2. PICK i \in Intents : i = req[l].on
    BY <2>1
  <2>3. \A m \in Lockers : req'[m] = req[m] \/ req'[m].at = "idle" \/ req'[m].on = i
    <3>1. CASE Answer(l)
      BY <1>0, <3>1, AnswerProps
    <3>2. CASE Goto(l, "complete")
      BY <1>0, <2>2, <3>2, GotoProps DEF Location
    <3> QED
      BY <1>9, <3>1, <3>2 DEF ExpireLocked, Select, Authorize, Simulate, Leave
  <2>4. PICK row \in Intent : Store(i, row) /\ row.status # "SIMULATION_COMPLETED"
    <3>1. CASE Authorize(l)
      <4> DEFINE row == [req[l].copy EXCEPT !.status = "POLICY_APPROVED", !.authorized = day]
      <4>1. row \in Intent /\ row.status # "SIMULATION_COMPLETED"
        BY <2>1 DEF Intent, Status
      <4>2. Store(i, row)
        BY <2>2, <3>1 DEF Authorize
      <4> QED
        BY <4>1, <4>2
    <3>2. CASE ExpireLocked(l) \/ Select(l) \/ Simulate(l)
      <4>1. PICK s \in {"EXPIRED", "ROUTED", "SIMULATION_PENDING"} :
              Store(i, Restatus(req[l].copy, s))
        BY <2>2, <3>2 DEF ExpireLocked, Select, Simulate
      <4>2. Restatus(req[l].copy, s) \in Intent /\ Restatus(req[l].copy, s).status = s
        BY <2>1, RestatusProps DEF Status
      <4> QED
        BY <4>1, <4>2
    <3> QED
      BY <1>9, <3>1, <3>2
  <2> QED
    BY <2>1, <2>2, <2>3, <2>4, WritesUnsimulated
<1>10. ASSUME NEW l \in Lockers, Complete(l) PROVE (Kept /\ Unsimulated)'
  <2>1. /\ req[l].on \in Intents /\ req[l].copy \in Intent /\ ~Simulated(req[l].on)
        /\ completed' = completed \cup {<<req[l].on, req[l].copy.authorized>>}
        /\ Store(req[l].on, Restatus(req[l].copy, "SIMULATION_COMPLETED"))
        /\ "SIMULATION_COMPLETED" \in Status /\ req[l].at # "idle" /\ Answer(l)
    BY <1>0, <1>10
    DEF Complete, Leave, At, IInv, Exclusive, TypeOK, Request, Status, Held, Unsimulated
  <2>2. PICK i \in Intents, row \in Intent :
          /\ i = req[l].on /\ row = Restatus(req[l].copy, "SIMULATION_COMPLETED")
          /\ row.status = "SIMULATION_COMPLETED" /\ row.authorized = req[l].copy.authorized
    BY <2>1, RestatusProps
  <2>3. /\ intents'[i] = row /\ \A j \in Intents \ {i} : intents'[j] = intents[j]
        /\ row # None
    BY <1>0, <2>1, <2>2, StoreProps, NoneAssumption DEF TypeOK, Store
  <2>4. Simulated(i)' /\ \A j \in Intents \ {i} : Simulated(j)' <=> Simulated(j)
    BY <2>2, <2>3 DEF Simulated
  <2>5. Kept'
    <3> SUFFICES ASSUME NEW j \in Intents, NEW d \in Day, <<j, d>> \in completed'
                 PROVE  Simulated(j)' /\ intents'[j].authorized = d
      BY DEF Kept
    <3>1. CASE <<j, d>> \in completed
      <4>1. Simulated(j) /\ intents[j].authorized = d /\ j # i
        BY <2>1, <2>2, <3>1 DEF Kept
      <4> QED
        BY <2>3, <2>4, <4>1
    <3>2. CASE <<j, d>> \notin completed
      <4>1. j = i /\ d = row.authorized
        BY <2>1, <2>2, <3>2
      <4> QED
        BY <2>3, <2>4, <4>1
    <3> QED
      BY <3>1, <3>2
  <2>6. \A m \in Lockers : req'[m].at = "idle"
    <3>1. req'[l].at = "idle" /\ \A m \in Requests \ {l} : req'[m] = req[m]
      BY <1>0, <2>1, AnswerProps
    <3>2. \A m \in Lockers \ {l} : req[m].at = "idle"
      BY <2>1, Alone
    <3> QED
      BY <1>0, <3>1, <3>2
  <2>7. Unsimulated'
    BY <2>6 DEF Unsimulated, Held
  <2> QED
    BY <2>5, <2>7
<1>11. CASE Midnight \/ UNCHANGED vars
  BY <1>11, WritesNothing DEF Midnight, vars
<1>12. CASE Crash
  <2>1. \A l \in Lockers : req'[l].at = "idle"
    BY <1>0, <1>12 DEF Crash, Idle
  <2> QED
    BY <1>12, <2>1, WritesNothing DEF Crash
<1> QED
  BY <1>1, <1>2, <1>5, <1>6, <1>7, <1>8, <1>9, <1>10, <1>11, <1>12 DEF Next

\* docs/PRODUCTION_AUDIT.md's "permanent spend" fails only by the requests that
\* do not take the lock: as long as none of them holds a copy of an intent that
\* has been simulated meanwhile, whatever else overlaps, all that was ever
\* simulated on one day's authorizations stays within the limit of that day.
THEOREM PermanentSpendHolds == Spec /\ []NoneOvertaken => []PermanentSpendWithinLimit
<1>1. Init => Kept /\ Unsimulated
  BY DEF Init, Idle, Kept, Unsimulated, Held, Requests
<1>2. IInv /\ NoneOvertaken /\ Kept /\ Unsimulated /\ [Next]_vars => (Kept /\ Unsimulated)'
  BY KeptStep
<1>3. IInv /\ Kept => PermanentSpendWithinLimit
  <2> SUFFICES ASSUME IInv, Kept, NEW d \in Day
               PROVE  Cardinality({i \in Intents : <<i, d>> \in completed}) <= Limit
    BY DEF PermanentSpendWithinLimit
  <2> DEFINE done == {i \in Intents : <<i, d>> \in completed}
  <2>1. done \in SUBSET AuthorizedOn(d) /\ AuthorizedOn(d) \in SUBSET Intents
    BY DEF Kept, Simulated, AuthorizedOn, Authorized, Spending
  <2>2. Cardinality(AuthorizedOn(d)) <= Limit /\ Limit \in Nat
    BY AgentAssumption DEF IInv, Limits, AuthorizedWithinLimit
  <2> HIDE DEF done
  <2>3. Cardinality(done) <= Limit
    BY <2>1, <2>2, CardLeq
  <2> QED
    BY <2>3 DEF done
<1> QED
  BY <1>1, <1>2, <1>3, Invariance, PTL DEF Spec
=============================================================================
