--------------------------- MODULE SharedLifecycle ---------------------------
(***************************************************************************)
(* What is left of the life cycle of an execution when several workers     *)
(* share a row without a lock.  A worker takes a row as it is stored, and  *)
(* each of its writes is a documented successor of what it last knew of    *)
(* the row, not of what the row has become since.                          *)
(***************************************************************************)
CONSTANTS Executions, Workers, None

VARIABLES
    status,     \* status[x], or None before the row is stored
    confirmed,  \* executions whose partner has confirmed settlement
    view        \* view[w]: the row w works on as w last knew it; at most one

vars == <<status, confirmed, view>>

Alone == INSTANCE ExecutionLifecycle

Seen(x, s) == {[on |-> x, status |-> s]}

Init ==
    /\ status = [x \in Executions |-> None]
    /\ confirmed = {}
    /\ view = [w \in Workers |-> {}]

Create(w, x) ==
    /\ view[w] = {}
    /\ status[x] = None
    /\ status' = [status EXCEPT ![x] = "CREATED"]
    /\ view' = [view EXCEPT ![w] = Seen(x, "CREATED")]
    /\ UNCHANGED confirmed

\* Only a row that waits for its screening or for its partner is taken.
Take(w, x) ==
    /\ view[w] = {}
    /\ status[x] \in {"CREATED", "DISPATCHED", "SETTLING"}
    /\ view' = [view EXCEPT ![w] = Seen(x, status[x])]
    /\ UNCHANGED <<status, confirmed>>

\* The row becomes what follows w's view of it, or that view again.
Write(w) ==
    /\ \E v \in view[w] : \E s \in Alone!Successors(v.status) \cup {v.status} :
          /\ s = "SETTLED" => v.on \in confirmed
          /\ status' = [status EXCEPT ![v.on] = s]
          /\ \/ view' = [view EXCEPT ![w] = Seen(v.on, s)]
             \/ view' = [view EXCEPT ![w] = {}]
    /\ UNCHANGED confirmed

Confirm(w) ==
    /\ \E v \in view[w] :
          /\ v.status \in {"DISPATCHED", "SETTLING"}
          /\ confirmed' = confirmed \cup {v.on}
    /\ UNCHANGED <<status, view>>

\* Workers that answer, or all that a crash takes down.
Leave(S) ==
    /\ view' = [w \in Workers |-> IF w \in S THEN {} ELSE view[w]]
    /\ UNCHANGED <<status, confirmed>>

Next ==
    \/ \E w \in Workers : Write(w) \/ Confirm(w)
    \/ \E w \in Workers, x \in Executions : Create(w, x) \/ Take(w, x)
    \/ \E S \in SUBSET Workers : Leave(S)

Spec == Init /\ [][Next]_vars
=============================================================================
