------------------------- MODULE ExecutionLifecycle -------------------------
(***************************************************************************)
(* The life cycle of a sandbox execution as its interface describes it:    *)
(* each row passes screening, the mandate recheck and the daily limit      *)
(* before it is dispatched, is settled only on its partner's word, and     *)
(* stays where a terminal status put it.                                   *)
(***************************************************************************)
CONSTANTS Executions, None

VARIABLES
    status,     \* status[x], or None before the row is stored
    confirmed   \* executions whose partner has confirmed settlement

vars == <<status, confirmed>>

\* Where a row may go next; the statuses without a successor are terminal.
Successors(s) ==
    CASE s = None -> {"CREATED"}
      [] s = "CREATED" -> {"ROUTED", "EXPIRED"}
      [] s = "ROUTED" -> {"COMPLIANCE_PASSED", "COMPLIANCE_REVIEW", "BLOCKED"}
      [] s = "COMPLIANCE_PASSED" -> {"BLOCKED", "DISPATCHED", "FAILED"}
      [] s = "DISPATCHED" -> {"SETTLING", "SETTLED", "FAILED"}
      [] s = "SETTLING" -> {"SETTLED", "FAILED"}
      [] OTHER -> {}

Init ==
    /\ status = [x \in Executions |-> None]
    /\ confirmed = {}

\* One row takes one step; SETTLED needs the partner's confirmation.
Move(x) ==
    /\ \E s \in Successors(status[x]) :
          /\ s = "SETTLED" => x \in confirmed
          /\ status' = [status EXCEPT ![x] = s]
    /\ UNCHANGED confirmed

\* A partner confirms what was dispatched to it.
Confirm(x) ==
    /\ status[x] \in {"DISPATCHED", "SETTLING"}
    /\ confirmed' = confirmed \cup {x}
    /\ UNCHANGED status

Next == \E x \in Executions : Move(x) \/ Confirm(x)

Spec == Init /\ [][Next]_vars
=============================================================================
