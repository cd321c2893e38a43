------------------------- MODULE RevenueRecognition -------------------------
(***************************************************************************)
(* What billing and fee collection promise of the decisions of a period:   *)
(* a group of decisions (one organization, one currency) is billed once,   *)
(* whole, and paid whole; a decision recorded after that stays unbilled;   *)
(* cash is recognized with the payment, and only for settled decisions.    *)
(***************************************************************************)
CONSTANTS
    Decisions,
    Groups,
    GroupOf,    \* GroupOf[d]: the group of a decision
    Settled     \* decisions of PRODUCTION origin with provider_confirmed finality

VARIABLES
    recognition,  \* recognition[d]: "none" before d is recorded
    cash          \* decisions whose revenue is realized

vars == <<recognition, cash>>

Of(g) == {d \in Decisions : GroupOf[d] = g}

Are(g, status) == {d \in Of(g) : recognition[d] = status}

Mark(S, status) == recognition' = [d \in Decisions |-> IF d \in S THEN status ELSE recognition[d]]

Init ==
    /\ recognition = [d \in Decisions |-> "none"]
    /\ cash = {}

Record(d) ==
    /\ recognition[d] = "none"
    /\ Mark({d}, "unrealized")
    /\ UNCHANGED cash

Bill(g) ==
    /\ Are(g, "invoiced") \cup Are(g, "collected") = {}
    /\ \E S \in SUBSET Are(g, "unrealized") : Mark(S, "invoiced")
    /\ UNCHANGED cash

Pay(g) ==
    /\ Mark(Are(g, "invoiced"), "collected")
    /\ cash' = cash \cup (Are(g, "invoiced") \cap Settled)

Next ==
    \/ \E d \in Decisions : Record(d)
    \/ \E g \in Groups : Bill(g) \/ Pay(g)

Spec == Init /\ [][Next]_vars
=============================================================================
