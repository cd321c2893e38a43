---------------------- MODULE MCExecutionOrchestration ----------------------
(***************************************************************************)
(* Instances of ExecutionOrchestration, by what the create requests share. *)
(***************************************************************************)
EXTENDS ExecutionOrchestration, TLC

AnyLoad == [Creators -> [key : Keys, payload : Payloads]]

OneToOne(f) == \A c, d \in Creators : f[c] = f[d] => c = d

\* One key and one payload: the requests compete for one row.
SharedLoads == {[c \in Creators |-> [key |-> k, payload |-> p]] : k \in Keys, p \in Payloads}

\* A key and a payload for each request.
ApartLoad ==
    CHOOSE l \in AnyLoad : /\ OneToOne([c \in Creators |-> l[c].key])
                           /\ OneToOne([c \in Creators |-> l[c].payload])

\* One key over different payloads.
ConflictLoad ==
    CHOOSE l \in AnyLoad : /\ OneToOne([c \in Creators |-> l[c].payload])
                           /\ \A c, d \in Creators : l[c].key = l[d].key

\* Requests that never work on one another's row.
SeparateLoads == {ApartLoad, ConflictLoad}

ApartLoads == {ApartLoad}

\* Only a dispatch reads the scenario of a payload, and what is outside the scope of
\* the mandate must reach none: one scenario for it is as good as all of them.
CreatesInit == Init /\ \A p \in Outside : scenario[p] = "settle"

CreatesSpec == CreatesInit /\ [][Next]_vars /\ Fairness

\* Shared loads do not tell the creates apart.
Symmetry == Permutations(Creators)
=============================================================================
