-------------------------- MODULE QuoteResilience --------------------------
(***************************************************************************)
(* The resilience wrapper around the financial providers,                  *)
(* packages/adapters/src/resilience/with-quote-resilience.ts: a quote      *)
(* cache, single-flight loading, a circuit breaker per provider and the    *)
(* operator kill switch, shared by every request of one API process.       *)
(*                                                                         *)
(* JavaScript runs to completion between awaits, so getQuote is one atomic *)
(* step up to the await on its load; the load settling and the finally     *)
(* block that clears the inflight map are steps of their own, and any      *)
(* number of other requests may run in between.                            *)
(***************************************************************************)
EXTENDS ProviderCircuitBreaker, QuoteCache

CONSTANTS
    Providers,      \* financial providers
    Requests        \* normalized requests (corridor and amount)

VARIABLES
    cb,         \* cb[p]: the breaker of provider p
    cache,      \* the quote cache, shared by all providers
    pending,    \* pending[k]: the inflight map holds an entry for key k
    upstream,   \* upstream[k]: calls of inner.getQuote running for k
    settled,    \* settled[k]: settled loads of k whose finally has not run
    engaged,    \* the targets of the kill switch: providers and corridors
    sinceLoad,  \* history: ticks since k's last successful load
    sinceTrip,  \* history: ticks since p's breaker last tripped
    probed      \* history: providers called since their breaker last tripped

vars == <<cb, cache, pending, upstream, settled, engaged, sinceLoad, sinceTrip, probed>>

Keys == Providers \X Requests

TypeOK ==
    /\ cb \in [Providers -> Breaker]
    /\ cache \in Seq(Entry(Keys))
    /\ pending \in [Keys -> BOOLEAN]
    /\ upstream \in [Keys -> Nat]
    /\ settled \in [Keys -> Nat]
    /\ engaged \subseteq Providers \cup Requests
    /\ sinceLoad \in [Keys -> 0 .. TooOld]
    /\ sinceTrip \in [Providers -> 0 .. Cooldown]
    /\ probed \subseteq Providers

Init ==
    /\ cb = [p \in Providers |-> NewBreaker]
    /\ cache = << >>
    /\ pending = [k \in Keys |-> FALSE]
    /\ upstream = [k \in Keys |-> 0]
    /\ settled = [k \in Keys |-> 0]
    /\ engaged = {}
    /\ sinceLoad = [k \in Keys |-> TooOld]
    /\ sinceTrip = [p \in Providers |-> Cooldown]
    /\ probed = {}

\* A region override is the set of its corridors.
IsProviderExcluded(p, r) == p \in engaged \/ r \in engaged

-----------------------------------------------------------------------------
(* getQuote.  An excluded provider throws before it touches any state.     *)

CacheHit(p, r) ==
    /\ ~IsProviderExcluded(p, r)
    /\ Hit(cache, <<p, r>>)
    /\ cache' = AfterGet(cache, <<p, r>>)
    /\ UNCHANGED <<cb, pending, upstream, settled, engaged, sinceLoad, sinceTrip, probed>>

CacheMiss(p, r) ==
    /\ ~IsProviderExcluded(p, r)
    /\ ~Hit(cache, <<p, r>>)
    /\ cache' = AfterGet(cache, <<p, r>>)

JoinPending(p, r) ==
    /\ CacheMiss(p, r)
    /\ pending[<<p, r>>]
    /\ UNCHANGED <<cb, pending, upstream, settled, engaged, sinceLoad, sinceTrip, probed>>

RejectOpen(p, r) ==
    /\ CacheMiss(p, r)
    /\ ~pending[<<p, r>>]
    /\ ~Admits(cb[p])
    /\ cb' = [cb EXCEPT ![p] = Admit(@)]
    /\ UNCHANGED <<pending, upstream, settled, engaged, sinceLoad, sinceTrip, probed>>

\* Mutant: the load is not put in the inflight map.
StartLoadUnregistered(p, r) ==
    /\ CacheMiss(p, r)
    /\ ~pending[<<p, r>>]
    /\ Admits(cb[p])
    /\ cb' = [cb EXCEPT ![p] = Admit(@)]
    /\ upstream' = [upstream EXCEPT ![<<p, r>>] = @ + 1]
    /\ probed' = IF cb[p].state = "closed" THEN probed ELSE probed \cup {p}
    /\ UNCHANGED <<pending, settled, engaged, sinceLoad, sinceTrip>>

StartLoad(p, r) ==
    /\ CacheMiss(p, r)
    /\ ~pending[<<p, r>>]
    /\ Admits(cb[p])
    /\ cb' = [cb EXCEPT ![p] = Admit(@)]
    /\ pending' = [pending EXCEPT ![<<p, r>>] = TRUE]
    /\ upstream' = [upstream EXCEPT ![<<p, r>>] = @ + 1]
    /\ probed' = IF cb[p].state = "closed" THEN probed ELSE probed \cup {p}
    /\ UNCHANGED <<settled, engaged, sinceLoad, sinceTrip>>

-----------------------------------------------------------------------------
(* The load: inner.getQuote answers or throws, in either case however late. *)

LoadSucceeds(p, r, q) ==
    /\ upstream[<<p, r>>] > 0
    /\ upstream' = [upstream EXCEPT ![<<p, r>>] = @ - 1]
    /\ settled' = [settled EXCEPT ![<<p, r>>] = @ + 1]
    /\ cb' = [cb EXCEPT ![p] = RecordSuccess(@)]
    /\ cache' = AfterSet(cache, <<p, r>>, q)
    /\ sinceLoad' = [sinceLoad EXCEPT ![<<p, r>>] = 0]
    /\ probed' = probed \ {p}
    /\ UNCHANGED <<pending, engaged, sinceTrip>>

\* cache.set throws on a quote whose instants do not parse, after the success
\* was recorded: the catch records a failure on top of it.
LoadUnreadable(p, r) ==
    LET b == RecordFailure(RecordSuccess(cb[p]))
    IN  /\ upstream[<<p, r>>] > 0
        /\ upstream' = [upstream EXCEPT ![<<p, r>>] = @ - 1]
        /\ settled' = [settled EXCEPT ![<<p, r>>] = @ + 1]
        /\ cb' = [cb EXCEPT ![p] = b]
        /\ sinceTrip' = [sinceTrip EXCEPT ![p] = IF b.state = "open" THEN 0 ELSE @]
        /\ probed' = probed \ {p}
        /\ UNCHANGED <<cache, pending, engaged, sinceLoad>>

\* Mutant: a load that has already settled fails once more.
LoadFailsTwice(p, r) ==
    /\ pending[<<p, r>>]
    /\ upstream' = [upstream EXCEPT ![<<p, r>>] = @ - 1]
    /\ settled' = [settled EXCEPT ![<<p, r>>] = @ + 1]
    /\ cb' = [cb EXCEPT ![p] = RecordFailure(@)]
    /\ sinceTrip' = [sinceTrip EXCEPT ![p] =
                        IF RecordFailure(cb[p]).state = "open" THEN 0 ELSE @]
    /\ probed' = IF RecordFailure(cb[p]).state = "open" THEN probed \ {p} ELSE probed
    /\ UNCHANGED <<cache, pending, engaged, sinceLoad>>

LoadFails(p, r) ==
    /\ upstream[<<p, r>>] > 0
    /\ upstream' = [upstream EXCEPT ![<<p, r>>] = @ - 1]
    /\ settled' = [settled EXCEPT ![<<p, r>>] = @ + 1]
    /\ cb' = [cb EXCEPT ![p] = RecordFailure(@)]
    /\ sinceTrip' = [sinceTrip EXCEPT ![p] =
                        IF RecordFailure(cb[p]).state = "open" THEN 0 ELSE @]
    /\ probed' = IF RecordFailure(cb[p]).state = "open" THEN probed \ {p} ELSE probed
    /\ UNCHANGED <<cache, pending, engaged, sinceLoad>>

\* The finally block of the request that started the load.
ClearInflight(p, r) ==
    /\ settled[<<p, r>>] > 0
    /\ settled' = [settled EXCEPT ![<<p, r>>] = @ - 1]
    /\ pending' = [pending EXCEPT ![<<p, r>>] = FALSE]
    /\ UNCHANGED <<cb, cache, upstream, engaged, sinceLoad, sinceTrip, probed>>

-----------------------------------------------------------------------------
\* Mutant: supportsNormalized asks the breaker to admit a call.
ObserveByAdmit(p) ==
    /\ cb' = [cb EXCEPT ![p] = IF Admits(@) THEN Admit(@) ELSE MaybeEnterHalfOpen(@)]
    /\ UNCHANGED <<cache, pending, upstream, settled, engaged, sinceLoad, sinceTrip, probed>>

\* allowsCandidates (behind supportsNormalized), probe and snapshot: readers
\* that half-open the breaker as a side effect.
Observe(p) ==
    /\ cb' = [cb EXCEPT ![p] = MaybeEnterHalfOpen(@)]
    /\ UNCHANGED <<cache, pending, upstream, settled, engaged, sinceLoad, sinceTrip, probed>>

Engage(t) ==
    /\ engaged' = engaged \cup {t}
    /\ UNCHANGED <<cb, cache, pending, upstream, settled, sinceLoad, sinceTrip, probed>>

Release(t) ==
    /\ engaged' = engaged \ {t}
    /\ UNCHANGED <<cb, cache, pending, upstream, settled, sinceLoad, sinceTrip, probed>>

Tick ==
    /\ cb' = [p \in Providers |-> AgeBreaker(cb[p])]
    /\ cache' = AgeCache(cache)
    /\ sinceLoad' = [k \in Keys |-> IF sinceLoad[k] < TooOld
                                      THEN sinceLoad[k] + 1 ELSE TooOld]
    /\ sinceTrip' = [p \in Providers |-> IF sinceTrip[p] < Cooldown
                                           THEN sinceTrip[p] + 1 ELSE Cooldown]
    /\ UNCHANGED <<pending, upstream, settled, engaged, probed>>

Settle(p, r) ==
    \/ LoadFails(p, r)
    \/ LoadUnreadable(p, r)
    \/ \E q \in Quote : LoadSucceeds(p, r, q)

Next ==
    \/ \E p \in Providers, r \in Requests :
          \/ CacheHit(p, r)
          \/ JoinPending(p, r)
          \/ RejectOpen(p, r)
          \/ StartLoad(p, r)
          \/ Settle(p, r)
          \/ ClearInflight(p, r)
    \/ \E p \in Providers : Observe(p)
    \/ \E t \in Providers \cup Requests : Engage(t) \/ Release(t)
    \/ Tick

\* Time passes, an upstream call settles once its caller's signal aborts it,
\* and the finally block of a settled load runs.
Fairness ==
    /\ WF_vars(Tick)
    /\ \A p \in Providers, r \in Requests :
          WF_vars(Settle(p, r)) /\ WF_vars(ClearInflight(p, r))

Spec == Init /\ [][Next]_vars

FairSpec == Spec /\ Fairness

-----------------------------------------------------------------------------
(* Safety                                                                  *)

\* A provider is never called twice at once for the same quote: while a call
\* of inner.getQuote runs, the inflight map holds it and later requests join.
SingleFlight ==
    \A k \in Keys : /\ upstream[k] + settled[k] <= 1
                    /\ upstream[k] + settled[k] = 1 <=> pending[k]

\* The breaker lets traffic through unconditionally exactly when its failure
\* count is below the threshold, in every interleaving of late successes and
\* late failures with the half-open episodes.
ClosedBelowThreshold ==
    \A p \in Providers : cb[p].state = "closed" <=> cb[p].failures < FailureThreshold

\* A half-open breaker that turns everybody away is waiting for an upstream
\* call that is really running: the flag set by admit() is never leaked, so no
\* provider is locked out for good.
ProbeOutstanding ==
    \A p \in Providers : cb[p].inFlight =>
        /\ cb[p].state = "half_open"
        /\ \E r \in Requests : upstream[<<p, r>>] > 0

\* The breaker's state, its count and the calls that run agree.
BreakerConsistent == ClosedBelowThreshold /\ ProbeOutstanding

\* The cache holds one entry per key and never more than its capacity.
CacheBounded ==
    /\ Len(cache) <= MaxEntries
    /\ \A i, j \in DOMAIN cache : cache[i].key = cache[j].key => i = j

\* "TTL is the rail freshness window and is never extended past it": what the
\* cache would serve was loaded from its provider at most MaxAge ticks ago,
\* however often a hit moved it to the back, and even under a skewed clock.
ServedWithinWindow ==
    \A i \in DOMAIN cache : Servable(cache[i]) => sinceLoad[cache[i].key] <= MaxAge

\* docs/PRODUCTION_AUDIT.md:545, "then half-opens for one probe": after every
\* trip of its breaker, trips by late failures included, a provider is left
\* alone for the whole cooldown and then called at most once, until the breaker
\* closes or trips again.  (A late failure trips it again, so the call of an
\* earlier trip may still run when the next one starts.)
OneProbePerTrip ==
    [][\A p \in Providers, r \in Requests :
          upstream'[<<p, r>>] > upstream[<<p, r>>] =>
              \/ cb[p].state = "closed"
              \/ sinceTrip[p] = Cooldown /\ p \notin probed]_vars

-----------------------------------------------------------------------------
(* Liveness                                                                *)

\* A tripped provider becomes admissible again, although failures that arrive
\* late keep restarting its cooldown.
BreakerRecovers ==
    \A p \in Providers : cb[p].state = "open" ~> Admits(cb[p])

\* A half-open probe is always resolved, so the provider is not locked out.
ProbeResolves ==
    \A p \in Providers : cb[p].inFlight ~> ~cb[p].inFlight
=============================================================================
