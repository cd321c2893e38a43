----------------------- MODULE QuoteResilienceProofs -----------------------
(***************************************************************************)
(* Proofs about QuoteResilience, for any set of providers and requests and *)
(* every threshold, cooldown, capacity and freshness window.               *)
(***************************************************************************)
EXTENDS QuoteResilience, SequenceTheorems, TLAPS

-----------------------------------------------------------------------------
(* The breaker's methods                                                   *)

\* Every method of the breaker returns a breaker.
LEMMA BreakerTyped ==
    /\ NewBreaker \in Breaker
    /\ \A b \in Breaker : /\ MaybeEnterHalfOpen(b) \in Breaker
                          /\ Admit(b) \in Breaker
                          /\ RecordSuccess(b) \in Breaker
                          /\ RecordFailure(b) \in Breaker
                          /\ AgeBreaker(b) \in Breaker
<1> USE BreakerAssumption
<1>1. NewBreaker \in Breaker
  BY DEF NewBreaker, Breaker, BreakerState
<1>2. SUFFICES ASSUME NEW b \in Breaker
               PROVE  /\ MaybeEnterHalfOpen(b) \in Breaker
                      /\ Admit(b) \in Breaker
                      /\ RecordSuccess(b) \in Breaker
                      /\ RecordFailure(b) \in Breaker
                      /\ AgeBreaker(b) \in Breaker
  BY <1>1
<1>3. MaybeEnterHalfOpen(b) \in Breaker
  BY DEF MaybeEnterHalfOpen, Breaker, BreakerState
<1>4. Admit(b) \in Breaker
  BY <1>3 DEF Admit, Breaker, BreakerState
<1>5. RecordSuccess(b) \in Breaker
  BY <1>1 DEF RecordSuccess
<1>6. RecordFailure(b) \in Breaker
  <2> DEFINE n == IF b.failures < FailureThreshold THEN b.failures + 1 ELSE b.failures
             c == [b EXCEPT !.failures = n, !.inFlight = FALSE]
  <2>1. n \in 0 .. FailureThreshold
    BY DEF Breaker
  <2> HIDE DEF n
  <2>2. c \in Breaker
    BY <2>1 DEF Breaker
  <2> HIDE DEF c
  <2>3. Trip(c) \in Breaker
    <3>1. 0 \in 0 .. Cooldown
      OBVIOUS
    <3> QED
      BY <2>2, <3>1, Zenon DEF Trip, Breaker, BreakerState
  <2>4. RecordFailure(b) = IF b.state = "half_open" \/ n >= FailureThreshold THEN Trip(c) ELSE c
    BY DEF RecordFailure, n, c
  <2> QED
    BY <2>2, <2>3, <2>4
<1>7. AgeBreaker(b) \in Breaker
  BY DEF AgeBreaker, Breaker, BreakerState
<1> QED
  BY <1>3, <1>4, <1>5, <1>6, <1>7

\* Closed exactly when the failure count is below the threshold.
BelowThreshold(b) == b.state = "closed" <=> b.failures < FailureThreshold

\* The probe flag is only up in the half-open state.
FlagHalfOpen(b) == b.inFlight => b.state = "half_open"

\* Every method keeps both facts, whatever state a late result finds.
LEMMA BreakerSound ==
    /\ BelowThreshold(NewBreaker) /\ FlagHalfOpen(NewBreaker)
    /\ \A b \in Breaker : BelowThreshold(b) /\ FlagHalfOpen(b) =>
          /\ BelowThreshold(MaybeEnterHalfOpen(b)) /\ FlagHalfOpen(MaybeEnterHalfOpen(b))
          /\ BelowThreshold(Admit(b)) /\ FlagHalfOpen(Admit(b))
          /\ BelowThreshold(RecordFailure(b)) /\ FlagHalfOpen(RecordFailure(b))
          /\ BelowThreshold(AgeBreaker(b)) /\ FlagHalfOpen(AgeBreaker(b))
BY BreakerAssumption
DEF NewBreaker, Breaker, BreakerState, MaybeEnterHalfOpen, Admit, RecordFailure,
    Trip, AgeBreaker, BelowThreshold, FlagHalfOpen

-----------------------------------------------------------------------------
(* The cache's methods                                                     *)

\* One entry per key, at most MaxEntries of them.
Bounded(c) == /\ Len(c) <= MaxEntries
              /\ \A i, j \in DOMAIN c : c[i].key = c[j].key => i = j

\* Removing the entry at position i keeps the others in their order.
LEMMA RemoveAtProps ==
    ASSUME NEW S, NEW s \in Seq(S), NEW i \in DOMAIN s
    PROVE  /\ RemoveAt(s, i) \in Seq(S)
           /\ Len(RemoveAt(s, i)) = Len(s) - 1
           /\ \A j \in 1 .. Len(s) - 1 :
                 RemoveAt(s, i)[j] = IF j < i THEN s[j] ELSE s[j + 1]
<1> DEFINE a == SubSeq(s, 1, i - 1)
           b == SubSeq(s, i + 1, Len(s))
<1>1. i \in 1 .. Len(s) /\ Len(s) \in Nat /\ \A j \in 1 .. Len(s) : s[j] \in S
  OBVIOUS
<1>2. /\ a \in Seq(S) /\ Len(a) = i - 1
      /\ \A j \in 1 .. i - 1 : a[j] = s[j]
  BY <1>1, SubSeqProperties
<1>3. /\ b \in Seq(S) /\ Len(b) = Len(s) - i
      /\ \A j \in 1 .. Len(s) - i : b[j] = s[i + j]
  BY <1>1, SubSeqProperties
<1>4. RemoveAt(s, i) = a \o b
  BY DEF RemoveAt
<1> HIDE DEF a, b
<1>5. /\ a \o b \in Seq(S)
      /\ Len(a \o b) = Len(a) + Len(b)
      /\ \A j \in 1 .. Len(a) + Len(b) :
            (a \o b)[j] = IF j <= Len(a) THEN a[j] ELSE b[j - Len(a)]
  BY <1>2, <1>3, ConcatProperties
<1>6. ASSUME NEW j \in 1 .. Len(s) - 1
      PROVE  (a \o b)[j] = IF j < i THEN s[j] ELSE s[j + 1]
  <2>1. CASE j < i
    <3>1. j \in 1 .. i - 1
      BY <1>1, <2>1
    <3>2. a[j] = s[j]
      BY <1>2, <3>1
    <3>3. j \in 1 .. Len(a) + Len(b) /\ j <= Len(a)
      BY <1>1, <1>2, <1>3, <3>1
    <3>4. (a \o b)[j] = a[j]
      BY <1>5, <3>3
    <3> QED
      BY <2>1, <3>2, <3>4
  <2>2. CASE ~(j < i)
    <3>1. j - (i - 1) \in 1 .. Len(s) - i
      BY <1>1, <2>2
    <3>2. b[j - (i - 1)] = s[j + 1]
      BY <1>1, <1>3, <3>1, SMTT(30)
    <3>3. j \in 1 .. Len(a) + Len(b) /\ ~(j <= Len(a))
      BY <1>1, <1>2, <1>3, <2>2
    <3>4. (a \o b)[j] = b[j - Len(a)]
      BY <1>5, <3>3
    <3> QED
      BY <1>2, <2>2, <3>2, <3>4
  <2> QED
    BY <2>1, <2>2
<1>7. RemoveAt(s, i) \in Seq(S)
  BY <1>4, <1>5, Zenon
<1>8. Len(a) + Len(b) = Len(s) - 1
  BY <1>1, <1>2, <1>3
<1>9. Len(RemoveAt(s, i)) = Len(s) - 1
  BY <1>4, <1>5, <1>8, Zenon
<1>10. \A j \in 1 .. Len(s) - 1 : RemoveAt(s, i)[j] = IF j < i THEN s[j] ELSE s[j + 1]
  BY <1>4, <1>6, Zenon
<1> QED
  BY <1>7, <1>9, <1>10, Zenon

\* Map.delete keeps the cache typed and bounded and leaves no entry for the key.
LEMMA DeleteProps ==
    ASSUME NEW K, NEW c \in Seq(Entry(K)), NEW k \in K, Bounded(c)
    PROVE  /\ Delete(c, k) \in Seq(Entry(K))
           /\ Bounded(Delete(c, k))
           /\ \A i \in DOMAIN Delete(c, k) : Delete(c, k)[i].key # k
           /\ Has(c, k) => Len(Delete(c, k)) = Len(c) - 1
           /\ \A i \in DOMAIN Delete(c, k) : \E j \in DOMAIN c : Delete(c, k)[i] = c[j]
<1>1. CASE ~Has(c, k)
  BY <1>1 DEF Delete, Has
<1>2. CASE Has(c, k)
  <2> DEFINE n == CHOOSE i \in DOMAIN c : c[i].key = k
             d == RemoveAt(c, n)
  <2>1. n \in DOMAIN c /\ c[n].key = k
    BY <1>2 DEF Has
  <2>2. /\ d \in Seq(Entry(K))
        /\ Len(d) = Len(c) - 1
        /\ \A j \in 1 .. Len(c) - 1 : d[j] = IF j < n THEN c[j] ELSE c[j + 1]
    BY <2>1, RemoveAtProps
  <2>3. Delete(c, k) = d
    BY <1>2 DEF Delete
  <2> HIDE DEF n, d
  <2>4. DOMAIN c = 1 .. Len(c) /\ Len(c) \in Nat /\ DOMAIN d = 1 .. Len(c) - 1
    BY <2>2
  <2>5. ASSUME NEW i \in DOMAIN d PROVE d[i].key # k
    <3>1. PICK j \in DOMAIN c : j # n /\ d[i] = c[j]
      <4>1. n \in Int /\ i \in 1 .. Len(c) - 1 /\ d[i] = IF i < n THEN c[i] ELSE c[i + 1]
        BY <2>1, <2>2, <2>4
      <4>2. i \in 1 .. Len(c) /\ i + 1 \in 1 .. Len(c) /\ (i < n => i # n)
            /\ (~(i < n) => i + 1 # n)
        BY <2>4, <4>1
      <4>3. i \in DOMAIN c /\ i + 1 \in DOMAIN c
        BY <2>4, <4>2
      <4> QED
        BY <4>1, <4>2, <4>3
    <3>2. QED
      BY <2>1, <3>1 DEF Bounded
  <2>6. ASSUME NEW i \in DOMAIN d, NEW j \in DOMAIN d, d[i].key = d[j].key
        PROVE  i = j
    <3> DEFINE at(x) == IF x < n THEN x ELSE x + 1
    <3>1. n \in Int /\ i \in Int /\ j \in Int
      BY <2>1, <2>4
    <3>2. at(i) \in DOMAIN c /\ at(j) \in DOMAIN c /\ d[i] = c[at(i)] /\ d[j] = c[at(j)]
      BY <2>1, <2>2, <2>4
    <3>3. at(i) = at(j)
      BY <2>6, <3>2 DEF Bounded
    <3> QED
      BY <3>1, <3>3
  <2>7. \A i \in DOMAIN d : \E j \in DOMAIN c : d[i] = c[j]
    BY <2>1, <2>2, <2>4
  <2> QED
    BY <1>2, <2>2, <2>3, <2>4, <2>5, <2>6, <2>7, CacheAssumption DEF Bounded
<1> QED
  BY <1>1, <1>2

\* Appending an entry for a key the cache does not hold.
LEMMA AppendProps ==
    ASSUME NEW K, NEW c \in Seq(Entry(K)), NEW e \in Entry(K), Bounded(c),
           Len(c) < MaxEntries, \A i \in DOMAIN c : c[i].key # e.key
    PROVE  /\ Append(c, e) \in Seq(Entry(K)) /\ Bounded(Append(c, e))
           /\ \A i \in DOMAIN Append(c, e) :
                 Append(c, e)[i] = e \/ \E j \in DOMAIN c : Append(c, e)[i] = c[j]
<1> DEFINE a == Append(c, e)
<1>1. /\ a \in Seq(Entry(K)) /\ Len(a) = Len(c) + 1 /\ DOMAIN a = 1 .. Len(c) + 1
      /\ \A i \in 1 .. Len(c) : a[i] = c[i]
      /\ a[Len(c) + 1] = e
      /\ DOMAIN c = 1 .. Len(c) /\ Len(c) \in Nat
  OBVIOUS
<1> HIDE DEF a
<1>2. \A i, j \in DOMAIN a : a[i].key = a[j].key => i = j
  BY <1>1 DEF Bounded
<1> QED
  BY <1>1, <1>2, CacheAssumption DEF Bounded, a

\* The entry found for a key is an entry of that key.
LEMMA EntryOfProps ==
    ASSUME NEW K, NEW c \in Seq(Entry(K)), NEW k \in K, Has(c, k)
    PROVE  /\ EntryOf(c, k) \in Entry(K) /\ EntryOf(c, k).key = k
           /\ \E j \in DOMAIN c : EntryOf(c, k) = c[j]
<1> DEFINE n == CHOOSE j \in DOMAIN c : c[j].key = k
<1>1. n \in DOMAIN c /\ c[n].key = k
  BY DEF Has
<1>2. EntryOf(c, k) = c[n]
  BY DEF EntryOf
<1> HIDE DEF n
<1> QED
  BY <1>1, <1>2

\* get() keeps the cache typed and bounded, and invents no entry.
LEMMA AfterGetProps ==
    ASSUME NEW K, NEW c \in Seq(Entry(K)), NEW k \in K, Bounded(c)
    PROVE  /\ AfterGet(c, k) \in Seq(Entry(K)) /\ Bounded(AfterGet(c, k))
           /\ \A i \in DOMAIN AfterGet(c, k) : \E j \in DOMAIN c : AfterGet(c, k)[i] = c[j]
<1>1. CASE Hit(c, k)
  <2>1. Has(c, k)
    BY <1>1 DEF Hit
  <2>2. /\ EntryOf(c, k) \in Entry(K) /\ EntryOf(c, k).key = k
        /\ \E j \in DOMAIN c : EntryOf(c, k) = c[j]
    BY <2>1, EntryOfProps
  <2>3. /\ Delete(c, k) \in Seq(Entry(K)) /\ Bounded(Delete(c, k))
        /\ \A i \in DOMAIN Delete(c, k) : \E j \in DOMAIN c : Delete(c, k)[i] = c[j]
        /\ \A i \in DOMAIN Delete(c, k) : Delete(c, k)[i].key # k
        /\ Len(Delete(c, k)) = Len(c) - 1
    BY <2>1, DeleteProps
  <2>4. Len(Delete(c, k)) < MaxEntries
    BY <2>3, CacheAssumption DEF Bounded
  <2>5. AfterGet(c, k) = Append(Delete(c, k), EntryOf(c, k))
    BY <1>1 DEF AfterGet
  <2>6. /\ AfterGet(c, k) \in Seq(Entry(K)) /\ Bounded(AfterGet(c, k))
        /\ \A i \in DOMAIN AfterGet(c, k) :
              \/ AfterGet(c, k)[i] = EntryOf(c, k)
              \/ \E j \in DOMAIN Delete(c, k) : AfterGet(c, k)[i] = Delete(c, k)[j]
    <3> DEFINE d == Delete(c, k)
               e == EntryOf(c, k)
    <3>1. d \in Seq(Entry(K)) /\ Bounded(d) /\ Len(d) < MaxEntries /\ e \in Entry(K)
      BY <2>2, <2>3, <2>4
    <3>2. \A i \in DOMAIN d : d[i].key # e.key
      BY <2>2, <2>3
    <3>3. AfterGet(c, k) = Append(d, e)
      BY <2>5
    <3> HIDE DEF d, e
    <3>4. /\ Append(d, e) \in Seq(Entry(K)) /\ Bounded(Append(d, e))
          /\ \A i \in DOMAIN Append(d, e) :
                Append(d, e)[i] = e \/ \E j \in DOMAIN d : Append(d, e)[i] = d[j]
      BY <3>1, <3>2, AppendProps, SMTT(30)
    <3> QED
      BY <3>3, <3>4, Zenon DEF d, e
  <2> QED
    BY <2>2, <2>3, <2>6, ZenonT(60)
<1>2. CASE ~Hit(c, k)
  BY <1>2, DeleteProps DEF AfterGet
<1> QED
  BY <1>1, <1>2

\* set() keeps the cache typed and bounded: it makes room first.  What it holds
\* was there before, or is stamped with the present.
LEMMA AfterSetProps ==
    ASSUME NEW K, NEW c \in Seq(Entry(K)), NEW k \in K, NEW q \in Quote, Bounded(c)
    PROVE  /\ AfterSet(c, k, q) \in Seq(Entry(K)) /\ Bounded(AfterSet(c, k, q))
           /\ \A i \in DOMAIN AfterSet(c, k, q) :
                 \/ AfterSet(c, k, q)[i].key = k /\ AfterSet(c, k, q)[i].stored = 0
                 \/ \E j \in DOMAIN c : AfterSet(c, k, q)[i] = c[j]
<1> DEFINE e == [key |-> k, quote |-> q, stored |-> 0]
<1>1. e \in Entry(K) /\ e.key = k /\ e.stored = 0
  BY CacheAssumption DEF Entry, TooOld
<1>2. CASE ~IsQuoteUsable(q)
  BY <1>2 DEF AfterSet
<1>3. CASE IsQuoteUsable(q) /\ Has(c, k)
  <2>1. AfterSet(c, k, q) = Append(Delete(c, k), e)
    BY <1>3 DEF AfterSet
  <2>2. Len(Delete(c, k)) < MaxEntries
    BY <1>3, DeleteProps, CacheAssumption DEF Bounded
  <2> QED
    BY <1>1, <1>3, <2>1, <2>2, DeleteProps, AppendProps
<1>4. CASE IsQuoteUsable(q) /\ ~Has(c, k) /\ Len(c) >= MaxEntries
  <2>1. AfterSet(c, k, q) = Append(Tail(c), e)
    BY <1>4 DEF AfterSet
  <2>2. c # << >>
    BY <1>4, CacheAssumption
  <2>3. /\ Tail(c) \in Seq(Entry(K)) /\ Len(Tail(c)) = Len(c) - 1
        /\ \A i \in 1 .. Len(c) - 1 : Tail(c)[i] = c[i + 1]
        /\ DOMAIN c = 1 .. Len(c) /\ DOMAIN Tail(c) = 1 .. Len(c) - 1 /\ Len(c) \in Nat
    BY <2>2
  <2>4. Bounded(Tail(c)) /\ Len(Tail(c)) < MaxEntries
    BY <2>3, CacheAssumption DEF Bounded
  <2>5. \A i \in DOMAIN Tail(c) : Tail(c)[i].key # k
    BY <1>4, <2>3 DEF Has
  <2>6. \A i \in DOMAIN Tail(c) : \E j \in DOMAIN c : Tail(c)[i] = c[j]
    BY <2>3
  <2> HIDE DEF e
  <2>7. \A i \in DOMAIN Tail(c) : Tail(c)[i].key # e.key
    BY <1>1, <2>5
  <2>8. /\ AfterSet(c, k, q) \in Seq(Entry(K)) /\ Bounded(AfterSet(c, k, q))
        /\ \A i \in DOMAIN AfterSet(c, k, q) :
              \/ AfterSet(c, k, q)[i] = e
              \/ \E j \in DOMAIN Tail(c) : AfterSet(c, k, q)[i] = Tail(c)[j]
    <3> DEFINE t == Tail(c)
    <3>1. t \in Seq(Entry(K)) /\ Bounded(t) /\ Len(t) < MaxEntries /\ e \in Entry(K)
      BY <1>1, <2>3, <2>4
    <3>2. \A i \in DOMAIN t : t[i].key # e.key
      BY <2>7
    <3> HIDE DEF t
    <3>3. /\ Append(t, e) \in Seq(Entry(K)) /\ Bounded(Append(t, e))
          /\ \A i \in DOMAIN Append(t, e) :
                Append(t, e)[i] = e \/ \E j \in DOMAIN t : Append(t, e)[i] = t[j]
      BY <3>1, <3>2, AppendProps
    <3> QED
      BY <2>1, <3>3, Zenon DEF t
  <2> QED
    BY <1>1, <2>6, <2>8, ZenonT(60)
<1>5. CASE IsQuoteUsable(q) /\ ~Has(c, k) /\ Len(c) < MaxEntries
  <2>1. AfterSet(c, k, q) = Append(c, e)
    BY <1>5, CacheAssumption DEF AfterSet, Bounded
  <2>2. \A i \in DOMAIN c : c[i].key # k
    BY <1>5 DEF Has
  <2> QED
    BY <1>1, <1>5, <2>1, <2>2, AppendProps
<1> QED
  BY <1>2, <1>3, <1>4, <1>5, CacheAssumption DEF Bounded

\* A tick keeps the cache typed and bounded and ages every entry.
LEMMA AgeCacheProps ==
    ASSUME NEW K, NEW c \in Seq(Entry(K)), Bounded(c)
    PROVE  /\ AgeCache(c) \in Seq(Entry(K)) /\ Bounded(AgeCache(c))
           /\ DOMAIN AgeCache(c) = DOMAIN c
           /\ \A i \in DOMAIN c : /\ AgeCache(c)[i].key = c[i].key
                                  /\ AgeCache(c)[i].stored = NextAge(c[i].stored)
<1>1. \A q \in Quote : AgeQuote(q) \in Quote
  BY CacheAssumption DEF Quote, AgeQuote, NextAge, TooOld
<1>2. \A n \in 0 .. TooOld : NextAge(n) \in 0 .. TooOld
  BY CacheAssumption DEF NextAge, TooOld
<1>3. ASSUME NEW e \in Entry(K)
      PROVE  /\ AgeEntry(e) \in Entry(K) /\ AgeEntry(e).key = e.key
             /\ AgeEntry(e).stored = NextAge(e.stored)
  BY <1>1, <1>2 DEF AgeEntry, Entry
<1>4. DOMAIN c = 1 .. Len(c) /\ Len(c) \in Nat /\ \A i \in DOMAIN c : c[i] \in Entry(K)
  OBVIOUS
<1>5. AgeCache(c) = [i \in 1 .. Len(c) |-> AgeEntry(c[i])]
  BY <1>4 DEF AgeCache
<1>6. \A i \in 1 .. Len(c) : AgeEntry(c[i]) \in Entry(K)
  BY <1>3, <1>4
<1>7. AgeCache(c) \in Seq(Entry(K)) /\ Len(AgeCache(c)) = Len(c) /\ DOMAIN AgeCache(c) = DOMAIN c
  BY <1>4, <1>5, <1>6, IsASeq
<1>8. \A i \in DOMAIN c : /\ AgeCache(c)[i].key = c[i].key
                          /\ AgeCache(c)[i].stored = NextAge(c[i].stored)
  BY <1>3, <1>4, <1>5
<1> QED
  BY <1>7, <1>8 DEF Bounded

-----------------------------------------------------------------------------
(* The wrapper                                                             *)

\* The history of a key's loads and the age of its entry move together: no
\* step lets an entry look younger than the load it came from.
EntryNoYounger ==
    \A i \in DOMAIN cache : sinceLoad[cache[i].key] <= cache[i].stored

\* The inductive invariant.
IInv ==
    /\ TypeOK
    /\ SingleFlight
    /\ ClosedBelowThreshold
    /\ ProbeOutstanding
    /\ CacheBounded
    /\ EntryNoYounger

LEMMA InitIInv == Init => IInv
<1> SUFFICES ASSUME Init PROVE IInv
  OBVIOUS
<1>1. TypeOK
  BY BreakerTyped, BreakerAssumption, CacheAssumption DEF Init, TypeOK, TooOld
<1>2. SingleFlight
  BY DEF Init, SingleFlight
<1>3. ClosedBelowThreshold /\ ProbeOutstanding
  BY BreakerAssumption DEF Init, ClosedBelowThreshold, ProbeOutstanding, NewBreaker
<1>4. CacheBounded /\ EntryNoYounger
  BY CacheAssumption DEF Init, CacheBounded, EntryNoYounger
<1> QED
  BY <1>1, <1>2, <1>3, <1>4 DEF IInv

\* A lookup (hit or miss) that leaves the loads alone keeps what the cache
\* promises.
LEMMA GetKeepsCache ==
    ASSUME IInv, NEW p \in Providers, NEW r \in Requests,
           cache' = AfterGet(cache, <<p, r>>), UNCHANGED sinceLoad
    PROVE  cache' \in Seq(Entry(Keys)) /\ CacheBounded' /\ EntryNoYounger'
<1>1. <<p, r>> \in Keys /\ cache \in Seq(Entry(Keys)) /\ Bounded(cache)
  BY DEF Keys, IInv, TypeOK, CacheBounded, Bounded
<1>2. /\ cache' \in Seq(Entry(Keys)) /\ Bounded(cache')
      /\ \A i \in DOMAIN cache' : \E j \in DOMAIN cache : cache'[i] = cache[j]
  <2> DEFINE k == <<p, r>>
  <2>1. k \in Keys
    BY <1>1
  <2> HIDE DEF k
  <2>2. /\ AfterGet(cache, k) \in Seq(Entry(Keys)) /\ Bounded(AfterGet(cache, k))
        /\ \A i \in DOMAIN AfterGet(cache, k) :
              \E j \in DOMAIN cache : AfterGet(cache, k)[i] = cache[j]
    BY <1>1, <2>1, AfterGetProps
  <2> QED
    BY <2>2, Zenon DEF k
<1> QED
  BY <1>2 DEF IInv, EntryNoYounger, CacheBounded, Bounded

\* Every step of the wrapper keeps the inductive invariant.
LEMMA NextIInv == IInv /\ [Next]_vars => IInv'
<1> SUFFICES ASSUME IInv, [Next]_vars PROVE IInv'
  OBVIOUS
<1> USE DEF IInv
<1>1. ASSUME NEW p \in Providers, NEW r \in Requests, CacheHit(p, r)
      PROVE  IInv'
  <2>1. cache' \in Seq(Entry(Keys)) /\ CacheBounded' /\ EntryNoYounger'
    BY <1>1, GetKeepsCache DEF CacheHit
  <2>2. TypeOK'
    BY <1>1, <2>1 DEF CacheHit, TypeOK
  <2>3. SingleFlight' /\ ClosedBelowThreshold' /\ ProbeOutstanding'
    BY <1>1 DEF CacheHit, SingleFlight, ClosedBelowThreshold, ProbeOutstanding
  <2> QED
    BY <2>1, <2>2, <2>3
<1>2. ASSUME NEW p \in Providers, NEW r \in Requests, JoinPending(p, r)
      PROVE  IInv'
  <2>1. cache' \in Seq(Entry(Keys)) /\ CacheBounded' /\ EntryNoYounger'
    BY <1>2, GetKeepsCache DEF JoinPending, CacheMiss
  <2>2. TypeOK'
    BY <1>2, <2>1 DEF JoinPending, TypeOK
  <2>3. SingleFlight' /\ ClosedBelowThreshold' /\ ProbeOutstanding'
    BY <1>2 DEF JoinPending, SingleFlight, ClosedBelowThreshold, ProbeOutstanding
  <2> QED
    BY <2>1, <2>2, <2>3
<1>3. ASSUME NEW p \in Providers, NEW r \in Requests, RejectOpen(p, r)
      PROVE  IInv'
  <2>1. cache' \in Seq(Entry(Keys)) /\ CacheBounded' /\ EntryNoYounger'
    BY <1>3, GetKeepsCache DEF RejectOpen, CacheMiss
  <2>2. TypeOK'
    BY <1>3, <2>1, BreakerTyped DEF RejectOpen, TypeOK
  <2>3. SingleFlight'
    BY <1>3 DEF RejectOpen, SingleFlight
  <2>4. ClosedBelowThreshold'
    BY <1>3, BreakerSound
    DEF RejectOpen, ClosedBelowThreshold, BelowThreshold, FlagHalfOpen, ProbeOutstanding, TypeOK
  <2>5. ProbeOutstanding'
    <3>1. cb[p] \in Breaker /\ cb' = [cb EXCEPT ![p] = Admit(cb[p])] /\ UNCHANGED upstream
      BY <1>3 DEF RejectOpen, TypeOK
    <3>2. Admit(cb[p]).inFlight => cb[p].inFlight /\ Admit(cb[p]).state = cb[p].state
      BY <1>3, <3>1
      DEF RejectOpen, Admits, Admit, MaybeEnterHalfOpen, Breaker, BreakerState,
          ProbeOutstanding
    <3> QED
      BY <3>1, <3>2 DEF ProbeOutstanding, TypeOK
  <2> QED
    BY <2>1, <2>2, <2>3, <2>4, <2>5
<1>4. ASSUME NEW p \in Providers, NEW r \in Requests, StartLoad(p, r)
      PROVE  IInv'
  <2>1. cache' \in Seq(Entry(Keys)) /\ CacheBounded' /\ EntryNoYounger'
    BY <1>4, GetKeepsCache DEF StartLoad, CacheMiss
  <2> DEFINE k == <<p, r>>
  <2>a. /\ k \in Keys /\ ~pending[k] /\ pending' = [pending EXCEPT ![k] = TRUE]
        /\ upstream' = [upstream EXCEPT ![k] = @ + 1] /\ UNCHANGED settled
    BY <1>4 DEF StartLoad, Keys
  <2>b. k \in Keys /\ k = <<p, r>>
    BY <2>a
  <2> HIDE DEF k
  <2>c. /\ upstream' \in [Keys -> Nat] /\ pending' \in [Keys -> BOOLEAN]
        /\ upstream'[k] = upstream[k] + 1 /\ pending'[k]
        /\ \A j \in Keys : j # k => upstream'[j] = upstream[j] /\ pending'[j] = pending[j]
    BY <2>a DEF TypeOK
  <2>2. TypeOK'
    <3>1. cb' \in [Providers -> Breaker]
      BY <1>4, BreakerTyped DEF StartLoad, TypeOK
    <3> QED
      BY <1>4, <2>1, <2>c, <3>1 DEF StartLoad, TypeOK
  <2>3. SingleFlight'
    BY <2>a, <2>c DEF SingleFlight, TypeOK
  <2>4. ClosedBelowThreshold'
    BY <1>4, BreakerSound
    DEF StartLoad, ClosedBelowThreshold, BelowThreshold, FlagHalfOpen, ProbeOutstanding, TypeOK
  <2>5. ProbeOutstanding'
    <3>1. /\ cb[p] \in Breaker /\ cb' = [cb EXCEPT ![p] = Admit(cb[p])]
          /\ upstream' = [upstream EXCEPT ![<<p, r>>] = @ + 1]
          /\ <<p, r>> \in Keys
      BY <1>4 DEF StartLoad, TypeOK, Keys
    <3>2. FlagHalfOpen(Admit(cb[p]))
      BY <3>1, BreakerSound DEF ClosedBelowThreshold, ProbeOutstanding, BelowThreshold, FlagHalfOpen
    <3>3. ASSUME NEW j \in Keys, upstream[j] > 0
          PROVE  upstream'[j] > 0
      <4>1. upstream[j] \in Nat
        BY DEF TypeOK
      <4>2. CASE j = k
        BY <3>3, <4>1, <4>2, <2>c
      <4>3. CASE j # k
        BY <3>3, <4>3, <2>c
      <4> QED
        BY <4>2, <4>3
    <3>4. upstream'[<<p, r>>] > 0
      BY <2>a, <2>b, <2>c DEF TypeOK
    <3> QED
      BY <3>1, <3>2, <3>3, <3>4 DEF ProbeOutstanding, TypeOK, FlagHalfOpen, Keys
  <2> QED
    BY <2>1, <2>2, <2>3, <2>4, <2>5
<1>5. ASSUME NEW p \in Providers, NEW r \in Requests, NEW q \in Quote, LoadSucceeds(p, r, q)
      PROVE  IInv'
  <2>1. <<p, r>> \in Keys /\ cache \in Seq(Entry(Keys)) /\ Bounded(cache)
    BY DEF Keys, TypeOK, CacheBounded, Bounded
  <2>2. /\ cache' \in Seq(Entry(Keys)) /\ Bounded(cache')
        /\ \A i \in DOMAIN cache' : \/ cache'[i].key = <<p, r>> /\ cache'[i].stored = 0
                                    \/ \E j \in DOMAIN cache : cache'[i] = cache[j]
    <3> DEFINE k == <<p, r>>
    <3>1. k \in Keys /\ cache' = AfterSet(cache, k, q)
      BY <1>5, <2>1 DEF LoadSucceeds
    <3> HIDE DEF k
    <3>2. /\ cache' \in Seq(Entry(Keys)) /\ Bounded(cache')
          /\ \A i \in DOMAIN cache' : \/ cache'[i].key = k /\ cache'[i].stored = 0
                                      \/ \E j \in DOMAIN cache : cache'[i] = cache[j]
      BY <2>1, <3>1, AfterSetProps
    <3> QED
      BY <3>2, Zenon DEF k
  <2>3. CacheBounded'
    BY <2>2 DEF CacheBounded, Bounded
  <2>4. EntryNoYounger'
    <3>1. sinceLoad' = [sinceLoad EXCEPT ![<<p, r>>] = 0]
      BY <1>5 DEF LoadSucceeds
    <3>2. \A k \in Keys : sinceLoad'[k] <= sinceLoad[k]
      BY <3>1, CacheAssumption DEF TypeOK, TooOld
    <3>3. sinceLoad'[<<p, r>>] = 0
      BY <3>1, <2>1 DEF TypeOK
    <3>4. SUFFICES ASSUME NEW i \in DOMAIN cache'
                   PROVE  sinceLoad'[cache'[i].key] <= cache'[i].stored
      BY DEF EntryNoYounger
    <3>5. cache'[i] \in Entry(Keys)
      BY <2>2
    <3>6. CASE cache'[i].key = <<p, r>> /\ cache'[i].stored = 0
      BY <3>3, <3>6
    <3>7. CASE \E j \in DOMAIN cache : cache'[i] = cache[j]
      <4>1. sinceLoad[cache'[i].key] <= cache'[i].stored
        BY <3>7 DEF EntryNoYounger
      <4>2. cache'[i].key \in Keys /\ cache'[i].stored \in Int
        BY <3>5, CacheAssumption DEF Entry, TooOld
      <4>3. sinceLoad[cache'[i].key] \in Int /\ sinceLoad'[cache'[i].key] \in Int
        BY <4>2, <3>1, CacheAssumption DEF TypeOK, TooOld
      <4> QED
        BY <4>1, <4>2, <4>3, <3>2
    <3> QED
      BY <2>2, <3>6, <3>7
  <2>s. /\ upstream' \in [Keys -> Nat] /\ settled' \in [Keys -> Nat] /\ UNCHANGED pending
        /\ SingleFlight'
    <3> DEFINE k == <<p, r>>
    <3>1. /\ k \in Keys /\ upstream[k] > 0 /\ UNCHANGED pending
          /\ upstream' = [upstream EXCEPT ![k] = @ - 1]
          /\ settled' = [settled EXCEPT ![k] = @ + 1]
      BY <1>5 DEF LoadSucceeds, Keys
    <3> HIDE DEF k
    <3>2. /\ upstream' \in [Keys -> Nat] /\ settled' \in [Keys -> Nat]
          /\ upstream'[k] = upstream[k] - 1 /\ settled'[k] = settled[k] + 1
          /\ \A j \in Keys : j # k => upstream'[j] = upstream[j] /\ settled'[j] = settled[j]
      BY <3>1 DEF TypeOK
    <3> QED
      BY <3>1, <3>2 DEF SingleFlight, TypeOK
  <2>c. cb' = [cb EXCEPT ![p] = NewBreaker] /\ NewBreaker \in Breaker
    BY <1>5, BreakerTyped DEF LoadSucceeds, RecordSuccess
  <2>5. TypeOK'
    <3>0. 0 \in 0 .. TooOld
      BY CacheAssumption DEF TooOld
    <3>1. sinceLoad' \in [Keys -> 0 .. TooOld]
      BY <1>5, <3>0 DEF LoadSucceeds, TypeOK
    <3> QED
      BY <1>5, <2>2, <2>s, <2>c, <3>1 DEF LoadSucceeds, TypeOK
  <2>6. SingleFlight'
    BY <2>s
  <2>7. ClosedBelowThreshold' /\ ProbeOutstanding'
    <3>1. BelowThreshold(NewBreaker) /\ ~NewBreaker.inFlight
      BY BreakerSound DEF NewBreaker
    <3>2. ClosedBelowThreshold'
      BY <2>c, <3>1 DEF ClosedBelowThreshold, BelowThreshold, TypeOK
    <3>3. \A o \in Providers, x \in Requests : o # p => upstream'[<<o, x>>] = upstream[<<o, x>>]
      BY <1>5 DEF LoadSucceeds, TypeOK, Keys
    <3> QED
      BY <2>c, <3>1, <3>2, <3>3 DEF ProbeOutstanding, TypeOK
  <2> QED
    BY <2>2, <2>3, <2>4, <2>5, <2>6, <2>7
<1>6. ASSUME NEW p \in Providers, NEW r \in Requests, LoadFails(p, r)
      PROVE  IInv'
  <2>0. <<p, r>> \in Keys /\ cb[p] \in Breaker
    BY DEF Keys, TypeOK
  <2>s. /\ upstream' \in [Keys -> Nat] /\ settled' \in [Keys -> Nat] /\ UNCHANGED pending
        /\ SingleFlight'
    <3> DEFINE k == <<p, r>>
    <3>1. /\ k \in Keys /\ upstream[k] > 0 /\ UNCHANGED pending
          /\ upstream' = [upstream EXCEPT ![k] = @ - 1]
          /\ settled' = [settled EXCEPT ![k] = @ + 1]
      BY <1>6 DEF LoadFails, Keys
    <3> HIDE DEF k
    <3>2. /\ upstream' \in [Keys -> Nat] /\ settled' \in [Keys -> Nat]
          /\ upstream'[k] = upstream[k] - 1 /\ settled'[k] = settled[k] + 1
          /\ \A j \in Keys : j # k => upstream'[j] = upstream[j] /\ settled'[j] = settled[j]
      BY <3>1 DEF TypeOK
    <3> QED
      BY <3>1, <3>2 DEF SingleFlight, TypeOK
  <2>1. TypeOK'
    <3>1. cb' \in [Providers -> Breaker]
      BY <1>6, <2>0, BreakerTyped DEF LoadFails, TypeOK
    <3>2. sinceTrip' \in [Providers -> 0 .. Cooldown]
      BY <1>6, BreakerAssumption DEF LoadFails, TypeOK
    <3> QED
      BY <1>6, <2>s, <3>1, <3>2 DEF LoadFails, TypeOK
  <2>2. SingleFlight'
    BY <2>s
  <2>3. ClosedBelowThreshold'
    BY <1>6, BreakerSound
    DEF LoadFails, ClosedBelowThreshold, BelowThreshold, FlagHalfOpen, ProbeOutstanding, TypeOK
  <2>4. ProbeOutstanding'
    <3>1. ~RecordFailure(cb[p]).inFlight
      BY <2>0 DEF RecordFailure, Trip, Breaker
    <3> QED
      BY <1>6, <3>1 DEF LoadFails, ProbeOutstanding, TypeOK, Keys
  <2>5. CacheBounded' /\ EntryNoYounger'
    BY <1>6 DEF LoadFails, CacheBounded, EntryNoYounger
  <2> QED
    BY <2>1, <2>2, <2>3, <2>4, <2>5
<1>6a. ASSUME NEW p \in Providers, NEW r \in Requests, LoadUnreadable(p, r)
      PROVE  IInv'
  <2> DEFINE b == RecordFailure(NewBreaker)
  <2>0. /\ b \in Breaker /\ BelowThreshold(b) /\ ~b.inFlight
        /\ cb' = [cb EXCEPT ![p] = b]
        /\ sinceTrip' = [sinceTrip EXCEPT ![p] = IF b.state = "open" THEN 0 ELSE @]
    <3>1. b \in Breaker /\ BelowThreshold(b)
      BY BreakerTyped, BreakerSound
    <3>2. ~b.inFlight
      BY BreakerTyped DEF RecordFailure, Trip, Breaker
    <3>3. RecordSuccess(cb[p]) = NewBreaker
      BY DEF RecordSuccess
    <3> QED
      BY <1>6a, <3>1, <3>2, <3>3 DEF LoadUnreadable
  <2> HIDE DEF b
  <2>s. /\ upstream' \in [Keys -> Nat] /\ settled' \in [Keys -> Nat] /\ UNCHANGED pending
        /\ SingleFlight'
    <3> DEFINE k == <<p, r>>
    <3>1. /\ k \in Keys /\ upstream[k] > 0 /\ UNCHANGED pending
          /\ upstream' = [upstream EXCEPT ![k] = @ - 1]
          /\ settled' = [settled EXCEPT ![k] = @ + 1]
      BY <1>6a DEF LoadUnreadable, Keys
    <3> HIDE DEF k
    <3>2. /\ upstream' \in [Keys -> Nat] /\ settled' \in [Keys -> Nat]
          /\ upstream'[k] = upstream[k] - 1 /\ settled'[k] = settled[k] + 1
          /\ \A j \in Keys : j # k => upstream'[j] = upstream[j] /\ settled'[j] = settled[j]
      BY <3>1 DEF TypeOK
    <3> QED
      BY <3>1, <3>2 DEF SingleFlight, TypeOK
  <2>1. TypeOK'
    <3>1. cb' \in [Providers -> Breaker] /\ sinceTrip' \in [Providers -> 0 .. Cooldown]
      BY <2>0, BreakerAssumption DEF TypeOK
    <3> QED
      BY <1>6a, <2>s, <3>1 DEF LoadUnreadable, TypeOK
  <2>2. ClosedBelowThreshold'
    BY <2>0 DEF ClosedBelowThreshold, BelowThreshold, TypeOK
  <2>3. ProbeOutstanding'
    <3>1. \A o \in Providers, x \in Requests : o # p => upstream'[<<o, x>>] = upstream[<<o, x>>]
      BY <1>6a DEF LoadUnreadable, TypeOK, Keys
    <3> QED
      BY <2>0, <3>1 DEF ProbeOutstanding, TypeOK
  <2>4. CacheBounded' /\ EntryNoYounger'
    BY <1>6a DEF LoadUnreadable, CacheBounded, EntryNoYounger
  <2> QED
    BY <2>s, <2>1, <2>2, <2>3, <2>4
<1>7. ASSUME NEW p \in Providers, NEW r \in Requests, ClearInflight(p, r)
      PROVE  IInv'
  <2>0. <<p, r>> \in Keys
    BY DEF Keys
  <2>a. /\ settled' \in [Keys -> Nat] /\ pending' \in [Keys -> BOOLEAN] /\ SingleFlight'
    <3> DEFINE k == <<p, r>>
    <3>1. /\ k \in Keys /\ settled[k] > 0 /\ UNCHANGED upstream
          /\ settled' = [settled EXCEPT ![k] = @ - 1]
          /\ pending' = [pending EXCEPT ![k] = FALSE]
      BY <1>7, <2>0 DEF ClearInflight
    <3> HIDE DEF k
    <3>2. /\ settled' \in [Keys -> Nat] /\ pending' \in [Keys -> BOOLEAN]
          /\ settled'[k] = settled[k] - 1 /\ ~pending'[k]
          /\ \A j \in Keys : j # k => settled'[j] = settled[j] /\ pending'[j] = pending[j]
      BY <3>1 DEF TypeOK
    <3> QED
      BY <3>1, <3>2 DEF SingleFlight, TypeOK
  <2>1. TypeOK'
    BY <1>7, <2>a DEF ClearInflight, TypeOK
  <2>2. SingleFlight'
    BY <2>a
  <2>3. ClosedBelowThreshold' /\ ProbeOutstanding' /\ CacheBounded' /\ EntryNoYounger'
    BY <1>7
    DEF ClearInflight, ClosedBelowThreshold, ProbeOutstanding, CacheBounded, EntryNoYounger
  <2> QED
    BY <2>1, <2>2, <2>3
<1>8. ASSUME NEW p \in Providers, Observe(p)
      PROVE  IInv'
  <2>0. cb[p] \in Breaker
    BY DEF TypeOK
  <2>1. TypeOK'
    BY <1>8, BreakerTyped DEF Observe, TypeOK
  <2>2. SingleFlight' /\ CacheBounded' /\ EntryNoYounger'
    BY <1>8 DEF Observe, SingleFlight, CacheBounded, EntryNoYounger
  <2>3. ClosedBelowThreshold'
    BY <1>8, BreakerSound
    DEF Observe, ClosedBelowThreshold, BelowThreshold, FlagHalfOpen, ProbeOutstanding, TypeOK
  <2>4. ProbeOutstanding'
    <3>1. MaybeEnterHalfOpen(cb[p]).inFlight => MaybeEnterHalfOpen(cb[p]) = cb[p]
      BY <2>0 DEF MaybeEnterHalfOpen, Breaker
    <3> QED
      BY <1>8, <3>1 DEF Observe, ProbeOutstanding, TypeOK
  <2> QED
    BY <2>1, <2>2, <2>3, <2>4
<1>9. ASSUME NEW t \in Providers \cup Requests, Engage(t) \/ Release(t)
      PROVE  IInv'
  BY <1>9
  DEF Engage, Release, TypeOK, SingleFlight, ClosedBelowThreshold, ProbeOutstanding,
      CacheBounded, EntryNoYounger
<1>10. CASE Tick
  <2>1. cache \in Seq(Entry(Keys)) /\ Bounded(cache)
    BY DEF TypeOK, CacheBounded, Bounded
  <2>2. /\ cache' \in Seq(Entry(Keys)) /\ Bounded(cache')
        /\ DOMAIN cache' = DOMAIN cache
        /\ \A i \in DOMAIN cache :
              /\ cache'[i].key = cache[i].key
              /\ cache'[i].stored = NextAge(cache[i].stored)
    BY <1>10, <2>1, AgeCacheProps DEF Tick
  <2>3. TypeOK'
    BY <1>10, <2>2, BreakerTyped, BreakerAssumption, CacheAssumption DEF Tick, TypeOK, TooOld
  <2>4. SingleFlight' /\ CacheBounded'
    BY <1>10, <2>2 DEF Tick, SingleFlight, CacheBounded, Bounded
  <2>5. ClosedBelowThreshold'
    BY <1>10, BreakerSound
    DEF Tick, ClosedBelowThreshold, BelowThreshold, FlagHalfOpen, ProbeOutstanding, TypeOK
  <2>6. ProbeOutstanding'
    <3>1. \A b \in Breaker : AgeBreaker(b).inFlight = b.inFlight /\ AgeBreaker(b).state = b.state
      BY DEF AgeBreaker, Breaker
    <3> QED
      BY <1>10, <3>1 DEF Tick, ProbeOutstanding, TypeOK
  <2>7. EntryNoYounger'
    <3>1. SUFFICES ASSUME NEW i \in DOMAIN cache
                   PROVE  sinceLoad'[cache[i].key] <= cache'[i].stored
      BY <2>2 DEF EntryNoYounger
    <3>2. cache[i] \in Entry(Keys) /\ cache[i].key \in Keys /\ cache[i].stored \in 0 .. TooOld
      <4>1. cache[i] \in Entry(Keys)
        BY <2>1
      <4> QED
        BY <4>1 DEF Entry
    <3>3. sinceLoad[cache[i].key] <= cache[i].stored
      BY DEF EntryNoYounger
    <3>4. sinceLoad'[cache[i].key] = IF sinceLoad[cache[i].key] < TooOld
                                       THEN sinceLoad[cache[i].key] + 1 ELSE TooOld
      BY <1>10, <3>2 DEF Tick
    <3>5. sinceLoad[cache[i].key] \in 0 .. TooOld
      BY <3>2 DEF TypeOK
    <3> QED
      BY <2>2, <3>2, <3>3, <3>4, <3>5, CacheAssumption DEF NextAge, TooOld
  <2> QED
    BY <2>2, <2>3, <2>4, <2>5, <2>6, <2>7
<1>11. CASE UNCHANGED vars
  BY <1>11
  DEF vars, TypeOK, SingleFlight, ClosedBelowThreshold, ProbeOutstanding, CacheBounded,
      EntryNoYounger
<1> QED
  BY <1>1, <1>2, <1>3, <1>4, <1>5, <1>6, <1>7, <1>8, <1>9, <1>10, <1>11, <1>6a DEF Next, Settle

LEMMA Invariance == Spec => []IInv
BY InitIInv, NextIInv, PTL DEF Spec

-----------------------------------------------------------------------------
(* The breaker's own clock and the history of its trips                    *)

\* The breaker's clock tells the time since the last trip for as long as the
\* breaker stays open, and half-open means that the cooldown is over.
Timed(b, since) ==
    /\ b.state = "open" => b.sinceOpen = since
    /\ b.state = "half_open" => since = Cooldown

TripTimed == \A p \in Providers : Timed(cb[p], sinceTrip[p])

\* Every method keeps the two clocks together, whatever state it finds: reading
\* or asking an open breaker moves it on only at the end of the cooldown, and a
\* failure that leaves it open has restarted both.
LEMMA BreakerTimed ==
    ASSUME NEW b \in Breaker, NEW since \in 0 .. Cooldown, Timed(b, since),
           BelowThreshold(b), FlagHalfOpen(b)
    PROVE  /\ Timed(MaybeEnterHalfOpen(b), since)
           /\ Timed(Admit(b), since)
           /\ Timed(RecordFailure(b), IF RecordFailure(b).state = "open" THEN 0 ELSE since)
           /\ Timed(AgeBreaker(b), IF since < Cooldown THEN since + 1 ELSE Cooldown)
           /\ Admits(b) => b.state = "closed" \/ (since = Cooldown /\ ~b.inFlight)
           /\ Timed(RecordFailure(NewBreaker),
                    IF RecordFailure(NewBreaker).state = "open" THEN 0 ELSE since)
BY BreakerAssumption
DEF Timed, Breaker, BreakerState, MaybeEnterHalfOpen, Admit, Admits, RecordFailure, Trip,
    AgeBreaker, BelowThreshold, FlagHalfOpen, NewBreaker

\* What the lemma needs of a provider's breaker holds in every reachable state.
LEMMA BreakerReady ==
    ASSUME IInv, TripTimed, NEW p \in Providers
    PROVE  /\ cb[p] \in Breaker /\ sinceTrip[p] \in 0 .. Cooldown
           /\ Timed(cb[p], sinceTrip[p]) /\ BelowThreshold(cb[p]) /\ FlagHalfOpen(cb[p])
BY DEF IInv, TypeOK, TripTimed, ClosedBelowThreshold, ProbeOutstanding, BelowThreshold,
       FlagHalfOpen

LEMMA TripTimedInvariant == Spec => [](IInv /\ TripTimed)
<1>1. Init => TripTimed
  BY DEF Init, TripTimed, Timed, NewBreaker
<1>2. ASSUME IInv, TripTimed, [Next]_vars
      PROVE  TripTimed'
  <2> SUFFICES ASSUME NEW o \in Providers
               PROVE  Timed(cb[o], sinceTrip[o])'
    BY DEF TripTimed
  <2>0. /\ cb \in [Providers -> Breaker] /\ sinceTrip \in [Providers -> 0 .. Cooldown]
        /\ cb[o] \in Breaker /\ sinceTrip[o] \in 0 .. Cooldown
        /\ Timed(cb[o], sinceTrip[o]) /\ BelowThreshold(cb[o]) /\ FlagHalfOpen(cb[o])
    BY <1>2, BreakerReady DEF IInv, TypeOK
  <2>u. UNCHANGED <<cb, sinceTrip>> => Timed(cb[o], sinceTrip[o])'
    BY <2>0 DEF Timed
  <2>1. ASSUME NEW p \in Providers, cb' = [cb EXCEPT ![p] = Admit(@)], UNCHANGED sinceTrip
        PROVE  Timed(cb[o], sinceTrip[o])'
    <3>1. cb'[o] = Admit(cb[o]) \/ cb'[o] = cb[o]
      BY <2>0, <2>1
    <3>2. Timed(Admit(cb[o]), sinceTrip[o])
      BY <2>0, BreakerTimed
    <3> QED
      BY <2>0, <2>1, <3>1, <3>2 DEF Timed
  <2>2. ASSUME NEW p \in Providers, NEW r \in Requests, NEW q \in Quote, LoadSucceeds(p, r, q)
        PROVE  Timed(cb[o], sinceTrip[o])'
    <3>1. cb'[o] = NewBreaker \/ cb'[o] = cb[o]
      BY <2>0, <2>2 DEF LoadSucceeds, RecordSuccess
    <3> QED
      BY <2>0, <2>2, <3>1 DEF LoadSucceeds, Timed, NewBreaker
  <2>3. ASSUME NEW p \in Providers, NEW r \in Requests, LoadFails(p, r)
        PROVE  Timed(cb[o], sinceTrip[o])'
    <3> DEFINE reset == IF RecordFailure(cb[o]).state = "open" THEN 0 ELSE sinceTrip[o]
    <3>1. \/ cb'[o] = cb[o] /\ sinceTrip'[o] = sinceTrip[o]
          \/ cb'[o] = RecordFailure(cb[o]) /\ sinceTrip'[o] = reset
      BY <2>0, <2>3 DEF LoadFails
    <3>2. Timed(RecordFailure(cb[o]), reset)
      BY <2>0, BreakerTimed
    <3> HIDE DEF reset
    <3> QED
      BY <2>0, <3>1, <3>2 DEF Timed
  <2>3a. ASSUME NEW p \in Providers, NEW r \in Requests, LoadUnreadable(p, r)
        PROVE  Timed(cb[o], sinceTrip[o])'
    <3> DEFINE b == RecordFailure(NewBreaker)
               reset == IF b.state = "open" THEN 0 ELSE sinceTrip[o]
    <3>1. \/ cb'[o] = cb[o] /\ sinceTrip'[o] = sinceTrip[o]
          \/ cb'[o] = b /\ sinceTrip'[o] = reset
      BY <2>0, <2>3a DEF LoadUnreadable, RecordSuccess
    <3>2. Timed(b, reset)
      BY <2>0, BreakerTimed
    <3> HIDE DEF b, reset
    <3> QED
      BY <2>0, <3>1, <3>2 DEF Timed
  <2>4. ASSUME NEW p \in Providers, Observe(p)
        PROVE  Timed(cb[o], sinceTrip[o])'
    <3>1. /\ cb'[o] = MaybeEnterHalfOpen(cb[o]) \/ cb'[o] = cb[o]
          /\ UNCHANGED sinceTrip
      BY <2>0, <2>4 DEF Observe
    <3>2. Timed(MaybeEnterHalfOpen(cb[o]), sinceTrip[o])
      BY <2>0, BreakerTimed
    <3> QED
      BY <2>0, <3>1, <3>2 DEF Timed
  <2>5. CASE Tick
    <3> DEFINE aged == IF sinceTrip[o] < Cooldown THEN sinceTrip[o] + 1 ELSE Cooldown
    <3>1. cb'[o] = AgeBreaker(cb[o]) /\ sinceTrip'[o] = aged
      BY <2>5 DEF Tick
    <3>2. Timed(AgeBreaker(cb[o]), aged)
      BY <2>0, BreakerTimed
    <3> HIDE DEF aged
    <3> QED
      BY <3>1, <3>2 DEF Timed
  <2>6. ASSUME NEW p \in Providers, NEW r \in Requests,
               \/ CacheHit(p, r) \/ JoinPending(p, r) \/ ClearInflight(p, r)
        PROVE  Timed(cb[o], sinceTrip[o])'
    BY <2>6, <2>u DEF CacheHit, JoinPending, ClearInflight
  <2>7. ASSUME NEW t \in Providers \cup Requests, Engage(t) \/ Release(t)
        PROVE  Timed(cb[o], sinceTrip[o])'
    BY <2>7, <2>u DEF Engage, Release
  <2>8. ASSUME NEW p \in Providers, NEW r \in Requests, RejectOpen(p, r) \/ StartLoad(p, r)
        PROVE  Timed(cb[o], sinceTrip[o])'
    BY <2>8, <2>1 DEF RejectOpen, StartLoad
  <2>9. CASE UNCHANGED vars
    BY <2>9, <2>u DEF vars
  <2> QED
    BY <1>2, <2>2, <2>3, <2>4, <2>5, <2>6, <2>7, <2>8, <2>9, <2>3a DEF Next, Settle
<1> QED
  BY <1>1, <1>2, Invariance, PTL DEF Spec

\* A provider that was called since its breaker last tripped has the flag up:
\* whatever lowers the flag of a half-open breaker also trips or closes it.
ProbeKnown == \A p \in probed : cb[p].inFlight

LEMMA ProbeKnownInvariant == Spec => []ProbeKnown
<1>1. Init => ProbeKnown
  BY DEF Init, ProbeKnown
<1>2. ASSUME IInv, ProbeKnown, [Next]_vars
      PROVE  ProbeKnown'
  <2> SUFFICES ASSUME NEW o \in probed'
               PROVE  cb'[o].inFlight
    BY DEF ProbeKnown
  <2>0. /\ cb \in [Providers -> Breaker] /\ probed \subseteq Providers
        /\ \A p \in Providers : /\ cb[p] \in Breaker /\ BelowThreshold(cb[p])
                               /\ FlagHalfOpen(cb[p])
    BY <1>2
    DEF IInv, TypeOK, ClosedBelowThreshold, ProbeOutstanding, BelowThreshold, FlagHalfOpen
  <2>u. UNCHANGED <<cb, probed>> => cb'[o].inFlight
    BY <1>2 DEF ProbeKnown
  <2>1. ASSUME NEW p \in Providers, NEW r \in Requests, RejectOpen(p, r)
        PROVE  cb'[o].inFlight
    <3>1. Admit(cb[p]).inFlight \/ ~cb[p].inFlight
      BY <2>0 DEF Admit, MaybeEnterHalfOpen, FlagHalfOpen, Breaker
    <3> QED
      BY <1>2, <2>0, <2>1, <3>1 DEF RejectOpen, ProbeKnown
  <2>2. ASSUME NEW p \in Providers, NEW r \in Requests, StartLoad(p, r)
        PROVE  cb'[o].inFlight
    <3>1. cb[p].state = "closed" => ~cb[p].inFlight
      BY <2>0 DEF FlagHalfOpen
    <3>2. cb[p].state # "closed" => Admit(cb[p]).inFlight
      BY <2>0, <2>2 DEF StartLoad, Admits, Admit, MaybeEnterHalfOpen, Breaker, BreakerState
    <3> QED
      BY <1>2, <2>0, <2>2, <3>1, <3>2 DEF StartLoad, ProbeKnown
  <2>3. ASSUME NEW p \in Providers, NEW r \in Requests,
               LoadUnreadable(p, r) \/ \E q \in Quote : LoadSucceeds(p, r, q)
        PROVE  cb'[o].inFlight
    <3>1. o # p /\ o \in probed /\ cb'[o] = cb[o]
      BY <2>0, <2>3 DEF LoadUnreadable, LoadSucceeds
    <3> QED
      BY <1>2, <3>1 DEF ProbeKnown
  <2>4. ASSUME NEW p \in Providers, NEW r \in Requests, LoadFails(p, r)
        PROVE  cb'[o].inFlight
    <3>1. RecordFailure(cb[p]).state = "open" \/ ~cb[p].inFlight
      BY <2>0 DEF RecordFailure, Trip, FlagHalfOpen, Breaker
    <3>2. o # p /\ o \in probed /\ cb'[o] = cb[o]
      BY <1>2, <2>0, <2>4, <3>1 DEF LoadFails, ProbeKnown
    <3> QED
      BY <1>2, <3>2 DEF ProbeKnown
  <2>5. ASSUME NEW p \in Providers, Observe(p)
        PROVE  cb'[o].inFlight
    <3>1. cb[p].inFlight => MaybeEnterHalfOpen(cb[p]) = cb[p]
      BY <2>0 DEF MaybeEnterHalfOpen, FlagHalfOpen
    <3> QED
      BY <1>2, <2>0, <2>5, <3>1 DEF Observe, ProbeKnown
  <2>6. CASE Tick
    <3>1. \A b \in Breaker : AgeBreaker(b).inFlight = b.inFlight
      BY DEF AgeBreaker, Breaker
    <3> QED
      BY <1>2, <2>0, <2>6, <3>1 DEF Tick, ProbeKnown
  <2>7. ASSUME NEW p \in Providers, NEW r \in Requests,
               CacheHit(p, r) \/ JoinPending(p, r) \/ ClearInflight(p, r)
        PROVE  cb'[o].inFlight
    BY <2>7, <2>u DEF CacheHit, JoinPending, ClearInflight
  <2>8. ASSUME NEW t \in Providers \cup Requests, Engage(t) \/ Release(t)
        PROVE  cb'[o].inFlight
    BY <2>8, <2>u DEF Engage, Release
  <2>9. CASE UNCHANGED vars
    BY <2>9, <2>u DEF vars
  <2> QED
    BY <1>2, <2>1, <2>2, <2>3, <2>4, <2>5, <2>6, <2>7, <2>8, <2>9 DEF Next, Settle
<1> QED
  BY <1>1, <1>2, Invariance, PTL DEF Spec

-----------------------------------------------------------------------------
(* Theorems                                                                *)

\* Every variable keeps its type, for any instance of the parameters.
THEOREM TypeCorrect == Spec => []TypeOK
<1>1. IInv => TypeOK
  BY DEF IInv
<1> QED
  BY <1>1, Invariance, PTL

\* getQuote never has two upstream calls running for one key, and the inflight
\* map names exactly the keys whose load is running or not yet cleaned up.
THEOREM SingleFlightHolds == Spec => []SingleFlight
<1>1. IInv => SingleFlight
  BY DEF IInv
<1> QED
  BY <1>1, Invariance, PTL

\* The breaker is closed exactly while its failure count is below the
\* threshold, and a raised probe flag always has a running call behind it.
THEOREM BreakerHolds == Spec => []BreakerConsistent
<1>1. IInv => BreakerConsistent
  BY DEF IInv, BreakerConsistent
<1> QED
  BY <1>1, Invariance, PTL

\* The cache keeps to its capacity with one entry per key.
THEOREM CacheBoundedHolds == Spec => []CacheBounded
<1>1. IInv => CacheBounded
  BY DEF IInv
<1> QED
  BY <1>1, Invariance, PTL

\* No quote the cache would serve was loaded more than MaxAge ticks ago.
THEOREM ServedWithinWindowHolds == Spec => []ServedWithinWindow
<1>1. IInv => ServedWithinWindow
  <2> SUFFICES ASSUME IInv, NEW i \in DOMAIN cache, Servable(cache[i])
               PROVE  sinceLoad[cache[i].key] <= MaxAge
    BY DEF ServedWithinWindow
  <2>1. cache[i] \in Entry(Keys)
    BY DEF IInv, TypeOK
  <2>2. cache[i].key \in Keys /\ cache[i].stored \in 0 .. TooOld
    BY <2>1 DEF Entry
  <2>3. sinceLoad[cache[i].key] \in 0 .. TooOld
    BY <2>2 DEF IInv, TypeOK
  <2>4. sinceLoad[cache[i].key] <= cache[i].stored /\ cache[i].stored <= MaxAge
    BY DEF IInv, EntryNoYounger, Servable
  <2> QED
    BY <2>2, <2>3, <2>4, CacheAssumption
<1> QED
  BY <1>1, Invariance, PTL

\* After every trip of its breaker a provider is left alone for the whole
\* cooldown and then called at most once until the breaker closes or trips again.
THEOREM OneProbePerTripHolds == Spec => OneProbePerTrip
<1> DEFINE Step == \A p \in Providers, r \in Requests :
                      upstream'[<<p, r>>] > upstream[<<p, r>>] =>
                          \/ cb[p].state = "closed"
                          \/ sinceTrip[p] = Cooldown /\ p \notin probed
<1>1. ASSUME IInv, TripTimed, ProbeKnown, [Next]_vars
      PROVE  Step
  <2> SUFFICES ASSUME NEW o \in Providers, NEW x \in Requests,
                      upstream'[<<o, x>>] > upstream[<<o, x>>]
               PROVE  \/ cb[o].state = "closed"
                      \/ sinceTrip[o] = Cooldown /\ o \notin probed
    OBVIOUS
  <2> DEFINE k == <<o, x>>
  <2>1. k \in Keys /\ upstream[k] \in Nat /\ upstream \in [Keys -> Nat]
    BY <1>1 DEF Keys, IInv, TypeOK
  <2>2. ~ UNCHANGED upstream
    BY <2>1
  <2>3. ASSUME NEW p \in Providers, NEW r \in Requests, StartLoad(p, r)
        PROVE  Admits(cb[o])
    <3>1. /\ Admits(cb[p])
          /\ upstream' = [upstream EXCEPT ![<<p, r>>] = @ + 1]
      BY <2>3 DEF StartLoad
    <3>2. p = o
      BY <2>1, <3>1
    <3> QED
      BY <3>1, <3>2
  <2>4. ASSUME NEW p \in Providers, NEW r \in Requests, Settle(p, r)
        PROVE  FALSE
    <3>1. /\ upstream[<<p, r>>] > 0
          /\ upstream' = [upstream EXCEPT ![<<p, r>>] = @ - 1]
      BY <2>4 DEF Settle, LoadSucceeds, LoadFails, LoadUnreadable
    <3>2. upstream'[k] = IF k = <<p, r>> THEN upstream[k] - 1 ELSE upstream[k]
      BY <2>1, <3>1
    <3>3. upstream'[k] > upstream[k]
      OBVIOUS
    <3> HIDE DEF k
    <3> QED
      BY <2>1, <3>2, <3>3
  <2>5. Admits(cb[o])
    BY <1>1, <2>2, <2>3, <2>4
    DEF Next, CacheHit, JoinPending, RejectOpen, ClearInflight, Observe, Engage, Release,
        Tick, vars
  <2> QED
    BY <1>1, <2>5, BreakerReady, BreakerTimed DEF ProbeKnown
<1>2. [][Step]_vars => OneProbePerTrip
  BY DEF OneProbePerTrip
<1> QED
  BY <1>1, <1>2, TripTimedInvariant, ProbeKnownInvariant, PTL DEF Spec
=============================================================================
