---------------------------- MODULE QuoteCache ----------------------------
(***************************************************************************)
(* The freshness-bounded LRU quote cache,                                  *)
(* packages/adapters/src/resilience/quote-cache.ts, and the freshness      *)
(* verdict it relies on, packages/core/src/quotes/quote-freshness.ts.      *)
(*                                                                         *)
(* A JavaScript Map iterates in insertion order, so the cache is the       *)
(* sequence of its entries, oldest insertion first.  Instants are          *)
(* abstracted to ages that saturate one past the last value the code tells *)
(* apart: quote.age = now - quote.timestamp, quote.ttl = the time left     *)
(* until expiresAt less the expiry guard, and stored = now - storedAtMs.   *)
(* A provider clock that runs ahead gives a quote a negative age.          *)
(***************************************************************************)
EXTENDS Integers, Sequences, SequencesExt

CONSTANTS
    MaxEntries,     \* capacity of the cache
    MaxAge,         \* freshness window of the rail, in ticks
    SkewTolerance,  \* how far ahead a provider clock may run
    MaxTtl          \* longest validity a provider stamps on a quote

ASSUME CacheAssumption ==
    /\ MaxEntries \in Nat \ {0}
    /\ MaxAge \in Nat
    /\ SkewTolerance \in Nat
    /\ MaxTtl \in Nat \ {0}

\* One past every age the freshness policy accepts.
TooOld == MaxAge + 1

\* Quotes as providers return them: also skewed, stale and expired ones.
Quote == [age : (0 - SkewTolerance - 1) .. TooOld, ttl : 0 .. MaxTtl]

\* assessQuoteFreshness: clock skew, then expiry, then staleness.
Freshness(q) ==
    CASE q.age < 0 - SkewTolerance -> "clock_skewed"
      [] q.age >= 0 - SkewTolerance /\ q.ttl <= 0 -> "expired"
      [] q.age >= 0 - SkewTolerance /\ q.ttl > 0 /\ q.age > MaxAge -> "stale"
      [] OTHER -> "fresh"

IsQuoteUsable(q) == Freshness(q) = "fresh"

Entry(Keys) == [key : Keys, quote : Quote, stored : 0 .. TooOld]

Has(cache, key) == \E i \in DOMAIN cache : cache[i].key = key

EntryOf(cache, key) == cache[CHOOSE i \in DOMAIN cache : cache[i].key = key]

\* Map.delete: the cache without its entry for key.
Delete(cache, key) ==
    IF Has(cache, key)
      THEN RemoveAt(cache, CHOOSE i \in DOMAIN cache : cache[i].key = key)
      ELSE cache

\* What get() serves: an entry inside its own window whose quote is usable.
Servable(e) == e.stored <= MaxAge /\ IsQuoteUsable(e.quote)

Hit(cache, key) == Has(cache, key) /\ Servable(EntryOf(cache, key))

\* Mutant: a hit is stored again with a new timestamp.
AfterGetRestamps(cache, key) ==
    IF Hit(cache, key)
      THEN Append(Delete(cache, key), [EntryOf(cache, key) EXCEPT !.stored = 0])
      ELSE Delete(cache, key)

\* The cache after get(): a hit moves to the back with its stored time kept,
\* an entry that may not be served is dropped.
AfterGet(cache, key) ==
    IF Hit(cache, key)
      THEN Append(Delete(cache, key), EntryOf(cache, key))
      ELSE Delete(cache, key)

\* Mutant: a new key is stored without evicting the oldest entry.
AfterSetNoEvict(cache, key, q) ==
    IF IsQuoteUsable(q)
      THEN Append(Delete(cache, key), [key |-> key, quote |-> q, stored |-> 0])
      ELSE cache

\* set(): an unusable quote is ignored; otherwise the key's entry is replaced,
\* or the oldest one evicted when a new key meets a full cache.
AfterSet(cache, key, q) ==
    LET room == IF Has(cache, key) THEN Delete(cache, key)
                ELSE IF Len(cache) >= MaxEntries THEN Tail(cache) ELSE cache
    IN  IF IsQuoteUsable(q)
          THEN Append(room, [key |-> key, quote |-> q, stored |-> 0])
          ELSE cache

\* One tick of the clock, as the entries see it.
NextAge(n) == IF n < TooOld THEN n + 1 ELSE n

AgeQuote(q) == [age |-> NextAge(q.age), ttl |-> IF q.ttl > 0 THEN q.ttl - 1 ELSE 0]

AgeEntry(e) ==
    [key |-> e.key, quote |-> AgeQuote(e.quote), stored |-> NextAge(e.stored)]

AgeCache(cache) == [i \in DOMAIN cache |-> AgeEntry(cache[i])]
=============================================================================
