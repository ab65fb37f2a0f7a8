------------------------------ MODULE RateLimit ------------------------------
(***************************************************************************)
(* The in-memory fixed-window rate limiter of app/lib/security/            *)
(* rateLimitGate.ts, which the mutation routes call after authentication.  *)
(* The store is a JavaScript Map: a sequence of entries in insertion       *)
(* order, where writing a key that is present keeps its place.             *)
(***************************************************************************)
EXTENDS Naturals, Sequences, FiniteSets, SequencesExt

CONSTANTS
    MAX_REQUESTS,       \* admissions of one key in one window
    WINDOW_MS,          \* the length of a window
    MAX_STORE_ENTRIES,  \* entries kept before old ones are pruned
    EvictedShare        \* a prune of n entries evicts n divided by this, rounded up

Expired(entry, now) == now - entry.windowStart > WINDOW_MS

CeilingDivision(n, d) == (n + d - 1) \div d

\* A full store loses its expired entries and, if that was not enough, the
\* tenth of its entries whose windows began first (the sort is stable).
pruneExpiredEntries(store, now) ==
    LET live == SelectSeq(store, LAMBDA e : ~Expired(e, now))
        older(i, j) == \/ live[i].windowStart < live[j].windowStart
                       \/ live[i].windowStart = live[j].windowStart /\ i < j
        rank(i) == Cardinality({j \in DOMAIN live : older(j, i)})
        evicted == CeilingDivision(Len(live), EvictedShare)
        kept == {i \in DOMAIN live : rank(i) >= evicted}
    IN IF Len(store) < MAX_STORE_ENTRIES THEN store
       ELSE IF Len(live) < MAX_STORE_ENTRIES THEN live
       ELSE [n \in 1..Cardinality(kept) |->
                live[CHOOSE i \in kept : Cardinality({j \in kept : j < i}) = n - 1]]

PositionOf(store, key) == {i \in DOMAIN store : store[i].key = key}

\* Mutant: the count is compared after the window has already admitted one more.
checkRateLimitLate(store, key, now) ==
    LET s == pruneExpiredEntries(store, now)
        at == PositionOf(s, key)
        i == CHOOSE p \in at : TRUE
        fresh == [key |-> key, count |-> 1, windowStart |-> now]
    IN IF at = {} THEN [ok |-> TRUE, store |-> Append(s, fresh)]
       ELSE IF Expired(s[i], now) THEN [ok |-> TRUE, store |-> [s EXCEPT ![i] = fresh]]
       ELSE IF s[i].count > MAX_REQUESTS THEN [ok |-> FALSE, store |-> s]
       ELSE [ok |-> TRUE, store |-> [s EXCEPT ![i].count = @ + 1]]

checkRateLimit(store, key, now) ==
    LET s == pruneExpiredEntries(store, now)
        at == PositionOf(s, key)
        i == CHOOSE p \in at : TRUE
        fresh == [key |-> key, count |-> 1, windowStart |-> now]
    IN IF at = {} THEN [ok |-> TRUE, store |-> Append(s, fresh)]
       ELSE IF Expired(s[i], now) THEN [ok |-> TRUE, store |-> [s EXCEPT ![i] = fresh]]
       ELSE IF s[i].count >= MAX_REQUESTS THEN [ok |-> FALSE, store |-> s]
       ELSE [ok |-> TRUE, store |-> [s EXCEPT ![i].count = @ + 1]]

=============================================================================
