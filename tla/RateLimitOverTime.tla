-------------------------- MODULE RateLimitOverTime --------------------------
(***************************************************************************)
(* The rate limiter of RateLimit driven by several callers and a clock.    *)
(***************************************************************************)
EXTENDS RateLimit

CONSTANTS
    Keys,     \* route family, tenant, user and client address together
    MaxNow    \* the bound on the clock

VARIABLES
    store,     \* the Map
    now,       \* Date.now()
    watched,   \* the key whose admissions are recorded
    admitted   \* when watched was admitted since its entry was last evicted

vars == <<store, now, watched, admitted>>

Init == /\ store = <<>>
        /\ now = 0
        /\ watched \in Keys
        /\ admitted = <<>>

Forgets(key) ==
    LET pruned == pruneExpiredEntries(store, now)
    IN /\ \E i \in PositionOf(store, key) : ~Expired(store[i], now)
       /\ PositionOf(pruned, key) = {}

Call(k) ==
    LET r == checkRateLimit(store, k, now)
        known == IF Forgets(watched) THEN <<>> ELSE admitted
    IN /\ store' = r.store
       /\ admitted' = IF r.ok /\ k = watched THEN Append(known, now) ELSE known
       /\ UNCHANGED <<now, watched>>

Tick == /\ now < MaxNow
        /\ now' = now + 1
        /\ UNCHANGED <<store, watched, admitted>>

Next == Tick \/ \E k \in Keys : Call(k)

Spec == Init /\ [][Next]_vars

\* No call of checkRateLimit leaves more entries than MAX_STORE_ENTRIES, so
\* the process-wide store cannot grow with the number of callers.
StoreStaysBounded == Len(store) <= MAX_STORE_ENTRIES

AdmittedWithin(from, to) == Cardinality({i \in DOMAIN admitted : admitted[i] \in from..to})

\* Until pruneExpiredEntries evicts its entry, a caller is admitted at most
\* twice MAX_REQUESTS times in any stretch of WINDOW_MS: the windows are
\* fixed, and two of them may meet in the stretch.
AdmissionsAreLimited ==
    \A from \in 0..now : AdmittedWithin(from, from + WINDOW_MS) <= 2 * MAX_REQUESTS

\* The window checkRateLimit counts holds exactly the admissions of its key
\* since it began, whatever was pruned, reset or evicted around it.
WindowsCountTheirAdmissions ==
    \A i \in PositionOf(store, watched) :
        AdmittedWithin(store[i].windowStart, store[i].windowStart + WINDOW_MS)
            = store[i].count

=============================================================================
