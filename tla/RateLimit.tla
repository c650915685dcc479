----------------------------- MODULE RateLimit ------------------------------
(***************************************************************************)
(* The fixed-window limiter of the REST, transfer and gateway endpoints:   *)
(* a map from caller to the start of its window and the requests in it,    *)
(* from which expired windows are swept once it has grown.  `unswept` is   *)
(* the map the same requests would leave if nothing were ever swept.       *)
(***************************************************************************)
EXTENDS Integers, Sequences, FiniteSets

CONSTANTS
    Key,
    WINDOW, MAX_REQUESTS_PER_WINDOW, SWEEP_THRESHOLD,
    MaxNow, MaxRequests

ASSUME RateLimitAssumption ==
    WINDOW \in Nat /\ MAX_REQUESTS_PER_WINDOW \in Nat /\ MaxNow \in Nat

VARIABLES
    instant,    \* the monotonic clock
    windows,    \* key -> [started, count], for the keys it has
    unswept,
    admitted    \* key -> the instants of its admitted requests

limitVars == <<instant, windows, unswept, admitted>>

Expired(entry) == instant - entry.started > WINDOW

Keep(w, keys) == [k \in keys |-> w[k]]

\* Mutant: a window is swept in its last instant.
sweep_early(w) ==
    IF Cardinality(DOMAIN w) > SWEEP_THRESHOLD
    THEN Keep(w, {k \in DOMAIN w : instant - w[k].started < WINDOW})
    ELSE w

sweep(w) ==
    IF Cardinality(DOMAIN w) > SWEEP_THRESHOLD
    THEN Keep(w, {k \in DOMAIN w : ~Expired(w[k])})
    ELSE w

\* Mutant: the window slides with every request.
count_sliding(w, k) ==
    IF k \in DOMAIN w /\ instant - w[k].started <= 0
    THEN [started |-> instant, count |-> w[k].count + 1]
    ELSE [started |-> instant, count |-> 1]

\* The entry of k after one more request.
count_request(w, k) ==
    IF k \in DOMAIN w /\ ~Expired(w[k])
    THEN [started |-> w[k].started, count |-> w[k].count + 1]
    ELSE [started |-> instant, count |-> 1]

Record(w, k) ==
    [j \in DOMAIN w \union {k} |-> IF j = k THEN count_request(w, k) ELSE w[j]]

check(k) ==
    /\ windows' = Record(sweep(windows), k)
    /\ unswept' = Record(unswept, k)
    /\ admitted' = IF count_request(sweep(windows), k).count <= MAX_REQUESTS_PER_WINDOW
                   THEN [admitted EXCEPT ![k] = Append(@, instant)]
                   ELSE admitted
    /\ UNCHANGED instant

LimitTick ==
    /\ instant < MaxNow /\ instant' = instant + 1
    /\ UNCHANGED <<windows, unswept, admitted>>

\* How many requests are counted; bounds the instances.
Requests(k) == Len(admitted[k]) + (IF k \in DOMAIN unswept THEN unswept[k].count ELSE 0)

LimitInit ==
    /\ instant = 0 /\ admitted = [k \in Key |-> <<>>]
    /\ windows = [k \in {} |-> 0] /\ unswept = [k \in {} |-> 0]

LimitNext == LimitTick \/ \E k \in Key : Requests(k) < MaxRequests /\ check(k)

LimitSpec == LimitInit /\ [][LimitNext]_limitVars

-----------------------------------------------------------------------------
(* Sweeping is invisible: the next request of any caller is counted, and    *)
(* so admitted or refused, as if no window had ever been dropped.          *)
(* (check: retain keeps exactly the windows that are not reset anyway.)    *)
SweepInvisible ==
    \A k \in Key : count_request(sweep(windows), k) = count_request(unswept, k)

(* Fixed windows admit at most twice the limit in any period of the        *)
(* window's length: of 2 * limit + 1 admitted requests of one caller the   *)
(* last comes more than a window after the first.                          *)
AtMostTwice ==
    \A k \in Key : \A i \in 1..(Len(admitted[k]) - 2 * MAX_REQUESTS_PER_WINDOW) :
        admitted[k][i + 2 * MAX_REQUESTS_PER_WINDOW] - admitted[k][i] > WINDOW

=============================================================================
