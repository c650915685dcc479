-------------------------- MODULE RateLimitProofs ---------------------------
(***************************************************************************)
(* Sweeping is invisible, for any callers, window, limit and threshold.    *)
(***************************************************************************)
EXTENDS RateLimit, TLAPS

IsWindows(w) ==
    /\ w = [k \in DOMAIN w |-> w[k]] /\ DOMAIN w \subseteq Key
    /\ \A k \in DOMAIN w : w[k] \in [started : Int, count : Nat]

\* The map agrees with the one that is never swept, from which it lacks only
\* windows that are over.
Agree(w, u) ==
    /\ \A k \in DOMAIN w : k \in DOMAIN u /\ w[k] = u[k]
    /\ \A k \in DOMAIN u \ DOMAIN w : Expired(u[k])

LimitInv ==
    /\ instant \in Int
    /\ IsWindows(windows) /\ IsWindows(unswept) /\ Agree(windows, unswept)

\* A sweep drops only windows that are over.
LEMMA SweepDropsExpired ==
    ASSUME NEW w, IsWindows(w)
    PROVE  /\ IsWindows(sweep(w)) /\ DOMAIN sweep(w) \subseteq DOMAIN w
           /\ \A k \in DOMAIN sweep(w) : sweep(w)[k] = w[k]
           /\ \A k \in DOMAIN w \ DOMAIN sweep(w) : Expired(w[k])
<1>1. CASE Cardinality(DOMAIN w) > SWEEP_THRESHOLD
  <2>1. sweep(w) = [k \in {j \in DOMAIN w : ~Expired(w[j])} |-> w[k]]
    BY <1>1 DEF sweep, Keep
  <2>. QED BY <2>1 DEF IsWindows
<1>2. CASE ~(Cardinality(DOMAIN w) > SWEEP_THRESHOLD)
  <2>1. sweep(w) = w
    BY <1>2 DEF sweep
  <2>. QED BY <2>1
<1>. QED BY <1>1, <1>2

\* Maps that agree go on agreeing when one of them is swept.
LEMMA SweepAgrees ==
    ASSUME NEW w, NEW u, IsWindows(w), IsWindows(u), Agree(w, u)
    PROVE  IsWindows(sweep(w)) /\ Agree(sweep(w), u)
<1>1. /\ IsWindows(sweep(w)) /\ DOMAIN sweep(w) \subseteq DOMAIN w
      /\ \A k \in DOMAIN sweep(w) : sweep(w)[k] = w[k]
      /\ \A k \in DOMAIN w \ DOMAIN sweep(w) : Expired(w[k])
  BY SweepDropsExpired
<1>. QED BY <1>1 DEF Agree

\* The next request is counted alike in maps that agree.
LEMMA CountAgrees ==
    ASSUME NEW w, NEW u, Agree(w, u), NEW k \in Key
    PROVE  count_request(w, k) = count_request(u, k)
BY DEF Agree, count_request

\* Counting a request keeps the shape of a map.
LEMMA RecordKeepsShape ==
    ASSUME NEW w, IsWindows(w), NEW k \in Key, instant \in Int
    PROVE  IsWindows(Record(w, k)) /\ DOMAIN Record(w, k) = DOMAIN w \union {k}
<1>1. count_request(w, k) \in [started : Int, count : Nat]
  BY DEF count_request, IsWindows
<1>2. /\ DOMAIN Record(w, k) = DOMAIN w \union {k}
      /\ Record(w, k) = [j \in DOMAIN Record(w, k) |-> Record(w, k)[j]]
      /\ \A j \in DOMAIN Record(w, k) :
            Record(w, k)[j] = IF j = k THEN count_request(w, k) ELSE w[j]
  BY DEF Record
<1>. QED BY <1>1, <1>2 DEF IsWindows

\* And maps that agree go on agreeing.
LEMMA RecordAgrees ==
    ASSUME NEW w, NEW u, Agree(w, u), NEW k \in Key
    PROVE  Agree(Record(w, k), Record(u, k))
<1>1. count_request(w, k) = count_request(u, k)
  BY CountAgrees
<1>. QED BY <1>1 DEF Agree, Record

\* The invariant holds at first and is kept by every step.
LEMMA LimitInvariant == LimitSpec => []LimitInv
<1>1. LimitInit => LimitInv
  BY DEF LimitInit, LimitInv, IsWindows, Agree
<1>2. LimitInv /\ [LimitNext]_limitVars => LimitInv'
  <2>. SUFFICES ASSUME LimitInv, [LimitNext]_limitVars PROVE LimitInv'
    OBVIOUS
  <2>1. CASE LimitTick
    <3>1. instant' = instant + 1 /\ UNCHANGED <<windows, unswept>>
      BY <2>1 DEF LimitTick
    <3>2. \A k \in DOMAIN unswept \ DOMAIN windows : instant' - unswept[k].started > WINDOW
      BY <3>1, RateLimitAssumption DEF LimitInv, Agree, Expired, IsWindows
    <3>. QED BY <3>1, <3>2 DEF LimitInv, IsWindows, Agree, Expired
  <2>2. ASSUME NEW k \in Key, check(k) PROVE LimitInv'
    <3>1. /\ windows' = Record(sweep(windows), k) /\ unswept' = Record(unswept, k)
          /\ instant' = instant
      BY <2>2 DEF check
    <3>2. IsWindows(sweep(windows)) /\ Agree(sweep(windows), unswept)
      BY SweepAgrees DEF LimitInv
    <3>3. IsWindows(windows') /\ IsWindows(unswept')
      BY <3>1, <3>2, RecordKeepsShape DEF LimitInv
    <3>4. Agree(windows', unswept')
      BY <3>1, <3>2, RecordAgrees
    <3>. QED BY <3>1, <3>3, <3>4 DEF LimitInv, IsWindows, Agree, Expired
  <2>3. CASE UNCHANGED limitVars
    BY <2>3 DEF limitVars, LimitInv, IsWindows, Agree, Expired
  <2>. QED BY <2>1, <2>2, <2>3 DEF LimitNext
<1>. QED BY <1>1, <1>2, PTL DEF LimitSpec

\* Whatever was swept, the next request of any caller is counted, and so
\* admitted or refused, as if no window had ever been dropped (check).
THEOREM SweepingIsInvisible == LimitSpec => []SweepInvisible
<1>1. LimitInv => SweepInvisible
  <2>. SUFFICES ASSUME LimitInv, NEW k \in Key
                PROVE  count_request(sweep(windows), k) = count_request(unswept, k)
    BY DEF SweepInvisible
  <2>1. Agree(sweep(windows), unswept)
    BY SweepAgrees DEF LimitInv
  <2>. QED BY <2>1, CountAgrees
<1>. QED BY <1>1, LimitInvariant, PTL

=============================================================================
