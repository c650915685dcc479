------------------------------ MODULE Gateway -------------------------------
(***************************************************************************)
(* A gateway peer with a front end: it answers outside clients from its    *)
(* cache or from a fan-out to its query peers, of which enough must agree. *)
(* Calls run concurrently and share the cache.  Query peers are 1..Peers   *)
(* in the configured order; those in Sound answer with the true time (to   *)
(* within HopError, what half a round trip leaves) or the true content;    *)
(* the others with anything.  A peer that fails is not counted.            *)
(***************************************************************************)
EXTENDS Integers, Sequences, FiniteSets, FiniteSetsExt, SequencesExt, TLC

CONSTANTS
    FrontCall, Peers, Sound,
    fanout_count, quorum_min_agree, ntp_tolerance_ms, ttl,
    HopError, WrongBy, Content, TrueContent,
    MaxGatewayTime

VARIABLES
    service,    \* ntp, or one URL: services share nothing
    wall,       \* the true time
    front,      \* the calls of outside clients
    cache,      \* its entry, if any
    served      \* the last answer given, with what it rests on

gatewayVars == <<service, wall, front, cache, served>>

NotAsked == [state |-> "idle"]
Done == [state |-> "done"]

\* The query peers a fan-out asks.
Asked == 1..(IF fanout_count = 0 THEN Peers ELSE Min({fanout_count, Peers}))

require_quorum_capable == Peers >= quorum_min_agree

-----------------------------------------------------------------------------
(* aggregate_quorum: the values it may return, none without a quorum.      *)
(* `answers` maps the peers that answered to what they said.               *)

AgreeingWith(answers, v) == {p \in DOMAIN answers : answers[p] - v \in -ntp_tolerance_ms .. ntp_tolerance_ms}

\* The largest cluster, the first of equals in the order of the answers.
BestCluster(answers) ==
    LET size(p) == Cardinality(AgreeingWith(answers, answers[p]))
        centre  == CHOOSE p \in DOMAIN answers :
                      \A q \in DOMAIN answers : size(q) < size(p) \/ (size(q) = size(p) /\ p <= q)
    IN  IF DOMAIN answers = {} THEN {} ELSE AgreeingWith(answers, answers[centre])

Median(answers, peers) ==
    LET sorted == SortSeq(SetToSeq(peers), LAMBDA p, q : answers[p] < answers[q])
    IN  answers[sorted[Len(sorted) \div 2 + 1]]

\* Mutant: one more than a tie decides.
ntp_any_majority(answers) ==
    LET best == BestCluster(answers)
    IN  IF 2 * Cardinality(best) <= Cardinality(DOMAIN answers) THEN {} ELSE {Median(answers, best)}

aggregate_ntp(answers) ==
    LET best == BestCluster(answers)
    IN  IF best = {} \/ Cardinality(best) < quorum_min_agree THEN {} ELSE {Median(answers, best)}

\* Of equal groups the map's order, which is arbitrary, picks one.
aggregate_http(answers) ==
    LET group(v) == {p \in DOMAIN answers : answers[p] = v}
    IN  {v \in Content : /\ group(v) # {} /\ Cardinality(group(v)) >= quorum_min_agree
                         /\ \A w \in Content : Cardinality(group(w)) <= Cardinality(group(v))}

aggregate_quorum(answers) ==
    IF service = "ntp" THEN aggregate_ntp(answers) ELSE aggregate_http(answers)

-----------------------------------------------------------------------------
(* The resolution of a front-end call.                                     *)

Answered(value, wait) ==
    served' = {[value |-> value, at |-> wall, wait |-> wait]}

adjust_for_elapsed(entry) ==
    IF service = "ntp" THEN entry.value + (wall - entry.computed_at) ELSE entry.value

CacheFresh(entry) == wall - entry.computed_at < ttl

\* resolve_for_front_end: the cache first, otherwise the fan-out starts.
resolve_for_front_end(c) ==
    /\ require_quorum_capable /\ front[c] = NotAsked
    /\ \/ \E entry \in cache :
             /\ CacheFresh(entry)
             /\ Answered(adjust_for_elapsed(entry), entry.wait)
             /\ front' = [front EXCEPT ![c] = Done]
       \/ /\ \A entry \in cache : ~CacheFresh(entry)
          /\ front' = [front EXCEPT ![c] =
                [state |-> "fanout", answers |-> <<>>, awaited |-> Asked, first |-> MaxGatewayTime]]
          /\ UNCHANGED served
    /\ UNCHANGED <<service, wall, cache>>

\* What peer p may say; its answer counts from the moment it arrives.
Says(p) ==
    IF service = "ntp"
    THEN {wall + e : e \in IF p \in Sound THEN -HopError..HopError ELSE WrongBy}
    ELSE IF p \in Sound THEN {TrueContent} ELSE Content

query_peer(c, p) ==
    /\ front[c].state = "fanout" /\ p \in front[c].awaited
    /\ \/ front' = [front EXCEPT ![c].awaited = @ \ {p}]
       \/ \E v \in Says(p) :
             front' = [front EXCEPT ![c].awaited = @ \ {p},
                                    ![c].answers = (p :> v) @@ @,
                                    ![c].first = Min({@, wall})]
    /\ UNCHANGED <<service, wall, cache, served>>

\* The fan-out waits for every peer.  A quorum is cached, unless the time to
\* live is zero (no-store), and served.
fanout_and_verify(c) ==
    /\ front[c].state = "fanout" /\ front[c].awaited = {}
    /\ LET verdict == aggregate_quorum(front[c].answers)
           wait    == wall - front[c].first
       IN  \/ verdict = {} /\ UNCHANGED <<cache, served>>
           \/ \E v \in verdict :
                 /\ Answered(v, wait)
                 /\ \/ cache' = {[value |-> v, computed_at |-> wall, wait |-> wait]}
                    \/ service = "http" /\ UNCHANGED cache
    /\ front' = [front EXCEPT ![c] = Done]
    /\ UNCHANGED <<service, wall>>

GatewayTick ==
    /\ wall < MaxGatewayTime /\ wall' = wall + 1
    /\ UNCHANGED <<service, front, cache, served>>

GatewayInit ==
    /\ service \in {"ntp", "http"} /\ wall = 0
    /\ front = [c \in FrontCall |-> NotAsked]
    /\ cache = {} /\ served = {}

GatewayNext ==
    \/ GatewayTick
    \/ \E c \in FrontCall :
          \/ resolve_for_front_end(c)
          \/ \E p \in Asked : query_peer(c, p)
          \/ fanout_and_verify(c)

GatewaySpec == GatewayInit /\ [][GatewayNext]_gatewayVars

-----------------------------------------------------------------------------
(* While fewer peers are wrong than must agree, what is served, fresh or    *)
(* from the cache, whichever of the concurrent calls filled it, is sound:  *)
(* content is what a sound peer fetched, and the time is off by at most    *)
(* twice the tolerance and what the fan-out waited for its slowest answer  *)
(* (aggregate_quorum's groups and median; adjust_for_elapsed).             *)
QuorumIsSound ==
    Cardinality(Asked \ Sound) < quorum_min_agree =>
        \A a \in served :
            LET error == 2 * ntp_tolerance_ms + HopError + a.wait
            IN  IF service = "ntp" THEN a.value - a.at \in -error .. error
                ELSE a.value = TrueContent

=============================================================================
