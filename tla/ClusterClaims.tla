--------------------------- MODULE ClusterClaims ----------------------------
(***************************************************************************)
(* The cluster a peer claims, as one observer records it.  The peer keeps  *)
(* its identity and is restarted now and then with another [cluster].name; *)
(* its declarations are delivered late, in any order, or never.  Time is   *)
(* the observer's; the peer's clock is ahead by a constant.                *)
(***************************************************************************)
EXTENDS Integers

CONSTANTS
    Cluster, NoCluster,
    CLUSTER_MAX_CLOCK_SKEW_SECONDS,
    ClaimOffset,                    \* how far the peer's clock may be ahead
    MaxClaimTime

VARIABLES
    time, ahead,
    own_cluster, since,             \* the peer's cluster, and from when
    declarations,                   \* those on their way
    peer_cluster_claims             \* the observer's row, if any

claimVars == <<time, ahead, own_cluster, since, declarations, peer_cluster_claims>>

Reconfigure ==
    /\ own_cluster' \in (Cluster \union {NoCluster}) \ {own_cluster} /\ since' = time
    /\ UNCHANGED <<time, ahead, declarations, peer_cluster_claims>>

broadcast_cluster_declaration ==
    /\ own_cluster # NoCluster
    /\ declarations' = declarations \union {[cluster |-> own_cluster, timestamp |-> time + ahead]}
    /\ UNCHANGED <<time, ahead, own_cluster, since, peer_cluster_claims>>

\* Mutant: a declaration from the future is refused, one of any age is not.
verify_not_future(d) == d.timestamp - time <= CLUSTER_MAX_CLOCK_SKEW_SECONDS

verify(d) ==
    /\ d.timestamp - time <= CLUSTER_MAX_CLOCK_SKEW_SECONDS
    /\ time - d.timestamp <= CLUSTER_MAX_CLOCK_SKEW_SECONDS

post_cluster(d) ==
    /\ declarations' = declarations \ {d}
    /\ peer_cluster_claims' = IF verify(d)
                              THEN {[cluster |-> d.cluster, declared_at |-> time]}
                              ELSE peer_cluster_claims
    /\ UNCHANGED <<time, ahead, own_cluster, since>>

ClaimTick ==
    /\ time < MaxClaimTime /\ time' = time + 1
    /\ UNCHANGED <<ahead, own_cluster, since, declarations, peer_cluster_claims>>

ClaimInit ==
    /\ time = 0 /\ ahead \in ClaimOffset
    /\ own_cluster = NoCluster /\ since = 0
    /\ declarations = {} /\ peer_cluster_claims = {}

ClaimNext ==
    \/ Reconfigure \/ broadcast_cluster_declaration \/ ClaimTick
    \/ \E d \in declarations : post_cluster(d)

ClaimSpec == ClaimInit /\ [][ClaimNext]_claimVars

-----------------------------------------------------------------------------
same_cluster(mine) == mine # NoCluster /\ \E c \in peer_cluster_claims : c.cluster = mine

(* The cluster override errs only by what was recorded around a change: a  *)
(* claim to a cluster the peer has left was recorded within the clock skew  *)
(* of its leaving, however long declarations are delayed.                  *)
(* (post_cluster stores what arrives last, whenever it was declared.)      *)
StaleClaimIsOld ==
    \A mine \in Cluster \ {own_cluster} : same_cluster(mine) =>
        \A c \in peer_cluster_claims : c.declared_at <= since + ahead + CLUSTER_MAX_CLOCK_SKEW_SECONDS

=============================================================================
