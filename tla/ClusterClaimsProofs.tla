------------------------ MODULE ClusterClaimsProofs -------------------------
(***************************************************************************)
(* How old a stale cluster claim is, for any clusters, clock offset and    *)
(* skew, and over unbounded time.                                          *)
(***************************************************************************)
EXTENDS ClusterClaims, TLAPS

\* What the proof asks of the constants.
ClaimConstants == CLUSTER_MAX_CLOCK_SKEW_SECONDS \in Nat /\ ClaimOffset \subseteq Nat

\* A declaration for a cluster the peer has left was made before it left, and
\* what was recorded of it was recorded within the skew of its timestamp.
ClaimInv ==
    /\ time \in Nat /\ ahead \in Nat /\ since \in Nat /\ since <= time
    /\ \A d \in declarations :
          /\ d.timestamp \in Int /\ d.timestamp <= time + ahead
          /\ d.cluster # own_cluster => d.timestamp <= since + ahead
    /\ \A c, d \in peer_cluster_claims : c = d
    /\ \A c \in peer_cluster_claims :
          /\ c.declared_at \in Int /\ c.declared_at <= time
          /\ c.cluster # own_cluster
             => c.declared_at <= since + ahead + CLUSTER_MAX_CLOCK_SKEW_SECONDS

\* The invariant is kept by every step.
LEMMA ClaimInvKept ==
    ASSUME ClaimConstants, ClaimInv, [ClaimNext]_claimVars
    PROVE  ClaimInv'
<1>1. CASE Reconfigure
  BY <1>1 DEF Reconfigure, ClaimInv, ClaimConstants
<1>2. CASE broadcast_cluster_declaration
  BY <1>2 DEF broadcast_cluster_declaration, ClaimInv, ClaimConstants
<1>3. CASE ClaimTick
  BY <1>3 DEF ClaimTick, ClaimInv, ClaimConstants
<1>4. ASSUME NEW d \in declarations, post_cluster(d) PROVE ClaimInv'
  <2>1. CASE verify(d)
    <3>1. time - d.timestamp <= CLUSTER_MAX_CLOCK_SKEW_SECONDS
      BY <2>1 DEF verify
    <3>2. peer_cluster_claims' = {[cluster |-> d.cluster, declared_at |-> time]}
      BY <1>4, <2>1 DEF post_cluster
    <3>. QED BY <1>4, <3>1, <3>2 DEF post_cluster, ClaimInv, ClaimConstants
  <2>2. CASE ~verify(d)
    BY <1>4, <2>2 DEF post_cluster, ClaimInv, ClaimConstants
  <2>. QED BY <2>1, <2>2
<1>5. CASE UNCHANGED claimVars
  BY <1>5 DEF claimVars, ClaimInv
<1>. QED BY <1>1, <1>2, <1>3, <1>4, <1>5 DEF ClaimNext

\* A claim to a cluster the peer has left was recorded within the clock skew of
\* its leaving, however long declarations are delayed (post_cluster).
THEOREM StaleClaimsAreOld ==
    ASSUME ClaimConstants
    PROVE  ClaimSpec => []StaleClaimIsOld
<1>1. ClaimInit => ClaimInv
  BY DEF ClaimInit, ClaimInv, ClaimConstants
<1>2. ClaimInv /\ [ClaimNext]_claimVars => ClaimInv'
  BY ClaimInvKept
<1>3. ClaimInv => StaleClaimIsOld
  BY DEF ClaimInv, StaleClaimIsOld, same_cluster
<1>. QED BY <1>1, <1>2, <1>3, PTL DEF ClaimSpec

=============================================================================
