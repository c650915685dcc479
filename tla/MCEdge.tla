------------------------------- MODULE MCEdge -------------------------------
(***************************************************************************)
(* The parts of a peer that stand between its event log and whoever calls  *)
(* it: the rate limiter (RateLimit), keys and permissions (GraphService),  *)
(* trust by presence (Presence), cluster claims (ClusterClaims) and the    *)
(* gateway's quorum (Gateway).  They share no state, so a behaviour here   *)
(* is a behaviour of one of them.                                          *)
(***************************************************************************)
EXTENDS RateLimit, GraphService, Presence, ClusterClaims, Gateway

VARIABLE part       \* which of the five it is

\* By how much the time of a peer that is not sound is off: far below the
\* tolerance, or just within its reach.
MCWrongBy == {-3, 1}

\* Callers are alike.
Callers == Permutations(Call)

EdgeVars == <<part, limitVars, graphVars, presenceVars, claimVars, gatewayVars>>

EdgeInit ==
    /\ part \in {"limit", "graph", "presence", "claims", "gateway"}
    /\ LimitInit /\ GraphInit /\ PresenceInit /\ ClaimInit /\ GatewayInit
    \* The parts that stand still need one initial state only.
    /\ part # "presence" => \A x \in ClockOffset : offset <= x
    /\ part # "claims" => \A x \in ClaimOffset : ahead <= x
    /\ part # "gateway" => service = "ntp"

EdgeNext ==
    /\ UNCHANGED part
    /\ \/ /\ part = "limit" /\ LimitNext
          /\ UNCHANGED <<graphVars, presenceVars, claimVars, gatewayVars>>
       \/ /\ part = "graph" /\ GraphNext
          /\ UNCHANGED <<limitVars, presenceVars, claimVars, gatewayVars>>
       \/ /\ part = "presence" /\ PresenceNext
          /\ UNCHANGED <<limitVars, graphVars, claimVars, gatewayVars>>
       \/ /\ part = "claims" /\ ClaimNext
          /\ UNCHANGED <<limitVars, graphVars, presenceVars, gatewayVars>>
       \/ /\ part = "gateway" /\ GatewayNext
          /\ UNCHANGED <<limitVars, graphVars, presenceVars, claimVars>>

EdgeSpec == EdgeInit /\ [][EdgeNext]_EdgeVars

=============================================================================
