--------------------------- MODULE PresenceProofs ---------------------------
(***************************************************************************)
(* Departed identities fade on schedule, for any number of lifetimes, any  *)
(* periods and clock offsets, and however many messages are delayed.       *)
(***************************************************************************)
EXTENDS Presence, TLAPS

\* What the proof asks of the constants.
PresenceConstants ==
    /\ LastLifetime \in Nat /\ trust_rebuild_seconds \in Nat \ {0}
    /\ heartbeat_interval_seconds \in Nat /\ STALE_MULTIPLIER \in Nat
    /\ ClockOffset \subseteq Int

\* No message and no row says that an identity was heard after it had ended.
HeardInTime(i, t) ==
    /\ t \in Int /\ t <= now + offset
    /\ i # running => t <= ended[i] + offset

PresenceInv ==
    /\ now \in Nat /\ offset \in Int
    /\ lifetimes \in 0..LastLifetime /\ running \in {0, lifetimes}
    /\ started \in [Identity -> Nat] /\ ended \in [Identity -> Nat]
    /\ \A m \in flight :
          /\ m.from \in 1..lifetimes /\ m.session_started_at \in Int
          /\ HeardInTime(m.from, m.timestamp)
    /\ \A i \in DOMAIN peer_presence :
          /\ i \in 1..lifetimes /\ peer_presence[i].session_started_at \in Int
          /\ HeardInTime(i, peer_presence[i].last_heartbeat_at)

\* Sending a message keeps the invariant.
LEMMA SendKeeps ==
    ASSUME PresenceConstants, PresenceInv, NEW status, broadcast_presence(status)
    PROVE  PresenceInv'
<1>1. /\ running \in 1..lifetimes /\ running \in Identity /\ started[running] \in Nat
  BY DEF PresenceInv, PresenceConstants, broadcast_presence, Identity
<1>2. flight' = flight \union {[from |-> running, status |-> status,
                                session_started_at |-> started[running] + offset,
                                timestamp |-> now + offset]}
  BY DEF broadcast_presence, Send
<1>3. UNCHANGED <<now, offset, running, lifetimes, started, ended, peer_presence>>
  BY DEF broadcast_presence, tables
<1>. QED BY <1>1, <1>2, <1>3 DEF PresenceInv, HeardInTime

\* So does the arrival of one.
LEMMA ArrivalKeeps ==
    ASSUME PresenceInv, NEW m \in flight, post_presence(m)
    PROVE  PresenceInv'
<1>1. /\ flight' \subseteq flight
      /\ UNCHANGED <<now, offset, running, lifetimes, started, ended>>
  BY DEF post_presence, machine
<1>2. CASE record_heartbeat(m)
  <2>1. /\ DOMAIN peer_presence' = DOMAIN peer_presence \union {m.from}
        /\ \A i \in DOMAIN peer_presence : i # m.from => peer_presence'[i] = peer_presence[i]
        /\ peer_presence'[m.from].last_heartbeat_at = m.timestamp
        /\ peer_presence'[m.from].session_started_at
             = IF m.from \in DOMAIN peer_presence
               THEN peer_presence[m.from].session_started_at ELSE m.session_started_at
    BY <1>2 DEF record_heartbeat, WithRow
  <2>. QED BY <1>1, <2>1 DEF PresenceInv, HeardInTime
<1>3. CASE UNCHANGED peer_presence
  BY <1>1, <1>3 DEF PresenceInv, HeardInTime
<1>. QED BY <1>2, <1>3 DEF post_presence

\* The invariant is kept by every step.
LEMMA PresenceInvKept ==
    ASSUME PresenceConstants, PresenceInv, [PresenceNext]_presenceVars
    PROVE  PresenceInv'
<1>1. CASE StartUp
  <2>1. /\ lifetimes' = lifetimes + 1 /\ running' = lifetimes + 1 /\ running = 0
        /\ lifetimes < LastLifetime /\ started' = [started EXCEPT ![lifetimes + 1] = now]
        /\ UNCHANGED <<now, offset, ended, flight, peer_presence>>
    BY <1>1 DEF StartUp, network, tables
  <2>2. /\ lifetimes' \in 0..LastLifetime /\ running' = lifetimes'
        /\ \A i \in 1..lifetimes : i \in 1..lifetimes' /\ i # running /\ i # running'
    BY <2>1 DEF PresenceInv, PresenceConstants
  <2>3. started' \in [Identity -> Nat]
    BY <2>1 DEF PresenceInv
  <2>4. \A i \in 1..lifetimes : \A t : HeardInTime(i, t) => HeardInTime(i, t)'
    BY <2>1, <2>2 DEF HeardInTime
  <2>. QED BY <2>1, <2>2, <2>3, <2>4 DEF PresenceInv
<1>2. CASE spawn_heartbeat_loop
  BY <1>2, SendKeeps DEF spawn_heartbeat_loop
<1>3. CASE shutdown_signal
  BY <1>3, SendKeeps DEF shutdown_signal
<1>4. CASE Exit
  <2>1. /\ running' = 0 /\ running # 0 /\ ended' = [ended EXCEPT ![running] = now]
        /\ UNCHANGED <<now, offset, lifetimes, started, flight, peer_presence>>
    BY <1>4 DEF Exit, network, tables
  <2>2. running \in Identity /\ running = lifetimes
    BY <2>1 DEF PresenceInv, PresenceConstants, Identity
  <2>3. ended' \in [Identity -> Nat]
    BY <2>1 DEF PresenceInv
  <2>4. \A i \in 1..lifetimes : ended'[i] = IF i = running THEN now ELSE ended[i]
    BY <2>1 DEF PresenceInv, PresenceConstants, Identity
  <2>. QED BY <2>1, <2>2, <2>3, <2>4 DEF PresenceInv, HeardInTime
<1>5. ASSUME NEW m \in flight, post_presence(m) PROVE PresenceInv'
  BY <1>5, ArrivalKeeps
<1>6. CASE add_address
  BY <1>6 DEF add_address, PresenceInv, HeardInTime, machine, network
<1>7. ASSUME NEW i \in Identity, mark_forked(i) PROVE PresenceInv'
  BY <1>7 DEF mark_forked, PresenceInv, HeardInTime, machine, network
<1>8. CASE PresenceTick
  BY <1>8 DEF PresenceTick, PresenceInv, HeardInTime, machine, network, tables
<1>9. CASE UNCHANGED presenceVars
  BY <1>9 DEF presenceVars, PresenceInv, HeardInTime, machine, network, tables
<1>. QED BY <1>1, <1>2, <1>3, <1>4, <1>5, <1>6, <1>7, <1>8, <1>9 DEF PresenceNext

\* A row whose silence has outlasted both periods scores nothing.
LEMMA SilenceScoresNothing ==
    ASSUME PresenceConstants, NEW row, NEW announced \in BOOLEAN, NEW t \in Int,
           row.session_started_at \in Int, row.last_heartbeat_at \in Int,
           t - row.last_heartbeat_at >= stale_after + R
    PROVE  trust_score(row, announced, t) = 0
<1>. DEFINE silence == t - row.last_heartbeat_at
             earned  == rebuild_fraction(row.session_started_at, row.last_heartbeat_at, announced)
<1>1. R \in Nat \ {0} /\ stale_after \in Nat /\ silence \in Int
  BY DEF PresenceConstants, R, stale_after
<1>2. ~(silence <= stale_after) /\ Clamp(silence - stale_after, 0, R) = R
  BY <1>1 DEF Clamp
<1>3. Clamp(row.last_heartbeat_at - row.session_started_at, 0, R) \in Int
  BY <1>1 DEF Clamp
<1>4. earned \in Int
  BY <1>1, <1>3 DEF rebuild_fraction
<1>5. trust_score(row, announced, t) = (R - R) * earned
  BY <1>2 DEF trust_score
<1>. HIDE DEF earned
<1>. QED BY <1>1, <1>4, <1>5

\* Once it has been gone for the stale period and a whole rebuild period, a
\* departed identity has no score left, whatever arrived late and whatever its
\* successors announced (trust_score, record_heartbeat).
THEOREM DepartedIdentitiesFade ==
    ASSUME PresenceConstants
    PROVE  PresenceSpec => []DepartedFade
<1>1. PresenceInit => PresenceInv
  BY DEF PresenceInit, PresenceInv, PresenceConstants
<1>2. PresenceInv /\ [PresenceNext]_presenceVars => PresenceInv'
  BY PresenceInvKept
<1>3. PresenceInv => DepartedFade
  <2>. SUFFICES ASSUME PresenceInv, NEW i \in Identity, Over(i),
                       now >= ended[i] + offset + stale_after + R
                PROVE  compute_trust(i) = 0
    BY DEF DepartedFade
  <2>1. CASE i \in forked \/ i \notin DOMAIN peer_presence
    BY <2>1 DEF compute_trust
  <2>2. CASE ~(i \in forked \/ i \notin DOMAIN peer_presence)
    <3>. DEFINE row == peer_presence[i]
    <3>1. row.last_heartbeat_at \in Int /\ row.last_heartbeat_at <= ended[i] + offset
      BY <2>2 DEF PresenceInv, HeardInTime, Over
    <3>2. row.session_started_at \in Int /\ now \in Int /\ offset \in Int /\ ended[i] \in Int
      BY <2>2 DEF PresenceInv
    <3>3. R \in Int /\ stale_after \in Int
      BY DEF PresenceConstants, R, stale_after
    <3>4. now - row.last_heartbeat_at >= stale_after + R
      BY <3>1, <3>2, <3>3
    <3>5. announced_restart(i) \in BOOLEAN
      BY DEF announced_restart
    <3>6. trust_score(row, announced_restart(i), now) = 0
      BY <3>1, <3>2, <3>4, <3>5, SilenceScoresNothing
    <3>. QED BY <2>2, <3>6 DEF compute_trust
  <2>. QED BY <2>1, <2>2
<1>. QED BY <1>1, <1>2, <1>3, PTL DEF PresenceSpec

=============================================================================
