------------------------------ MODULE Presence ------------------------------
(***************************************************************************)
(* Ephemeral peer trust as one observer computes it: signed heartbeats of  *)
(* a machine that runs one identity after another at one address, the two  *)
(* tables they are recorded in, and the score read from those.             *)
(*                                                                         *)
(* Messages are delivered late, in any order, or never.  Time is counted   *)
(* on the observer's clock; the sender's clock is off by a constant.       *)
(* Scores, floats in the code, are integers: 1.0 is 10 * R * R.            *)
(***************************************************************************)
EXTENDS Integers, FiniteSets

CONSTANTS
    LastLifetime,                       \* identities are 1..LastLifetime, in turn
    heartbeat_interval_seconds,
    trust_rebuild_seconds,
    announced_restart_grace_seconds,
    STALE_MULTIPLIER,
    MAX_CLOCK_SKEW_SECONDS,
    ClockOffset,                        \* how far the sender's clock may be ahead
    MaxTime, MaxMessages, MaxForked

VARIABLES
    now, offset,
    running, stopping,      \* the identity the machine runs, 0 while it is down
    lifetimes,              \* how many it has had
    started, ended,         \* when they began and ended
    sent, flight,           \* how many messages were sent, and those on their way
    peer_presence,          \* rows, by identity
    address_going_offline,  \* the time of the address's last announcement, if any
    addresses,              \* identities whose address the observer has on record
    forked                  \* identities with the forked flag

machine == <<running, stopping, lifetimes, started, ended>>
tables  == <<peer_presence, address_going_offline, addresses, forked>>
network == <<sent, flight>>
presenceVars    == <<now, offset, machine, network, tables>>

Identity == 1..LastLifetime
R        == trust_rebuild_seconds

Clamp(x, low, high) == IF x < low THEN low ELSE IF x > high THEN high ELSE x

-----------------------------------------------------------------------------
(* The score.                                                              *)

\* In units of 1 / (10 * R).
rebuild_fraction(session_started_at, as_of, announced_restart) ==
    LET rebuilt == Clamp(as_of - session_started_at, 0, R)
    IN  IF announced_restart THEN 3 * R + 7 * rebuilt ELSE 10 * rebuilt

stale_after == heartbeat_interval_seconds * STALE_MULTIPLIER

\* Mutant: silence is not looked at.
score_unfading(row, announced_restart, t) ==
    R * rebuild_fraction(row.session_started_at, t, announced_restart)

trust_score(row, announced_restart, t) ==
    LET silence == t - row.last_heartbeat_at
    IN  IF silence <= stale_after
        THEN R * rebuild_fraction(row.session_started_at, t, announced_restart)
        ELSE (R - Clamp(silence - stale_after, 0, R))
               * rebuild_fraction(row.session_started_at, row.last_heartbeat_at, announced_restart)

announced_restart(i) ==
    /\ i \in addresses
    /\ \E announced_at \in address_going_offline :
          /\ now - announced_at <= announced_restart_grace_seconds
          /\ announced_at <= peer_presence[i].session_started_at

compute_trust(i) ==
    IF i \in forked \/ i \notin DOMAIN peer_presence
    THEN 0
    ELSE trust_score(peer_presence[i], announced_restart(i), now)

\* In ephemeral mode, with an allowing policy, for an identity that claims no
\* cluster.  EPHEMERAL_MINIMUM_TRUST is the least positive float.
federation_allows(i) == compute_trust(i) > 0

-----------------------------------------------------------------------------
(* The machine.                                                            *)

StartUp ==
    /\ running = 0 /\ lifetimes < LastLifetime
    /\ running' = lifetimes + 1 /\ lifetimes' = lifetimes + 1 /\ stopping' = FALSE
    /\ started' = [started EXCEPT ![lifetimes + 1] = now]
    /\ UNCHANGED <<now, offset, ended, network, tables>>

Send(m) ==
    /\ sent < MaxMessages /\ sent' = sent + 1
    /\ flight' = flight \union {m}

broadcast_presence(status) ==
    /\ running # 0
    /\ Send([from |-> running, status |-> status,
             session_started_at |-> started[running] + offset, timestamp |-> now + offset])
    /\ UNCHANGED <<now, offset, running, lifetimes, started, ended, tables>>

\* The loop goes on until the process exits, after the announcement too.
spawn_heartbeat_loop == broadcast_presence("online") /\ UNCHANGED stopping

shutdown_signal == ~stopping /\ stopping' = TRUE /\ broadcast_presence("going_offline")

\* The end of the process, announced or not.
Exit ==
    /\ running # 0
    /\ running' = 0 /\ ended' = [ended EXCEPT ![running] = now]
    /\ UNCHANGED <<now, offset, stopping, lifetimes, started, network, tables>>

-----------------------------------------------------------------------------
(* The observer.                                                           *)

Fresh(m) == m.timestamp - now \in -MAX_CLOCK_SKEW_SECONDS .. MAX_CLOCK_SKEW_SECONDS

WithRow(i, row) ==
    [j \in DOMAIN peer_presence \union {i} |-> IF j = i THEN row ELSE peer_presence[j]]

\* Mutant: a heartbeat counts from when it arrives.
heard_on_arrival(m) ==
    peer_presence' = WithRow(m.from, [session_started_at |-> m.session_started_at,
                                      last_heartbeat_at  |-> now])

record_heartbeat(m) ==
    LET session == IF m.from \in DOMAIN peer_presence
                   THEN peer_presence[m.from].session_started_at
                   ELSE m.session_started_at
    IN  peer_presence' = WithRow(m.from, [session_started_at |-> session,
                                          last_heartbeat_at  |-> m.timestamp])

post_presence(m) ==
    /\ flight' = flight \ {m}
    /\ \/ /\ Fresh(m)
          /\ record_heartbeat(m)
          /\ address_going_offline' = IF m.status = "going_offline" /\ m.from \in addresses
                                      THEN {now}
                                      ELSE address_going_offline
       \/ ~Fresh(m) /\ UNCHANGED <<peer_presence, address_going_offline>>
    /\ UNCHANGED <<now, offset, machine, sent, addresses, forked>>

\* A sync with the address while the identity answers there.
add_address ==
    /\ running # 0 /\ addresses' = addresses \union {running}
    /\ UNCHANGED <<now, offset, machine, network, peer_presence, address_going_offline, forked>>

mark_forked(i) ==
    /\ i <= lifetimes /\ i \notin forked /\ Cardinality(forked) < MaxForked
    /\ forked' = forked \union {i}
    /\ UNCHANGED <<now, offset, machine, network, peer_presence, address_going_offline, addresses>>

PresenceTick ==
    /\ now < MaxTime /\ now' = now + 1
    /\ UNCHANGED <<offset, machine, network, tables>>

PresenceInit ==
    /\ now = 0 /\ offset \in ClockOffset
    /\ running = 0 /\ stopping = FALSE /\ lifetimes = 0
    /\ started = [i \in Identity |-> 0] /\ ended = [i \in Identity |-> 0]
    /\ sent = 0 /\ flight = {}
    /\ peer_presence = <<>> /\ address_going_offline = {} /\ addresses = {} /\ forked = {}

PresenceNext ==
    \/ StartUp \/ spawn_heartbeat_loop \/ shutdown_signal \/ Exit
    \/ \E m \in flight : post_presence(m)
    \/ add_address \/ (\E i \in Identity : mark_forked(i))
    \/ PresenceTick

PresenceSpec == PresenceInit /\ [][PresenceNext]_presenceVars

-----------------------------------------------------------------------------
Over(i) == i <= lifetimes /\ running # i

(* A departed identity is forgotten on schedule: once it has been gone for  *)
(* the stale period and a whole rebuild period its score is zero, whatever  *)
(* arrived late and whatever its successors at the address announced.      *)
(* (trust_score's decay; record_heartbeat stores the sender's timestamp.)  *)
DepartedFade ==
    \A i \in Identity :
        Over(i) /\ now >= ended[i] + offset + stale_after + R => compute_trust(i) = 0

(* A score rises only while the peer is being heard, or with a message or  *)
(* an address that reaches the observer: the passage of time never raises   *)
(* the score of a silent peer (trust_score decays what the peer had when   *)
(* it fell silent).                                                        *)
OnlyTheHeardGain ==
    [][\A i \in DOMAIN peer_presence :
          /\ flight' = flight /\ addresses' = addresses
          /\ now' - peer_presence[i].last_heartbeat_at > stale_after
          => compute_trust(i)' <= compute_trust(i)]_presenceVars

=============================================================================
