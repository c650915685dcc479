------------------------------- MODULE Gossip -------------------------------
(***************************************************************************)
(* Replication: peers that pull each other's chains.                       *)
(*                                                                         *)
(* Each peer's database is taken at the level of OriginChains (PeerStore   *)
(* is shown to implement it): an ingest is one step.  What is modelled in  *)
(* detail is the conversation: heads captured by a hello, compared with    *)
(* local heads read later, ranges fetched later still, and events ingested *)
(* one by one, while the other loops of the same peer, the peer at the     *)
(* other end, crashes and failed calls interleave.  An address is the peer *)
(* that answers at it.                                                     *)
(***************************************************************************)
EXTENDS EventLog, FiniteSetsExt

CONSTANTS
    Needs,                  \* events whose rows the projection of an event looks up
    SizeOf,                 \* the size of an event in a response
    Loop,                   \* gossip loops and one-off syncs
    PeerOf,                 \* the peer a loop runs on
    ClusterLoop,            \* the loops that visit only same-cluster peers
    Bootstrap,              \* the addresses a peer is configured with
    SameCluster,            \* the peers that claim a peer's own cluster
    Federated,              \* the origins a peer's federation policy allows
    Pusher,                 \* peers that also push events (no loop does)
    Forgetful,              \* peers that may lose their database, not their key
    MAX_EVENTS_PER_FETCH,
    MAX_RESPONSE_BYTES,
    MAX_PEERS_PER_RESPONSE,
    MAX_TOTAL_KNOWN_PEERS,
    MaxFaults               \* bound on crashes, failed calls and the like

ASSUME GossipAssumption ==
    /\ Needs \in [Event -> SUBSET Event]
    /\ SizeOf \in [Event -> Nat]
    /\ PeerOf \in [Loop -> Peer]
    /\ ClusterLoop \subseteq Loop
    /\ Bootstrap \in [Peer -> SUBSET Peer]
    /\ SameCluster \in [Peer -> SUBSET Peer]
    /\ Federated \in [Peer -> SUBSET Peer]
    /\ Pusher \subseteq Peer
    /\ Forgetful \subseteq Peer
    /\ {MAX_EVENTS_PER_FETCH, MAX_RESPONSE_BYTES, MAX_PEERS_PER_RESPONSE,
        MAX_TOTAL_KNOWN_PEERS, MaxFaults} \subseteq Nat

VARIABLES
    chain,          \* chain[p][o]: the events of origin o stored by p
    forks,          \* forks[p]: the forks p has on record
    peers,          \* peers[p]: the peers whose key p knows
    addresses,      \* addresses[p]: the peers p has an address row for
    known_heads,    \* known_heads[p][q]: q's last reported head for origin p, or 0
    round,          \* the addresses a loop has yet to visit in its round
    session,        \* the sync a loop is in the middle of
    faults          \* faults so far

store == <<chain, forks>>
directory == <<peers, addresses, known_heads>>
loops == <<round, session>>
vars == <<store, directory, loops, faults>>

Idle == [pc |-> "idle"]

EmptyChains == [o \in Peer |-> <<>>]

Init ==
    /\ chain = [p \in Peer |-> EmptyChains]
    /\ forks = [p \in Peer |-> {}]
    /\ peers = [p \in Peer |-> {}]
    /\ addresses = [p \in Peer |-> {}]
    /\ known_heads = [p \in Peer |-> [q \in Peer |-> 0]]
    /\ round = [l \in Loop |-> {}]
    /\ session = [l \in Loop |-> Idle]
    /\ faults = 0

LastOf(c) == IF c = <<>> THEN NoEvent ELSE c[Len(c)]

StoredBy(p) == UNION {{chain[p][o][n] : n \in DOMAIN chain[p][o]} : o \in Peer}

\* SyncService::local_heads.
local_heads(p) == [o \in Peer |-> Len(chain[p][o])]

\* federation_allows, with no minimum trust: a cluster mate is always allowed.
federation_allows(p, o) == o \in SameCluster[p] \cup Federated[p]

-----------------------------------------------------------------------------
(* Storing an event.                                                       *)

Append1(p, e) == chain' = [chain EXCEPT ![p][OriginOf[e]] = Append(@, e)]

\* commit_local_event, on an event of the peer's own.
Commit(p, e) ==
    /\ OriginOf[e] = p
    /\ validate_chain(Len(chain[p][p]) + 1, LastOf(chain[p][p]), e)
    /\ Needs[e] \subseteq StoredBy(p)
    /\ Append1(p, e)
    /\ UNCHANGED <<forks, directory, loops, faults>>

AlreadyKnown(p, e) ==
    LET c == chain[p][OriginOf[e]]
    IN  SequenceOf[e] \in DOMAIN c /\ c[SequenceOf[e]] = e

Conflicting(p, e) ==
    LET c == chain[p][OriginOf[e]]
    IN  SequenceOf[e] \in DOMAIN c /\ c[SequenceOf[e]] # e

\* Mutant: the event is not linked to the end of the chain.
unlinked(p, e) == Needs[e] \subseteq StoredBy(p)

\* Mutant: the event is stored although its projection fails.
unprojected(p, e) ==
    LET c == chain[p][OriginOf[e]]
    IN  validate_chain(Len(c) + 1, LastOf(c), e)

Applicable(p, e) ==
    LET c == chain[p][OriginOf[e]]
    IN  /\ validate_chain(Len(c) + 1, LastOf(c), e)
        /\ Needs[e] \subseteq StoredBy(p)

\* Mutant: an event that is already stored is taken for a conflict.
known_is_fork(p, e) ==
    IF AlreadyKnown(p, e) \/ Conflicting(p, e)
    THEN /\ forks' = [forks EXCEPT ![p] =
                @ \cup {[peer |-> OriginOf[e], sequence |-> SequenceOf[e],
                         event_a |-> chain[p][OriginOf[e]][SequenceOf[e]], event_b |-> e]}]
         /\ UNCHANGED <<chain, peers>>
    ELSE /\ IF Applicable(p, e) THEN Append1(p, e) ELSE UNCHANGED chain
         /\ UNCHANGED <<forks, peers>>

\* ingest_remote_event by p, whatever the outcome.  A conflict creates the
\* row of its origin, should it have been removed.
ingest_remote_event(p, e) ==
    LET o == OriginOf[e]
        n == SequenceOf[e]
    IN  /\ IF Conflicting(p, e) /\ \A f \in forks[p] : f.peer # o \/ f.sequence # n
           THEN forks' = [forks EXCEPT ![p] =
                    @ \cup {[peer |-> o, sequence |-> n,
                             event_a |-> chain[p][o][n], event_b |-> e]}]
           ELSE UNCHANGED forks
        /\ peers' = IF Conflicting(p, e) THEN [peers EXCEPT ![p] = @ \cup {o}] ELSE peers
        /\ IF Applicable(p, e) THEN Append1(p, e) ELSE UNCHANGED chain

\* post_events: one event of a pushed batch, which nothing else depends on.
post_events(q, p, e) ==
    /\ q \in Pusher \ {p}
    /\ e \in StoredBy(q)
    /\ federation_allows(p, OriginOf[e])
    /\ OriginOf[e] \in peers[p]
    /\ ingest_remote_event(p, e)
    /\ UNCHANGED <<addresses, known_heads, loops, faults>>

-----------------------------------------------------------------------------
(* One loop: rounds of syncs.                                              *)

\* The addresses of a round, read when it starts.
StartRound(l) ==
    LET p == PeerOf[l]
    IN  /\ session[l] = Idle
        /\ round[l] = {}
        /\ round' = [round EXCEPT ![l] =
             IF l \in ClusterLoop THEN addresses[p] \cap SameCluster[p]
                                  ELSE Bootstrap[p] \cup addresses[p]]
        /\ UNCHANGED <<store, directory, session, faults>>

\* sync_with_peer starts: the hello's answer carries the remote heads.
Hello(l, q) ==
    /\ session[l] = Idle
    /\ q \in round[l]
    /\ round' = [round EXCEPT ![l] = @ \ {q}]
    /\ session' = [session EXCEPT ![l] =
         [pc |-> "greeted", peer |-> q, heads |-> local_heads(q)]]
    /\ UNCHANGED <<store, directory, faults>>

\* What discover_peers adds from the answer to /peers: key and addresses.
discover_peers(p, q, told) ==
    /\ peers' = [peers EXCEPT ![p] = @ \cup {q} \cup told]
    /\ addresses' = [addresses EXCEPT ![p] =
         @ \cup {q} \cup (told \cap addresses[q])]

\* The peers of an answer that are acted on: none above the total, and no
\* more than the first few of them; the peer itself is skipped.
Told(p, q) ==
    IF Cardinality(peers[p] \cup {q}) >= MAX_TOTAL_KNOWN_PEERS
    THEN {{}}
    ELSE {S \ {p} : S \in {T \in SUBSET peers[q] :
              Cardinality(T) = IF Cardinality(peers[q]) < MAX_PEERS_PER_RESPONSE
                               THEN Cardinality(peers[q])
                               ELSE MAX_PEERS_PER_RESPONSE}}

\* The origins worth fetching, by comparing the hello's heads with the local
\* ones.
Wanted(p, heads, local) ==
    {o \in Peer : federation_allows(p, o) /\ heads[o] > local[o]}

\* Mutant: the head of another origin is filed as the head for one's own.
record_best_head(p, q, heads) ==
    known_heads' = [known_heads EXCEPT ![p][q] = Max({heads[o] : o \in Peer})]

\* replication::upsert_known_head, for the one origin replication_status reads;
\* a hello lists only origins with an event.
upsert_known_head(p, q, heads) ==
    known_heads' = IF heads[p] = 0 THEN known_heads
                                   ELSE [known_heads EXCEPT ![p][q] = heads[p]]

\* Up to the loop over origins: the remote peer is recorded, its peers are
\* discovered, the local heads are read.
Record(l, told) ==
    LET p == PeerOf[l]
        s == session[l]
    IN  /\ s.pc = "greeted"
        /\ upsert_known_head(p, s.peer, s.heads)
        /\ discover_peers(p, s.peer, told)
        /\ session' = [session EXCEPT ![l] =
             [pc |-> "pull", peer |-> s.peer, heads |-> s.heads,
              local |-> local_heads(p), todo |-> Wanted(p, s.heads, local_heads(p)),
              batch |-> <<>>]]
        /\ UNCHANGED <<store, round>>

\* The loop is between two origins of a sync.
Pulling(l) == session[l].pc = "pull" /\ session[l].batch = <<>>

KeyKnown(p, q, o) == o = q \/ o \in peers[p]

\* No key for the origin: skipped until a later round.
SkipOrigin(l, o) ==
    /\ Pulling(l)
    /\ o \in session[l].todo
    /\ ~ KeyKnown(PeerOf[l], session[l].peer, o)
    /\ session' = [session EXCEPT ![l].todo = @ \ {o}]
    /\ UNCHANGED <<store, directory, round, faults>>

\* Mutant: the page ends one event early, whatever was asked for.
short_page(q, o, from, to) ==
    SubSeq(chain[q][o], from, Min({to, from + MAX_EVENTS_PER_FETCH - 1, Len(chain[q][o])}) - 1)

\* get_events at q: a page of the range, as far as q has it.
get_events(q, o, from, to) ==
    SubSeq(chain[q][o], from, Min({to, from + MAX_EVENTS_PER_FETCH - 1, Len(chain[q][o])}))

\* capped_json: an answer above the cap is an error.
TooLarge(batch) ==
    MapThenSumSet(LAMBDA n : SizeOf[batch[n]], DOMAIN batch) > MAX_RESPONSE_BYTES

\* The events after the local head read earlier, up to the hello's head.
FetchEvents(l, o) ==
    LET s     == session[l]
        batch == get_events(s.peer, o, s.local[o] + 1, s.heads[o])
    IN  /\ Pulling(l)
        /\ o \in s.todo
        /\ KeyKnown(PeerOf[l], s.peer, o)
        /\ session' = [session EXCEPT ![l] =
             [s EXCEPT !.todo = @ \ {o},
                       !.batch = IF TooLarge(batch) THEN <<>> ELSE batch]]
        /\ UNCHANGED <<store, directory, round, faults>>

\* The next event of the batch; a conflict or an error drops the rest of it.
IngestNext(l) ==
    LET p == PeerOf[l]
        s == session[l]
        e == s.batch[1]
    IN  /\ s.pc = "pull"
        /\ s.batch # <<>>
        /\ ingest_remote_event(p, e)
        /\ session' = [session EXCEPT ![l].batch =
             IF AlreadyKnown(p, e) \/ Applicable(p, e) THEN Tail(@) ELSE <<>>]
        /\ UNCHANGED <<addresses, known_heads, round, faults>>

FinishSync(l) ==
    /\ Pulling(l)
    /\ session[l].todo = {}
    /\ session' = [session EXCEPT ![l] = Idle]
    /\ UNCHANGED <<store, directory, round, faults>>

LoopStep(l) ==
    \/ StartRound(l)
    \/ \E q \in Peer : Hello(l, q)
    \/ /\ session[l].pc = "greeted"
       /\ \E told \in Told(PeerOf[l], session[l].peer) : Record(l, told)
       /\ UNCHANGED faults
    \/ \E o \in Peer : SkipOrigin(l, o) \/ FetchEvents(l, o)
    \/ IngestNext(l)
    \/ FinishSync(l)

-----------------------------------------------------------------------------
(* Faults, and the operator who removes a peer.                            *)

Fault == faults < MaxFaults /\ faults' = faults + 1

\* The hello fails: the round goes on with the next address.
HelloFails(l, q) ==
    /\ Fault
    /\ session[l] = Idle
    /\ q \in round[l]
    /\ round' = [round EXCEPT ![l] = @ \ {q}]
    /\ UNCHANGED <<store, directory, session>>

\* The call for peers fails: nothing is discovered and the sync goes on.
DiscoveryFails(l) == Fault /\ Record(l, {})

\* The call for events fails: the sync goes on with the next origin.
FetchFails(l, o) ==
    /\ Fault
    /\ Pulling(l)
    /\ o \in session[l].todo
    /\ KeyKnown(PeerOf[l], session[l].peer, o)
    /\ session' = [session EXCEPT ![l].todo = @ \ {o}]
    /\ UNCHANGED <<store, directory, round>>

\* An ingest fails on the database: the rest of the batch is dropped.
IngestFails(l) ==
    /\ Fault
    /\ session[l].pc = "pull"
    /\ session[l].batch # <<>>
    /\ session' = [session EXCEPT ![l].batch = <<>>]
    /\ UNCHANGED <<store, directory, round>>

\* The loops of a process that exits are gone.
StopLoops(p) ==
    /\ round' = [l \in Loop |-> IF PeerOf[l] = p THEN {} ELSE round[l]]
    /\ session' = [l \in Loop |-> IF PeerOf[l] = p THEN Idle ELSE session[l]]

\* The process exits and is started again on the same data directory.
Crash(p) ==
    /\ Fault
    /\ StopLoops(p)
    /\ UNCHANGED <<store, directory>>

\* The process is started again with its key and without its database.
LoseDatabase(p) ==
    /\ p \in Forgetful
    /\ Fault
    /\ StopLoops(p)
    /\ chain' = [chain EXCEPT ![p] = EmptyChains]
    /\ forks' = [forks EXCEPT ![p] = {}]
    /\ peers' = [peers EXCEPT ![p] = {}]
    /\ addresses' = [addresses EXCEPT ![p] = {}]
    /\ known_heads' = [known_heads EXCEPT ![p] = [q \in Peer |-> 0]]

\* oag peer remove: the peer's row and addresses go, its reported heads stay.
remove_peer(p, q) ==
    /\ q \in peers[p]
    /\ Fault
    /\ peers' = [peers EXCEPT ![p] = @ \ {q}]
    /\ addresses' = [addresses EXCEPT ![p] = @ \ {q}]
    /\ UNCHANGED <<store, known_heads, loops>>

LoopFails(l) ==
    \/ \E q \in Peer : HelloFails(l, q)
    \/ DiscoveryFails(l)
    \/ \E o \in Peer : FetchFails(l, o)
    \/ IngestFails(l)

Next ==
    \/ \E p \in Peer, e \in Event : Commit(p, e)
    \/ \E q, p \in Peer, e \in Event : post_events(q, p, e)
    \/ \E l \in Loop : LoopStep(l) \/ LoopFails(l)
    \/ \E p \in Peer : Crash(p) \/ LoseDatabase(p)
    \/ \E p, q \in Peer : remove_peer(p, q)

\* A loop never waits for another: each call of it returns or fails, and each
\* round follows the last one after its interval.
Fairness == \A l \in Loop : WF_vars(LoopStep(l))

Spec == Init /\ [][Next]_vars

FairSpec == Spec /\ Fairness

-----------------------------------------------------------------------------
(* Properties.                                                             *)

Prefix(c, d) == Len(c) <= Len(d) /\ \A n \in DOMAIN c : c[n] = d[n]

\* Whatever relays it went through, a stored chain is the beginning of the one
\* its origin wrote, as long as the origin kept its database.
RelayedFaithfully ==
    \A p \in Peer, o \in Peer \ Forgetful : Prefix(chain[p][o], chain[o][o])

\* A peer that kept its database is never accused of a fork, however often an
\* event of it is delivered again by loops with stale heads, pushes or retries.
HonestNeverAccused ==
    \A p \in Peer : \A f \in forks[p] : f.peer \in Forgetful

\* replication_status: the peers counted as fully caught up.
fully_caught_up(p) ==
    {q \in peers[p] : known_heads[p][q] # 0 /\ known_heads[p][q] >= Len(chain[p][p])}

\* A peer counted as fully caught up does hold every event of the counting
\* peer's own chain, however old the report is, unless a database was lost.
CaughtUpHoldsAll ==
    \A p \in Peer \ Forgetful : \A q \in fully_caught_up(p) \ Forgetful :
        Prefix(chain[p][p], chain[q][p])

\* A stored event is stored after everything its projection looks up, at every
\* peer, although origins are fetched in any order.
CausallyClosed ==
    \A p \in Peer : \A e \in StoredBy(p) : Needs[e] \subseteq StoredBy(p)

Chains(p) == INSTANCE OriginChains WITH chain <- chain[p], forks <- forks[p]

\* What happens to the database of a peer that keeps it is what OriginChains
\* allows, so the two levels of detail fit together.
PeersAreOriginChains ==
    [][\A p \in Peer \ Forgetful :
         Chains(p)!Next \/ UNCHANGED <<chain[p], forks[p]>>]_vars

\* The peers a peer can learn of, along bootstrap addresses.
Reachable(p) ==
    LET step(S) == S \cup UNION {Bootstrap[q] : q \in S}
        r[n \in 0..Cardinality(Peer)] == IF n = 0 THEN {p} ELSE step(r[n - 1])
    IN  r[Cardinality(Peer)]

\* Anti-entropy: once faults have stopped, a peer comes to hold everything
\* written by the origins it can reach along bootstrap addresses, through
\* relays, pages, events that wait for another origin, failed calls and the
\* loss of its own database.
EventsReachEveryone ==
    \A p \in Peer : \A o \in Reachable(p) \ Forgetful :
        <>[](chain[p][o] = chain[o][o])
=============================================================================
