----------------------------- MODULE PeerStore ------------------------------
(***************************************************************************)
(* One peer's database and everything that writes it: local commits,       *)
(* ingestion of replicated events, rebuilds, redactions and the peer       *)
(* table, run by concurrent tasks of one or more processes (oag serve and  *)
(* the oag command line share the database file).                          *)
(*                                                                         *)
(* Transactions.  The pool begins SQLite transactions DEFERRED in WAL      *)
(* mode: the first read fixes a snapshot, the first write upgrades the     *)
(* transaction and is refused with SQLITE_BUSY_SNAPSHOT when another       *)
(* connection has committed since the snapshot was taken.  A transaction   *)
(* that reads before it writes is two steps here: a Begin step that takes  *)
(* the snapshot and records what was read, and an End step that writes and *)
(* commits.  Between an upgrade and its commit no one else can write and   *)
(* readers do not see uncommitted rows, so nothing is lost by making the   *)
(* upgrade and the commit one step.  stale is the set of tasks whose open  *)
(* transaction has been overtaken by the commit of another connection.     *)
(***************************************************************************)
EXTENDS Projection

CONSTANTS
    Self,           \* the peer that owns this database
    Contact,        \* the peers a hello may be received from
    Process,        \* processes that have the database open
    CommandLine,    \* those that run one oag command, not oag serve
    Task,           \* concurrent tasks
    ProcessOf,      \* the process a task runs in
    NoTask          \* value of a free commit lock

ASSUME TaskAssumption ==
    /\ Self \in Peer
    /\ Contact \subseteq Peer
    /\ CommandLine \subseteq Process
    /\ ProcessOf \in [Task -> Process]
    /\ NoTask \notin Task

VARIABLES
    log,            \* table events, in rowid order
    contiguous,     \* event_origins.highest_contiguous_sequence (0: no row)
    head,           \* event_origins.head_event_id
    graph,          \* the projection tables
    event_refs,     \* table event_refs
    peers,          \* table peers: "absent", "known" or "forked"
    peer_forks,     \* table peer_forks
    redactions,     \* table redactions
    actor_redactions,   \* table actor_identity_uri_redactions
    tx,             \* the open transaction of each task
    stale,          \* the tasks whose snapshot is no longer current
    commit_lock     \* GraphService.commit_lock of each process

chainVars == <<log, contiguous, head, graph, event_refs>>
peerVars  == <<peers, peer_forks>>
redactVars == <<redactions, actor_redactions>>
vars == <<chainVars, peerVars, redactVars, tx, stale, commit_lock>>

-----------------------------------------------------------------------------

\* An actor's id is a public key or the id of the declaring event; the ids
\* the redaction operations take are drawn from the ids payloads can mention.
ActorIds == {actor_id(e) : e \in {d \in Event : PayloadOf[d].type = "ACTOR_DECLARE"}}

Idle == [op |-> "idle"]

Init ==
    /\ log = <<>>
    /\ contiguous = [o \in Peer |-> 0]
    /\ head = [o \in Peer |-> NoEvent]
    /\ graph = EmptyGraph
    /\ event_refs = {}
    /\ peers = [p \in Peer |-> "absent"]
    /\ peer_forks = {}
    /\ redactions = {}
    /\ actor_redactions = {}
    /\ tx = [t \in Task |-> Idle]
    /\ stale = {}
    /\ commit_lock = [p \in Process |-> NoTask]

\* Mutant: a transaction is upgraded whatever happened since its snapshot.
commit_overtaken(t) ==
    /\ tx' = [tx EXCEPT ![t] = Idle]
    /\ stale' = {u \in Task \ {t} : tx[u] # Idle}

\* Mutant: other snapshots are believed current after a commit.
commit_unnoticed(t) ==
    /\ t \notin stale
    /\ tx' = [tx EXCEPT ![t] = Idle]
    /\ stale' = stale

\* t's transaction writes and commits: only a current snapshot can be
\* upgraded, and every other open one is stale from here on.
CommitTransaction(t) ==
    /\ t \notin stale
    /\ tx' = [tx EXCEPT ![t] = Idle]
    /\ stale' = {u \in Task \ {t} : tx[u] # Idle}

\* Mutant: a finished transaction keeps its mark.
end_marked(t) ==
    /\ tx' = [tx EXCEPT ![t] = Idle]
    /\ stale' = stale

\* t's transaction ends without a write: rolled back, or read only.
EndTransaction(t) ==
    /\ tx' = [tx EXCEPT ![t] = Idle]
    /\ stale' = stale \ {t}

\* Mutant: the lock is not released.
keep_locked(t) == commit_lock

\* The guard returned by commit_lock.lock() is dropped with the call.
Unlock(t) ==
    [p \in Process |-> IF commit_lock[p] = t THEN NoTask ELSE commit_lock[p]]

\* Mutant: the sequence expected next is stored instead of the last one.
advance_to_next(e) ==
    /\ contiguous' = [contiguous EXCEPT ![OriginOf[e]] = SequenceOf[e] + 1]
    /\ head' = [head EXCEPT ![OriginOf[e]] = e]

\* events::advance_origin, after a successful projection.
advance_origin(e) ==
    /\ contiguous' = [contiguous EXCEPT ![OriginOf[e]] = SequenceOf[e]]
    /\ head' = [head EXCEPT ![OriginOf[e]] = e]

\* insert, project, advance the head: the writes a commit and an ingest share.
Store(e) ==
    /\ log' = insert_event(log, e)
    /\ graph' \in project(graph, e)
    /\ event_refs' = event_refs \cup ({e} \X refs(e))
    /\ advance_origin(e)

-----------------------------------------------------------------------------
(* GraphService::commit_event and commit_local_event.                      *)

\* Take the commit lock of this process, read the own origin's head and sign
\* the next event; its payload, and so its id, is the caller's.
BeginCommit(t, e) ==
    /\ tx[t].op = "idle"
    /\ commit_lock[ProcessOf[t]] = NoTask
    /\ OriginOf[e] = Self
    /\ SignerOf[e] = Self
    /\ validate_chain(contiguous[Self] + 1, head[Self], e)
    /\ commit_lock' = [commit_lock EXCEPT ![ProcessOf[t]] = t]
    /\ tx' = [tx EXCEPT ![t] = [op |-> "commit", event |-> e]]
    /\ UNCHANGED <<chainVars, peerVars, redactVars, stale>>

\* Insert, project and advance in one transaction.
EndCommit(t) ==
    /\ tx[t].op = "commit"
    /\ insert_event(log, tx[t].event) # log
    /\ Store(tx[t].event)
    /\ CommitTransaction(t)
    /\ commit_lock' = Unlock(t)
    /\ UNCHANGED <<peerVars, redactVars>>

-----------------------------------------------------------------------------
(* ingest_remote_event.                                                    *)

\* The event's signature and origin are checked against the key of peer k,
\* then a transaction reads what is stored at the slot and the origin's head.
BeginIngest(t, e, k) ==
    /\ tx[t].op = "idle"
    /\ verify_and_derive_id(e, k)
    /\ origin_matches_key(e, k)
    /\ tx' = [tx EXCEPT ![t] =
                [op |-> "ingest", event |-> e,
                 existing |-> find_event_id_at(log, OriginOf[e], SequenceOf[e]),
                 next |-> contiguous[OriginOf[e]] + 1,
                 head |-> head[OriginOf[e]]]]
    /\ UNCHANGED <<chainVars, peerVars, redactVars, stale, commit_lock>>

\* The very same event is there: AlreadyKnown, nothing is written.
IngestKnown(t) ==
    /\ tx[t].op = "ingest"
    /\ tx[t].existing = tx[t].event
    /\ EndTransaction(t)
    /\ UNCHANGED <<chainVars, peerVars, redactVars, commit_lock>>

\* Mutant: the two conflicting ids are recorded the wrong way round.
fork_swapped(t) ==
    LET e == tx[t].event
        o == OriginOf[e]
    IN  /\ tx[t].op = "ingest"
        /\ tx[t].existing \notin {NoEvent, e}
        /\ peers' = [peers EXCEPT ![o] = "forked"]
        /\ peer_forks' = peer_forks \cup
                {[peer |-> o, sequence |-> SequenceOf[e],
                  event_a |-> e, event_b |-> tx[t].existing]}
        /\ CommitTransaction(t)
        /\ UNCHANGED <<chainVars, redactVars, commit_lock>>

\* Mutant: the incoming event replaces the stored one.
fork_replaces(t) ==
    LET e == tx[t].event
    IN  /\ tx[t].op = "ingest"
        /\ tx[t].existing \notin {NoEvent, e}
        /\ log' = [i \in DOMAIN log |-> IF log[i] = tx[t].existing THEN e ELSE log[i]]
        /\ CommitTransaction(t)
        /\ UNCHANGED <<contiguous, head, graph, event_refs, peerVars, redactVars,
                       commit_lock>>

\* Another event is there: Forked.  The peer row is created if need be, the
\* first fork at this slot is recorded (INSERT OR IGNORE), the peer flagged.
IngestForked(t) ==
    LET e == tx[t].event
        o == OriginOf[e]
    IN  /\ tx[t].op = "ingest"
        /\ tx[t].existing \notin {NoEvent, e}
        /\ peers' = [peers EXCEPT ![o] = "forked"]
        /\ peer_forks' =
             IF \E f \in peer_forks : f.peer = o /\ f.sequence = SequenceOf[e]
             THEN peer_forks
             ELSE peer_forks \cup
                    {[peer |-> o, sequence |-> SequenceOf[e],
                      event_a |-> tx[t].existing, event_b |-> e]}
        /\ CommitTransaction(t)
        /\ UNCHANGED <<chainVars, redactVars, commit_lock>>

\* The slot is free and the event continues the chain: Applied.
IngestApplied(t) ==
    LET e == tx[t].event
    IN  /\ tx[t].op = "ingest"
        /\ tx[t].existing = NoEvent
        /\ validate_chain(tx[t].next, tx[t].head, e)
        /\ Store(e)
        /\ CommitTransaction(t)
        /\ UNCHANGED <<peerVars, redactVars, commit_lock>>

\* The slot is free and the event does not continue the chain: an error.
IngestRejected(t) ==
    /\ tx[t].op = "ingest"
    /\ tx[t].existing = NoEvent
    /\ ~ validate_chain(tx[t].next, tx[t].head, tx[t].event)
    /\ EndTransaction(t)
    /\ UNCHANGED <<chainVars, peerVars, redactVars, commit_lock>>

-----------------------------------------------------------------------------
(* GraphService::rebuild_projection (the command line only).               *)

\* Its first statement is a DELETE, so the write lock is taken up front and
\* the whole rebuild is one step; the event log and the tombstones stay.  With
\* nothing to delete and nothing to insert no page is written, and no other
\* snapshot is overtaken.
Rebuild(t) ==
    /\ ProcessOf[t] \in CommandLine
    /\ tx[t].op = "idle"
    /\ \E g \in replay(log) :
          graph' = reapply_redactions(g, redactions, actor_redactions)
    /\ event_refs' = event_refs \cup
                       UNION {{log[i]} \X refs(log[i]) : i \in DOMAIN log}
    /\ IF graph = EmptyGraph /\ graph' = EmptyGraph
       THEN EndTransaction(t)
       ELSE CommitTransaction(t)
    /\ UNCHANGED <<log, contiguous, head, peerVars, redactVars, commit_lock>>

-----------------------------------------------------------------------------
(* GraphService::redact_evidence and redact_actor_identity_uri.            *)

\* A second redaction of the same id is refused (AlreadyRedacted).
BeginRedactEvidence(t, id) ==
    /\ tx[t].op = "idle"
    /\ id \notin redactions
    /\ tx' = [tx EXCEPT ![t] = [op |-> "redact_evidence", id |-> id]]
    /\ UNCHANGED <<chainVars, peerVars, redactVars, stale, commit_lock>>

\* Blank the row and leave a tombstone; without a row, NotFound rolls back.
EndRedactEvidence(t) ==
    /\ tx[t].op = "redact_evidence"
    /\ tx[t].id \in DOMAIN graph.evidence
    /\ graph' = redact_evidence(graph, {tx[t].id})
    /\ redactions' = redactions \cup {tx[t].id}
    /\ CommitTransaction(t)
    /\ UNCHANGED <<log, contiguous, head, event_refs, peerVars,
                   actor_redactions, commit_lock>>

BeginRedactActor(t, id) ==
    /\ tx[t].op = "idle"
    /\ id \notin actor_redactions
    /\ tx' = [tx EXCEPT ![t] = [op |-> "redact_actor", id |-> id]]
    /\ UNCHANGED <<chainVars, peerVars, redactVars, stale, commit_lock>>

EndRedactActor(t) ==
    /\ tx[t].op = "redact_actor"
    /\ tx[t].id \in DOMAIN graph.actors
    /\ graph' = redact_identity_uri(graph, {tx[t].id})
    /\ actor_redactions' = actor_redactions \cup {tx[t].id}
    /\ CommitTransaction(t)
    /\ UNCHANGED <<log, contiguous, head, event_refs, peerVars,
                   redactions, commit_lock>>

-----------------------------------------------------------------------------
(* The peers table.                                                        *)

\* peers::upsert_peer after a hello: the row is created, or its forked flag
\* kept.
UpsertPeer(t, p) ==
    /\ tx[t].op = "idle"
    /\ peers' = [peers EXCEPT ![p] = IF @ = "absent" THEN "known" ELSE @]
    /\ CommitTransaction(t)
    /\ UNCHANGED <<chainVars, peer_forks, redactVars, commit_lock>>

RemovePeer(t, p) ==
    /\ ProcessOf[t] \in CommandLine
    /\ tx[t].op = "idle"
    /\ peers[p] # "absent"
    /\ peers' = [peers EXCEPT ![p] = "absent"]
    /\ CommitTransaction(t)
    /\ UNCHANGED <<chainVars, peer_forks, redactVars, commit_lock>>

-----------------------------------------------------------------------------
(* Failure.                                                                *)

\* A transaction is given up: the snapshot was overtaken, the lock could not
\* be had in time, a check or the projection failed, or the caller went away.
Abort(t) ==
    /\ tx[t].op # "idle"
    /\ EndTransaction(t)
    /\ commit_lock' = Unlock(t)
    /\ UNCHANGED <<chainVars, peerVars, redactVars>>

\* A process stops: its transactions and its lock are gone, the file stays.
Crash(p) ==
    /\ tx' = [t \in Task |-> IF ProcessOf[t] = p THEN Idle ELSE tx[t]]
    /\ stale' = {t \in stale : ProcessOf[t] # p}
    /\ commit_lock' = [commit_lock EXCEPT ![p] = NoTask]
    /\ UNCHANGED <<chainVars, peerVars, redactVars>>

-----------------------------------------------------------------------------

TaskStep(t) ==
    \/ \E e \in Event : BeginCommit(t, e)
    \/ EndCommit(t)
    \/ \E e \in Event, k \in Peer : BeginIngest(t, e, k)
    \/ IngestKnown(t)
    \/ IngestForked(t)
    \/ IngestApplied(t)
    \/ IngestRejected(t)
    \/ Rebuild(t)
    \/ \E id \in Event : BeginRedactEvidence(t, id)
    \/ EndRedactEvidence(t)
    \/ \E id \in ActorIds : BeginRedactActor(t, id)
    \/ EndRedactActor(t)
    \/ \E p \in Contact : UpsertPeer(t, p)
    \/ \E p \in Peer : RemovePeer(t, p)
    \/ Abort(t)

Next == \/ \E t \in Task : TaskStep(t)
        \/ \E p \in Process : Crash(p)

Spec == Init /\ [][Next]_vars

-----------------------------------------------------------------------------
(* Properties.                                                             *)

Stored == {log[i] : i \in DOMAIN log}

CommitTx == [op : {"commit"}, event : Event]
IngestTx == [op : {"ingest"}, event : Event,
             existing : Event \cup {NoEvent}, next : Nat,
             head : Event \cup {NoEvent}]
RedactTx == [op : {"redact_evidence"}, id : Event]
                \cup [op : {"redact_actor"}, id : ActorIds]
Transaction == {Idle} \cup CommitTx \cup IngestTx \cup RedactTx

Fork == [peer : Peer, sequence : Nat, event_a : Event, event_b : Event]

\* Every table and every open transaction has the shape the schema and the
\* code give it (the graph's rows are constrained by ProjectionIsReplay).
TypeOK ==
    /\ log \in Seq(Event)
    /\ contiguous \in [Peer -> Nat]
    /\ head \in [Peer -> Event \cup {NoEvent}]
    /\ peers \in [Peer -> {"absent", "known", "forked"}]
    /\ peer_forks \subseteq Fork
    /\ redactions \subseteq Event
    /\ actor_redactions \subseteq ActorIds
    /\ tx \in [Task -> Transaction]
    /\ stale \subseteq {t \in Task : tx[t] # Idle}
    /\ commit_lock \in [Process -> Task \cup {NoTask}]

\* UNIQUE (origin_peer_id, sequence): no two rows share a slot.
OneEventPerSlot ==
    \A i, j \in DOMAIN log :
        /\ OriginOf[log[i]] = OriginOf[log[j]]
        /\ SequenceOf[log[i]] = SequenceOf[log[j]]
        => i = j

\* The sequences stored for an origin are exactly 1 up to its
\* highest_contiguous_sequence.
NoGaps ==
    /\ \A i \in DOMAIN log : SequenceOf[log[i]] \in 1..contiguous[OriginOf[log[i]]]
    /\ \A o \in Peer : \A n \in 1..contiguous[o] :
          \E i \in DOMAIN log : OriginOf[log[i]] = o /\ SequenceOf[log[i]] = n

\* An event links to the event before it in its chain, stored earlier.
LinkedToPredecessor ==
    \A i \in DOMAIN log :
        IF SequenceOf[log[i]] = 1
        THEN PreviousOf[log[i]] = NoEvent
        ELSE \E j \in 1..(i - 1) :
                /\ PreviousOf[log[i]] = log[j]
                /\ OriginOf[log[j]] = OriginOf[log[i]]
                /\ SequenceOf[log[j]] + 1 = SequenceOf[log[i]]

\* The head is the stored event with the highest sequence of its origin.
HeadIsLast ==
    \A o \in Peer :
        IF contiguous[o] = 0
        THEN head[o] = NoEvent
        ELSE /\ head[o] \in Stored
             /\ OriginOf[head[o]] = o
             /\ SequenceOf[head[o]] = contiguous[o]

\* Whatever commits, ingests, rebuilds and crashes race in whichever
\* processes, each origin's events form one gap-free hash chain that ends at
\* the recorded head (commit_local_event, ingest_remote_event).
ChainIntegrity == OneEventPerSlot /\ NoGaps /\ LinkedToPredecessor /\ HeadIsLast

\* A transaction whose snapshot has not been overtaken has read values that
\* are still those of the tables (why ChainIntegrity is inductive).
SnapshotCurrent ==
    \A t \in Task \ stale :
        LET e == tx[t].event
            o == OriginOf[e]
        IN  /\ tx[t].op = "commit" =>
                 /\ o = Self
                 /\ validate_chain(contiguous[Self] + 1, head[Self], e)
            /\ tx[t].op = "ingest" =>
                 /\ tx[t].existing = find_event_id_at(log, o, SequenceOf[e])
                 /\ tx[t].next = contiguous[o] + 1
                 /\ tx[t].head = head[o]

\* A process holds its commit lock exactly while one of its local commits is
\* open: no error, abort or crash leaks it, and no two commits of a process
\* are open together (GraphService::commit_event).
LockMatchesCommit ==
    \A t \in Task : (tx[t].op = "commit") = (commit_lock[ProcessOf[t]] = t)

\* An event waiting to be stored has passed the signature and origin checks.
PendingAuthentic ==
    \A t \in Task : tx[t].op \in {"commit", "ingest"} =>
        SignerOf[tx[t].event] = OriginOf[tx[t].event]

\* Only events signed by the key of the peer they claim to come from are ever
\* stored (ingest_remote_event's OriginKeyMismatch check).
OnlyAuthentic == \A e \in Stored : SignerOf[e] = OriginOf[e]

\* The live graph is what a rebuild would produce: replaying the log in rowid
\* order never fails, and reapplying the tombstones gives the current tables
\* (rebuild_projection: "can only ever reproduce what a peer already had").
ProjectionIsReplay ==
    \E g \in replay(log) :
        graph = reapply_redactions(g, redactions, actor_redactions)

\* A redacted text never comes back, whether by a rebuild that raced the
\* redaction or by a new declaration of the same actor.
RedactedStaysBlank ==
    /\ \A id \in redactions : graph.evidence[id].text = Blank
    /\ \A id \in actor_redactions : graph.actors[id] = Blank

\* Recorded fork evidence is about a stored event and a different event for
\* its slot that was never stored (ingest_remote_event's Forked branch).
ForkEvidenceSound ==
    \A f \in peer_forks :
        /\ f.event_a \in Stored
        /\ f.event_b \notin Stored
        /\ \A e \in {f.event_a, f.event_b} :
              OriginOf[e] = f.peer /\ SequenceOf[e] = f.sequence

Challenges(a, table) == \E id \in DOMAIN table : table[id].assertion = a

\* An assertion is active exactly when nobody disputed, retracted or
\* superseded it, and any other status is that of one of its audit rows
\* (set_status is a cache of the append-only audit tables).
StatusHasCause ==
    \A a \in DOMAIN graph.assertions :
        LET status == graph.assertions[a].status
            disputed == Challenges(a, graph.disputes)
            retracted == Challenges(a, graph.retractions)
            superseded == Challenges(a, graph.supersessions)
        IN  /\ (status = "active") = ~ (disputed \/ retracted \/ superseded)
            /\ status = "disputed" => disputed
            /\ status = "retracted" => retracted
            /\ status = "superseded" => superseded

\* The history index and the graph agree, in whatever order events of several
\* origins arrived and after any rebuild: what an indexed event mentions is in
\* the graph, and every assertion and node of the graph has a history
\* (add_ref in the projector, history_for).
HistoryResolves ==
    LET Indexed(kind) == {r[2][2] : r \in {x \in event_refs : x[2][1] = kind}}
    IN  /\ \A r \in event_refs : r[1] \in Stored
        /\ Indexed("assertion") = DOMAIN graph.assertions
        /\ Indexed("node") = DOMAIN graph.nodes
        /\ Indexed("edge") = graph.edges

\* No step removes, reorders or replaces a stored event: the log only ever
\* grows at its end, and by one event at a time.
AppendOnly ==
    [][\/ log' = log
       \/ \E e \in Event : log' = Append(log, e)]_vars

\* A revoked key never authenticates again, rebuilds included
\* (project_actor_key_revoke, project_actor_key_add).
RevocationSticks ==
    [][\A k \in DOMAIN graph.keys : graph.keys[k].revoked =>
            k \in DOMAIN graph'.keys /\ graph'.keys[k].revoked]_vars

\* The chain of an origin as readers of the table see it, slot by slot.
ChainOf(o) == [n \in 1..contiguous[o] |-> find_event_id_at(log, o, n)]

Chains == INSTANCE OriginChains WITH chain <- [o \in Peer |-> ChainOf(o)],
                                     forks <- peer_forks

\* To whoever reads only the chains and the fork records, all of this is
\* OriginChains: each step extends one chain by one signed, linked event, or
\* records one first fork, or changes nothing.
ImplementsOriginChains == Chains!Spec

=============================================================================
