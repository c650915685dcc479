-------------------------- MODULE PeerStoreProofs ---------------------------
(***************************************************************************)
(* Theorems about PeerStore, for every set of peers, envelopes, processes  *)
(* and tasks.  The projector is never unfolded: the results do not depend  *)
(* on what an event does to the graph, only on its failing or succeeding   *)
(* inside the transaction that stores it.                                  *)
(***************************************************************************)
EXTENDS PeerStore, TLAPS

-----------------------------------------------------------------------------
(* Lemmas on the shapes of transactions.                                   *)

\* An open transaction is in the set its op names.
LEMMA TxShapes ==
    ASSUME NEW x \in Transaction
    PROVE  /\ x.op = "commit" => x \in CommitTx
           /\ x.op = "ingest" => x \in IngestTx
           /\ x.op \in {"redact_evidence", "redact_actor"} => x \in RedactTx
           /\ (x.op = "idle") = (x = Idle)
  BY DEF Transaction, Idle, CommitTx, IngestTx, RedactTx

\* However a transaction ends, the transactions left are well typed and the
\* stale ones are among the open ones.
LEMMA EndType ==
    ASSUME TypeOK, NEW t \in Task, CommitTransaction(t) \/ EndTransaction(t)
    PROVE  /\ tx' \in [Task -> Transaction]
           /\ stale' \subseteq {u \in Task : tx'[u] # Idle}
  <1>1. Idle \in Transaction
    BY DEF Transaction
  <1> QED
    BY <1>1 DEF TypeOK, CommitTransaction, EndTransaction

\* Beginning one keeps both facts too: only an idle task begins.
LEMMA BeginType ==
    ASSUME TypeOK, NEW t \in Task, NEW x \in Transaction,
           x # Idle, tx' = [tx EXCEPT ![t] = x], stale' = stale
    PROVE  /\ tx' \in [Task -> Transaction]
           /\ stale' \subseteq {u \in Task : tx'[u] # Idle}
  BY DEF TypeOK

\* Releasing a lock leaves a well-typed lock table.
LEMMA UnlockType ==
    ASSUME commit_lock \in [Process -> Task \cup {NoTask}], NEW t \in Task
    PROVE  Unlock(t) \in [Process -> Task \cup {NoTask}]
  BY DEF Unlock

\* Inserting an event keeps the events table a sequence of events.
LEMMA InsertType ==
    ASSUME NEW l \in Seq(Event), NEW e \in Event
    PROVE  insert_event(l, e) \in Seq(Event)
  BY DEF insert_event

\* What appending an event does to the rows of the table.
LEMMA AppendFacts ==
    ASSUME NEW l \in Seq(Event), NEW e \in Event
    PROVE  /\ DOMAIN Append(l, e) = 1..(Len(l) + 1)
           /\ Append(l, e)[Len(l) + 1] = e
           /\ \A i \in DOMAIN l : /\ Append(l, e)[i] = l[i]
                                 /\ i \in 1..(Len(l) + 1)
                                 /\ i < Len(l) + 1
                                 /\ l[i] \in Event
           /\ \A i \in 1..(Len(l) + 1) : i = Len(l) + 1 \/ i \in DOMAIN l
           /\ Len(l) + 1 \in Nat
  OBVIOUS

\* The id found at a slot is an event, and None exactly when the slot is free.
LEMMA FindType ==
    ASSUME NEW l \in Seq(Event), NEW o, NEW n
    PROVE  /\ find_event_id_at(l, o, n) \in Event \cup {NoEvent}
           /\ find_event_id_at(l, o, n) = NoEvent
                => \A i \in DOMAIN l : ~ (OriginOf[l[i]] = o /\ SequenceOf[l[i]] = n)
           /\ find_event_id_at(l, o, n) # NoEvent
                => find_event_id_at(l, o, n) \in StoredAt(l, o, n)
  <1>1. StoredAt(l, o, n) \subseteq Event
    BY DEF StoredAt
  <1>2. CASE StoredAt(l, o, n) = {}
    BY <1>2 DEF find_event_id_at, StoredAt
  <1>3. CASE StoredAt(l, o, n) # {}
    <2>1. find_event_id_at(l, o, n) \in StoredAt(l, o, n)
      BY <1>3 DEF find_event_id_at
    <2> QED
      BY <1>1, <2>1, EventAssumption
  <1> QED
    BY <1>2, <1>3

-----------------------------------------------------------------------------
(* Type correctness.                                                       *)

\* The empty database is well typed.
LEMMA InitType == Init => TypeOK
  BY EventAssumption, TaskAssumption
  DEF Init, TypeOK, Transaction, Idle

\* Storing an event keeps the tables well typed.
LEMMA StoreType ==
    ASSUME TypeOK, NEW e \in Event, Store(e)
    PROVE  /\ log' \in Seq(Event)
           /\ contiguous' \in [Peer -> Nat]
           /\ head' \in [Peer -> Event \cup {NoEvent}]
  <1>1. OriginOf[e] \in Peer /\ SequenceOf[e] \in Nat
    BY EventAssumption
  <1> QED
    BY <1>1, InsertType DEF TypeOK, Store, advance_origin

\* Every step keeps the tables and the transactions well typed.
LEMMA NextType == TypeOK /\ [Next]_vars => TypeOK'
  <1> SUFFICES ASSUME TypeOK, [Next]_vars PROVE TypeOK'
    OBVIOUS
  <1> USE DEF chainVars, peerVars, redactVars
  <1>0. CASE UNCHANGED vars
    BY <1>0 DEF TypeOK, vars
  <1>1. ASSUME NEW t \in Task, NEW e \in Event, BeginCommit(t, e)
        PROVE  TypeOK'
    <2> DEFINE x == [op |-> "commit", event |-> e]
    <2>1. x \in Transaction /\ x # Idle
      BY DEF Transaction, CommitTx, Idle
    <2> QED
      BY <1>1, <2>1, BeginType, TaskAssumption DEF BeginCommit, TypeOK
  <1>2. ASSUME NEW t \in Task, EndCommit(t)
        PROVE  TypeOK'
    <2>1. tx[t].event \in Event
      BY <1>2, TxShapes DEF EndCommit, TypeOK, CommitTx
    <2> QED
      BY <1>2, <2>1, StoreType, EndType, UnlockType DEF EndCommit, TypeOK
  <1>3. ASSUME NEW t \in Task, NEW e \in Event, NEW k \in Peer, BeginIngest(t, e, k)
        PROVE  TypeOK'
    <2>1. OriginOf[e] \in Peer
      BY EventAssumption
    <2> DEFINE x == [op |-> "ingest", event |-> e,
                     existing |-> find_event_id_at(log, OriginOf[e], SequenceOf[e]),
                     next |-> contiguous[OriginOf[e]] + 1,
                     head |-> head[OriginOf[e]]]
    <2>2. x \in Transaction /\ x # Idle
      BY <2>1, FindType DEF TypeOK, Transaction, IngestTx, Idle
    <2> QED
      BY <1>3, <2>2, BeginType DEF BeginIngest, TypeOK
  <1>4. ASSUME NEW t \in Task, IngestKnown(t) \/ IngestRejected(t)
        PROVE  TypeOK'
    BY <1>4, EndType DEF IngestKnown, IngestRejected, TypeOK
  <1>5. ASSUME NEW t \in Task, IngestForked(t)
        PROVE  TypeOK'
    <2>1. /\ tx[t].event \in Event
          /\ tx[t].existing \in Event
      BY <1>5, TxShapes DEF IngestForked, TypeOK, IngestTx
    <2>2. /\ OriginOf[tx[t].event] \in Peer
          /\ SequenceOf[tx[t].event] \in Nat
      BY <2>1, EventAssumption
    <2>3. peer_forks' \subseteq Fork
      BY <1>5, <2>1, <2>2 DEF IngestForked, TypeOK, Fork
    <2> QED
      BY <1>5, <2>2, <2>3, EndType DEF IngestForked, TypeOK
  <1>6. ASSUME NEW t \in Task, IngestApplied(t)
        PROVE  TypeOK'
    <2>1. tx[t].event \in Event
      BY <1>6, TxShapes DEF IngestApplied, TypeOK, IngestTx
    <2> QED
      BY <1>6, <2>1, StoreType, EndType DEF IngestApplied, TypeOK
  <1>7. ASSUME NEW t \in Task, Rebuild(t)
        PROVE  TypeOK'
    BY <1>7, EndType DEF Rebuild, TypeOK
  <1>8. ASSUME NEW t \in Task, NEW id \in Event, BeginRedactEvidence(t, id)
        PROVE  TypeOK'
    <2> DEFINE x == [op |-> "redact_evidence", id |-> id]
    <2>1. x \in Transaction /\ x # Idle
      BY DEF Transaction, RedactTx, Idle
    <2> QED
      BY <1>8, <2>1, BeginType DEF BeginRedactEvidence, TypeOK
  <1>9. ASSUME NEW t \in Task, EndRedactEvidence(t)
        PROVE  TypeOK'
    <2>1. tx[t].id \in Event
      BY <1>9, TxShapes DEF EndRedactEvidence, TypeOK, RedactTx
    <2> QED
      BY <1>9, <2>1, EndType DEF EndRedactEvidence, TypeOK
  <1>10. ASSUME NEW t \in Task, NEW id \in ActorIds, BeginRedactActor(t, id)
         PROVE  TypeOK'
    <2> DEFINE x == [op |-> "redact_actor", id |-> id]
    <2>1. x \in Transaction /\ x # Idle
      BY DEF Transaction, RedactTx, Idle
    <2> QED
      BY <1>10, <2>1, BeginType DEF BeginRedactActor, TypeOK
  <1>11. ASSUME NEW t \in Task, EndRedactActor(t)
         PROVE  TypeOK'
    <2>1. tx[t].id \in ActorIds
      BY <1>11, TxShapes DEF EndRedactActor, TypeOK, RedactTx
    <2> QED
      BY <1>11, <2>1, EndType DEF EndRedactActor, TypeOK
  <1>12. ASSUME NEW t \in Task, NEW p \in Peer, UpsertPeer(t, p) \/ RemovePeer(t, p)
         PROVE  TypeOK'
    BY <1>12, EndType DEF UpsertPeer, RemovePeer, TypeOK
  <1>13. ASSUME NEW t \in Task, Abort(t)
         PROVE  TypeOK'
    BY <1>13, EndType, UnlockType DEF Abort, TypeOK
  <1>14. ASSUME NEW p \in Process, Crash(p)
         PROVE  TypeOK'
    BY <1>14 DEF Crash, TypeOK, Transaction
  <1> QED
    BY <1>0, <1>1, <1>2, <1>3, <1>4, <1>5, <1>6, <1>7, <1>8, <1>9, <1>10,
       <1>11, <1>12, <1>13, <1>14, TaskAssumption DEF Next, TaskStep

\* In every behaviour every table and every open transaction is well typed.
THEOREM TypeCorrect == Spec => []TypeOK
  BY InitType, NextType, PTL DEF Spec

-----------------------------------------------------------------------------
(* Chain integrity.                                                        *)

ChainInv == TypeOK /\ ChainIntegrity /\ SnapshotCurrent

\* In an intact store, an event that continues its origin's chain has a free
\* slot: it is appended.
LEMMA NextSlotIsFree ==
    ASSUME TypeOK, ChainIntegrity, NEW e \in Event,
           validate_chain(contiguous[OriginOf[e]] + 1, head[OriginOf[e]], e)
    PROVE  insert_event(log, e) = Append(log, e)
  <1>1. ASSUME NEW i \in DOMAIN log
        PROVE  /\ log[i] # e
               /\ ~ (OriginOf[log[i]] = OriginOf[e] /\ SequenceOf[log[i]] = SequenceOf[e])
    <2>1. OriginOf[e] \in Peer /\ SequenceOf[e] = contiguous[OriginOf[e]] + 1
      BY EventAssumption DEF validate_chain
    <2>2. SequenceOf[log[i]] \in 1..contiguous[OriginOf[log[i]]]
      BY DEF ChainIntegrity, NoGaps
    <2> QED
      BY <2>1, <2>2 DEF TypeOK
  <1> QED
    BY <1>1 DEF insert_event

\* Appending the event that continues its origin's chain, and advancing the
\* head to it, leaves every chain intact.
LEMMA ExtendChain ==
    ASSUME TypeOK, ChainIntegrity, NEW e \in Event,
           validate_chain(contiguous[OriginOf[e]] + 1, head[OriginOf[e]], e),
           log' = insert_event(log, e), advance_origin(e)
    PROVE  ChainIntegrity'
  <1> DEFINE o == OriginOf[e]
             n == Len(log) + 1
  <1>1. /\ o \in Peer
        /\ SequenceOf[e] = contiguous[o] + 1
        /\ PreviousOf[e] = head[o]
        /\ contiguous[o] \in Nat
    BY EventAssumption DEF validate_chain, TypeOK
  <1>2. /\ log' = Append(log, e)
        /\ DOMAIN log' = 1..n
        /\ log'[n] = e
        /\ \A i \in DOMAIN log : log'[i] = log[i] /\ i \in 1..n /\ i < n /\ log[i] \in Event
        /\ \A i \in 1..n : i = n \/ i \in DOMAIN log
        /\ n \in Nat
    <2>1. log \in Seq(Event) /\ log' = Append(log, e)
      BY NextSlotIsFree DEF TypeOK
    <2> QED
      BY <2>1, AppendFacts
  <1>3. /\ \A p \in Peer : contiguous'[p] = IF p = o THEN contiguous[o] + 1 ELSE contiguous[p]
        /\ \A p \in Peer : head'[p] = IF p = o THEN e ELSE head[p]
    BY <1>1 DEF advance_origin, TypeOK
  <1>4. \A i \in DOMAIN log :
            OriginOf[log[i]] \in Peer /\ SequenceOf[log[i]] \in 1..contiguous[OriginOf[log[i]]]
    BY <1>2, EventAssumption DEF ChainIntegrity, NoGaps
  <1>5. OneEventPerSlot'
    <2>1. \A i \in DOMAIN log : ~ (OriginOf[log[i]] = o /\ SequenceOf[log[i]] = SequenceOf[e])
      BY <1>1, <1>4
    <2> QED
      BY <1>2, <2>1 DEF ChainIntegrity, OneEventPerSlot
  <1>6. NoGaps'
    <2>1. ASSUME NEW i \in 1..n
          PROVE  SequenceOf[log'[i]] \in 1..contiguous'[OriginOf[log'[i]]]
      <3>1. CASE i = n
        BY <1>1, <1>2, <1>3, <3>1
      <3>2. CASE i \in DOMAIN log
        <4>1. /\ log'[i] = log[i]
              /\ OriginOf[log[i]] \in Peer
              /\ SequenceOf[log[i]] \in 1..contiguous[OriginOf[log[i]]]
          BY <1>2, <1>4, <3>2
        <4>2. contiguous[OriginOf[log[i]]] \in Nat
          BY <4>1 DEF TypeOK
        <4>3. contiguous[OriginOf[log[i]]] <= contiguous'[OriginOf[log[i]]]
              /\ contiguous'[OriginOf[log[i]]] \in Nat
          BY <1>1, <1>3, <4>1, <4>2
        <4> QED
          BY <4>1, <4>2, <4>3
      <3> QED
        BY <1>2, <3>1, <3>2
    <2>2. ASSUME NEW p \in Peer, NEW m \in 1..contiguous'[p]
          PROVE  \E i \in 1..n : OriginOf[log'[i]] = p /\ SequenceOf[log'[i]] = m
      <3>1. CASE p = o /\ m = SequenceOf[e]
        BY <1>2, <3>1
      <3>2. CASE m \in 1..contiguous[p]
        <4>1. PICK i \in DOMAIN log : OriginOf[log[i]] = p /\ SequenceOf[log[i]] = m
          BY <3>2 DEF ChainIntegrity, NoGaps
        <4> QED
          BY <1>2, <4>1
      <3> QED
        BY <1>1, <1>3, <3>1, <3>2
    <2> QED
      BY <1>2, <2>1, <2>2 DEF NoGaps
  <1>7. LinkedToPredecessor'
    <2>1. ASSUME NEW i \in DOMAIN log
          PROVE  IF SequenceOf[log'[i]] = 1
                 THEN PreviousOf[log'[i]] = NoEvent
                 ELSE \E j \in 1..(i - 1) :
                        /\ PreviousOf[log'[i]] = log'[j]
                        /\ OriginOf[log'[j]] = OriginOf[log'[i]]
                        /\ SequenceOf[log'[j]] + 1 = SequenceOf[log'[i]]
      <3>1. \A j \in 1..(i - 1) : j \in DOMAIN log /\ log'[j] = log[j]
        BY <1>2 DEF TypeOK
      <3>2. log'[i] = log[i]
        BY <1>2
      <3>3. IF SequenceOf[log[i]] = 1
            THEN PreviousOf[log[i]] = NoEvent
            ELSE \E j \in 1..(i - 1) :
                   /\ PreviousOf[log[i]] = log[j]
                   /\ OriginOf[log[j]] = OriginOf[log[i]]
                   /\ SequenceOf[log[j]] + 1 = SequenceOf[log[i]]
        BY DEF ChainIntegrity, LinkedToPredecessor
      <3>4. CASE SequenceOf[log[i]] = 1
        BY <3>2, <3>3, <3>4
      <3>5. CASE SequenceOf[log[i]] # 1
        <4>1. PICK j \in 1..(i - 1) :
                   /\ PreviousOf[log[i]] = log[j]
                   /\ OriginOf[log[j]] = OriginOf[log[i]]
                   /\ SequenceOf[log[j]] + 1 = SequenceOf[log[i]]
          BY <3>3, <3>5
        <4>2. log'[j] = log[j]
          BY <3>1
        <4> QED
          BY <3>2, <3>5, <4>1, <4>2
      <3> QED
        BY <3>4, <3>5
    <2>2. CASE contiguous[o] = 0
      <3>1. SequenceOf[log'[n]] = 1 /\ PreviousOf[log'[n]] = NoEvent
        BY <1>1, <1>2, <2>2 DEF ChainIntegrity, HeadIsLast
      <3> QED
        BY <1>2, <2>1, <3>1 DEF LinkedToPredecessor
    <2>3. CASE contiguous[o] # 0
      <3>1. PICK j \in DOMAIN log : head[o] = log[j]
        BY <1>1, <2>3 DEF ChainIntegrity, HeadIsLast, Stored
      <3>2. /\ j \in 1..(n - 1)
            /\ PreviousOf[log'[n]] = log'[j]
            /\ OriginOf[log'[j]] = OriginOf[log'[n]]
            /\ SequenceOf[log'[j]] + 1 = SequenceOf[log'[n]]
            /\ SequenceOf[log'[n]] # 1
        BY <1>1, <1>2, <2>3, <3>1 DEF ChainIntegrity, HeadIsLast, TypeOK
      <3> QED
        BY <1>2, <2>1, <3>2, ZenonT(30) DEF LinkedToPredecessor
    <2> QED
      BY <2>2, <2>3
  <1>8. HeadIsLast'
    <2>1. Stored \subseteq Stored' /\ e \in Stored'
      BY <1>2, SMTT(30) DEF Stored
    <2> QED
      BY <1>1, <1>3, <2>1 DEF ChainIntegrity, HeadIsLast
  <1> QED
    BY <1>5, <1>6, <1>7, <1>8 DEF ChainIntegrity

\* Right after a commit the other open snapshots are all stale, so nothing is
\* claimed about what they read.
LEMMA SnapshotAfterCommit ==
    ASSUME TypeOK, NEW t \in Task, CommitTransaction(t)
    PROVE  SnapshotCurrent'
  <1> SUFFICES ASSUME NEW u \in Task \ stale'
               PROVE  tx'[u].op = "idle"
    BY DEF SnapshotCurrent
  <1>1. tx'[u] = Idle
    BY DEF CommitTransaction, TypeOK
  <1> QED
    BY <1>1 DEF Idle

\* A step that leaves the chains alone and only ends transactions, stale or
\* not, keeps what the remaining ones have read current.
LEMMA SnapshotKept ==
    ASSUME SnapshotCurrent, UNCHANGED <<log, contiguous, head>>,
           \A u \in Task : tx'[u] = Idle \/ (tx'[u] = tx[u] /\ (u \in stale => u \in stale'))
    PROVE  SnapshotCurrent'
  <1> SUFFICES ASSUME NEW u \in Task \ stale', tx'[u] # Idle
               PROVE  tx'[u] = tx[u] /\ u \in Task \ stale
    BY DEF SnapshotCurrent, Idle
  <1> QED
    OBVIOUS

\* The chain properties are about log, contiguous and head only.
LEMMA ChainKept ==
    ASSUME ChainIntegrity, UNCHANGED <<log, contiguous, head>>
    PROVE  ChainIntegrity'
  BY DEF ChainIntegrity, OneEventPerSlot, NoGaps, LinkedToPredecessor,
         HeadIsLast, Stored

\* The empty log satisfies the chain invariant.
LEMMA InitChain == Init => ChainInv
  <1> SUFFICES ASSUME Init PROVE ChainInv
    OBVIOUS
  <1>1. ChainIntegrity
    BY DEF Init, ChainIntegrity, OneEventPerSlot, NoGaps, LinkedToPredecessor, HeadIsLast
  <1>2. SnapshotCurrent
    BY DEF Init, Idle, SnapshotCurrent
  <1> QED
    BY <1>1, <1>2, InitType DEF ChainInv

\* Every step preserves the chain invariant, action by action.
LEMMA NextChain == ChainInv /\ [Next]_vars => ChainInv'
  <1> SUFFICES ASSUME ChainInv, [Next]_vars PROVE ChainIntegrity' /\ SnapshotCurrent'
    BY NextType DEF ChainInv
  <1> USE DEF ChainInv, chainVars, peerVars, redactVars
  <1>0. CASE UNCHANGED vars
    BY <1>0, ChainKept, SnapshotKept DEF vars
  <1>1. ASSUME NEW t \in Task, NEW e \in Event, BeginCommit(t, e)
        PROVE  ChainIntegrity' /\ SnapshotCurrent'
    <2>1. tx' = [tx EXCEPT ![t] = [op |-> "commit", event |-> e]]
      BY <1>1 DEF BeginCommit
    <2>2. SnapshotCurrent'
      BY <1>1, <2>1 DEF BeginCommit, SnapshotCurrent, TypeOK
    <2> QED
      BY <1>1, <2>2, ChainKept DEF BeginCommit
  <1>2. ASSUME NEW t \in Task, EndCommit(t)
        PROVE  ChainIntegrity' /\ SnapshotCurrent'
    <2>1. tx[t].event \in Event
      BY <1>2, TxShapes DEF EndCommit, TypeOK, CommitTx
    <2>2. t \in Task \ stale
      BY <1>2 DEF EndCommit, CommitTransaction
    <2>3. /\ OriginOf[tx[t].event] = Self
          /\ validate_chain(contiguous[Self] + 1, head[Self], tx[t].event)
      BY <1>2, <2>2 DEF EndCommit, SnapshotCurrent
    <2> QED
      BY <1>2, <2>1, <2>3, ExtendChain, SnapshotAfterCommit DEF EndCommit, Store
  <1>3. ASSUME NEW t \in Task, NEW e \in Event, NEW k \in Peer, BeginIngest(t, e, k)
        PROVE  ChainIntegrity' /\ SnapshotCurrent'
    <2>1. ASSUME NEW u \in Task, u # t
          PROVE  tx'[u] = tx[u]
      BY <1>3, <2>1 DEF BeginIngest, TypeOK
    <2>2. tx'[t] = [op |-> "ingest", event |-> e,
                    existing |-> find_event_id_at(log, OriginOf[e], SequenceOf[e]),
                    next |-> contiguous[OriginOf[e]] + 1,
                    head |-> head[OriginOf[e]]]
      BY <1>3 DEF BeginIngest, TypeOK
    <2>3. UNCHANGED <<log, contiguous, head, stale>>
      BY <1>3 DEF BeginIngest
    <2>4. SnapshotCurrent'
      BY <2>1, <2>2, <2>3, SMTT(30) DEF SnapshotCurrent
    <2> QED
      BY <2>3, <2>4, ChainKept
  <1>4. ASSUME NEW t \in Task,
               IngestKnown(t) \/ IngestRejected(t) \/ Abort(t)
        PROVE  ChainIntegrity' /\ SnapshotCurrent'
    BY <1>4, ChainKept, SnapshotKept
    DEF IngestKnown, IngestRejected, Abort, EndTransaction, TypeOK
  <1>5. ASSUME NEW t \in Task, IngestApplied(t)
        PROVE  ChainIntegrity' /\ SnapshotCurrent'
    <2>1. tx[t].event \in Event
      BY <1>5, TxShapes DEF IngestApplied, TypeOK, IngestTx
    <2>2. t \in Task \ stale
      BY <1>5 DEF IngestApplied, CommitTransaction
    <2>3. validate_chain(contiguous[OriginOf[tx[t].event]] + 1,
                         head[OriginOf[tx[t].event]], tx[t].event)
      BY <1>5, <2>2 DEF IngestApplied, SnapshotCurrent
    <2> QED
      BY <1>5, <2>1, <2>3, ExtendChain, SnapshotAfterCommit DEF IngestApplied, Store
  <1>6. ASSUME NEW t \in Task,
               \/ IngestForked(t) \/ Rebuild(t)
               \/ EndRedactEvidence(t) \/ EndRedactActor(t)
               \/ \E p \in Peer : UpsertPeer(t, p) \/ RemovePeer(t, p)
        PROVE  ChainIntegrity' /\ SnapshotCurrent'
    <2>1. UNCHANGED <<log, contiguous, head>> /\ (CommitTransaction(t) \/ EndTransaction(t))
      BY <1>6
      DEF IngestForked, Rebuild, EndRedactEvidence, EndRedactActor, UpsertPeer, RemovePeer
    <2>2. CASE EndTransaction(t)
      BY <2>1, <2>2, ChainKept, SnapshotKept DEF EndTransaction, TypeOK
    <2> QED
      BY <2>1, <2>2, ChainKept, SnapshotAfterCommit
  <1>7. ASSUME NEW t \in Task,
               \/ \E id \in Event : BeginRedactEvidence(t, id)
               \/ \E id \in ActorIds : BeginRedactActor(t, id)
        PROVE  ChainIntegrity' /\ SnapshotCurrent'
    <2>1. tx'[t].op \notin {"commit", "ingest"}
      BY <1>7 DEF BeginRedactEvidence, BeginRedactActor, TypeOK
    <2>2. \A u \in Task \ {t} : tx'[u] = tx[u]
      BY <1>7 DEF BeginRedactEvidence, BeginRedactActor, TypeOK
    <2>3. UNCHANGED <<log, contiguous, head, stale>>
      BY <1>7 DEF BeginRedactEvidence, BeginRedactActor
    <2>4. SnapshotCurrent'
      BY <2>1, <2>2, <2>3, SMTT(30) DEF SnapshotCurrent
    <2> QED
      BY <2>3, <2>4, ChainKept
  <1>8. ASSUME NEW p \in Process, Crash(p)
        PROVE  ChainIntegrity' /\ SnapshotCurrent'
    BY <1>8, ChainKept, SnapshotKept DEF Crash, TypeOK
  <1> QED
    BY <1>0, <1>1, <1>2, <1>3, <1>4, <1>5, <1>6, <1>7, <1>8, TaskAssumption
    DEF Next, TaskStep

\* However commits, ingests, rebuilds, redactions and crashes interleave in
\* however many processes, each origin's stored events form one gap-free hash
\* chain that ends at the recorded head.
THEOREM ChainCorrect == Spec => []ChainIntegrity
  <1>1. ChainInv => ChainIntegrity
    BY DEF ChainInv
  <1> QED
    BY <1>1, InitChain, NextChain, PTL DEF Spec

\* What a transaction has read stays true until another one commits, after
\* which it cannot write any more.
THEOREM SnapshotsAreCurrent == Spec => []SnapshotCurrent
  <1>1. ChainInv => SnapshotCurrent
    BY DEF ChainInv
  <1> QED
    BY <1>1, InitChain, NextChain, PTL DEF Spec

-----------------------------------------------------------------------------
(* The commit lock.                                                        *)

LockInv == TypeOK /\ LockMatchesCommit

\* A step that changes neither the locks nor which tasks are committing.
LEMMA LockKept ==
    ASSUME LockMatchesCommit, commit_lock' = commit_lock,
           \A u \in Task : (tx'[u].op = "commit") = (tx[u].op = "commit")
    PROVE  LockMatchesCommit'
  BY DEF LockMatchesCommit

\* Whoever ends a commit, well or not, gives the lock back.
LEMMA LockReleased ==
    ASSUME LockInv, NEW t \in Task, commit_lock' = Unlock(t),
           CommitTransaction(t) \/ EndTransaction(t)
    PROVE  LockMatchesCommit'
  <1> SUFFICES ASSUME NEW u \in Task
               PROVE  (tx'[u].op = "commit") <=> (commit_lock'[ProcessOf[u]] = u)
    BY DEF LockMatchesCommit
  <1>1. tx' = [tx EXCEPT ![t] = Idle] /\ tx \in [Task -> Transaction]
    BY DEF CommitTransaction, EndTransaction, LockInv, TypeOK
  <1>2. (tx[u].op = "commit") <=> (commit_lock[ProcessOf[u]] = u)
    BY DEF LockInv, LockMatchesCommit
  <1>3. commit_lock'[ProcessOf[u]] =
          IF commit_lock[ProcessOf[u]] = t THEN NoTask ELSE commit_lock[ProcessOf[u]]
    BY TaskAssumption DEF Unlock
  <1> QED
    BY <1>1, <1>2, <1>3, TaskAssumption DEF Idle

\* Every step keeps the lock and the open commit of a process together.
LEMMA NextLock == LockInv /\ [Next]_vars => LockInv'
  <1> SUFFICES ASSUME LockInv, [Next]_vars PROVE LockMatchesCommit'
    BY NextType DEF LockInv
  <1>0. CASE UNCHANGED vars
    BY <1>0, LockKept DEF vars, LockInv
  <1>1. ASSUME NEW t \in Task, NEW e \in Event, BeginCommit(t, e)
        PROVE  LockMatchesCommit'
    <2> SUFFICES ASSUME NEW u \in Task
                 PROVE  (tx'[u].op = "commit") <=> (commit_lock'[ProcessOf[u]] = u)
      BY DEF LockMatchesCommit
    <2>1. (tx[u].op = "commit") <=> (commit_lock[ProcessOf[u]] = u)
      BY DEF LockInv, LockMatchesCommit
    <2>2. /\ tx' = [tx EXCEPT ![t] = [op |-> "commit", event |-> e]]
          /\ commit_lock' = [commit_lock EXCEPT ![ProcessOf[t]] = t]
          /\ commit_lock[ProcessOf[t]] = NoTask
      BY <1>1 DEF BeginCommit
    <2> QED
      BY <2>1, <2>2, TaskAssumption DEF LockInv, TypeOK
  <1>2. ASSUME NEW t \in Task, EndCommit(t) \/ Abort(t)
        PROVE  LockMatchesCommit'
    BY <1>2, LockReleased DEF EndCommit, Abort
  <1>3. ASSUME NEW t \in Task,
               \/ \E e \in Event, k \in Peer : BeginIngest(t, e, k)
               \/ \E id \in Event : BeginRedactEvidence(t, id)
               \/ \E id \in ActorIds : BeginRedactActor(t, id)
        PROVE  LockMatchesCommit'
    <2>1. commit_lock' = commit_lock /\ tx[t].op = "idle"
      BY <1>3 DEF BeginIngest, BeginRedactEvidence, BeginRedactActor
    <2>2. tx'[t].op # "commit" /\ \A u \in Task \ {t} : tx'[u] = tx[u]
      BY <1>3, SMTT(30) DEF BeginIngest, BeginRedactEvidence, BeginRedactActor, LockInv, TypeOK
    <2> QED
      BY <2>1, <2>2, LockKept DEF LockInv
  <1>4. ASSUME NEW t \in Task,
               \/ IngestKnown(t) \/ IngestForked(t) \/ IngestApplied(t) \/ IngestRejected(t)
               \/ Rebuild(t) \/ EndRedactEvidence(t) \/ EndRedactActor(t)
               \/ \E p \in Peer : UpsertPeer(t, p) \/ RemovePeer(t, p)
        PROVE  LockMatchesCommit'
    <2>1. /\ commit_lock' = commit_lock /\ tx[t].op # "commit"
          /\ CommitTransaction(t) \/ EndTransaction(t)
      BY <1>4 DEF IngestKnown, IngestForked, IngestApplied, IngestRejected, Rebuild,
                  EndRedactEvidence, EndRedactActor, UpsertPeer, RemovePeer
    <2>2. tx'[t].op # "commit" /\ \A u \in Task \ {t} : tx'[u] = tx[u]
      BY <2>1 DEF CommitTransaction, EndTransaction, Idle, LockInv, TypeOK
    <2> QED
      BY <2>1, <2>2, LockKept DEF LockInv
  <1>5. ASSUME NEW p \in Process, Crash(p)
        PROVE  LockMatchesCommit'
    <2> SUFFICES ASSUME NEW u \in Task
                 PROVE  (tx'[u].op = "commit") <=> (commit_lock'[ProcessOf[u]] = u)
      BY DEF LockMatchesCommit
    <2>1. (tx[u].op = "commit") <=> (commit_lock[ProcessOf[u]] = u)
      BY DEF LockInv, LockMatchesCommit
    <2> QED
      BY <1>5, <2>1, TaskAssumption DEF Crash, Idle, LockInv, TypeOK
  <1> QED
    BY <1>0, <1>1, <1>2, <1>3, <1>4, <1>5, TaskAssumption DEF Next, TaskStep

\* A process holds its commit lock exactly while one of its commits is open:
\* no error path, abort or crash leaks it, and two never share it.
THEOREM LocksAreNeverLeaked == Spec => []LockMatchesCommit
  <1>1. Init => LockInv
    <2>1. ASSUME Init PROVE LockMatchesCommit
      BY <2>1, TaskAssumption DEF Init, LockMatchesCommit, Idle
    <2> QED
      BY <2>1, InitType DEF LockInv
  <1>2. LockInv => LockMatchesCommit
    BY DEF LockInv
  <1> QED
    BY <1>1, <1>2, NextLock, PTL DEF Spec

-----------------------------------------------------------------------------
(* What a step does to the log.                                            *)

\* The only steps that touch the log store the event of an open commit or
\* ingest, whose snapshot is current.
LEMMA LogStep ==
    ASSUME TypeOK, [Next]_vars
    PROVE  \/ UNCHANGED log
           \/ \E t \in Task :
                 /\ tx[t].op \in {"commit", "ingest"}
                 /\ tx[t].event \in Event
                 /\ log' = insert_event(log, tx[t].event)
                 /\ UNCHANGED peer_forks
  <1> USE DEF chainVars, peerVars, redactVars
  <1>1. ASSUME NEW t \in Task, EndCommit(t) \/ IngestApplied(t)
        PROVE  /\ tx[t].op \in {"commit", "ingest"}
               /\ tx[t].event \in Event
               /\ log' = insert_event(log, tx[t].event)
               /\ UNCHANGED peer_forks
    BY <1>1, TxShapes DEF EndCommit, IngestApplied, Store, TypeOK, CommitTx, IngestTx
  <1>2. CASE UNCHANGED vars
    BY <1>2 DEF vars
  <1>3. CASE \E p \in Process : Crash(p)
    BY <1>3 DEF Crash
  <1>4. ASSUME NEW t \in Task, TaskStep(t), ~ EndCommit(t), ~ IngestApplied(t)
        PROVE  UNCHANGED log
    BY <1>4 DEF TaskStep, BeginCommit, BeginIngest, IngestKnown, IngestForked,
         IngestRejected, Rebuild, BeginRedactEvidence, EndRedactEvidence,
         BeginRedactActor, EndRedactActor, UpsertPeer, RemovePeer, Abort
  <1> QED
    BY <1>1, <1>2, <1>3, <1>4 DEF Next

\* No step removes, reorders or replaces a stored event, or adds more than
\* one at the end.
THEOREM LogIsAppendOnly == Spec => AppendOnly
  <1>1. TypeOK /\ [Next]_vars
            => [log' = log \/ \E e \in Event : log' = Append(log, e)]_vars
    BY LogStep DEF insert_event
  <1> QED
    BY <1>1, TypeCorrect, PTL DEF Spec, AppendOnly

-----------------------------------------------------------------------------
(* Authenticity.                                                           *)

AuthenticInv == TypeOK /\ PendingAuthentic /\ OnlyAuthentic

\* Only checked or self-signed events are ever waiting to be stored.
LEMMA NextPendingAuthentic == AuthenticInv /\ [Next]_vars => PendingAuthentic'
  <1> SUFFICES ASSUME AuthenticInv, [Next]_vars,
                      NEW u \in Task, tx'[u].op \in {"commit", "ingest"}
               PROVE  SignerOf[tx'[u].event] = OriginOf[tx'[u].event]
    BY DEF PendingAuthentic
  <1> USE DEF AuthenticInv, PendingAuthentic, TypeOK, Idle
  <1>1. CASE tx'[u] = tx[u]
    BY <1>1
  <1>2. ASSUME NEW t \in Task, NEW e \in Event, BeginCommit(t, e)
        PROVE  SignerOf[tx'[u].event] = OriginOf[tx'[u].event]
    BY <1>1, <1>2 DEF BeginCommit
  <1>3. ASSUME NEW t \in Task, NEW e \in Event, NEW k \in Peer, BeginIngest(t, e, k)
        PROVE  SignerOf[tx'[u].event] = OriginOf[tx'[u].event]
    <2>1. u # t => tx'[u] = tx[u]
      BY <1>3 DEF BeginIngest
    <2>2. tx'[t].event = e
      BY <1>3 DEF BeginIngest
    <2> QED
      BY <1>1, <1>3, <2>1, <2>2 DEF BeginIngest, verify_and_derive_id, origin_matches_key
  <1>4. ASSUME NEW t \in Task, CommitTransaction(t) \/ EndTransaction(t)
        PROVE  SignerOf[tx'[u].event] = OriginOf[tx'[u].event]
    BY <1>1, <1>4 DEF CommitTransaction, EndTransaction
  <1>5. ASSUME NEW t \in Task,
               \/ \E id \in Event : BeginRedactEvidence(t, id)
               \/ \E id \in ActorIds : BeginRedactActor(t, id)
        PROVE  SignerOf[tx'[u].event] = OriginOf[tx'[u].event]
    BY <1>1, <1>5, SMTT(30) DEF BeginRedactEvidence, BeginRedactActor
  <1>6. ASSUME NEW p \in Process, Crash(p)
        PROVE  SignerOf[tx'[u].event] = OriginOf[tx'[u].event]
    BY <1>1, <1>6 DEF Crash
  <1>7. CASE UNCHANGED vars
    BY <1>1, <1>7 DEF vars
  <1> QED
    BY <1>2, <1>3, <1>4, <1>5, <1>6, <1>7
    DEF Next, TaskStep, EndCommit, IngestKnown, IngestForked, IngestApplied,
        IngestRejected, Rebuild, EndRedactEvidence, EndRedactActor,
        UpsertPeer, RemovePeer, Abort

\* Storing a pending event keeps the whole log authentic.
LEMMA NextAuthentic == AuthenticInv /\ [Next]_vars => AuthenticInv'
  <1> SUFFICES ASSUME AuthenticInv, [Next]_vars PROVE OnlyAuthentic'
    BY NextType, NextPendingAuthentic DEF AuthenticInv
  <1> USE DEF AuthenticInv
  <1>1. CASE UNCHANGED log
    BY <1>1 DEF OnlyAuthentic, Stored
  <1>2. ASSUME NEW t \in Task, tx[t].op \in {"commit", "ingest"}, tx[t].event \in Event,
               log' = insert_event(log, tx[t].event)
        PROVE  OnlyAuthentic'
    <2>1. Stored' \subseteq Stored \cup {tx[t].event}
      BY <1>2, AppendFacts DEF Stored, insert_event, TypeOK
    <2> QED
      BY <1>2, <2>1 DEF OnlyAuthentic, PendingAuthentic
  <1> QED
    BY <1>1, <1>2, LogStep

\* Every stored event was signed by the key of the peer it claims as origin,
\* whichever task stored it.
THEOREM StoredEventsAreAuthentic == Spec => []OnlyAuthentic
  <1>1. Init => AuthenticInv
    BY InitType, SMTT(30) DEF Init, AuthenticInv, PendingAuthentic, OnlyAuthentic, Stored, Idle
  <1>2. AuthenticInv => OnlyAuthentic
    BY DEF AuthenticInv
  <1> QED
    BY <1>1, <1>2, NextAuthentic, PTL DEF Spec

-----------------------------------------------------------------------------
(* Fork evidence.                                                          *)

ForkInv == ChainInv /\ ForkEvidenceSound

\* Storing an event never makes recorded fork evidence wrong, because the
\* slot of a fork is taken.
LEMMA NextFork == ForkInv /\ [Next]_vars => ForkInv'
  <1> SUFFICES ASSUME ForkInv, [Next]_vars PROVE ForkEvidenceSound'
    BY NextChain DEF ForkInv
  <1> USE DEF ForkInv, ChainInv, chainVars, peerVars, redactVars
  <1>1. CASE UNCHANGED <<log, peer_forks>>
    BY <1>1 DEF ForkEvidenceSound, Stored
  <1>2. ASSUME NEW t \in Task, tx[t].event \in Event,
               log' = insert_event(log, tx[t].event), UNCHANGED peer_forks
        PROVE  ForkEvidenceSound'
    <2> SUFFICES ASSUME NEW f \in peer_forks
                 PROVE  f.event_a \in Stored' /\ f.event_b \notin Stored'
      BY <1>2 DEF ForkEvidenceSound
    <2>1. CASE log' = log
      BY <2>1 DEF ForkEvidenceSound, Stored
    <2>2. CASE log' = Append(log, tx[t].event) /\ log' # log
      <3>1. Stored' = Stored \cup {tx[t].event}
        BY <1>2, <2>2, AppendFacts DEF Stored, TypeOK
      <3>2. \A e \in Stored : ~ (/\ OriginOf[e] = OriginOf[tx[t].event]
                                 /\ SequenceOf[e] = SequenceOf[tx[t].event])
        BY <1>2, <2>2 DEF Stored, insert_event
      <3> QED
        BY <3>1, <3>2 DEF ForkEvidenceSound
    <2> QED
      BY <1>2, <2>1, <2>2 DEF insert_event
  <1>3. ASSUME NEW t \in Task, IngestForked(t)
        PROVE  ForkEvidenceSound'
    <2> DEFINE e == tx[t].event
               a == tx[t].existing
    <2>1. e \in Event /\ a \in Event /\ a # e
      BY <1>3, TxShapes DEF IngestForked, TypeOK, IngestTx
    <2>2. a = find_event_id_at(log, OriginOf[e], SequenceOf[e])
      BY <1>3 DEF IngestForked, CommitTransaction, SnapshotCurrent
    <2>3. a \in StoredAt(log, OriginOf[e], SequenceOf[e])
      BY <1>3, <2>1, <2>2, FindType, EventAssumption, SMTT(30) DEF TypeOK
    <2>4. a \in Stored /\ OriginOf[a] = OriginOf[e] /\ SequenceOf[a] = SequenceOf[e]
      BY <2>3 DEF StoredAt, Stored
    <2>5. e \notin Stored
      BY <2>1, <2>4 DEF ChainIntegrity, OneEventPerSlot, Stored
    <2>6. UNCHANGED log
      BY <1>3 DEF IngestForked
    <2>7. peer_forks' \subseteq peer_forks \cup
                {[peer |-> OriginOf[e], sequence |-> SequenceOf[e],
                  event_a |-> a, event_b |-> e]}
      BY <1>3 DEF IngestForked
    <2> QED
      BY <2>4, <2>5, <2>6, <2>7 DEF ForkEvidenceSound, Stored
  <1>4. \/ UNCHANGED peer_forks
        \/ \E t \in Task : IngestForked(t)
    BY DEF Next, TaskStep, vars, BeginCommit, EndCommit, BeginIngest, IngestKnown,
         IngestApplied, IngestRejected, Rebuild, BeginRedactEvidence,
         EndRedactEvidence, BeginRedactActor, EndRedactActor, UpsertPeer,
         RemovePeer, Abort, Crash
  <1> QED
    BY <1>1, <1>2, <1>3, <1>4, LogStep

\* Every recorded fork is about the stored event of a slot and a different
\* event for the same slot that is not stored, and stays so.
THEOREM ForkEvidenceCorrect == Spec => []ForkEvidenceSound
  <1>1. Init => ForkInv
    BY InitChain DEF Init, ForkInv, ForkEvidenceSound
  <1>2. ForkInv => ForkEvidenceSound
    BY DEF ForkInv
  <1> QED
    BY <1>1, <1>2, NextFork, PTL DEF Spec
=============================================================================
