------------------------ MODULE PeerStoreRefinement -------------------------
(***************************************************************************)
(* The proof that PeerStore implements OriginChains: to whoever reads only *)
(* chains and fork records, every step of every task extends one chain by  *)
(* one signed, linked event, records one first fork, or changes nothing.   *)
(***************************************************************************)
EXTENDS PeerStoreProofs

chains == [o \in Peer |-> ChainOf(o)]

\* The first m slots of an origin in a log.
ChainIn(l, m, o) == [n \in 1..m |-> find_event_id_at(l, o, n)]

\* No two rows of a log share a slot, and the first m slots of an origin are
\* taken.
OnePerSlot(l) ==
    \A j, k \in DOMAIN l :
        OriginOf[l[j]] = OriginOf[l[k]] /\ SequenceOf[l[j]] = SequenceOf[l[k]] => j = k

Taken(l, m, o) ==
    \A n \in 1..m : \E i \in DOMAIN l : OriginOf[l[i]] = o /\ SequenceOf[l[i]] = n

\* In a log with one event per slot a lookup finds the event of the slot.
LEMMA FindFinds ==
    ASSUME NEW l \in Seq(Event), NEW i \in DOMAIN l, OnePerSlot(l)
    PROVE  find_event_id_at(l, OriginOf[l[i]], SequenceOf[l[i]]) = l[i]
  <1> DEFINE o == OriginOf[l[i]]
             n == SequenceOf[l[i]]
             x == find_event_id_at(l, o, n)
  <1>1. x # NoEvent
    BY FindType
  <1>2. x \in StoredAt(l, o, n)
    BY <1>1, FindType
  <1>3. PICK j \in DOMAIN l : x = l[j] /\ OriginOf[l[j]] = o /\ SequenceOf[l[j]] = n
    BY <1>2 DEF StoredAt
  <1>4. j = i
    BY <1>3 DEF OnePerSlot
  <1> QED
    BY <1>3, <1>4

\* When those slots are taken they form a sequence of the log's events.
LEMMA ChainInFacts ==
    ASSUME NEW l \in Seq(Event), NEW m \in Nat, NEW o, OnePerSlot(l), Taken(l, m, o)
    PROVE  /\ ChainIn(l, m, o) \in Seq(Event) /\ Len(ChainIn(l, m, o)) = m
           /\ \A i \in DOMAIN l : OriginOf[l[i]] = o /\ SequenceOf[l[i]] \in 1..m
                 => ChainIn(l, m, o)[SequenceOf[l[i]]] = l[i]
  <1>1. \A i \in DOMAIN l : find_event_id_at(l, OriginOf[l[i]], SequenceOf[l[i]]) = l[i]
    BY FindFinds
  <1>2. \A n \in 1..m : find_event_id_at(l, o, n) \in Event
    BY <1>1 DEF Taken
  <1>3. ChainIn(l, m, o) \in Seq(Event) /\ Len(ChainIn(l, m, o)) = m
    BY <1>2 DEF ChainIn
  <1>4. \A n \in 1..m : ChainIn(l, m, o)[n] = find_event_id_at(l, o, n)
    BY DEF ChainIn
  <1> QED
    BY <1>1, <1>3, <1>4

\* The chain of an origin is a sequence of events, as long as its highest
\* contiguous sequence, that ends at its head.
LEMMA ChainFacts ==
    ASSUME TypeOK, ChainIntegrity, NEW o \in Peer
    PROVE  /\ ChainOf(o) \in Seq(Event) /\ Len(ChainOf(o)) = contiguous[o]
           /\ contiguous[o] \in Nat
           /\ \A i \in DOMAIN log : OriginOf[log[i]] = o =>
                 SequenceOf[log[i]] \in 1..contiguous[o] /\ ChainOf(o)[SequenceOf[log[i]]] = log[i]
           /\ Chains!LastOf(ChainOf(o)) = head[o]
  <1> DEFINE m == contiguous[o]
  <1>1. m \in Nat /\ log \in Seq(Event)
    BY DEF TypeOK
  <1>2. /\ ChainIn(log, m, o) \in Seq(Event) /\ Len(ChainIn(log, m, o)) = m
        /\ \A i \in DOMAIN log : OriginOf[log[i]] = o /\ SequenceOf[log[i]] \in 1..m
              => ChainIn(log, m, o)[SequenceOf[log[i]]] = log[i]
    <2>1. OnePerSlot(log)
      BY DEF ChainIntegrity, OneEventPerSlot, OnePerSlot
    <2>2. Taken(log, m, o)
      BY DEF ChainIntegrity, NoGaps, Taken
    <2> HIDE DEF m
    <2> QED
      BY <1>1, <2>1, <2>2, ChainInFacts
  <1>3. ChainOf(o) = ChainIn(log, m, o)
    BY DEF ChainOf, ChainIn
  <1>4. \A i \in DOMAIN log : OriginOf[log[i]] = o => SequenceOf[log[i]] \in 1..m
    BY DEF ChainIntegrity, NoGaps
  <1>5. Chains!LastOf(ChainOf(o)) = head[o]
    <2>1. CASE m = 0
      BY <1>2, <1>3, <2>1 DEF Chains!LastOf, ChainIntegrity, HeadIsLast
    <2>2. CASE m # 0
      <3>1. PICK i \in DOMAIN log : log[i] = head[o] /\ OriginOf[log[i]] = o /\ SequenceOf[log[i]] = m
        BY <2>2 DEF ChainIntegrity, HeadIsLast, Stored
      <3>2. ChainOf(o)[m] = head[o]
        BY <1>2, <1>3, <1>4, <3>1
      <3> QED
        BY <1>1, <1>2, <1>3, <2>2, <3>2 DEF Chains!LastOf
    <2> QED
      BY <2>1, <2>2
  <1> QED
    BY <1>1, <1>2, <1>3, <1>4, <1>5

\* Storing the event that continues its origin's chain appends it to that
\* chain and leaves the others alone.
LEMMA StoreExtends ==
    ASSUME TypeOK, ChainIntegrity, TypeOK', ChainIntegrity', NEW e \in Event,
           validate_chain(contiguous[OriginOf[e]] + 1, head[OriginOf[e]], e),
           log' = insert_event(log, e), advance_origin(e)
    PROVE  chains' = [chains EXCEPT ![OriginOf[e]] = Append(@, e)]
  <1> DEFINE o == OriginOf[e]
             n == Len(log) + 1
  <1>1. o \in Peer /\ SequenceOf[e] = contiguous[o] + 1 /\ contiguous[o] \in Nat
    BY EventAssumption DEF validate_chain, TypeOK
  <1>2. log \in Seq(Event) /\ log' = Append(log, e)
    BY NextSlotIsFree DEF TypeOK
  <1>3. /\ DOMAIN log' = 1..n /\ n \in 1..n /\ log'[n] = e
        /\ \A i \in DOMAIN log : log'[i] = log[i] /\ i \in DOMAIN log'
    BY <1>2, AppendFacts
  <1>4. \A p \in Peer : contiguous'[p] = IF p = o THEN contiguous[o] + 1 ELSE contiguous[p]
    BY <1>1 DEF advance_origin, TypeOK
  <1>5. ASSUME NEW p \in Peer
        PROVE  /\ ChainOf(p) \in Seq(Event) /\ Len(ChainOf(p)) = contiguous[p]
               /\ contiguous[p] \in Nat
               /\ ChainOf(p)' \in Seq(Event) /\ Len(ChainOf(p)') = contiguous'[p]
               /\ \A k \in 1..contiguous[p] : ChainOf(p)'[k] = ChainOf(p)[k]
               /\ p = o => ChainOf(p)'[contiguous[p] + 1] = e
    <2> DEFINE m == contiguous'[p]
               c == ChainIn(log', m, p)
    <2>1. /\ ChainOf(p) \in Seq(Event) /\ Len(ChainOf(p)) = contiguous[p]
          /\ contiguous[p] \in Nat
          /\ \A i \in DOMAIN log : OriginOf[log[i]] = p => ChainOf(p)[SequenceOf[log[i]]] = log[i]
      BY ChainFacts
    <2>2. /\ c \in Seq(Event) /\ Len(c) = m
          /\ \A i \in DOMAIN log' : OriginOf[log'[i]] = p /\ SequenceOf[log'[i]] \in 1..m
                => c[SequenceOf[log'[i]]] = log'[i]
      <3>1. OnePerSlot(log')
        BY DEF ChainIntegrity, OneEventPerSlot, OnePerSlot
      <3>2. Taken(log', m, p)
        BY DEF ChainIntegrity, NoGaps, Taken
      <3>3. log' \in Seq(Event) /\ m \in Nat
        BY DEF TypeOK
      <3> HIDE DEF m
      <3> QED
        BY <3>1, <3>2, <3>3, ChainInFacts
    <2>3. ChainOf(p)' = c
      BY DEF ChainOf, ChainIn
    <2>4. \A k \in 1..contiguous[p] : \E i \in DOMAIN log : OriginOf[log[i]] = p /\ SequenceOf[log[i]] = k
      BY DEF ChainIntegrity, NoGaps
    <2>5. 1..contiguous[p] \subseteq 1..m /\ (p = o => SequenceOf[e] \in 1..m)
      BY <1>1, <1>4, <2>1
    <2> HIDE DEF c, m
    <2>6. \A k \in 1..contiguous[p] : c[k] = ChainOf(p)[k]
      BY <1>3, <2>1, <2>2, <2>4, <2>5
    <2>7. p = o => c[contiguous[p] + 1] = e
      BY <1>1, <1>3, <2>2, <2>5
    <2> QED
      BY <2>1, <2>2, <2>3, <2>6, <2>7 DEF m
  <1>6. ASSUME NEW p \in Peer
        PROVE  ChainOf(p)' = IF p = o THEN Append(ChainOf(p), e) ELSE ChainOf(p)
    <2> DEFINE c == ChainOf(p)
               d == ChainOf(p)'
               m == contiguous[p]
    <2>1. /\ c \in Seq(Event) /\ Len(c) = m /\ m \in Nat /\ d \in Seq(Event)
          /\ Len(d) = IF p = o THEN m + 1 ELSE m
          /\ \A k \in 1..m : d[k] = c[k]
          /\ p = o => d[m + 1] = e
      BY <1>4, <1>5
    <2> HIDE DEF c, d, m
    <2> QED
      BY <2>1 DEF c, d
  <1> QED
    BY <1>1, <1>6 DEF chains

-----------------------------------------------------------------------------

\* What the refinement rests on: intact chains, current snapshots, and events
\* that were checked before they are stored or recorded.
RefineInv == ChainInv /\ AuthenticInv

\* Storing a checked event that continues its chain is a step of OriginChains.
LEMMA StoreIsExtend ==
    ASSUME RefineInv, RefineInv', NEW e \in Event, SignerOf[e] = OriginOf[e],
           validate_chain(contiguous[OriginOf[e]] + 1, head[OriginOf[e]], e),
           Store(e), UNCHANGED peer_forks
    PROVE  Chains!Extend(e)
  <1> DEFINE o == OriginOf[e]
             c == ChainOf(o)
  <1>1. o \in Peer
    BY EventAssumption
  <1>2. Len(c) = contiguous[o] /\ Chains!LastOf(c) = head[o]
    BY <1>1, ChainFacts DEF RefineInv, ChainInv
  <1>3. chains' = [chains EXCEPT ![o] = Append(@, e)]
    BY StoreExtends DEF RefineInv, ChainInv, Store
  <1>4. chains[o] = c
    BY <1>1 DEF chains
  <1>5. Chains!validate_chain(Len(c) + 1, Chains!LastOf(c), e)
    BY <1>2 DEF validate_chain, Chains!validate_chain
  <1> HIDE DEF c
  <1> QED
    BY <1>3, <1>4, <1>5 DEF Chains!Extend, chains

\* Putting a fork on record is one too, and for a slot that has one it is no
\* step at all.
LEMMA ForkIsRecordFork ==
    ASSUME RefineInv, NEW t \in Task, IngestForked(t)
    PROVE  Chains!RecordFork(tx[t].event) \/ UNCHANGED <<chains, peer_forks>>
  <1> DEFINE e == tx[t].event
             a == tx[t].existing
             o == OriginOf[e]
             n == SequenceOf[e]
  <1>1. e \in Event /\ a \in Event /\ a # e /\ o \in Peer
    BY TxShapes, EventAssumption DEF IngestForked, RefineInv, ChainInv, TypeOK, IngestTx
  <1>2. SignerOf[e] = o
    BY DEF IngestForked, RefineInv, AuthenticInv, PendingAuthentic
  <1>3. a = find_event_id_at(log, o, n)
    BY DEF IngestForked, CommitTransaction, RefineInv, ChainInv, SnapshotCurrent
  <1>4. a \in StoredAt(log, o, n)
    BY <1>1, <1>3, FindType, EventAssumption DEF RefineInv, ChainInv, TypeOK
  <1>5. PICK i \in DOMAIN log : log[i] = a /\ OriginOf[log[i]] = o /\ SequenceOf[log[i]] = n
    BY <1>4 DEF StoredAt
  <1>6. n \in DOMAIN ChainOf(o) /\ ChainOf(o)[n] = a
    BY <1>1, <1>5, ChainFacts DEF RefineInv, ChainInv, ChainOf
  <1>7. chains[o] = ChainOf(o)
    BY <1>1 DEF chains
  <1>8. UNCHANGED chains
    BY DEF IngestForked, chainVars, chains, ChainOf
  <1>9. CASE \E f \in peer_forks : f.peer = o /\ f.sequence = n
    BY <1>8, <1>9 DEF IngestForked
  <1>10. CASE \A f \in peer_forks : f.peer # o \/ f.sequence # n
    <2>1. peer_forks' = peer_forks \cup {[peer |-> o, sequence |-> n, event_a |-> a, event_b |-> e]}
      BY <1>10 DEF IngestForked
    <2> HIDE DEF e, a
    <2>2. Chains!RecordFork(e)
      BY <1>1, <1>2, <1>6, <1>7, <1>8, <1>10, <2>1 DEF Chains!RecordFork, chains
    <2> QED
      BY <2>2 DEF e
  <1> QED
    BY <1>9, <1>10

\* Every step of PeerStore is a step of OriginChains or leaves chains and fork
\* records as they are.
LEMMA StepRefines ==
    ASSUME RefineInv, RefineInv', [Next]_vars
    PROVE  Chains!Next \/ UNCHANGED <<chains, peer_forks>>
  <1> USE DEF chainVars, peerVars, redactVars
  <1>1. ASSUME NEW t \in Task, EndCommit(t) \/ IngestApplied(t)
        PROVE  Chains!Next
    <2> DEFINE e == tx[t].event
    <2>1. e \in Event /\ Store(e) /\ UNCHANGED peer_forks
      BY <1>1, TxShapes
      DEF EndCommit, IngestApplied, RefineInv, ChainInv, TypeOK, CommitTx, IngestTx
    <2>2. SignerOf[e] = OriginOf[e]
      BY <1>1 DEF EndCommit, IngestApplied, RefineInv, AuthenticInv, PendingAuthentic
    <2>3. validate_chain(contiguous[OriginOf[e]] + 1, head[OriginOf[e]], e)
      BY <1>1
      DEF EndCommit, IngestApplied, CommitTransaction, RefineInv, ChainInv, SnapshotCurrent
    <2> HIDE DEF e
    <2>4. Chains!Extend(e)
      BY <2>1, <2>2, <2>3, StoreIsExtend
    <2> QED
      BY <2>1, <2>4 DEF Chains!Next
  <1>2. ASSUME NEW t \in Task, IngestForked(t)
        PROVE  Chains!Next \/ UNCHANGED <<chains, peer_forks>>
    <2>1. tx[t].event \in Event
      BY <1>2, TxShapes DEF IngestForked, RefineInv, ChainInv, TypeOK, IngestTx
    <2> QED
      BY <1>2, <2>1, ForkIsRecordFork DEF Chains!Next
  <1>3. CASE UNCHANGED <<log, contiguous, peer_forks>>
    BY <1>3 DEF chains, ChainOf
  <1>4. \/ UNCHANGED <<log, contiguous, peer_forks>>
        \/ \E t \in Task : EndCommit(t) \/ IngestApplied(t) \/ IngestForked(t)
    BY ZenonT(30) DEF Next, TaskStep, vars, BeginCommit, BeginIngest, IngestKnown,
         IngestRejected, Rebuild, BeginRedactEvidence, EndRedactEvidence,
         BeginRedactActor, EndRedactActor, UpsertPeer, RemovePeer, Abort, Crash
  <1> QED
    BY <1>1, <1>2, <1>3, <1>4

\* To its readers a peer's database is OriginChains, whatever transactions,
\* rebuilds, redactions, aborts and crashes happen on it.
THEOREM StoreImplementsChains == Spec => ImplementsOriginChains
  <1>1. Init => RefineInv /\ Chains!Init
    <2> SUFFICES ASSUME Init PROVE RefineInv /\ Chains!Init
      OBVIOUS
    <2>1. AuthenticInv
      BY InitType DEF Init, AuthenticInv, PendingAuthentic, OnlyAuthentic, Stored, Idle
    <2>2. ASSUME NEW o \in Peer PROVE ChainOf(o) = <<>>
      <3>1. ChainOf(o) \in Seq(Event) /\ Len(ChainOf(o)) = 0
        BY InitChain, ChainFacts DEF Init, ChainInv
      <3> QED
        BY <3>1
    <2> QED
      BY <2>1, <2>2, InitChain DEF Init, Chains!Init, RefineInv
  <1>2. RefineInv /\ [Next]_vars => RefineInv'
    BY NextChain, NextAuthentic DEF RefineInv
  <1>3. RefineInv /\ RefineInv' /\ [Next]_vars
            => [Chains!Next]_<<[o \in Peer |-> ChainOf(o)], peer_forks>>
    BY StepRefines DEF chains
  <1> QED
    BY <1>1, <1>2, <1>3, PTL DEF Spec, ImplementsOriginChains, Chains!Spec
=============================================================================
