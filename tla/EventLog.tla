------------------------------ MODULE EventLog ------------------------------
(***************************************************************************)
(* The signed, append-only event log of one peer: what an event is, and    *)
(* what it means for an origin's events to form a chain.                   *)
(*                                                                         *)
(* An event is identified by the hash of its signed envelope, so two       *)
(* events with the same id have the same content: Event is the set of ids, *)
(* and the envelope's fields are functions of the id.  Nothing is assumed  *)
(* about how these fields fit together: the constants describe every       *)
(* envelope a peer might be handed, well formed or not.                    *)
(***************************************************************************)
EXTENDS Naturals, Sequences

CONSTANTS
    Peer,           \* peer ids (origins)
    Event,          \* event ids
    NoEvent,        \* the None of Option<EventId>
    OriginOf,       \* envelope field origin_peer
    SequenceOf,     \* envelope field sequence (a u64: zero can be received)
    PreviousOf,     \* envelope field previous_event
    SignerOf        \* the peer whose key produced the envelope's signature

ASSUME EventAssumption ==
    /\ NoEvent \notin Event
    /\ OriginOf \in [Event -> Peer]
    /\ SequenceOf \in [Event -> Nat]
    /\ PreviousOf \in [Event -> Event \cup {NoEvent}]
    /\ SignerOf \in [Event -> Peer]

-----------------------------------------------------------------------------
(* Reading the events table, a sequence of events in rowid order.          *)

\* The events stored for slot (origin, sequence); the table's UNIQUE
\* constraint allows one at most.
StoredAt(log, o, n) ==
    {e \in {log[i] : i \in DOMAIN log} : OriginOf[e] = o /\ SequenceOf[e] = n}

\* events::find_event_id_at: the id stored at a slot, or None.
find_event_id_at(log, o, n) ==
    LET S == StoredAt(log, o, n)
    IN  IF S = {} THEN NoEvent ELSE CHOOSE e \in S : TRUE

\* events::insert_event: INSERT OR IGNORE, ignored when the id or the slot is
\* already there.
insert_event(log, e) ==
    IF \E i \in DOMAIN log : \/ log[i] = e
                             \/ /\ OriginOf[log[i]] = OriginOf[e]
                                /\ SequenceOf[log[i]] = SequenceOf[e]
    THEN log
    ELSE Append(log, e)

-----------------------------------------------------------------------------
(* Checks made on an envelope before it is stored.                         *)

\* verify_and_derive_id with the key of peer k: the signature verifies under
\* no other key than the signer's.
verify_and_derive_id(e, k) == SignerOf[e] = k

\* Mutant: any known key that verifies is accepted.
origin_unchecked(e, k) == k \in Peer

\* The key must be the claimed origin's own.
origin_matches_key(e, k) == OriginOf[e] = k

\* validate_chain: the event continues the chain whose next sequence and head
\* are given, without a gap and linked to the head.
validate_chain(next, head, e) ==
    /\ SequenceOf[e] = next
    /\ PreviousOf[e] = head
=============================================================================
