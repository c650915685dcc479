---------------------------- MODULE MCPeerStore -----------------------------
(***************************************************************************)
(* Small instances of PeerStore: the peer "p", a remote peer "q" and       *)
(* scripted sets of envelopes.  An envelope is a record of the table       *)
(* Envelopes; a run picks the ids it uses as Event.                        *)
(***************************************************************************)
EXTENDS PeerStore

Declare(key, uri) == [type |-> "ACTOR_DECLARE", public_key |-> key, identity_uri |-> uri]
Relation(s, st, o, a) ==
    [type |-> "ASSERT_RELATION", subject |-> s, subject_type |-> st,
     predicate |-> "rel", object |-> o, object_type |-> "any", actor |-> a]
Evidence(a) == [type |-> "ADD_EVIDENCE", assertion |-> a, text |-> "text"]
About(type, a, actor) == [type |-> type, assertion |-> a, actor |-> actor]
Supersede(a, b, actor) ==
    [type |-> "SUPERSEDE_ASSERTION", old |-> a, new |-> b, actor |-> actor]
Key(type, actor, k) == [type |-> type, actor |-> actor, key_hash |-> k]

Envelope(o, n, prev, signer, payload) ==
    [origin |-> o, seq |-> n, prev |-> prev, signer |-> signer, payload |-> payload]

Envelopes ==
    [p1  |-> Envelope("p", 1, "none", "p", Declare("A", "uri")),
     p2  |-> Envelope("p", 2, "p1", "p", Relation("n1", "repo", "n2", "A")),
     p2k |-> Envelope("p", 2, "p1", "p", Key("ACTOR_KEY_ADD", "A", "h")),
     p3  |-> Envelope("p", 3, "p2", "p", Evidence("p2")),
     p3v |-> Envelope("p", 3, "p2", "p", About("VERIFY_ASSERTION", "p2", "A")),
     q1  |-> Envelope("q", 1, "none", "q", Declare("A", "other uri")),
     q1k |-> Envelope("q", 1, "none", "q", Key("ACTOR_KEY_REVOKE", "A", "h")),
     q2  |-> Envelope("q", 2, "q1", "q", About("DISPUTE_ASSERTION", "p2", "A")),
     q2s |-> Envelope("q", 2, "q1", "q", Relation("n1", "paper", "n3", "A")),
     q2u |-> Envelope("q", 2, "q1k", "q", [type |-> "UNKNOWN_ENUM_VALUE"]),
     q2x |-> Envelope("q", 2, "q1", "q", About("RETRACT_ASSERTION", "p2", "A")),
     q3s |-> Envelope("q", 3, "q2s", "q", Supersede("p2", "q2s", "A")),
     q3x |-> Envelope("q", 3, "q2x", "q", [type |-> "NODE_ALIAS", node |-> "n1", alias |-> "al"]),
     qp  |-> Envelope("q", 1, "none", "p", Declare("A", "uri"))]

MCOriginOf   == [e \in Event |-> Envelopes[e].origin]
MCSequenceOf == [e \in Event |-> Envelopes[e].seq]
MCPreviousOf == [e \in Event |-> Envelopes[e].prev]
MCSignerOf   == [e \in Event |-> Envelopes[e].signer]
MCPayloadOf  == [e \in Event |-> Envelopes[e].payload]
MCProcessOf  == [t \in Task |-> IF t = "cli" THEN "cli" ELSE "serve"]

\* Two branches of the origin "q" and a misattributed envelope.
ChainEvent == {"p1", "p2", "q1", "q2", "q2x", "q3x", "qp"}

\* References across origins and two declarations of one actor.
GraphEvent == {"p1", "p2", "p3", "p3v", "q1", "q2s", "q3s"}

\* Two local events, one of them adding a key, compete for one slot while
\* another origin's revocation of that key arrives, early or late, followed by
\* an event no projection accepts.
TaskEvent == {"p1", "p2", "p2k", "q1k", "q2u"}

-----------------------------------------------------------------------------
(* What the documentation says and the code does not do.                   *)

\* The server's local commits and a rebuild from the command line, no others.
RebuildNext ==
    \E t \in Task :
        \/ /\ ProcessOf[t] \notin CommandLine
           /\ \/ \E e \in Event : BeginCommit(t, e)
              \/ EndCommit(t)
              \/ Abort(t)
        \/ Rebuild(t)

RebuildSpec == Init /\ [][RebuildNext]_vars

\* "SQLite's busy_timeout will just serialize concurrent writers" (the comment
\* on rebuild_projection): a local commit that meets a rebuild waits for it
\* and then goes through, its snapshot never overtaken.
RebuildOnlyDelays == \A t \in Task : tx[t].op = "commit" => t \notin stale
=============================================================================
