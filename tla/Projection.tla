----------------------------- MODULE Projection -----------------------------
(***************************************************************************)
(* The projector: how one event changes the graph tables.                  *)
(*                                                                         *)
(* A projection either succeeds or fails with an error that rolls back the *)
(* surrounding transaction, so project_xxx(g, e) is the set of graphs it   *)
(* can produce from g: {} when it fails and one graph when it succeeds.    *)
(*                                                                         *)
(* A table keyed by an id is a function from the ids present to the row;   *)
(* f @@ (k :> r) is INSERT OR IGNORE (the row already there wins).  Time   *)
(* stamps, confidences and other columns no statement reads are left out.  *)
(***************************************************************************)
EXTENDS EventLog, TLC

CONSTANTS
    PayloadOf,      \* the payload of an event
    Blank           \* SQL NULL in a text column, and a missing option

\* ActorId::derive: from the declared public key, else from the event itself.
actor_id(e) ==
    IF PayloadOf[e].public_key = Blank THEN e ELSE PayloadOf[e].public_key

EmptyTable == [k \in {} |-> Blank]

EmptyGraph ==
    [nodes         |-> EmptyTable,  \* canonical identifier -> node type
     aliases       |-> {},          \* <<node, alias>>
     edges         |-> {},          \* <<subject, predicate, object>>
     actors        |-> EmptyTable,  \* actor id -> identity_uri
     keys          |-> EmptyTable,  \* key hash -> [actor, revoked]
     assertions    |-> EmptyTable,  \* event id -> [edge, actor, status]
     evidence      |-> EmptyTable,  \* event id -> [assertion, text]
     observations  |-> EmptyTable,  \* event id -> [assertion, actor]
     disputes      |-> EmptyTable,  \* event id -> [assertion, actor]
     retractions   |-> EmptyTable,  \* event id -> [assertion, actor]
     supersessions |-> EmptyTable]  \* event id -> [assertion, new, actor]

-----------------------------------------------------------------------------
(* Statements of the storage layer.                                        *)

\* INSERT: a row whose primary key is taken is an error.
insert(table, k, row) == IF k \in DOMAIN table THEN {} ELSE {table @@ (k :> row)}

\* assertions::set_status: an unconditional UPDATE.
set_status(g, a, status) == [g EXCEPT !.assertions[a].status = status]

\* assertions::redact_evidence and actors::redact_identity_uri, for every id
\* of a set: UPDATE ... SET text = NULL WHERE id = ?.
redact_evidence(g, ids) ==
    [g EXCEPT !.evidence =
        [id \in DOMAIN @ |->
            IF id \in ids THEN [@[id] EXCEPT !.text = Blank] ELSE @[id]]]

redact_identity_uri(g, ids) ==
    [g EXCEPT !.actors =
        [id \in DOMAIN @ |-> IF id \in ids THEN Blank ELSE @[id]]]

\* actors::revoke_key: UPDATE ... WHERE revoked_at IS NULL; no row is no error.
revoke_key(g, k) ==
    IF k \in DOMAIN g.keys THEN [g EXCEPT !.keys[k].revoked = TRUE] ELSE g

-----------------------------------------------------------------------------
(* One operator per event type.                                            *)

\* resolve_or_create_node: the first event that names a node fixes its type.
resolve_or_create_node(g, id, type) == [g EXCEPT !.nodes = @ @@ (id :> type)]

project_assert_relation(g, e) ==
    LET p    == PayloadOf[e]
        edge == <<p.subject, p.predicate, p.object>>
        g1   == resolve_or_create_node(g, p.subject, p.subject_type)
        g2   == resolve_or_create_node(g1, p.object, p.object_type)
        g3   == [g2 EXCEPT !.edges = @ \cup {edge}]
        row  == [edge |-> edge, actor |-> p.actor, status |-> "active"]
    IN  IF p.actor \in DOMAIN g.actors      \* foreign key
        THEN {[g3 EXCEPT !.assertions = t] : t \in insert(g3.assertions, e, row)}
        ELSE {}

project_add_evidence(g, e) ==
    LET p == PayloadOf[e]
    IN  IF p.assertion \in DOMAIN g.assertions
        THEN {[g EXCEPT !.evidence = t] :
                t \in insert(g.evidence, e,
                             [assertion |-> p.assertion, text |-> p.text])}
        ELSE {}

\* What verify, dispute and retract share: the assertion must exist, the
\* actor too (foreign key), and the audit row is inserted.
AuditRow(g, table, e) ==
    LET p == PayloadOf[e]
    IN  IF p.assertion \in DOMAIN g.assertions /\ p.actor \in DOMAIN g.actors
        THEN insert(table, e, [assertion |-> p.assertion, actor |-> p.actor])
        ELSE {}

project_verify_assertion(g, e) ==
    {[g EXCEPT !.observations = t] : t \in AuditRow(g, g.observations, e)}

project_dispute_assertion(g, e) ==
    {set_status([g EXCEPT !.disputes = t], PayloadOf[e].assertion, "disputed") :
        t \in AuditRow(g, g.disputes, e)}

project_retract_assertion(g, e) ==
    {set_status([g EXCEPT !.retractions = t], PayloadOf[e].assertion, "retracted") :
        t \in AuditRow(g, g.retractions, e)}

\* Mutant: the new assertion is marked instead of the old one.
supersede_new(g, e) ==
    LET p == PayloadOf[e]
    IN  IF /\ {p.old, p.new} \subseteq DOMAIN g.assertions
           /\ p.actor \in DOMAIN g.actors
        THEN {set_status([g EXCEPT !.supersessions = t], p.new, "superseded") :
                t \in insert(g.supersessions, e,
                             [assertion |-> p.old, new |-> p.new, actor |-> p.actor])}
        ELSE {}

\* Mutant: the superseded assertion is not looked up.
supersede_unchecked(g, e) ==
    LET p == PayloadOf[e]
    IN  {[g EXCEPT !.supersessions = t] :
            t \in insert(g.supersessions, e,
                         [assertion |-> p.old, new |-> p.new, actor |-> p.actor])}

project_supersede_assertion(g, e) ==
    LET p == PayloadOf[e]
    IN  IF /\ {p.old, p.new} \subseteq DOMAIN g.assertions
           /\ p.actor \in DOMAIN g.actors
        THEN {set_status([g EXCEPT !.supersessions = t], p.old, "superseded") :
                t \in insert(g.supersessions, e,
                             [assertion |-> p.old, new |-> p.new, actor |-> p.actor])}
        ELSE {}

\* The first declaration of an actor id wins, and repeating it is no error.
project_actor_declare(g, e) ==
    {[g EXCEPT !.actors = @ @@ (actor_id(e) :> PayloadOf[e].identity_uri)]}

project_actor_key_add(g, e) ==
    LET p == PayloadOf[e]
    IN  IF p.actor \in DOMAIN g.actors
        THEN {[g EXCEPT !.keys = t] :
                t \in insert(g.keys, p.key_hash,
                             [actor |-> p.actor, revoked |-> FALSE])}
        ELSE {}

project_actor_key_revoke(g, e) == {revoke_key(g, PayloadOf[e].key_hash)}

project_node_alias(g, e) ==
    LET p == PayloadOf[e]
    IN  IF p.node \in DOMAIN g.nodes
        THEN {[g EXCEPT !.aliases = @ \cup {<<p.node, p.alias>>}]}
        ELSE {}

project(g, e) ==
    LET type == PayloadOf[e].type
    IN  CASE type = "ASSERT_RELATION"     -> project_assert_relation(g, e)
          [] type = "ADD_EVIDENCE"        -> project_add_evidence(g, e)
          [] type = "VERIFY_ASSERTION"    -> project_verify_assertion(g, e)
          [] type = "DISPUTE_ASSERTION"   -> project_dispute_assertion(g, e)
          [] type = "RETRACT_ASSERTION"   -> project_retract_assertion(g, e)
          [] type = "SUPERSEDE_ASSERTION" -> project_supersede_assertion(g, e)
          [] type = "ACTOR_DECLARE"       -> project_actor_declare(g, e)
          [] type = "ACTOR_KEY_ADD"       -> project_actor_key_add(g, e)
          [] type = "ACTOR_KEY_REVOKE"    -> project_actor_key_revoke(g, e)
          [] type = "NODE_ALIAS"          -> project_node_alias(g, e)
          [] OTHER                        -> {}  \* an enum value that does not parse

\* events::add_ref calls of the projector: the objects an event touches.
refs(e) ==
    LET p == PayloadOf[e]
    IN  CASE p.type = "ASSERT_RELATION" ->
               {<<"assertion", e>>, <<"edge", <<p.subject, p.predicate, p.object>>>>,
                <<"node", p.subject>>, <<"node", p.object>>}
          [] p.type \in {"ADD_EVIDENCE", "VERIFY_ASSERTION",
                         "DISPUTE_ASSERTION", "RETRACT_ASSERTION"} ->
               {<<"assertion", p.assertion>>}
          [] p.type = "SUPERSEDE_ASSERTION" ->
               {<<"assertion", p.old>>, <<"assertion", p.new>>}
          [] OTHER -> {}

-----------------------------------------------------------------------------
(* Rebuilding the graph from the log.                                      *)

\* Mutant: the log is read origin by origin, not in rowid order.
replay_by_origin(log) ==
    LET last   == CHOOSE o \in Peer : TRUE
        Last(e) == OriginOf[e] = last
        Rest(e) == OriginOf[e] # last
        sorted == SelectSeq(log, Rest) \o SelectSeq(log, Last)
        r[n \in 0..Len(log)] ==
            IF n = 0 THEN {EmptyGraph}
                     ELSE UNION {project(g, sorted[n]) : g \in r[n - 1]}
    IN  r[Len(log)]

\* rebuild_projection's loop: project every event in rowid order from empty
\* tables; {} if one of them fails.
replay(log) ==
    LET r[n \in 0..Len(log)] ==
            IF n = 0 THEN {EmptyGraph}
                     ELSE UNION {project(g, log[n]) : g \in r[n - 1]}
    IN  r[Len(log)]

\* Mutant: the actors' tombstones are forgotten.
reapply_evidence_only(g, evidence_ids, actor_ids) == redact_evidence(g, evidence_ids)

\* The outstanding redactions are applied after the replay.
reapply_redactions(g, evidence_ids, actor_ids) ==
    redact_identity_uri(redact_evidence(g, evidence_ids), actor_ids)
=============================================================================
