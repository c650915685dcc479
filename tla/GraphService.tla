---------------------------- MODULE GraphService ----------------------------
(***************************************************************************)
(* The service layer between the callers of a peer and its event log: API  *)
(* keys and permissions, the mutations with the checks they make before    *)
(* they commit, and the key of the first administrator.  Every commit is   *)
(* one step here: PeerStore shows that it may be taken for one, and        *)
(* Projection what an event does to the tables, which are read from the    *)
(* log by operators.                                                       *)
(*                                                                         *)
(* A call is one request of the server (REST or MCP) or one run of the     *)
(* command line.  Its id also names what it creates: actor, key, assertion. *)
(***************************************************************************)
EXTENDS Naturals, Sequences, FiniteSets

CONSTANTS
    Call,
    Bootstrap,              \* the id of what bootstrap_admin creates
    Grant,                  \* permission sets that oag key create hands out
    Tried,                  \* the mutations the callers use
    MaxEvidence, MaxCrashes

VARIABLES
    log,        \* this peer's own events
    server,     \* down, bootstrap_admin before its first and second commit, up
    call,       \* the calls
    crashes

graphVars == <<log, server, call, crashes>>

Id == Call \union {Bootstrap}

-----------------------------------------------------------------------------
(* The tables.                                                             *)

Logged(n) == {log[i] : i \in 1..n}
Events    == Logged(Len(log))

any_actor_exists == \E e \in Events : e.type = "ACTOR_DECLARE"

\* Mutant: revocations are not looked at.
key_at_all(n, k) == {e \in Logged(n) : e.type = "ACTOR_KEY_ADD" /\ e.key = k}

\* The row of an active key, as find_active_key returns it after n events.
find_active_key_at(n, k) ==
    {e \in Logged(n) :
        /\ e.type = "ACTOR_KEY_ADD" /\ e.key = k
        /\ ~\E f \in Logged(n) : f.type = "ACTOR_KEY_REVOKE" /\ f.key = k}

find_active_key(k) == find_active_key_at(Len(log), k)

get_assertion(a) == {e \in Events : e.type = "assert" /\ e.id = a}

Assertions == {e.id : e \in {f \in Events : f.type = "assert"}}

-----------------------------------------------------------------------------
(* The server's mutations.                                                 *)

PermissionFor ==
    [assert       |-> "graph:assert", add_evidence |-> "graph:assert",
     declare_alias |-> "graph:assert", verify      |-> "graph:verify",
     dispute      |-> "graph:assert", supersede    |-> "graph:assert",
     retract      |-> "graph:retract-own"]

Mutation == DOMAIN PermissionFor

\* The assertions a call names; an alias names a node, made by an assertion.
Names(m) ==
    CASE m = "assert"    -> {{}}
      [] m = "supersede" -> {s \in SUBSET Call : Cardinality(s) \in 1..2}
      [] OTHER           -> {{a} : a \in Call}

require(permissions, permission) == permission \in permissions \/ "admin" \in permissions

Idle == [state |-> "idle"]

Answer(c, result) == call' = [call EXCEPT ![c].state = result]

\* authenticate and the permission check that starts every mutation.
Authenticate(c, k, m, names, evidence) ==
    /\ server = "up" /\ call[c] = Idle
    /\ \/ /\ find_active_key(k) = {}
          /\ call' = [call EXCEPT ![c] = [state |-> "denied"]]
       \/ \E row \in find_active_key(k) :
             call' = [call EXCEPT ![c] =
                IF require(row.permissions, PermissionFor[m])
                THEN [state |-> IF m = "retract" THEN "check" ELSE "commit",
                      op |-> m, names |-> names, evidence |-> evidence, left |-> evidence, key |-> k,
                      actor |-> row.actor, permissions |-> row.permissions, seen |-> Len(log)]
                ELSE [state |-> "denied"]]
    /\ UNCHANGED <<log, server, crashes>>

\* Mutant: any caller with graph:retract-own may retract anything.
check_exists(c) ==
    /\ call[c].state = "check"
    /\ \E a \in call[c].names : Answer(c, IF get_assertion(a) = {} THEN "denied" ELSE "commit")
    /\ UNCHANGED <<log, server, crashes>>

\* retract_assertion reads the assertion before it commits.
CheckOwner(c) ==
    /\ call[c].state = "check"
    /\ \E a \in call[c].names :
          Answer(c, IF \E row \in get_assertion(a) :
                          row.actor = call[c].actor \/ "admin" \in call[c].permissions
                    THEN "commit"
                    ELSE "denied")
    /\ UNCHANGED <<log, server, crashes>>

Event(c, type) ==
    [type |-> type, id |-> c, names |-> call[c].names, actor |-> call[c].actor,
     key |-> call[c].key, seen |-> call[c].seen]

\* commit_event of the call's own event; its projection needs what it names.
Commit(c) ==
    /\ call[c].state = "commit" /\ call[c].names \subseteq Assertions
    /\ log' = Append(log, Event(c, call[c].op))
    /\ Answer(c, IF call[c].left > 0 THEN "evidence" ELSE "ok")
    /\ UNCHANGED <<server, crashes>>

\* assert goes on with a commit for each piece of evidence.
add_evidence_internal(c) ==
    /\ call[c].state = "evidence"
    /\ log' = Append(log, Event(c, "add_evidence"))
    /\ call' = [call EXCEPT ![c].left = @ - 1,
                            ![c].state = IF call[c].left > 1 THEN "evidence" ELSE "ok"]
    /\ UNCHANGED <<server, crashes>>

AtServer == {"check", "commit", "evidence"}
AtCli    == {"create", "revoke"}

\* Mutant: what is left undone is not reported.
ok_anyway(c) ==
    /\ call[c].state \in AtServer \union AtCli
    /\ Answer(c, IF call[c].state = "evidence" THEN "ok" ELSE "error")
    /\ UNCHANGED <<log, server, crashes>>

\* A commit fails, the projection's lookups included, or a command is killed.
CommitFails(c) ==
    /\ call[c].state \in AtServer \union AtCli
    /\ Answer(c, "error")
    /\ UNCHANGED <<log, server, crashes>>

-----------------------------------------------------------------------------
(* The command line.                                                       *)

ActorDeclare(c) == [type |-> "ACTOR_DECLARE", id |-> c]

ActorKeyAdd(c, permissions) ==
    [type |-> "ACTOR_KEY_ADD", id |-> c, key |-> c, actor |-> c, permissions |-> permissions]

key_create(c, permissions) ==
    /\ call[c] = Idle
    /\ log' = Append(log, ActorDeclare(c))
    /\ call' = [call EXCEPT ![c] = [state |-> "create", permissions |-> permissions]]
    /\ UNCHANGED <<server, crashes>>

create_key(c) ==
    /\ call[c].state = "create"
    /\ log' = Append(log, ActorKeyAdd(c, call[c].permissions))
    /\ Answer(c, "ok")
    /\ UNCHANGED <<server, crashes>>

\* revoke_key: the key is looked up, then the revocation committed.
key_revoke(c, k) ==
    /\ call[c] = Idle
    /\ call' = [call EXCEPT ![c] = IF find_active_key(k) = {}
                                   THEN [state |-> "denied"]
                                   ELSE [state |-> "revoke", key |-> k]]
    /\ UNCHANGED <<log, server, crashes>>

revoke_key(c) ==
    /\ call[c].state = "revoke"
    /\ log' = Append(log, [type |-> "ACTOR_KEY_REVOKE", id |-> c, key |-> call[c].key])
    /\ Answer(c, "ok")
    /\ UNCHANGED <<server, crashes>>

-----------------------------------------------------------------------------
(* Starting, and stopping at any moment.                                   *)

\* Mutant: a missing key, not a missing actor, makes a first run.
run_without_keys ==
    /\ server = "down"
    /\ server' = IF \E e \in Events : e.type = "ACTOR_KEY_ADD" THEN "up" ELSE "declare"
    /\ UNCHANGED <<log, call, crashes>>

run ==
    /\ server = "down"
    /\ server' = IF any_actor_exists THEN "up" ELSE "declare"
    /\ UNCHANGED <<log, call, crashes>>

bootstrap_admin ==
    /\ \/ server = "declare" /\ log' = Append(log, ActorDeclare(Bootstrap)) /\ server' = "create"
       \/ server = "create" /\ log' = Append(log, ActorKeyAdd(Bootstrap, {"admin"})) /\ server' = "up"
    /\ UNCHANGED <<call, crashes>>

Crash ==
    /\ server # "down" /\ crashes < MaxCrashes
    /\ server' = "down" /\ crashes' = crashes + 1
    /\ call' = [c \in Call |-> IF call[c].state \in AtServer
                               THEN [call[c] EXCEPT !.state = "lost"]
                               ELSE call[c]]
    /\ UNCHANGED log

GraphInit == log = <<>> /\ server = "down" /\ call = [c \in Call |-> Idle] /\ crashes = 0

GraphNext ==
    \/ run \/ bootstrap_admin \/ Crash
    \/ \E c \in Call :
          \/ \E k \in Id, m \in Tried : \E names \in Names(m),
                n \in IF m = "assert" THEN 0..MaxEvidence ELSE {0} : Authenticate(c, k, m, names, n)
          \/ CheckOwner(c) \/ Commit(c) \/ add_evidence_internal(c) \/ CommitFails(c)
          \/ (\E permissions \in Grant : key_create(c, permissions)) \/ create_key(c)
          \/ (\E k \in Id : key_revoke(c, k)) \/ revoke_key(c)

GraphSpec == GraphInit /\ [][GraphNext]_graphVars

-----------------------------------------------------------------------------
Own(c) == SelectSeq(log, LAMBDA e : e.id = c)

(* What a caller is told is what was committed: after "ok" the log has     *)
(* the assertion and every piece of its evidence, after a refusal nothing;  *)
(* and whatever failed or crashed in between left the assertion first.     *)
(* (assert and add_evidence_internal are separate commits.)                *)
AnswersAreTrue ==
    \A c \in Call :
        /\ call[c].state = "denied" => Own(c) = <<>>
        /\ "evidence" \in DOMAIN call[c] =>
              /\ call[c].state = "ok" => Len(Own(c)) = 1 + call[c].evidence
              /\ \A i \in 1..Len(Own(c)) : i = 1 <=> Own(c)[i].type = call[c].op

(* An assertion is only ever retracted by the actor that made it or by the  *)
(* holder of an admin key (retract_assertion, whose check and commit are   *)
(* two steps).                                                             *)
RetractedByOwnerOrAdmin ==
    \A i \in 1..Len(log) : log[i].type = "retract" =>
        \E j \in 1..(i - 1) :
            /\ log[j].type \in {"assert", "ACTOR_KEY_ADD"} /\ log[j].actor = log[i].actor
            /\ IF log[j].type = "assert" THEN log[i].names = {log[j].id}
                                         ELSE "admin" \in log[j].permissions

(* A revoked key only finishes what it began: an event committed with it    *)
(* after the revocation belongs to a call that was authenticated before it. *)
(* (authenticate reads active keys only; nothing checks the key again.)    *)
RevokedKeysOnlyFinish ==
    \A i, j \in 1..Len(log) :
        /\ i < j /\ log[i].type = "ACTOR_KEY_REVOKE"
        /\ log[j].type \in Mutation /\ log[j].key = log[i].key
        => log[j].seen < i

(* The first administrator is created at most once, however often the       *)
(* server is stopped while it starts (run, bootstrap_admin).               *)
BootstrapOnce ==
    \A i, j \in 1..Len(log) :
        log[i].id = Bootstrap /\ log[j].id = Bootstrap /\ log[i].type = log[j].type => i = j

=============================================================================
