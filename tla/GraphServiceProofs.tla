------------------------- MODULE GraphServiceProofs -------------------------
(***************************************************************************)
(* What revoked keys can still do, who retracts, and how often the first   *)
(* administrator is created, for any number of calls, crashes and pieces   *)
(* of evidence.                                                            *)
(***************************************************************************)
EXTENDS GraphService, Integers, TLAPS

\* What the proofs ask of the constants.
GraphConstants ==
    /\ Bootstrap \notin Call /\ Tried \subseteq Mutation
    /\ MaxEvidence \in Nat

Permission == {"admin"} \union UNION Grant

KeyEvent == {"ACTOR_DECLARE", "ACTOR_KEY_ADD", "ACTOR_KEY_REVOKE"}

\* The events.
AnEvent ==
    [type : {"ACTOR_DECLARE"}, id : Id]
    \union [type : {"ACTOR_KEY_ADD"}, id : Id, key : Id, actor : Id, permissions : SUBSET Permission]
    \union [type : {"ACTOR_KEY_REVOKE"}, id : Id, key : Id]
    \union [type : Mutation, id : Call, names : SUBSET Call, actor : Id, key : Id, seen : Nat]

\* The calls of the server that got past their authentication.
Admitted ==
    [state : {"check", "commit", "evidence", "ok", "error", "denied", "lost"}, op : Mutation,
     names : SUBSET Call, evidence : Int, left : Int, key : Id, actor : Id,
     permissions : SUBSET Permission, seen : Nat]

ACall ==
    [state : {"idle", "denied"}] \union Admitted
    \union [state : {"create", "ok", "error"}, permissions : SUBSET Permission]
    \union [state : {"revoke", "ok", "error"}, key : Id]

GraphTypes ==
    /\ log \in Seq(AnEvent) /\ call \in [Call -> ACall]
    /\ server \in {"down", "declare", "create", "up"}

-----------------------------------------------------------------------------
Revoked(n, k) == \E i \in 1..n : log[i].type = "ACTOR_KEY_REVOKE" /\ log[i].key = k

\* Among the first n events is the actor's own assertion, or its admin key.
MayRetract(names, actor, n) ==
    \E j \in 1..n :
        /\ log[j].type \in {"assert", "ACTOR_KEY_ADD"} /\ log[j].actor = actor
        /\ IF log[j].type = "assert" THEN names = {log[j].id}
                                     ELSE "admin" \in log[j].permissions

\* An event that may follow the first n.
Sound(e, n) ==
    /\ e.type \in Mutation => e.seen \in 0..n /\ ~Revoked(e.seen, e.key)
    /\ e.type = "retract" => MayRetract(e.names, e.actor, n)

AtWork == {"check", "commit", "evidence"}

\* A call at work authenticated with a key that was active, which gave it its
\* actor and permissions; one that has passed the owner's check may retract.
CallSound(r) ==
    r.state \in AtWork =>
        /\ r \in Admitted
        /\ r.seen \in 0..Len(log) /\ ~Revoked(r.seen, r.key)
        /\ \E j \in 1..Len(log) : /\ log[j].type = "ACTOR_KEY_ADD" /\ log[j].actor = r.actor
                                  /\ log[j].permissions = r.permissions
        /\ r.op = "retract" /\ r.state # "check" => MayRetract(r.names, r.actor, Len(log))
        /\ r.op = "retract" /\ r.state = "check" => \E a \in Call : r.names = {a}

GraphInv ==
    /\ GraphTypes
    /\ \A j \in 1..Len(log) : Sound(log[j], j - 1)
    /\ \A c \in Call : CallSound(call[c])

-----------------------------------------------------------------------------
\* Appending an event leaves the earlier ones where they are.
LEMMA AppendKeeps ==
    ASSUME GraphTypes, NEW e \in AnEvent, log' = Append(log, e)
    PROVE  /\ log' \in Seq(AnEvent) /\ Len(log') = Len(log) + 1 /\ log'[Len(log')] = e
           /\ \A i \in 1..Len(log) : log'[i] = log[i]
           /\ Len(log) \in Nat
BY DEF GraphTypes

\* What was true of an event or a call stays true as the log grows.
LEMMA GrowthKeeps ==
    ASSUME GraphTypes, NEW e \in AnEvent, log' = Append(log, e), Sound(e, Len(log)),
           \A j \in 1..Len(log) : Sound(log[j], j - 1)
    PROVE  /\ log' \in Seq(AnEvent)
           /\ \A j \in 1..Len(log') : Sound(log[j], j - 1)'
           /\ \A r : CallSound(r) => CallSound(r)'
<1>1. /\ log' \in Seq(AnEvent) /\ Len(log') = Len(log) + 1 /\ log'[Len(log')] = e
      /\ \A i \in 1..Len(log) : log'[i] = log[i]
      /\ Len(log) \in Nat
  BY AppendKeeps
<1>2. \A n \in 0..Len(log) : \A k : Revoked(n, k)' <=> Revoked(n, k)
  BY <1>1 DEF Revoked
<1>3. \A n \in 0..Len(log) : \A names, actor :
          MayRetract(names, actor, n)' <=> MayRetract(names, actor, n)
  <2>. SUFFICES ASSUME NEW n \in 0..Len(log), NEW names, NEW actor
                PROVE  MayRetract(names, actor, n)' <=> MayRetract(names, actor, n)
    OBVIOUS
  <2>1. \A j \in 1..n : log'[j] = log[j]
    BY <1>1
  <2>. QED BY <2>1 DEF MayRetract
<1>4. \A names, actor : MayRetract(names, actor, Len(log)) => MayRetract(names, actor, Len(log))'
  BY <1>1 DEF MayRetract
<1>5. \A j \in 1..Len(log') : Sound(log[j], j - 1)'
  <2>. SUFFICES ASSUME NEW j \in 1..Len(log') PROVE Sound(log[j], j - 1)'
    OBVIOUS
  <2>1. CASE j \in 1..Len(log)
    <3>1. Sound(log[j], j - 1) /\ log'[j] = log[j] /\ j - 1 \in 0..Len(log)
      BY <1>1, <2>1
    <3>. QED BY <1>1, <1>2, <1>3, <3>1 DEF Sound
  <2>2. CASE j = Len(log) + 1
    <3>1. log'[j] = e /\ j - 1 = Len(log) /\ Sound(e, Len(log))
      BY <1>1, <2>2
    <3>. QED BY <1>1, <1>2, <1>3, <3>1 DEF Sound
  <2>. QED BY <1>1, <2>1, <2>2
<1>6. \A r : CallSound(r) => CallSound(r)'
  <2>. SUFFICES ASSUME NEW r, CallSound(r), r.state \in AtWork PROVE CallSound(r)'
    BY DEF CallSound
  <2>1. r.seen \in 0..Len(log') /\ ~Revoked(r.seen, r.key)'
    BY <1>1, <1>2 DEF CallSound
  <2>2. \E j \in 1..Len(log') : /\ log'[j].type = "ACTOR_KEY_ADD" /\ log'[j].actor = r.actor
                                /\ log'[j].permissions = r.permissions
    BY <1>1 DEF CallSound
  <2>3. r.op = "retract" /\ r.state # "check" => MayRetract(r.names, r.actor, Len(log))'
    BY <1>4 DEF CallSound
  <2>. QED BY <2>1, <2>2, <2>3 DEF CallSound
<1>. QED BY <1>1, <1>5, <1>6

\* The mutations are none of the events about actors and keys.
LEMMA MutationsAreNoKeyEvents ==
    /\ Mutation = {"assert", "add_evidence", "declare_alias", "verify", "dispute",
                   "supersede", "retract"}
    /\ Mutation \intersect KeyEvent = {}
BY DEF Mutation, PermissionFor, KeyEvent

\* A step that sets one call and commits at most one sound event.
LEMMA OneCallKeeps ==
    ASSUME GraphInv, NEW c \in Call, NEW r \in ACall, CallSound(r),
           call' = [call EXCEPT ![c] = r], server' = server,
           \/ log' = log
           \/ \E e \in AnEvent : log' = Append(log, e) /\ Sound(e, Len(log))
    PROVE  GraphInv'
<1>1. call' \in [Call -> ACall] /\ \A d \in Call : CallSound(call'[d])
  BY DEF GraphInv, GraphTypes
<1>2. CASE log' = log
  <2>1. \A x : CallSound(x)' <=> CallSound(x)
    BY <1>2 DEF CallSound, Revoked, MayRetract
  <2>2. \A j \in 1..Len(log') : Sound(log[j], j - 1)'
    BY <1>2 DEF GraphInv, Sound, Revoked, MayRetract
  <2>. QED BY <1>1, <1>2, <2>1, <2>2 DEF GraphInv, GraphTypes
<1>3. ASSUME NEW e \in AnEvent, log' = Append(log, e), Sound(e, Len(log)) PROVE GraphInv'
  <2>1. /\ log' \in Seq(AnEvent) /\ \A j \in 1..Len(log') : Sound(log[j], j - 1)'
        /\ \A x : CallSound(x) => CallSound(x)'
    BY <1>3, GrowthKeeps DEF GraphInv
  <2>. QED BY <1>1, <2>1 DEF GraphInv, GraphTypes
<1>. QED BY <1>2, <1>3

\* An answer of a call, whatever follows from its new state.
LEMMA AnswerIs ==
    ASSUME GraphTypes, NEW c \in Call, NEW result, Answer(c, result)
    PROVE  /\ call' = [call EXCEPT ![c] = [call[c] EXCEPT !.state = result]]
           /\ [call[c] EXCEPT !.state = result].state = result
<1>1. call[c] \in ACall /\ call' = [call EXCEPT ![c] = [call[c] EXCEPT !.state = result]]
  BY DEF GraphTypes, Answer
<1>. QED BY <1>1 DEF ACall, Admitted

\* Events about actors and keys are sound wherever they stand.
LEMMA KeyEventsSound ==
    ASSUME NEW e \in AnEvent, e.type \in KeyEvent, NEW n
    PROVE  Sound(e, n)
BY MutationsAreNoKeyEvents DEF Sound, KeyEvent

\* authenticate admits a call only with a key that is active.
LEMMA AuthenticateKeeps ==
    ASSUME GraphConstants, GraphInv, NEW c \in Call, NEW k \in Id, NEW m \in Tried,
           NEW names \in Names(m), NEW n \in Int, Authenticate(c, k, m, names, n)
    PROVE  GraphInv'
<1>1. log' = log /\ server' = server
  BY DEF Authenticate
<1>2. CASE call' = [call EXCEPT ![c] = [state |-> "denied"]]
  <2>1. [state |-> "denied"] \in ACall /\ CallSound([state |-> "denied"])
    BY DEF ACall, CallSound, AtWork
  <2>. QED BY <1>1, <1>2, <2>1, OneCallKeeps
<1>3. ASSUME NEW row \in find_active_key(k),
             call' = [call EXCEPT ![c] =
                         [state |-> IF m = "retract" THEN "check" ELSE "commit", op |-> m,
                          names |-> names, evidence |-> n, left |-> n, key |-> k,
                          actor |-> row.actor, permissions |-> row.permissions,
                          seen |-> Len(log)]]
      PROVE  GraphInv'
  <2>. DEFINE r == [state |-> IF m = "retract" THEN "check" ELSE "commit", op |-> m,
                    names |-> names, evidence |-> n, left |-> n, key |-> k,
                    actor |-> row.actor, permissions |-> row.permissions, seen |-> Len(log)]
  <2>1. Len(log) \in Nat /\ \A i \in 1..Len(log) : log[i] \in AnEvent
    BY DEF GraphInv, GraphTypes
  <2>2. /\ row \in Logged(Len(log)) /\ row.type = "ACTOR_KEY_ADD" /\ row.key = k
        /\ ~\E f \in Logged(Len(log)) : f.type = "ACTOR_KEY_REVOKE" /\ f.key = k
    BY <1>3 DEF find_active_key, find_active_key_at
  <2>3. PICK j \in 1..Len(log) : row = log[j]
    BY <2>2 DEF Logged
  <2>4. row.actor \in Id /\ row.permissions \in SUBSET Permission
    BY <2>1, <2>2, <2>3, MutationsAreNoKeyEvents DEF AnEvent, KeyEvent
  <2>5. ~Revoked(Len(log), k)
    BY <2>2 DEF Revoked, Logged
  <2>6. names \in SUBSET Call /\ (m = "retract" => \E a \in Call : names = {a})
    BY DEF Names
  <2>7. m \in Mutation
    BY DEF GraphConstants
  <2>8. r \in Admitted
    BY <2>1, <2>4, <2>6, <2>7 DEF Admitted
  <2>9. CallSound(r)
    BY <2>1, <2>2, <2>3, <2>5, <2>6, <2>8 DEF CallSound, AtWork
  <2>10. r \in ACall
    BY <2>8 DEF ACall
  <2>. QED BY <1>1, <1>3, <2>9, <2>10, OneCallKeeps
<1>. QED BY <1>2, <1>3 DEF Authenticate

\* A call that has ended is sound.
LEMMA EndedIsSound ==
    ASSUME NEW r, r.state \notin AtWork
    PROVE  CallSound(r)
BY DEF CallSound

\* The owner's check.
LEMMA CheckKeeps ==
    ASSUME GraphInv, NEW c \in Call, CheckOwner(c)
    PROVE  GraphInv'
<1>. DEFINE r(result) == [call[c] EXCEPT !.state = result]
<1>1. /\ call[c].state = "check" /\ log' = log /\ server' = server
      /\ call[c] \in Admitted /\ CallSound(call[c])
  BY DEF CheckOwner, GraphInv, CallSound, AtWork
<1>2. \A result \in {"denied", "commit"} : r(result) \in Admitted /\ r(result) \in ACall
  BY <1>1 DEF Admitted, ACall
<1>3. PICK a \in call[c].names :
         Answer(c, IF \E row \in get_assertion(a) :
                         row.actor = call[c].actor \/ "admin" \in call[c].permissions
                   THEN "commit" ELSE "denied")
  BY DEF CheckOwner
<1>4. CASE \E row \in get_assertion(a) :
              row.actor = call[c].actor \/ "admin" \in call[c].permissions
  <2>1. Answer(c, "commit")
    BY <1>3, <1>4
  <2>2. call' = [call EXCEPT ![c] = r("commit")] /\ r("commit").state = "commit"
    BY <2>1, AnswerIs DEF GraphInv
  <2>3. MayRetract({a}, call[c].actor, Len(log))
    <3>1. PICK row \in get_assertion(a) :
             row.actor = call[c].actor \/ "admin" \in call[c].permissions
      BY <1>4
    <3>2. PICK i \in 1..Len(log) : log[i].type = "assert" /\ log[i].id = a /\ row = log[i]
      BY <3>1 DEF get_assertion, Events, Logged
    <3>3. CASE row.actor = call[c].actor
      BY <3>2, <3>3 DEF MayRetract
    <3>4. CASE "admin" \in call[c].permissions
      BY <1>1, <3>4 DEF MayRetract, CallSound, AtWork
    <3>. QED BY <3>1, <3>3, <3>4
  <2>4. r("commit") = [call[c] EXCEPT !.state = "commit"] /\ r("commit").names = call[c].names
        /\ r("commit").actor = call[c].actor /\ r("commit").op = call[c].op
        /\ r("commit").seen = call[c].seen /\ r("commit").key = call[c].key
        /\ r("commit").permissions = call[c].permissions
    BY <1>1 DEF Admitted
  <2>5. call[c].op = "retract" => call[c].names = {a}
    BY <1>1 DEF CallSound, AtWork
  <2>6. CallSound(r("commit"))
    BY <1>1, <1>2, <2>2, <2>3, <2>4, <2>5 DEF CallSound, AtWork
  <2>. QED BY <1>1, <1>2, <2>2, <2>6, OneCallKeeps
<1>5. CASE ~\E row \in get_assertion(a) :
              row.actor = call[c].actor \/ "admin" \in call[c].permissions
  <2>1. Answer(c, "denied")
    BY <1>3, <1>5
  <2>2. call' = [call EXCEPT ![c] = r("denied")] /\ r("denied").state = "denied"
    BY <2>1, AnswerIs DEF GraphInv
  <2>3. CallSound(r("denied"))
    BY <2>2, EndedIsSound DEF AtWork
  <2>. QED BY <1>1, <1>2, <2>2, <2>3, OneCallKeeps
<1>. QED BY <1>4, <1>5

\* The event a call at work commits is sound.
LEMMA EventSound ==
    ASSUME GraphInv, NEW c \in Call, call[c].state \in {"commit", "evidence"},
           NEW type \in {call[c].op, "add_evidence"}
    PROVE  Event(c, type) \in AnEvent /\ Sound(Event(c, type), Len(log))
<1>1. call[c] \in Admitted /\ CallSound(call[c])
  BY DEF GraphInv, CallSound, AtWork
<1>2. type \in Mutation
  BY <1>1, MutationsAreNoKeyEvents DEF Admitted
<1>3. Event(c, type) \in AnEvent
  BY <1>1, <1>2 DEF Event, AnEvent, Admitted
<1>4. Sound(Event(c, type), Len(log))
  BY <1>1 DEF Event, Sound, CallSound, AtWork
<1>. QED BY <1>3, <1>4

\* The commit of a call's own event, and of its evidence.
LEMMA CommitKeeps ==
    ASSUME GraphInv, NEW c \in Call, Commit(c) \/ add_evidence_internal(c)
    PROVE  GraphInv'
<1>1. /\ call[c].state \in {"commit", "evidence"} /\ server' = server
      /\ call[c] \in Admitted /\ CallSound(call[c])
  BY DEF Commit, add_evidence_internal, GraphInv, CallSound, AtWork
<1>2. \E type \in {call[c].op, "add_evidence"} : log' = Append(log, Event(c, type))
  BY DEF Commit, add_evidence_internal
<1>3. \E e \in AnEvent : log' = Append(log, e) /\ Sound(e, Len(log))
  BY <1>1, <1>2, EventSound
<1>4. PICK result \in {"evidence", "ok"}, left \in Int :
         call' = [call EXCEPT ![c] = [call[c] EXCEPT !.state = result, !.left = left]]
  <2>1. CASE Commit(c)
    <3>1. call' = [call EXCEPT ![c] = [call[c] EXCEPT
                      !.state = IF call[c].left > 0 THEN "evidence" ELSE "ok"]]
      BY <2>1 DEF Commit, Answer
    <3>2. \A result : [call[c] EXCEPT !.state = result]
                        = [call[c] EXCEPT !.state = result, !.left = call[c].left]
      BY <1>1 DEF Admitted
    <3>. QED BY <1>1, <3>1, <3>2 DEF Admitted
  <2>2. CASE add_evidence_internal(c)
    <3>1. call' = [call EXCEPT ![c] = [call[c] EXCEPT
                      !.state = IF call[c].left > 1 THEN "evidence" ELSE "ok",
                      !.left = call[c].left - 1]]
      BY <1>1, <2>2 DEF add_evidence_internal, GraphInv, GraphTypes, Admitted
    <3>2. call[c].left - 1 \in Int
      BY <1>1 DEF Admitted
    <3>. QED BY <3>1, <3>2
  <2>. QED BY <2>1, <2>2
<1>. DEFINE r == [call[c] EXCEPT !.state = result, !.left = left]
<1>5. /\ r \in Admitted /\ r.state = result /\ r.names = call[c].names /\ r.actor = call[c].actor
      /\ r.op = call[c].op /\ r.seen = call[c].seen /\ r.key = call[c].key
      /\ r.permissions = call[c].permissions
  BY <1>1 DEF Admitted
<1>6. r \in ACall
  BY <1>5 DEF ACall
<1>7. CallSound(r)
  BY <1>1, <1>5 DEF CallSound, AtWork
<1>. QED BY <1>1, <1>3, <1>4, <1>6, <1>7, OneCallKeeps

\* A call that fails.
LEMMA FailKeeps ==
    ASSUME GraphInv, NEW c \in Call, CommitFails(c)
    PROVE  GraphInv'
<1>. DEFINE r == [call[c] EXCEPT !.state = "error"]
<1>1. call' = [call EXCEPT ![c] = r] /\ r.state = "error" /\ log' = log /\ server' = server
  BY AnswerIs DEF CommitFails, GraphInv
<1>2. call[c] \in ACall /\ call[c].state \in AtServer \union AtCli
  BY DEF CommitFails, GraphInv, GraphTypes
<1>3. r \in ACall
  BY <1>2 DEF ACall, Admitted, AtServer, AtCli
<1>4. CallSound(r)
  BY <1>1, EndedIsSound DEF AtWork
<1>. QED BY <1>1, <1>3, <1>4, OneCallKeeps

\* The command line's commits.
LEMMA CliKeeps ==
    ASSUME GraphConstants, GraphInv, NEW c \in Call,
           \/ \E permissions \in Grant : key_create(c, permissions)
           \/ create_key(c)
           \/ \E k \in Id : key_revoke(c, k)
           \/ revoke_key(c)
    PROVE  GraphInv'
<1>0. c \in Id /\ call[c] \in ACall
  BY DEF Id, GraphInv, GraphTypes
<1>1. ASSUME NEW permissions \in Grant, key_create(c, permissions) PROVE GraphInv'
  <2>. DEFINE r == [state |-> "create", permissions |-> permissions]
  <2>0. permissions \in SUBSET Permission
    BY DEF Permission
  <2>1. r \in ACall /\ CallSound(r)
    BY <2>0, EndedIsSound DEF ACall, AtWork
  <2>2. ActorDeclare(c) \in AnEvent /\ ActorDeclare(c).type \in KeyEvent
    BY <1>0 DEF ActorDeclare, AnEvent, KeyEvent
  <2>. QED BY <1>1, <2>1, <2>2, KeyEventsSound, OneCallKeeps DEF key_create
<1>2. CASE create_key(c)
  <2>. DEFINE r == [call[c] EXCEPT !.state = "ok"]
  <2>1. call[c].state = "create" /\ call[c].permissions \in SUBSET Permission
    BY <1>0, <1>2 DEF create_key, ACall, Admitted
  <2>2. r \in ACall /\ r.state = "ok"
    BY <1>0, <2>1 DEF ACall, Admitted
  <2>3. CallSound(r)
    BY <2>2, EndedIsSound DEF AtWork
  <2>4. /\ ActorKeyAdd(c, call[c].permissions) \in AnEvent
        /\ ActorKeyAdd(c, call[c].permissions).type \in KeyEvent
    BY <1>0, <2>1 DEF ActorKeyAdd, AnEvent, KeyEvent
  <2>5. call' = [call EXCEPT ![c] = r]
    BY <1>2, AnswerIs DEF create_key, GraphInv
  <2>. QED BY <1>2, <2>2, <2>3, <2>4, <2>5, KeyEventsSound, OneCallKeeps DEF create_key
<1>3. ASSUME NEW k \in Id, key_revoke(c, k) PROVE GraphInv'
  <2>1. /\ [state |-> "denied"] \in ACall /\ CallSound([state |-> "denied"])
        /\ [state |-> "revoke", key |-> k] \in ACall
        /\ CallSound([state |-> "revoke", key |-> k])
    BY EndedIsSound DEF ACall, AtWork
  <2>. QED BY <1>3, <2>1, OneCallKeeps DEF key_revoke
<1>4. CASE revoke_key(c)
  <2>. DEFINE r == [call[c] EXCEPT !.state = "ok"]
             e == [type |-> "ACTOR_KEY_REVOKE", id |-> c, key |-> call[c].key]
  <2>1. call[c].state = "revoke" /\ call[c].key \in Id
    BY <1>0, <1>4 DEF revoke_key, ACall, Admitted
  <2>2. r \in ACall /\ r.state = "ok"
    BY <1>0, <2>1 DEF ACall, Admitted
  <2>3. CallSound(r)
    BY <2>2, EndedIsSound DEF AtWork
  <2>4. e \in AnEvent /\ e.type \in KeyEvent
    BY <1>0, <2>1 DEF AnEvent, KeyEvent
  <2>5. call' = [call EXCEPT ![c] = r]
    BY <1>4, AnswerIs DEF revoke_key, GraphInv
  <2>. QED BY <1>4, <2>2, <2>3, <2>4, <2>5, KeyEventsSound, OneCallKeeps DEF revoke_key
<1>. QED BY <1>1, <1>2, <1>3, <1>4

\* The two events of bootstrap_admin.
LEMMA BootstrapEvents ==
    /\ ActorDeclare(Bootstrap) \in AnEvent /\ ActorDeclare(Bootstrap).type \in KeyEvent
    /\ ActorKeyAdd(Bootstrap, {"admin"}) \in AnEvent
    /\ ActorKeyAdd(Bootstrap, {"admin"}).type \in KeyEvent
<1>0. {"admin"} \in SUBSET Permission
  BY DEF Permission
<1>1. Bootstrap \in Id
  BY DEF Id
<1>2. ActorDeclare(Bootstrap) \in AnEvent /\ ActorDeclare(Bootstrap).type \in KeyEvent
  BY <1>1 DEF ActorDeclare, AnEvent, KeyEvent
<1>3. \A p \in SUBSET Permission : ActorKeyAdd(Bootstrap, p) \in AnEvent
  BY <1>1 DEF ActorKeyAdd, AnEvent
<1>4. ActorKeyAdd(Bootstrap, {"admin"}).type \in KeyEvent
  BY DEF ActorKeyAdd, KeyEvent
<1>. QED BY <1>0, <1>2, <1>3, <1>4

\* Starting and stopping.
LEMMA ServerKeeps ==
    ASSUME GraphInv, run \/ bootstrap_admin \/ Crash
    PROVE  GraphInv'
<1>1. CASE run
  BY <1>1 DEF run, GraphInv, GraphTypes, CallSound, Sound, Revoked, MayRetract
<1>2. CASE bootstrap_admin
  <2>2. PICK e \in AnEvent : log' = Append(log, e) /\ Sound(e, Len(log))
    BY <1>2, BootstrapEvents, KeyEventsSound DEF bootstrap_admin
  <2>3. /\ log' \in Seq(AnEvent) /\ \A j \in 1..Len(log') : Sound(log[j], j - 1)'
        /\ \A x : CallSound(x) => CallSound(x)'
    BY <2>2, GrowthKeeps DEF GraphInv
  <2>. QED BY <1>2, <2>3 DEF bootstrap_admin, GraphInv, GraphTypes
<1>3. CASE Crash
  <2>1. /\ log' = log /\ server' = "down"
        /\ call' = [c \in Call |-> IF call[c].state \in AtServer
                                   THEN [call[c] EXCEPT !.state = "lost"] ELSE call[c]]
    BY <1>3 DEF Crash
  <2>2. ASSUME NEW c \in Call PROVE call'[c] \in ACall /\ call'[c].state \notin AtWork
    <3>1. call[c] \in ACall
      BY DEF GraphInv, GraphTypes
    <3>2. CASE call[c].state \in AtServer
      <4>1. call[c] \in Admitted /\ call'[c] = [call[c] EXCEPT !.state = "lost"]
        BY <2>1, <3>1, <3>2 DEF ACall, AtServer
      <4>2. call'[c] \in Admitted /\ call'[c].state = "lost"
        BY <4>1 DEF Admitted
      <4>. QED BY <4>2 DEF ACall, AtWork
    <3>3. CASE call[c].state \notin AtServer
      BY <2>1, <3>1, <3>3 DEF AtServer, AtWork
    <3>. QED BY <3>2, <3>3
  <2>3. call' \in [Call -> ACall]
    BY <2>1, <2>2
  <2>4. \A c \in Call : CallSound(call[c])'
    BY <2>2 DEF CallSound
  <2>5. \A j \in 1..Len(log') : Sound(log[j], j - 1)'
    BY <2>1 DEF GraphInv, Sound, Revoked, MayRetract
  <2>6. GraphTypes'
    BY <2>1, <2>3 DEF GraphInv, GraphTypes
  <2>. QED BY <2>4, <2>5, <2>6 DEF GraphInv
<1>. QED BY <1>1, <1>2, <1>3

\* Every step keeps the invariant, which holds at first.
LEMMA GraphInvariant == ASSUME GraphConstants PROVE GraphSpec => []GraphInv
<1>1. GraphInit => GraphInv
  <2>. SUFFICES ASSUME GraphInit PROVE GraphInv
    OBVIOUS
  <2>1. Idle \in ACall /\ CallSound(Idle)
    BY DEF Idle, ACall, CallSound, AtWork
  <2>2. log = <<>> /\ call = [c \in Call |-> Idle] /\ server = "down"
    BY DEF GraphInit
  <2>3. log \in Seq(AnEvent) /\ Len(log) = 0
    BY <2>2
  <2>. QED BY <2>1, <2>2, <2>3 DEF GraphInv, GraphTypes
<1>2. GraphInv /\ [GraphNext]_graphVars => GraphInv'
  <2>. SUFFICES ASSUME GraphInv, [GraphNext]_graphVars PROVE GraphInv'
    OBVIOUS
  <2>1. CASE UNCHANGED graphVars
    BY <2>1 DEF graphVars, GraphInv, GraphTypes, CallSound, Sound, Revoked, MayRetract
  <2>2. CASE run \/ bootstrap_admin \/ Crash
    BY <2>2, ServerKeeps
  <2>3. ASSUME NEW c \in Call, NEW k \in Id, NEW m \in Tried, NEW names \in Names(m),
               NEW n \in IF m = "assert" THEN 0..MaxEvidence ELSE {0},
               Authenticate(c, k, m, names, n)
        PROVE  GraphInv'
    <3>1. n \in Int
      BY DEF GraphConstants
    <3>. QED BY <2>3, <3>1, AuthenticateKeeps
  <2>4. ASSUME NEW c \in Call, CheckOwner(c) PROVE GraphInv'
    BY <2>4, CheckKeeps
  <2>5. ASSUME NEW c \in Call, Commit(c) \/ add_evidence_internal(c) PROVE GraphInv'
    BY <2>5, CommitKeeps
  <2>6. ASSUME NEW c \in Call, CommitFails(c) PROVE GraphInv'
    BY <2>6, FailKeeps
  <2>7. ASSUME NEW c \in Call,
               \/ \E permissions \in Grant : key_create(c, permissions)
               \/ create_key(c)
               \/ \E k \in Id : key_revoke(c, k)
               \/ revoke_key(c)
        PROVE  GraphInv'
    BY <2>7, CliKeeps
  <2>. QED BY <2>1, <2>2, <2>3, <2>4, <2>5, <2>6, <2>7 DEF GraphNext
<1>. QED BY <1>1, <1>2, PTL DEF GraphSpec

-----------------------------------------------------------------------------
\* What is committed with a revoked key after its revocation belongs to a call
\* that was authenticated before it (authenticate; no later step looks at the
\* key again).
THEOREM RevokedKeysFinish == ASSUME GraphConstants PROVE GraphSpec => []RevokedKeysOnlyFinish
<1>1. GraphInv => RevokedKeysOnlyFinish
  <2>. SUFFICES ASSUME GraphInv, NEW i \in 1..Len(log), NEW j \in 1..Len(log),
                       i < j, log[i].type = "ACTOR_KEY_REVOKE",
                       log[j].type \in Mutation, log[j].key = log[i].key
                PROVE  log[j].seen < i
    BY DEF RevokedKeysOnlyFinish
  <2>1. log[j].seen \in 0..(j - 1) /\ ~Revoked(log[j].seen, log[j].key)
    BY DEF GraphInv, Sound
  <2>2. Len(log) \in Nat
    BY DEF GraphInv, GraphTypes
  <2>. QED BY <2>1, <2>2 DEF Revoked
<1>. QED BY <1>1, GraphInvariant, PTL

\* An assertion is only ever retracted by the actor that made it or by the
\* holder of an admin key (retract_assertion, whose check and commit are two
\* steps between which anything may happen).
THEOREM OwnersAndAdminsRetract == ASSUME GraphConstants PROVE GraphSpec => []RetractedByOwnerOrAdmin
<1>1. GraphInv => RetractedByOwnerOrAdmin
  BY DEF GraphInv, Sound, MayRetract, RetractedByOwnerOrAdmin
<1>. QED BY <1>1, GraphInvariant, PTL

-----------------------------------------------------------------------------
\* The server that is about to create the first administrator, or its key, has
\* not done so before.
BootInv ==
    /\ server = "declare" => \A i \in 1..Len(log) : log[i].id # Bootstrap
    /\ server = "create" =>
          /\ any_actor_exists
          /\ \A i \in 1..Len(log) : log[i].id = Bootstrap => log[i].type # "ACTOR_KEY_ADD"
    /\ \A i \in 1..Len(log) : log[i].id = Bootstrap => any_actor_exists
    /\ BootstrapOnce

\* What the steps other than the server's own do to the log.
LEMMA CallersStep ==
    ASSUME GraphConstants, GraphInv, NEW c \in Call, server' = server,
           \/ log' = log
           \/ \E e : log' = Append(log, e) /\ e.id = c,
           GraphInv', BootInv
    PROVE  BootInv'
<1>1. CASE log' = log
  BY <1>1 DEF BootInv, BootstrapOnce, any_actor_exists, Events, Logged
<1>2. CASE \E e : log' = Append(log, e) /\ e.id = c
  <2>1. /\ Len(log') = Len(log) + 1 /\ Len(log) \in Nat
        /\ \A i \in 1..Len(log) : log'[i] = log[i]
        /\ log'[Len(log) + 1].id # Bootstrap
    BY <1>2 DEF GraphInv, GraphTypes, GraphConstants
  <2>2. any_actor_exists => any_actor_exists'
    BY <2>1 DEF any_actor_exists, Events, Logged
  <2>3. \A i \in 1..Len(log') : log'[i].id = Bootstrap => i \in 1..Len(log)
    BY <2>1
  <2>4. BootstrapOnce'
    BY <2>1, <2>3 DEF BootInv, BootstrapOnce
  <2>. QED BY <2>1, <2>2, <2>3, <2>4 DEF BootInv
<1>. QED BY <1>1, <1>2

\* The first administrator and its key are created at most once, however often
\* the server is stopped while it starts (run, bootstrap_admin).
THEOREM BootstrapHappensOnce == ASSUME GraphConstants PROVE GraphSpec => []BootstrapOnce
<1>1. GraphInit => BootInv
  BY DEF GraphInit, BootInv, BootstrapOnce
<1>2. GraphInv /\ GraphInv' /\ BootInv /\ [GraphNext]_graphVars => BootInv'
  <2>. SUFFICES ASSUME GraphInv, GraphInv', BootInv, [GraphNext]_graphVars PROVE BootInv'
    OBVIOUS
  <2>1. CASE UNCHANGED graphVars
    BY <2>1 DEF graphVars, BootInv, BootstrapOnce, any_actor_exists, Events, Logged
  <2>2. CASE run
    <3>1. ~any_actor_exists => \A i \in 1..Len(log) : log[i].id # Bootstrap
      BY DEF BootInv
    <3>. QED BY <2>2, <3>1 DEF run, BootInv, BootstrapOnce, any_actor_exists, Events, Logged
  <2>3. CASE bootstrap_admin
    <3>. DEFINE e == log'[Len(log) + 1]
    <3>1. /\ Len(log') = Len(log) + 1 /\ Len(log) \in Nat
          /\ \A i \in 1..Len(log) : log'[i] = log[i]
      BY <2>3, BootstrapEvents, AppendKeeps DEF bootstrap_admin, GraphInv
    <3>2. \/ /\ server = "declare" /\ server' = "create"
             /\ e.type = "ACTOR_DECLARE"
          \/ /\ server = "create" /\ server' = "up"
             /\ e.type = "ACTOR_KEY_ADD"
      <4>1. \A x \in AnEvent : log' = Append(log, x) => e = x
        BY <3>1, AppendKeeps DEF GraphInv
      <4>2. /\ ActorDeclare(Bootstrap).type = "ACTOR_DECLARE"
            /\ ActorKeyAdd(Bootstrap, {"admin"}).type = "ACTOR_KEY_ADD"
        BY DEF ActorDeclare, ActorKeyAdd
      <4>. QED BY <2>3, <4>1, <4>2, BootstrapEvents DEF bootstrap_admin
    <3>3. BootstrapOnce'
      <4>. SUFFICES ASSUME NEW i \in 1..Len(log'), NEW j \in 1..Len(log'),
                           log'[i].id = Bootstrap, log'[j].id = Bootstrap,
                           log'[i].type = log'[j].type, i # j
                    PROVE  FALSE
        BY DEF BootstrapOnce
      <4>1. \A k \in 1..Len(log) : log[k].id = Bootstrap => log[k].type # e.type
        BY <3>2 DEF BootInv
      <4>2. CASE i \in 1..Len(log) /\ j \in 1..Len(log)
        BY <3>1, <4>2 DEF BootInv, BootstrapOnce
      <4>3. CASE i = Len(log) + 1 \/ j = Len(log) + 1
        BY <3>1, <4>1, <4>3
      <4>. QED BY <3>1, <4>2, <4>3
    <3>4. any_actor_exists'
      <4>1. CASE server = "declare"
        BY <3>1, <3>2, <4>1 DEF any_actor_exists, Events, Logged
      <4>2. CASE server = "create"
        BY <3>1, <3>2, <4>2 DEF BootInv, any_actor_exists, Events, Logged
      <4>. QED BY <3>2, <4>1, <4>2
    <3>5. server' = "create" => \A i \in 1..Len(log') :
                                   log'[i].id = Bootstrap => log'[i].type # "ACTOR_KEY_ADD"
      BY <3>1, <3>2 DEF BootInv
    <3>. QED BY <3>2, <3>3, <3>4, <3>5 DEF BootInv
  <2>4. CASE Crash
    BY <2>4 DEF Crash, BootInv, BootstrapOnce, any_actor_exists, Events, Logged
  <2>5. ASSUME NEW c \in Call, server' = server,
               \/ log' = log
               \/ \E e : log' = Append(log, e) /\ e.id = c
        PROVE  BootInv'
    BY <2>5, CallersStep
  <2>6. ASSUME NEW c \in Call, Commit(c) \/ add_evidence_internal(c) \/ create_key(c)
                                \/ revoke_key(c) \/ CheckOwner(c) \/ CommitFails(c)
        PROVE  BootInv'
    BY <2>5, <2>6 DEF Commit, add_evidence_internal, create_key, revoke_key, CheckOwner,
                      CommitFails, Event, ActorKeyAdd
  <2>7. ASSUME NEW c \in Call, NEW x, key_create(c, x) \/ key_revoke(c, x) PROVE BootInv'
    BY <2>5, <2>7 DEF key_create, key_revoke, ActorDeclare
  <2>8. ASSUME NEW c \in Call, NEW k, NEW m, NEW names, NEW n, Authenticate(c, k, m, names, n)
        PROVE  BootInv'
    BY <2>5, <2>8 DEF Authenticate
  <2>. QED BY <2>1, <2>2, <2>3, <2>4, <2>6, <2>7, <2>8 DEF GraphNext
<1>3. BootInv => BootstrapOnce
  BY DEF BootInv
<1>. QED BY <1>1, <1>2, <1>3, GraphInvariant, PTL DEF GraphSpec

=============================================================================
