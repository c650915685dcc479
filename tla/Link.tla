-------------------------------- MODULE Link --------------------------------
(***************************************************************************)
(* One sync over a Reticulum link: a client that sends one request after   *)
(* another, each with a time limit, and a listener that answers them.      *)
(* Requests fit one packet; answers are framed and may take two.  A packet *)
(* is lost on the way, or dropped by a receiver that lags behind; nothing  *)
(* on the wire says which request an answer belongs to.                    *)
(***************************************************************************)
EXTENDS Naturals, Sequences, FiniteSets

CONSTANTS
    Origins,        \* the sequence of origins of which the client lacks events
    TwoPackets,     \* the requests (by number) whose answers take two packets
    MaxLost, MaxRefused

VARIABLES
    request,        \* the number of the current request
    session,        \* idle between requests, waiting, failed or done
    up, down,       \* packets on the way to the listener and to the client
    reassembler,    \* the client's buffer
    taken,          \* request -> the request whose answer it took
    late,           \* the requests that timed out
    ingested,       \* origin -> the request whose answer its events came with
    lost, refused

linkVars == <<request, session, up, down, reassembler, taken, late, ingested, lost, refused>>

Hello    == 1
Peers    == 2
Requests == Len(Origins) + 2
IsEvents(r) == r > Peers

Framed(r, error) ==
    LET n == IF r \in TwoPackets /\ ~error THEN 2 ELSE 1
    IN  [i \in 1..n |-> [to |-> r, part |-> i, of |-> n, error |-> error]]

-----------------------------------------------------------------------------
(* The listener.                                                           *)

\* rate_limited_handle_request and the reply, a refusal over the limit.
run_listener ==
    /\ up # <<>> /\ up' = Tail(up)
    /\ \/ down' = down \o Framed(Head(up), FALSE) /\ UNCHANGED refused
       \/ /\ refused < MaxRefused /\ refused' = refused + 1
          /\ down' = down \o Framed(Head(up), TRUE)
    /\ UNCHANGED <<request, session, reassembler, taken, late, ingested, lost>>

\* A packet is lost, dropped by a lagging receiver, or not sent at all.
Lose ==
    /\ lost < MaxLost /\ lost' = lost + 1
    /\ \/ up # <<>> /\ up' = Tail(up) /\ UNCHANGED down
       \/ down # <<>> /\ down' = Tail(down) /\ UNCHANGED up
    /\ UNCHANGED <<request, session, reassembler, taken, late, ingested, refused>>

-----------------------------------------------------------------------------
(* The client.                                                             *)

\* Mutant: the request is sent again at once, to be on the safe side.
send_twice ==
    /\ session = "idle" /\ request <= Requests
    /\ up' = up \o <<request, request>> /\ reassembler' = <<>> /\ session' = "waiting"
    /\ UNCHANGED <<request, down, taken, late, ingested, lost, refused>>

send_request ==
    /\ session = "idle" /\ request <= Requests
    /\ up' = Append(up, request) /\ reassembler' = <<>> /\ session' = "waiting"
    /\ UNCHANGED <<request, down, taken, late, ingested, lost, refused>>

\* Without a hello the sync fails; any other request is given up.
GoOn(ok) ==
    /\ request' = request + 1
    /\ session' = IF request = Hello /\ ~ok THEN "failed"
                  ELSE IF request = Requests THEN "done" ELSE "idle"

\* Mutant: events are ingested under the origin they claim.
ingest_any(m) == IsEvents(request) /\ IsEvents(m.to) /\ ~m.error

\* Events are ingested with the key of the origin that was asked for, which
\* no event of another origin passes.
Ingests(m) == IsEvents(request) /\ m.to = request /\ ~m.error

\* What sync_with_peer does with a decoded message.
Take(m) ==
    /\ taken' = Append(taken, m.to)
    /\ ingested' = IF Ingests(m) THEN ingested \union {<<Origins[request - Peers], m.to>>} ELSE ingested
    /\ GoOn(m.to = Hello /\ ~m.error)

Garbled == taken' = Append(taken, 0) /\ UNCHANGED ingested /\ GoOn(FALSE)

\* Reassembler::push of the next packet.  A buffer that starts in the middle
\* of a message declares a length beyond the limit and is stuck; one that
\* holds packets of two messages is no JSON, once it is long enough.
Receive ==
    /\ session = "waiting" /\ down # <<>> /\ down' = Tail(down)
    /\ LET buffer == Append(reassembler, Head(down))
           first  == Head(buffer)
           whole  == \A i \in DOMAIN buffer : buffer[i] = [first EXCEPT !.part = i]
       IN  \/ /\ first.part # 1 \/ Len(buffer) < first.of \/ ~whole
              /\ reassembler' = buffer
              /\ UNCHANGED <<request, session, taken, ingested>>
           \/ /\ first.part = 1 /\ Len(buffer) >= first.of
              /\ reassembler' = <<>>
              /\ IF whole THEN Take(first) ELSE Garbled
    /\ UNCHANGED <<up, late, lost, refused>>

\* Mutant: every packet that arrives restarts the clock.
timeout_idle ==
    /\ session = "waiting" /\ reassembler = <<>> /\ down = <<>>
    /\ late' = late \union {request} /\ taken' = Append(taken, 0) /\ reassembler' = <<>> /\ GoOn(FALSE)
    /\ UNCHANGED <<up, down, ingested, lost, refused>>

\* REQUEST_WAIT has passed.
Timeout ==
    /\ session = "waiting"
    /\ late' = late \union {request} /\ taken' = Append(taken, 0) /\ reassembler' = <<>> /\ GoOn(FALSE)
    /\ UNCHANGED <<up, down, ingested, lost, refused>>

LinkInit ==
    /\ request = Hello /\ session = "idle" /\ up = <<>> /\ down = <<>>
    /\ reassembler = <<>> /\ taken = <<>> /\ late = {} /\ ingested = {}
    /\ lost = 0 /\ refused = 0

ClientStep == send_request \/ Receive \/ Timeout

LinkNext == ClientStep \/ run_listener \/ Lose

LinkSpec == LinkInit /\ [][LinkNext]_linkVars

\* The client's timers run.
LinkFairSpec == LinkSpec /\ WF_linkVars(ClientStep)

-----------------------------------------------------------------------------
(* Answers lag behind the requests by no more than the timeouts there have *)
(* been: without one, whatever is lost or refused, requests and answers    *)
(* match, and afterwards an answer is taken for a later request, never for *)
(* an earlier one (send_request waits; the queue of packets outlives it).  *)
LagsByTimeouts ==
    \A j \in DOMAIN taken : taken[j] # 0 =>
        j - taken[j] \in 0..Cardinality({k \in late : k < j})

(* A sync brings what it asked for: events are only ever stored from the   *)
(* answer to the request for their own origin, however late the answers    *)
(* are, and a sync in which nothing timed out has stored the events of     *)
(* every origin whose request was not refused (sync_with_peer's loop).     *)
SyncBringsItsOwn ==
    /\ \A e \in ingested : e[1] = Origins[e[2] - Peers]
    /\ session = "done" /\ late = {} => Cardinality(ingested) + refused >= Len(Origins)

(* Every sync ends, whatever is lost: no request waits for ever.           *)
SessionEnds == session = "waiting" ~> session \in {"failed", "done"}

=============================================================================
