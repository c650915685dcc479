------------------------------ MODULE Transfer ------------------------------
(***************************************************************************)
(* Fetching pinned content with mutual receipts, relayed on a miss.  One   *)
(* `oag peer fetch` runs at a time: every peer it reaches waits for the    *)
(* next one, so the requests under way form a stack.  A call is lost, a    *)
(* record cannot be written or a pin cannot be read up to MaxFaults times. *)
(* Signatures are ideal; a nonce is the number of the request that made    *)
(* it.  Both parties write a record into their own graph: the server       *)
(* before it answers, the client after it has verified the receipt.  A     *)
(* record is the receipt's evidence row; the assertion it belongs to is    *)
(* committed just before it and may be left without.                       *)
(***************************************************************************)
EXTENDS Naturals, Sequences, SequencesExt

CONSTANTS
    Peer, Client,           \* Client is a peer too: it may serve while it fetches
    relay_peers,            \* Peer -> the sequence of its configured upstreams
    Pinned,                 \* the peers that have the content
    MaxHops, MaxFaults, MaxFetches

VARIABLES
    calls,          \* the requests under way, the innermost last
    records,        \* the sent_to records of all peers
    nonces,         \* how many requests were made
    fetches, fault

transferVars == <<calls, records, nonces, fetches, fault>>

Top       == Last(calls)
SetTop(c) == Append(Front(calls), c)

Request(client, server, hops, path) ==
    [client |-> client, server |-> server, relay_hops_remaining |-> hops, relay_path |-> path,
     nonce |-> nonces + 1, state |-> "local", tried |-> 0, via |-> {}]

Fault == fault < MaxFaults /\ fault' = fault + 1

\* oag peer fetch.
peer_fetch(server, max_hops) ==
    /\ calls = <<>> /\ fetches < MaxFetches
    /\ calls' = <<Request(Client, server, max_hops, <<>>)>>
    /\ nonces' = nonces + 1 /\ fetches' = fetches + 1
    /\ UNCHANGED <<records, fault>>

\* What a call that has failed leaves to its caller: the next relay peer.
Failed(c) == IF calls = <<c>> THEN <<>> ELSE Front(calls)

\* fetch_with_receipt_inner: the provider has the content, or a relay is tried.
FetchLocally ==
    /\ calls # <<>> /\ Top.state = "local"
    /\ \/ /\ Top.server \in Pinned
          /\ calls' = SetTop([Top EXCEPT !.state = "content"])
          /\ UNCHANGED fault
       \/ /\ IF Top.server \in Pinned THEN Fault ELSE UNCHANGED fault
          /\ calls' = SetTop([Top EXCEPT !.state = "relay"])
    /\ UNCHANGED <<records, nonces, fetches>>

\* The server cannot be reached, or refuses the request: signature, rate limit.
Refused ==
    /\ calls # <<>> /\ Top.state = "local"
    /\ Fault /\ calls' = Failed(Top)
    /\ UNCHANGED <<records, nonces, fetches>>

\* Mutant: a request is forwarded as it came.
forward_unchanged(r) == Request(Top.server, r, Top.relay_hops_remaining, Top.relay_path)

\* The request a relaying server makes of its own.
NextHop(r) ==
    Request(Top.server, r, Top.relay_hops_remaining - 1, Append(Top.relay_path, Top.server))

\* Mutant: a peer on the path is skipped without going on to the next.
relay_stuck ==
    /\ calls # <<>> /\ Top.state = "relay"
    /\ LET relays == relay_peers[Top.server]
           i      == Top.tried + 1
       IN  IF Top.relay_hops_remaining = 0 \/ i > Len(relays)
           THEN calls' = Failed(Top) /\ UNCHANGED nonces
           ELSE IF relays[i] \in ToSet(Top.relay_path) \union {Top.server}
           THEN UNCHANGED <<calls, nonces>>
           ELSE /\ calls' = Append(SetTop([Top EXCEPT !.tried = i]), NextHop(relays[i]))
                /\ nonces' = nonces + 1
    /\ UNCHANGED <<records, fetches, fault>>

\* One turn of relay_fetch's loop, or its end.
relay_fetch ==
    /\ calls # <<>> /\ Top.state = "relay"
    /\ LET relays == relay_peers[Top.server]
           i      == Top.tried + 1
       IN  IF Top.relay_hops_remaining = 0 \/ i > Len(relays)
           THEN calls' = Failed(Top) /\ UNCHANGED nonces
           ELSE IF relays[i] \in ToSet(Top.relay_path) \union {Top.server}
           THEN calls' = SetTop([Top EXCEPT !.tried = i]) /\ UNCHANGED nonces
           ELSE /\ calls' = Append(SetTop([Top EXCEPT !.tried = i]), NextHop(relays[i]))
                /\ nonces' = nonces + 1
    /\ UNCHANGED <<records, fetches, fault>>

record_transfer(c, role) ==
    [role |-> role, server |-> c.server, client |-> c.client, nonce |-> c.nonce,
     relayed_via |-> IF role = "server" THEN c.via ELSE {}]

\* Mutant: the receipt goes out before the server has recorded it.
serve_unrecorded ==
    /\ calls # <<>> /\ Top.state = "content"
    /\ \/ records' = records \union {record_transfer(Top, "server")} /\ UNCHANGED fault
       \/ Fault /\ UNCHANGED records
    /\ calls' = SetTop([Top EXCEPT !.state = "receipt"])
    /\ UNCHANGED <<nonces, fetches>>

\* The server records what it is about to send; without the record no receipt.
Serve ==
    /\ calls # <<>> /\ Top.state = "content"
    /\ \/ /\ records' = records \union {record_transfer(Top, "server")}
          /\ calls' = SetTop([Top EXCEPT !.state = "receipt"])
          /\ UNCHANGED fault
       \/ Fault /\ calls' = Failed(Top) /\ UNCHANGED records
    /\ UNCHANGED <<nonces, fetches>>

\* The client's caller, who now has the content from this server.
Received(c) ==
    IF calls = <<c>>
    THEN <<>>
    ELSE LET caller == calls[Len(calls) - 1]
         IN  Append(Front(Front(calls)), [caller EXCEPT !.state = "content", !.via = {c.server}])

\* Mutant: the content is handed on although it could not be recorded.
deliver_unrecorded ==
    /\ calls # <<>> /\ Top.state = "receipt"
    /\ \/ records' = records \union {record_transfer(Top, "client")} /\ UNCHANGED fault
       \/ Fault /\ UNCHANGED records
    /\ calls' = Received(Top)
    /\ UNCHANGED <<nonces, fetches>>

\* fetch_and_verify once the answer is in, or once it is lost.
fetch_and_verify ==
    /\ calls # <<>> /\ Top.state = "receipt"
    /\ \/ /\ records' = records \union {record_transfer(Top, "client")}
          /\ calls' = Received(Top)
          /\ UNCHANGED fault
       \/ Fault /\ calls' = Failed(Top) /\ UNCHANGED records
    /\ UNCHANGED <<nonces, fetches>>

TransferInit == calls = <<>> /\ records = {} /\ nonces = 0 /\ fetches = 0 /\ fault = 0

Progress == FetchLocally \/ Refused \/ relay_fetch \/ Serve \/ fetch_and_verify

TransferNext ==
    \/ Progress
    \/ \E server \in Peer \ {Client}, max_hops \in 0..MaxHops : peer_fetch(server, max_hops)

TransferSpec == TransferInit /\ [][TransferNext]_transferVars

TransferFairSpec == TransferSpec /\ WF_transferVars(Progress)

-----------------------------------------------------------------------------
(* Receipts are mutual: whatever is lost or fails, a client's record of a   *)
(* transfer has its counterpart in the server's graph, made for the same   *)
(* request (record_transfer, called on both sides).                        *)
ReceiptsAreMutual ==
    \A r \in records : r.role = "client" =>
        \E s \in records : s.role = "server" /\ s.nonce = r.nonce
                           /\ s.server = r.server /\ s.client = r.client

(* A server that says it relayed the content from a peer has itself a        *)
(* record, as the client of that peer (relayed_via).                       *)
RelaysAreBacked ==
    \A s \in records : s.role = "server" =>
        \A v \in s.relayed_via :
            \E r \in records : r.role = "client" /\ r.server = v /\ r.client = s.server

(* A request never runs in a circle and never deeper than its hop budget,   *)
(* however the operators wired their relay peers (relay_fetch).            *)
NeverCircles ==
    /\ IsInjective([i \in DOMAIN calls |-> calls[i].server])
    /\ calls # <<>> => Len(calls) + Top.relay_hops_remaining <= MaxHops + 1

(* Every fetch ends, with the content or with an error.                    *)
FetchEnds == calls # <<>> ~> calls = <<>>

=============================================================================
