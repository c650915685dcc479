------------------------------ MODULE MCGossip ------------------------------
(***************************************************************************)
(* Small instances of Gossip.                                              *)
(***************************************************************************)
EXTENDS Gossip

Envelope(o, n, prev, needs) ==
    [origin |-> o, seq |-> n, prev |-> prev, needs |-> needs]

Envelopes ==
    [a1  |-> Envelope("a", 1, "none", {}),
     a1r |-> Envelope("a", 1, "none", {}),
     a2  |-> Envelope("a", 2, "a1", {}),
     b1  |-> Envelope("b", 1, "none", {"a1"})]

MCOriginOf   == [e \in Event |-> Envelopes[e].origin]
MCSequenceOf == [e \in Event |-> Envelopes[e].seq]
MCPreviousOf == [e \in Event |-> Envelopes[e].prev]
MCNeeds      == [e \in Event |-> Envelopes[e].needs]
MCSizeOf     == [e \in Event |-> 2]

\* A loop is named after its peer; a capital letter is a second loop of it.
MCPeerOf == [l \in Loop |-> CASE l \in {"a", "A"} -> "a"
                              [] l \in {"b", "B"} -> "b"
                              [] l \in {"c", "C"} -> "c"]

\* "c" is configured with "b", "b" with "a", and "a" with nobody.
Line == [p \in Peer |-> CASE p = "a" -> {} [] p = "b" -> {"a"} [] p = "c" -> {"b"}]

\* Two peers configured with each other.
Pair == [p \in Peer |-> Peer \ {p}]

Nobody   == [p \in Peer |-> {}]
Everyone == [p \in Peer |-> Peer]

-----------------------------------------------------------------------------
(* What the documentation says and the code does not do.                   *)

\* "full peers replicate graph events, so losing this database usually isn't
\* catastrophic" and "a full re-sync" restores it (the warning of oag backup):
\* a peer comes to hold again what others hold of its own chain.
ResyncRestoresOwnChain ==
    <>[](\A p \in Forgetful, q \in Peer : Prefix(chain[q][p], chain[p][p]))

\* "A peer that tries to rewrite its own history is caught by fork detection"
\* (docs of security): peers that hold different events of an origin for one
\* position come to have it on record.
Diverged ==
    \E p, q, o \in Peer : \E n \in DOMAIN chain[p][o] \cap DOMAIN chain[q][o] :
        chain[p][o][n] # chain[q][o][n]

RewriteIsCaught == Diverged ~> (\E p \in Peer : forks[p] # {})
=============================================================================
