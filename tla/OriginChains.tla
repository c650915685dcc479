---------------------------- MODULE OriginChains ----------------------------
(***************************************************************************)
(* What a peer's database promises, whatever runs on it: one chain of      *)
(* signed events per origin, which only ever grows at its end, and a       *)
(* record of the first conflicting event met at a position of a chain.     *)
(* Transactions, locks, crashes, graphs and rebuilds are not mentioned.    *)
(***************************************************************************)
EXTENDS EventLog

VARIABLES
    chain,      \* the events of each origin, by sequence
    forks       \* the forks on record

Init ==
    /\ chain = [o \in Peer |-> <<>>]
    /\ forks = {}

LastOf(c) == IF c = <<>> THEN NoEvent ELSE c[Len(c)]

\* An event its origin signed, linked to the end of its chain, is added there.
Extend(e) ==
    LET o == OriginOf[e]
        c == chain[o]
    IN  /\ SignerOf[e] = o
        /\ validate_chain(Len(c) + 1, LastOf(c), e)
        /\ chain' = [chain EXCEPT ![o] = Append(c, e)]
        /\ UNCHANGED forks

\* An event its origin signed, for a position that holds another one, is put
\* on record, once per position.
RecordFork(e) ==
    LET o == OriginOf[e]
        n == SequenceOf[e]
        c == chain[o]
    IN  /\ SignerOf[e] = o
        /\ \A f \in forks : f.peer # o \/ f.sequence # n
        /\ n \in DOMAIN c
        /\ c[n] # e
        /\ forks' = forks \cup {[peer |-> o, sequence |-> n, event_a |-> c[n], event_b |-> e]}
        /\ UNCHANGED chain

Next == \E e \in Event : Extend(e) \/ RecordFork(e)

Spec == Init /\ [][Next]_<<chain, forks>>
=============================================================================
