----------------------------- MODULE MCPresence -----------------------------
(***************************************************************************)
(* What the documentation says of presence and the code does not do.       *)
(***************************************************************************)
EXTENDS Presence

\* "Any positive trust (i.e. "has sent at least one heartbeat and isn't forked")
\* clears it [...] only an exact `0.0` score (forked, or never seen at all) is
\* ever hard-rejected" (the comment on EPHEMERAL_MINIMUM_TRUST).
HeardIsAccepted ==
    \A i \in DOMAIN peer_presence \ forked : federation_allows(i)

=============================================================================
