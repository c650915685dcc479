------------------------------ MODULE MCWaits -------------------------------
(***************************************************************************)
(* The parts of the system that wait for others to answer and must come to *)
(* an end: a browser tab that loads a site (IpfsSite), a relayed fetch     *)
(* (Transfer) and a sync over a Reticulum link (Link).  They share no      *)
(* state, so a behaviour here is a behaviour of one of them.               *)
(***************************************************************************)
EXTENDS MCIpfsSite, Transfer, Link

VARIABLE part       \* which of the three it is

\* Two ways to the peer that has the content, and circles.
MCRelayPeers ==
    [a |-> <<"b", "c">>, b |-> <<"c", "a">>, c |-> <<"a", "d">>, d |-> <<"me", "a">>, me |-> <<"b">>]

MCOrigins == <<"a", "b", "c">>

WaitsVars == <<part, siteVars, transferVars, linkVars>>

WaitsInit ==
    /\ part \in {"site", "transfer", "link"} /\ SiteInit /\ TransferInit /\ LinkInit
    /\ part # "site" => address = identity

WaitsNext ==
    \/ part = "site" /\ SiteNext /\ UNCHANGED <<part, transferVars, linkVars>>
    \/ part = "transfer" /\ TransferNext /\ UNCHANGED <<part, siteVars, linkVars>>
    \/ part = "link" /\ LinkNext /\ UNCHANGED <<part, siteVars, transferVars>>

WaitsSpec ==
    /\ WaitsInit /\ [][WaitsNext]_WaitsVars
    /\ WF_WaitsVars(part = "site" /\ Load /\ UNCHANGED <<part, transferVars, linkVars>>)
    /\ WF_WaitsVars(part = "transfer" /\ Progress /\ UNCHANGED <<part, siteVars, linkVars>>)
    /\ WF_WaitsVars(part = "link" /\ ClientStep /\ UNCHANGED <<part, siteVars, transferVars>>)

=============================================================================
