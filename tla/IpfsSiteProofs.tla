-------------------------- MODULE IpfsSiteProofs ----------------------------
(***************************************************************************)
(* Proofs about IpfsSite, for any directories, pages and limits.           *)
(***************************************************************************)
EXTENDS IpfsSite, SequenceTheorems, FiniteSetTheorems, TLAPS

\* A load has ended exactly when its code has: what is on the screen for good
\* is there only after the last step.
EndInv ==
    /\ screen \in {"error", "site", "bad_request"} => pc = "closed"
    /\ opens \in Nat

\* No step shows an end and leaves the load running.
LEMMA EndInvKept == EndInv /\ [SiteNext]_siteVars => EndInv'
<1>. SUFFICES ASSUME EndInv, [SiteNext]_siteVars PROVE EndInv'
  OBVIOUS
<1>1. CASE \E segment \in Directory \union Typo \union NotACid : bootstrap_page(segment)
  <2>1. /\ opens' = opens + 1
        /\ \/ pc' = "build" /\ screen' = "loading"
           \/ pc' = "closed" /\ screen' = "bad_request"
    BY <1>1, Zenon DEF bootstrap_page
  <2>. QED
    BY <2>1 DEF EndInv
<1>2. CASE Load
  BY <1>2 DEF Load, buildGatewayFreeHelia, Dial, ParseCid, ListRoot, collectEntries,
              ListingEnds, FetchEntry, ShowSite, renderError, EndInv
<1>3. CASE Reject
  BY <1>3 DEF Reject, renderError, EndInv
<1>4. CASE UNCHANGED <<screen, pc, opens>>
  BY <1>4 DEF EndInv
<1>. QED
  BY <1>1, <1>2, <1>3, <1>4
  DEF SiteNext, siteVars, loader, ipfs_host_page, Restart, Disconnect, Discover

\* An error, a refusal or a site stays on the screen until the page is opened
\* again, whatever the node and the connection do meanwhile.
THEOREM EndsAreFinal == SiteSpec => EndIsFinal
<1>1. SiteInit => EndInv
  BY DEF SiteInit, EndInv
<1>2. EndInv /\ [SiteNext]_siteVars
        => [opens' = opens /\ screen \in {"error", "site", "bad_request"} => screen' = screen]_siteVars
  <2>. SUFFICES ASSUME EndInv, [SiteNext]_siteVars, opens' = opens,
                       screen \in {"error", "site", "bad_request"}
                PROVE  screen' = screen
    OBVIOUS
  <2>1. pc = "closed"
    BY DEF EndInv
  <2>2. ~Load /\ ~Reject
    BY <2>1 DEF Load, buildGatewayFreeHelia, Dial, ParseCid, ListRoot, collectEntries,
                ListingEnds, FetchEntry, ShowSite, Reject
  <2>3. ASSUME NEW segment, bootstrap_page(segment) PROVE FALSE
    <3>1. opens' = opens + 1
      BY <2>3, Zenon DEF bootstrap_page
    <3>. QED
      BY <3>1 DEF EndInv
  <2>. QED
    BY <2>2, <2>3
    DEF SiteNext, siteVars, loader, ipfs_host_page, Restart, Disconnect, Discover
<1>. QED
  BY <1>1, <1>2, EndInvKept, PTL DEF SiteSpec, EndIsFinal

-----------------------------------------------------------------------------
(* The walk of the pinned tree.                                            *)

\* The files at or below a node.
Below(d, r) == {f \in FilesOf[d] : IsPrefix(r, f)}

\* What being a prefix means, place by place.
LEMMA PrefixByPlace ==
    ASSUME NEW s \in Path, NEW t \in Path
    PROVE  IsPrefix(s, t) <=> Len(s) <= Len(t) /\ \A i \in 1..Len(s) : s[i] = t[i]
  BY DEF IsPrefix, Path

\* An entry of a listing is one name longer than its directory, lies on the way
\* to a file, and the path computed for it is its own.
LEMMA EntryOfListing ==
    ASSUME NEW d \in Directory, NEW n \in Path, NEW e \in Ls(d, n)
    PROVE  /\ e \in Path
           /\ Len(e) = Len(n) + 1
           /\ RelativePath(n, e) = e
           /\ \E f \in FilesOf[d] : IsPrefix(e, f)
<1>1. PICK f \in FilesOf[d] : IsStrictPrefix(n, f) /\ e = SubSeq(f, 1, Len(n) + 1)
  BY DEF Ls
<1>2. f \in Path
  BY IpfsSiteAssumption
<1>3. Len(n) < Len(f) /\ \A i \in 1..Len(n) : n[i] = f[i]
  <2>1. Len(n) <= Len(f) /\ \A i \in 1..Len(n) : n[i] = f[i]
    BY <1>1, <1>2, PrefixByPlace DEF IsStrictPrefix
  <2>2. Len(n) # Len(f)
    BY <1>1, <1>2, <2>1, SeqEqual DEF IsStrictPrefix, Path
  <2>. QED
    BY <2>1, <2>2, <1>2 DEF Path
<1>4. e \in Path /\ Len(e) = Len(n) + 1 /\ \A i \in 1..Len(e) : e[i] = f[i]
  BY <1>1, <1>2, <1>3 DEF Path
<1>5. RelativePath(n, e) = e
  <2>1. RelativePath(n, e) = Append(n, e[Len(e)])
    BY DEF RelativePath, Last
  <2>2. Append(n, e[Len(e)]) \in Path
    BY <1>4 DEF Path
  <2>3. Len(Append(n, e[Len(e)])) = Len(e) /\ \A i \in 1..Len(e) : Append(n, e[Len(e)])[i] = e[i]
    <3>1. e[Len(e)] \in Seq(STRING)
      BY <1>4 DEF Path
    <3>2. /\ Len(Append(n, e[Len(e)])) = Len(n) + 1
          /\ \A i \in 1..Len(n) : Append(n, e[Len(e)])[i] = n[i]
          /\ Append(n, e[Len(e)])[Len(n) + 1] = e[Len(e)]
      BY <3>1, AppendProperties DEF Path
    <3>3. Len(n) \in Nat /\ Len(e) = Len(n) + 1
      BY <1>4 DEF Path
    <3>4. \A i \in 1..Len(n) : n[i] = e[i]
      BY <1>3, <1>4, <3>3
    <3>5. ASSUME NEW i \in 1..Len(e) PROVE i \in 1..Len(n) \/ i = Len(n) + 1
      BY <3>3
    <3>. QED
      BY <3>1, <3>2, <3>3, <3>4, <3>5
  <2>. QED
    BY <2>1, <2>2, <2>3, <1>4, SeqEqual DEF Path
<1>6. IsPrefix(e, f)
  <2>1. Len(e) <= Len(f)
    BY <1>2, <1>3, <1>4 DEF Path
  <2>. QED
    BY <2>1, <1>2, <1>4, PrefixByPlace
<1>. QED
  BY <1>4, <1>5, <1>6

\* The files below a directory are those below the entries of its listing, each
\* below one of them only.
LEMMA FilesBelowListing ==
    ASSUME NEW d \in Directory, NEW n \in Path
    PROVE  /\ \A e \in Ls(d, n) : Below(d, e) \subseteq Below(d, n)
           /\ \A e, g \in Ls(d, n) : e # g => Below(d, e) \intersect Below(d, g) = {}
           /\ \A f \in Below(d, n) : f # n => \E e \in Ls(d, n) : f \in Below(d, e)
<1>1. FilesOf[d] \subseteq Path
  BY IpfsSiteAssumption
<1>2. ASSUME NEW e \in Ls(d, n), NEW f \in Below(d, e)
      PROVE  f \in Below(d, n) /\ e = SubSeq(f, 1, Len(n) + 1)
  <2>1. PICK g \in FilesOf[d] : IsStrictPrefix(n, g) /\ e = SubSeq(g, 1, Len(n) + 1)
    BY DEF Ls
  <2>2. e \in Path /\ Len(e) = Len(n) + 1 /\ RelativePath(n, e) = e
    BY EntryOfListing
  <2>3. f \in FilesOf[d] /\ f \in Path /\ IsPrefix(e, f)
    BY <1>1 DEF Below
  <2>4. Len(e) <= Len(f) /\ \A i \in 1..Len(e) : e[i] = f[i]
    BY <2>2, <2>3, PrefixByPlace
  <2>5. Len(n) \in Nat /\ \A i \in 1..Len(n) : n[i] = e[i]
    <3>1. e = Append(n, e[Len(e)])
      BY <2>2 DEF RelativePath, Last
    <3>2. e[Len(e)] \in Seq(STRING) /\ Len(n) \in Nat
      BY <2>2 DEF Path
    <3>. QED
      BY <3>1, <3>2, AppendProperties DEF Path
  <2>6. Len(n) <= Len(f) /\ \A i \in 1..Len(n) : n[i] = f[i]
    BY <2>2, <2>3, <2>4, <2>5 DEF Path
  <2>7. f \in Below(d, n)
    BY <2>3, <2>6, PrefixByPlace DEF Below
  <2>8. e = SubSeq(f, 1, Len(n) + 1)
    <3>1. e = SubSeq(e, 1, Len(e))
      BY <2>2 DEF Path
    <3>. QED
      BY <3>1, <2>2, <2>3 DEF IsPrefix
  <2>. QED
    BY <2>7, <2>8
<1>3. ASSUME NEW f \in Below(d, n), f # n
      PROVE  \E e \in Ls(d, n) : f \in Below(d, e)
  <2>1. f \in FilesOf[d] /\ f \in Path /\ IsStrictPrefix(n, f)
    BY <1>1, <1>3 DEF Below, IsStrictPrefix
  <2>2. SubSeq(f, 1, Len(n) + 1) \in Ls(d, n)
    BY <2>1 DEF Ls
  <2>3. Len(n) < Len(f)
    <3>1. Len(n) <= Len(f) /\ \A i \in 1..Len(n) : n[i] = f[i]
      BY <2>1, PrefixByPlace DEF IsStrictPrefix
    <3>2. Len(n) # Len(f)
      BY <1>3, <2>1, <3>1, SeqEqual DEF Path
    <3>. QED
      BY <3>1, <3>2, <2>1 DEF Path
  <2>4. /\ SubSeq(f, 1, Len(n) + 1) \in Path
        /\ Len(SubSeq(f, 1, Len(n) + 1)) = Len(n) + 1
        /\ Len(n) + 1 <= Len(f)
        /\ \A i \in 1..(Len(n) + 1) : SubSeq(f, 1, Len(n) + 1)[i] = f[i]
    BY <2>1, <2>3 DEF Path
  <2>5. IsPrefix(SubSeq(f, 1, Len(n) + 1), f)
    BY <2>1, <2>4, PrefixByPlace
  <2>. QED
    BY <2>1, <2>2, <2>5 DEF Below
<1>. QED
  BY <1>2, <1>3

\* An entry that is no directory is a file, the only one below it; a directory
\* is no file.
LEMMA EntryKinds ==
    ASSUME NEW d \in Directory, NEW n \in Path, NEW e \in Ls(d, n)
    PROVE  /\ ~IsDirectory(d, e) => Below(d, e) = {e}
           /\ IsDirectory(d, e) => e \notin FilesOf[d]
<1>1. PICK f \in FilesOf[d] : IsPrefix(e, f)
  BY EntryOfListing
<1>2. ~IsDirectory(d, e) => \A g \in FilesOf[d] : IsPrefix(e, g) => g = e
  BY DEF IsDirectory, IsStrictPrefix
<1>3. IsDirectory(d, e) => e \notin FilesOf[d]
  BY IpfsSiteAssumption DEF IsDirectory
<1>. QED
  BY <1>1, <1>2, <1>3 DEF Below

\* A walk in progress, in the terms of its stack and of what it has found: every
\* file is found, or below one entry that is still to come, and never twice.
Frame == [prefix : Path, rest : SUBSET Path]

Found == [path : Path, cid : Path]

Listed(d, stk) ==
    /\ stk \in Seq(Frame)
    /\ \A i \in 1..Len(stk) : stk[i].rest \subseteq Ls(d, stk[i].prefix)

FoundTrue(d, ent) ==
    /\ ent \in Seq(Found)
    /\ \A j \in 1..Len(ent) : ent[j].path = ent[j].cid /\ ent[j].cid \in FilesOf[d]
    /\ \A j, k \in 1..Len(ent) : ent[j].cid = ent[k].cid => j = k

IsFound(ent, f) == \E j \in 1..Len(ent) : ent[j].cid = f

Pending(stk, i, r) == i \in 1..Len(stk) /\ r \in stk[i].rest

Apart(d, stk, ent) ==
    /\ \A i, k, r, s : Pending(stk, i, r) /\ Pending(stk, k, s)
                         => (i = k /\ r = s) \/ Below(d, r) \intersect Below(d, s) = {}
    /\ \A i, r : Pending(stk, i, r) => \A f \in Below(d, r) : ~IsFound(ent, f)

Complete(d, stk, ent) ==
    \A f \in FilesOf[d] : IsFound(ent, f) \/ \E i, r : Pending(stk, i, r) /\ f \in Below(d, r)

Walk(d, stk, ent) ==
    Listed(d, stk) /\ FoundTrue(d, ent) /\ Apart(d, stk, ent) /\ Complete(d, stk, ent)

\* The stack after an entry of its last listing is taken.
Taken(stk, e) == [stk EXCEPT ![Len(stk)] = [prefix |-> @.prefix, rest |-> @.rest \ {e}]]

\* Taking an entry only takes that entry away from what is to come.
LEMMA TakenStack ==
    ASSUME NEW d, NEW stk, Listed(d, stk), stk # <<>>, NEW e \in Last(stk).rest
    PROVE  /\ Listed(d, Taken(stk, e))
           /\ Len(Taken(stk, e)) = Len(stk)
           /\ \A i, r : Pending(Taken(stk, e), i, r) <=> Pending(stk, i, r) /\ ~(i = Len(stk) /\ r = e)
           /\ Pending(stk, Len(stk), e)
           /\ e \in Ls(d, Last(stk).prefix) /\ Last(stk).prefix \in Path
<1>. DEFINE m == Len(stk)
            T == Taken(stk, e)
<1>1. stk \in Seq(Frame) /\ m \in Nat /\ m > 0 /\ stk[m] \in Frame /\ Last(stk) = stk[m]
  BY DEF Listed, Last
<1>2. /\ T \in Seq(Frame) /\ Len(T) = m
      /\ \A i \in 1..m : i # m => T[i] = stk[i]
      /\ T[m] = [prefix |-> stk[m].prefix, rest |-> stk[m].rest \ {e}]
  <2>. DEFINE g == [prefix |-> stk[m].prefix, rest |-> stk[m].rest \ {e}]
  <2>1. g \in Frame
    BY <1>1 DEF Frame
  <2>2. T = [stk EXCEPT ![m] = g]
    BY DEF Taken
  <2>. HIDE DEF g, T
  <2>3. T \in Seq(Frame) /\ Len(T) = m /\ T[m] = g /\ \A i \in 1..m : i # m => T[i] = stk[i]
    BY <1>1, <2>1, <2>2
  <2>. QED
    BY <2>3 DEF g
<1>. HIDE DEF T
<1>3. T[m].prefix = stk[m].prefix /\ T[m].rest = stk[m].rest \ {e}
  BY <1>2
<1>4. Listed(d, T)
  BY <1>1, <1>2, <1>3 DEF Listed
<1>5. \A i, r : Pending(T, i, r) <=> Pending(stk, i, r) /\ ~(i = m /\ r = e)
  BY <1>1, <1>2, <1>3 DEF Pending
<1>6. Pending(stk, m, e) /\ e \in Ls(d, stk[m].prefix) /\ stk[m].prefix \in Path
  BY <1>1 DEF Pending, Listed, Frame
<1>. QED
  BY <1>1, <1>2, <1>4, <1>5, <1>6 DEF T

\* Going into a directory leaves its files below the entries of its listing.
LEMMA WalkEnters ==
    ASSUME NEW d \in Directory, NEW stk, NEW ent, Walk(d, stk, ent), stk # <<>>,
           NEW e \in Last(stk).rest, IsDirectory(d, e)
    PROVE  Walk(d, Append(Taken(stk, e), [prefix |-> e, rest |-> Ls(d, e)]), ent)
<1>. DEFINE m == Len(stk)
            T == Taken(stk, e)
            g == [prefix |-> e, rest |-> Ls(d, e)]
            U == Append(T, g)
<1>1. /\ Listed(d, T) /\ Len(T) = m /\ Pending(stk, m, e)
      /\ \A i, r : Pending(T, i, r) <=> Pending(stk, i, r) /\ ~(i = m /\ r = e)
      /\ e \in Ls(d, Last(stk).prefix) /\ Last(stk).prefix \in Path
  BY TakenStack DEF Walk
<1>2. e \in Path /\ e \notin FilesOf[d]
  BY <1>1, EntryOfListing, EntryKinds
<1>3. /\ \A s \in Ls(d, e) : Below(d, s) \subseteq Below(d, e)
      /\ \A s, u \in Ls(d, e) : s # u => Below(d, s) \intersect Below(d, u) = {}
      /\ \A f \in Below(d, e) : f # e => \E s \in Ls(d, e) : f \in Below(d, s)
  BY <1>2, FilesBelowListing
<1>4. g \in Frame /\ g.prefix = e /\ g.rest = Ls(d, e)
  BY <1>2, EntryOfListing DEF Frame
<1>. HIDE DEF T, g
<1>5. /\ U \in Seq(Frame) /\ Len(U) = m + 1 /\ U[m + 1] = g
      /\ m \in Nat /\ \A i \in 1..m : U[i] = T[i]
  BY <1>1, <1>4, AppendProperties DEF Listed
<1>. HIDE DEF U, m
<1>6. Listed(d, U)
  <2>1. \A i \in 1..(m + 1) : i \in 1..m \/ i = m + 1
    BY <1>5
  <2>. QED
    BY <1>1, <1>4, <1>5, <2>1 DEF Listed
<1>7. \A i, r : Pending(U, i, r) <=> Pending(T, i, r) \/ (i = m + 1 /\ r \in Ls(d, e))
  BY <1>1, <1>4, <1>5 DEF Pending
<1>8. \A i, r : Pending(stk, i, r) => i # m + 1
  BY <1>5 DEF Pending, m
<1>9. Apart(d, U, ent)
  <2>1. ASSUME NEW i, NEW k, NEW r, NEW s, Pending(U, i, r), Pending(U, k, s)
        PROVE  (i = k /\ r = s) \/ Below(d, r) \intersect Below(d, s) = {}
    BY <1>1, <1>3, <1>7, <2>1, SMTT(30) DEF Walk, Apart
  <2>2. ASSUME NEW i, NEW r, Pending(U, i, r), NEW f \in Below(d, r)
        PROVE  ~IsFound(ent, f)
    BY <1>1, <1>3, <1>7, <2>2 DEF Walk, Apart
  <2>. QED
    BY <2>1, <2>2 DEF Apart
<1>10. Complete(d, U, ent)
  <2>. SUFFICES ASSUME NEW f \in FilesOf[d], ~IsFound(ent, f)
                PROVE  \E i, r : Pending(U, i, r) /\ f \in Below(d, r)
    BY DEF Complete
  <2>1. PICK i, r : Pending(stk, i, r) /\ f \in Below(d, r)
    BY DEF Walk, Complete
  <2>2. CASE i = m /\ r = e
    BY <1>2, <1>3, <1>7, <2>1, <2>2
  <2>3. CASE ~(i = m /\ r = e)
    BY <1>1, <1>7, <2>1, <2>3
  <2>. QED
    BY <2>2, <2>3
<1>. QED
  BY <1>6, <1>9, <1>10 DEF Walk, U, T, g

\* A file is found under its own path, and no longer to come.
LEMMA WalkFinds ==
    ASSUME NEW d \in Directory, NEW stk, NEW ent, Walk(d, stk, ent), stk # <<>>,
           NEW e \in Last(stk).rest, ~IsDirectory(d, e)
    PROVE  Walk(d, Taken(stk, e),
                Append(ent, [path |-> RelativePath(Last(stk).prefix, e), cid |-> e]))
<1>. DEFINE m == Len(stk)
            n == Len(ent)
            T == Taken(stk, e)
            g == [path |-> RelativePath(Last(stk).prefix, e), cid |-> e]
            F == Append(ent, g)
<1>1. /\ Listed(d, T) /\ Pending(stk, m, e)
      /\ \A i, r : Pending(T, i, r) <=> Pending(stk, i, r) /\ ~(i = m /\ r = e)
      /\ e \in Ls(d, Last(stk).prefix) /\ Last(stk).prefix \in Path
  BY TakenStack DEF Walk
<1>2. e \in Path /\ RelativePath(Last(stk).prefix, e) = e /\ Below(d, e) = {e}
  BY <1>1, EntryOfListing, EntryKinds
<1>3. e \in FilesOf[d]
  BY <1>2 DEF Below
<1>4. g \in Found /\ g.path = e /\ g.cid = e
  BY <1>2 DEF Found
<1>. HIDE DEF T, g
<1>5. /\ F \in Seq(Found) /\ Len(F) = n + 1 /\ F[n + 1] = g
      /\ n \in Nat /\ \A j \in 1..n : F[j] = ent[j]
  BY <1>4, AppendProperties DEF Walk, FoundTrue
<1>. HIDE DEF F
<1>6. \A j \in 1..(n + 1) : j \in 1..n \/ j = n + 1
  BY <1>5
<1>7. 1..n \subseteq 1..(n + 1) /\ n + 1 \in 1..(n + 1)
  BY <1>5
<1>8. ~IsFound(ent, e)
  BY <1>1, <1>2 DEF Walk, Apart
<1>. HIDE DEF n, m
<1>9. \A f : IsFound(F, f) <=> IsFound(ent, f) \/ f = e
  BY <1>4, <1>5, <1>6, <1>7 DEF IsFound, n
<1>10. FoundTrue(d, F)
  <2>1. \A j \in 1..Len(F) : F[j].path = F[j].cid /\ F[j].cid \in FilesOf[d]
    BY <1>3, <1>4, <1>5, <1>6 DEF Walk, FoundTrue, n
  <2>2. \A j, k \in 1..Len(F) : F[j].cid = F[k].cid => j = k
    BY <1>4, <1>5, <1>6, <1>8 DEF Walk, FoundTrue, IsFound, n
  <2>. QED
    BY <1>5, <2>1, <2>2 DEF FoundTrue
<1>11. Apart(d, T, F)
  <2>1. ASSUME NEW i, NEW r, Pending(T, i, r) PROVE e \notin Below(d, r)
    BY <1>1, <1>2, <2>1 DEF Walk, Apart
  <2>. QED
    BY <1>1, <1>9, <2>1 DEF Walk, Apart
<1>12. Complete(d, T, F)
  <2>. SUFFICES ASSUME NEW f \in FilesOf[d], ~IsFound(F, f)
                PROVE  \E i, r : Pending(T, i, r) /\ f \in Below(d, r)
    BY DEF Complete
  <2>1. PICK i, r : Pending(stk, i, r) /\ f \in Below(d, r)
    BY <1>9 DEF Walk, Complete
  <2>. QED
    BY <1>1, <1>2, <1>9, <2>1
<1>. QED
  BY <1>1, <1>10, <1>11, <1>12 DEF Walk, T, F, g

\* The walk starts with nothing found and every file below the root's entries.
LEMMA WalkStarts ==
    ASSUME NEW d \in Directory
    PROVE  Walk(d, << [prefix |-> <<>>, rest |-> Ls(d, <<>>)] >>, <<>>)
<1>. DEFINE g == [prefix |-> <<>>, rest |-> Ls(d, <<>>)]
            T == <<g>>
<1>1. <<>> \in Path /\ FilesOf[d] \subseteq Path /\ \A f \in FilesOf[d] : f # <<>>
  BY IpfsSiteAssumption DEF Path
<1>2. g \in Frame /\ g.prefix = <<>> /\ g.rest = Ls(d, <<>>)
  BY <1>1, EntryOfListing DEF Frame
<1>3. FilesOf[d] \subseteq Below(d, <<>>)
  <2>. SUFFICES ASSUME NEW f \in FilesOf[d] PROVE IsPrefix(<<>>, f)
    BY DEF Below
  <2>1. f \in Path /\ Len(<<>>) = 0 /\ Len(f) \in Nat
    BY <1>1 DEF Path
  <2>. QED
    BY <2>1, <1>1, PrefixByPlace
<1>. HIDE DEF g
<1>4. T \in Seq(Frame) /\ Len(T) = 1 /\ T[1] = g
  BY <1>2
<1>. HIDE DEF T
<1>5. \A i, r : Pending(T, i, r) <=> i = 1 /\ r \in Ls(d, <<>>)
  BY <1>2, <1>4 DEF Pending
<1>6. Listed(d, T)
  BY <1>2, <1>4 DEF Listed
<1>7. FoundTrue(d, <<>>) /\ \A f : ~IsFound(<<>>, f)
  BY DEF FoundTrue, IsFound
<1>8. Apart(d, T, <<>>)
  <2>1. \A e, f \in Ls(d, <<>>) : e # f => Below(d, e) \intersect Below(d, f) = {}
    BY <1>1, FilesBelowListing
  <2>. QED
    BY <1>5, <1>7, <2>1 DEF Apart
<1>9. Complete(d, T, <<>>)
  <2>1. \A f \in Below(d, <<>>) : f # <<>> => \E e \in Ls(d, <<>>) : f \in Below(d, e)
    BY <1>1, FilesBelowListing
  <2>. QED
    BY <1>1, <1>3, <1>5, <2>1 DEF Complete
<1>. QED
  BY <1>6, <1>7, <1>8, <1>9 DEF Walk, T, g

\* The end of a listing takes no file away.
LEMMA WalkLeaves ==
    ASSUME NEW d, NEW stk, NEW ent, Walk(d, stk, ent), stk # <<>>, Last(stk).rest = {}
    PROVE  Walk(d, Front(stk), ent)
<1>. DEFINE m == Len(stk)
            T == Front(stk)
<1>1. stk \in Seq(Frame) /\ m \in Nat /\ m > 0 /\ stk[m].rest = {}
  BY DEF Walk, Listed, Last
<1>2. T \in Seq(Frame) /\ Len(T) = m - 1 /\ \A i \in 1..(m - 1) : T[i] = stk[i]
  <2>1. \A i \in 1..(m - 1) : stk[i] \in Frame
    BY <1>1
  <2>2. 1 \in Int /\ m - 1 \in Int
    BY <1>1
  <2>3. /\ SubSeq(stk, 1, m - 1) \in Seq(Frame)
        /\ Len(SubSeq(stk, 1, m - 1)) = IF 1 <= m - 1 THEN m - 1 - 1 + 1 ELSE 0
        /\ \A i \in 1..(m - 1 - 1 + 1) : SubSeq(stk, 1, m - 1)[i] = stk[1 + i - 1]
    BY <2>1, <2>2, SubSeqProperties
  <2>4. T = SubSeq(stk, 1, m - 1)
    BY DEF Front
  <2>. HIDE DEF T, m
  <2>. QED
    BY <1>1, <2>3, <2>4
<1>. HIDE DEF T
<1>3. \A i \in 1..m : i \in 1..(m - 1) \/ i = m
  BY <1>1
<1>4. 1..(m - 1) \subseteq 1..m
  BY <1>1
<1>5. \A i, r : Pending(T, i, r) <=> Pending(stk, i, r)
  BY <1>1, <1>2, <1>3, <1>4 DEF Pending
<1>6. Listed(d, T)
  BY <1>2, <1>4 DEF Walk, Listed
<1>7. Apart(d, T, ent) /\ Complete(d, T, ent)
  BY <1>5 DEF Walk, Apart, Complete
<1>. QED
  BY <1>6, <1>7 DEF Walk, T

\* A walk with nothing to come has found every file exactly once.
LEMMA WalkOver ==
    ASSUME NEW d, NEW ent, Walk(d, <<>>, ent)
    PROVE  /\ {e.path : e \in ToSet(ent)} = FilesOf[d]
           /\ Len(ent) = Cardinality(FilesOf[d])
           /\ \A e \in ToSet(ent) : e.path = e.cid
<1>1. \A i, r : ~Pending(<<>>, i, r)
  BY DEF Pending
<1>2. \A f \in FilesOf[d] : IsFound(ent, f)
  BY <1>1 DEF Walk, Complete
<1>3. ent \in Seq(Found) /\ Len(ent) \in Nat /\ DOMAIN ent = 1..Len(ent)
  BY DEF Walk, FoundTrue
<1>4. ToSet(ent) = {ent[j] : j \in 1..Len(ent)}
  BY <1>3 DEF ToSet
<1>5. \A j \in 1..Len(ent) : ent[j].path = ent[j].cid /\ ent[j].cid \in FilesOf[d]
  BY DEF Walk, FoundTrue
<1>6. {e.path : e \in ToSet(ent)} = FilesOf[d]
  BY <1>2, <1>4, <1>5 DEF IsFound
<1>7. Len(ent) = Cardinality(FilesOf[d])
  <2>. DEFINE b == [j \in 1..Len(ent) |-> ent[j].cid]
  <2>1. b \in [1..Len(ent) -> FilesOf[d]]
    BY <1>5
  <2>2. \A j, k \in 1..Len(ent) : b[j] = b[k] => j = k
    BY DEF Walk, FoundTrue
  <2>3. \A f \in FilesOf[d] : \E j \in 1..Len(ent) : b[j] = f
    BY <1>2 DEF IsFound
  <2>. HIDE DEF b
  <2>4. ExistsBijection(1..Len(ent), FilesOf[d])
    BY <2>1, <2>2, <2>3 DEF ExistsBijection, Bijection, Injection, Surjection, IsInjective
  <2>. QED
    BY <1>3, <2>4, FS_CountingElements
<1>. QED
  BY <1>4, <1>5, <1>6, <1>7

\* From the opening of a page to the last listing: nothing found before
\* the walk, a walk in progress during it, and every file found after it.
WalkInv ==
    /\ pc \in {"build", "dial", "parse", "ls"} => entries = <<>>
    /\ pc = "ls" => page.cid \in Directory
    /\ pc = "collect" => page.cid \in Directory /\ Walk(page.cid, stack, entries)
    /\ WalkExact

\* Every await of the load, and everything that happens between two of them,
\* keeps the walk exact.
LEMMA WalkInvKept == WalkInv /\ [SiteNext]_siteVars => WalkInv'
<1>. SUFFICES ASSUME WalkInv, [SiteNext]_siteVars PROVE WalkInv'
  OBVIOUS
<1>. USE DEF WalkInv, WalkExact
<1>1. CASE \E segment \in Directory \union Typo \union NotACid : bootstrap_page(segment)
  <2>1. entries' = <<>> /\ (pc' = "build" \/ pc' = "closed")
    BY <1>1, Zenon DEF bootstrap_page
  <2>. QED
    BY <2>1
<1>2. CASE buildGatewayFreeHelia
  BY <1>2 DEF buildGatewayFreeHelia, renderError
<1>3. CASE Dial
  BY <1>3 DEF Dial
<1>4. CASE ParseCid
  BY <1>4 DEF ParseCid, renderError
<1>5. CASE ListRoot
  <2>1. /\ pc = "ls" /\ pc' = "collect" /\ entries' = entries /\ page' = page
        /\ stack' = << [prefix |-> <<>>, rest |-> Ls(page.cid, <<>>)] >>
    BY <1>5 DEF ListRoot
  <2>2. Walk(page.cid, stack', entries')
    BY <2>1, WalkStarts
  <2>. QED
    BY <2>1, <2>2
<1>6. CASE collectEntries
  <2>1. pc = "collect" /\ pc' = pc /\ page' = page /\ stack # <<>>
    BY <1>6, Zenon DEF collectEntries
  <2>2. PICK e \in Last(stack).rest :
          IF IsDirectory(page.cid, e)
          THEN /\ stack' = Append(Taken(stack, e), [prefix |-> RelativePath(Last(stack).prefix, e),
                                                   rest |-> Ls(page.cid, e)])
               /\ entries' = entries
          ELSE /\ stack' = Taken(stack, e)
               /\ entries' = Append(entries, [path |-> RelativePath(Last(stack).prefix, e), cid |-> e])
    BY <1>6, Zenon DEF collectEntries, Taken
  <2>3. RelativePath(Last(stack).prefix, e) = e
    BY <2>1, TakenStack, EntryOfListing DEF Walk
  <2>4. Walk(page.cid, stack', entries')
    <3>1. page.cid \in Directory /\ Walk(page.cid, stack, entries)
      BY <2>1
    <3>2. CASE IsDirectory(page.cid, e)
      <4>1. Walk(page.cid, Append(Taken(stack, e), [prefix |-> e, rest |-> Ls(page.cid, e)]), entries)
        BY <2>1, <3>1, <3>2, WalkEnters
      <4>. QED
        BY <2>2, <2>3, <3>2, <4>1, Zenon
    <3>3. CASE ~IsDirectory(page.cid, e)
      <4>1. Walk(page.cid, Taken(stack, e),
                 Append(entries, [path |-> RelativePath(Last(stack).prefix, e), cid |-> e]))
        BY <2>1, <3>1, <3>3, WalkFinds
      <4>. QED
        BY <2>2, <3>3, <4>1, Zenon
    <3>. QED
      BY <3>2, <3>3
  <2>. QED
    BY <2>1, <2>4
<1>7. CASE ListingEnds
  <2>1. /\ pc = "collect" /\ stack # <<>> /\ Last(stack).rest = {} /\ stack' = Front(stack)
        /\ page' = page /\ entries' = entries
        /\ (stack' = <<>> /\ pc' = "fetch") \/ pc' = "collect"
    BY <1>7 DEF ListingEnds
  <2>2. Walk(page.cid, stack', entries')
    BY <2>1, WalkLeaves
  <2>3. CASE pc' = "collect"
    BY <2>1, <2>2, <2>3
  <2>4. CASE stack' = <<>> /\ pc' = "fetch"
    BY <2>1, <2>2, <2>4, WalkOver
  <2>. QED
    BY <2>1, <2>3, <2>4
<1>8. CASE FetchEntry
  BY <1>8, Zenon DEF FetchEntry
<1>9. CASE ShowSite
  <2>1. pc' = "closed"
    BY <1>9, Zenon DEF ShowSite, renderError
  <2>. QED
    BY <2>1
<1>10. CASE Reject
  BY <1>10 DEF Reject, renderError
<1>11. CASE UNCHANGED <<pc, page, stack, entries>>
  BY <1>11
<1>. QED
  BY <1>1, <1>2, <1>3, <1>4, <1>5, <1>6, <1>7, <1>8, <1>9, <1>10, <1>11
  DEF SiteNext, Load, siteVars, loader, ipfs_host_page, Restart, Disconnect, Discover

\* However the tree is shaped and its listings are ordered, the walk of
\* collectEntries finds every file once, under the path it has.
THEOREM WalksAreExact == SiteSpec => []WalkExact
<1>1. SiteInit => WalkInv
  BY DEF SiteInit, WalkInv, WalkExact
<1>2. WalkInv => WalkExact
  BY DEF WalkInv
<1>. QED
  BY <1>1, <1>2, WalkInvKept, PTL DEF SiteSpec
=============================================================================
