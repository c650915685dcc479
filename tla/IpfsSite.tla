------------------------------ MODULE IpfsSite ------------------------------
(***************************************************************************)
(* Static sites over IPFS: `oag ipfs host-page` pins a directory, `oag     *)
(* serve` hands a browser a page with a CID and a dial address, and the    *)
(* bundle on that page walks the pinned tree over bitswap, turns its files *)
(* into blob: URLs and rewrites the references of index.html to them.      *)
(*                                                                         *)
(* One browser tab.  Every await of the bundle is a step of its own; it    *)
(* waits, without a timeout, until the blocks it needs can be had.  A file *)
(* name is the sequence of its parts between dots, a path the sequence of  *)
(* names between slashes, and a node of the pinned tree is named by where  *)
(* it is: paths the bundle computes itself are kept apart from that.       *)
(***************************************************************************)
EXTENDS Integers, FiniteSetsExt, SequencesExt

CONSTANTS
    Directory,          \* local directories; a pinned one is named like its CID
    FilesOf,            \* the paths of the files of a directory
    BytesOf,            \* the size of a file
    LargeFile,          \* paths of files of more than one block
    Element,            \* elements of index.html with a src or an href
    Src, Href,          \* their references, or NoReference
    NoReference,
    Typo,               \* path segments of letters and digits that are no CID
    NotACid,            \* path segments with other characters
    NoAddress,
    LowerCase,          \* toLowerCase, on the last parts of file names
    DhtFindsProvider,   \* whether Kademlia can find a node that has the blocks
    MAX_HOST_PAGE_FILE_COUNT,
    MAX_HOST_PAGE_TOTAL_BYTES,
    MaxRestarts, MaxOpens

\* Names between slashes, each its parts between dots.
Path == Seq(Seq(STRING))

ASSUME IpfsSiteAssumption ==
    /\ MAX_HOST_PAGE_FILE_COUNT \in Nat /\ MAX_HOST_PAGE_TOTAL_BYTES \in Nat
    /\ MaxRestarts \in Nat /\ MaxOpens \in Nat
    /\ NoAddress \notin Nat
    /\ \A d \in Directory : \A f, g \in FilesOf[d] :
           /\ f \in Path /\ f # <<>>
           /\ ~IsStrictPrefix(f, g)     \* no file is also a directory

VARIABLES
    pinned,     \* directories in the embedded node's repository on disk
    served,     \* those the running node picked up when it started
    identity,   \* the running node's key and port, fresh at every start
    address,    \* the dial address `oag serve` took from it at start
    page,       \* what the server put on the page: a CID and a dial address
    pc,         \* where the bundle's code is
    connected,  \* whether the tab has a connection to the running node
    stack,      \* the calls of collectEntries: prefix and entries still to come
    entries,    \* the files found, each the path computed for it and its node
    next,       \* the entry that is fetched next
    blobUrls,   \* path -> the blob behind its blob: URL
    indexBlob,  \* whether index.html has been fetched
    screen,     \* what the visitor sees
    doc,        \* element -> its two attributes, once index.html is shown
    restarts, opens

node == <<pinned, served, identity, address, restarts>>
loader == <<page, pc, stack, entries, next, blobUrls, indexBlob, screen, doc, opens>>
siteVars == <<node, connected, loader>>

Index == << <<"index", "html">> >>

-----------------------------------------------------------------------------
(* The pinned tree.                                                        *)

IsDirectory(d, n) == \E f \in FilesOf[d] : IsStrictPrefix(n, f)

\* fs.ls: what lies directly below a node.
Ls(d, n) == {SubSeq(f, 1, Len(n) + 1) : f \in {g \in FilesOf[d] : IsStrictPrefix(n, g)}}

TotalBytes(d) == MapThenSumSet(LAMBDA f : BytesOf[f], FilesOf[d])

-----------------------------------------------------------------------------
(* What the bundle computes.                                               *)

MIME_TYPES ==
    [html |-> "text/html", css |-> "text/css", js |-> "application/javascript",
     json |-> "application/json", png |-> "image/png", jpg |-> "image/jpeg",
     jpeg |-> "image/jpeg", svg |-> "image/svg+xml", gif |-> "image/gif"]

\* path.split('.').pop(): without a dot in the last name it is the text after
\* an earlier dot, or the whole path, and a key of the table only if the path
\* is a single name.
Extension(path) ==
    LET name == Last(path)
    IN  IF Len(name) > 1 \/ Len(path) = 1 THEN LowerCase[Last(name)] ELSE "has_a_slash"

guessMimeType(path) ==
    IF Extension(path) \in DOMAIN MIME_TYPES
    THEN MIME_TYPES[Extension(path)] ELSE "application/octet-stream"

\* value.replace(/^\.?\/+/, ''): one leading dot before slashes, and any slashes.
Relative(value) ==
    [value EXCEPT !.lead = IF @ \in {"./", "/", "//"} THEN "" ELSE @]

Plain(path) == [lead |-> "", path |-> path, tail |-> ""]

\* Mutant: only references written exactly like a path are rewritten.
rewrite_exact(value, blobs) ==
    IF \E p \in DOMAIN blobs : value = Plain(p) THEN [blob |-> blobs[value.path]] ELSE value

RewriteAttribute(value, blobs) ==
    IF \E p \in DOMAIN blobs : Relative(value) = Plain(p)
    THEN [blob |-> blobs[Relative(value).path]]
    ELSE value

RewriteElement(el, blobs) ==
    IF Src[el] # NoReference
    THEN [src |-> RewriteAttribute(Src[el], blobs), href |-> Href[el]]
    ELSE [src |-> NoReference, href |-> RewriteAttribute(Href[el], blobs)]

-----------------------------------------------------------------------------
(* The operator: pinning a directory, and starting `oag serve` again.      *)

\* A missing index.html is only warned about.
ipfs_host_page(d) ==
    /\ FilesOf[d] # {}
    /\ Cardinality(FilesOf[d]) <= MAX_HOST_PAGE_FILE_COUNT
    /\ TotalBytes(d) <= MAX_HOST_PAGE_TOTAL_BYTES
    /\ pinned' = pinned \union {d}
    /\ UNCHANGED <<served, identity, address, restarts, connected, loader>>

\* The embedded node comes back with another key and port, with what is on
\* disk by now, and without its connections.  Its listener may take longer to
\* bind than the server waits for its address.
Restart ==
    /\ restarts < MaxRestarts
    /\ restarts' = restarts + 1
    /\ identity' = identity + 1
    /\ address' \in {identity', NoAddress}
    /\ served' = pinned
    /\ connected' = FALSE
    /\ UNCHANGED <<pinned, loader>>

-----------------------------------------------------------------------------
(* The page and the bundle.                                                *)

looks_like_a_cid(segment) == segment \in Directory \union Typo

\* GET /ipfs-site/{cid}, in a new document, and the bundle's first lines.
bootstrap_page(segment) ==
    /\ opens < MaxOpens
    /\ opens' = opens + 1
    /\ IF looks_like_a_cid(segment)
       THEN /\ pc' = "build" /\ screen' = "loading"
            /\ page' = [cid |-> segment, multiaddr |-> address]
       ELSE /\ pc' = "closed" /\ screen' = "bad_request"
            /\ page' = [cid |-> segment, multiaddr |-> NoAddress]
    /\ connected' = FALSE
    /\ stack' = <<>> /\ entries' = <<>> /\ next' = 1
    /\ blobUrls' = <<>> /\ indexBlob' = FALSE /\ doc' = <<>>
    /\ UNCHANGED node

\* Mutant: the error is shown, and the load goes on.
render_and_go_on == screen' = "error" /\ UNCHANGED pc

\* loadSite(...).catch(renderError): whatever throws ends the load.
renderError == pc' = "closed" /\ screen' = "error"

\* createHeliaLight and helia.start.
buildGatewayFreeHelia ==
    /\ pc = "build"
    /\ \/ /\ pc' = IF page.multiaddr # NoAddress THEN "dial" ELSE "parse"
          /\ UNCHANGED screen
       \/ renderError
    /\ UNCHANGED <<node, connected, page, stack, entries, next, blobUrls, indexBlob, doc, opens>>

\* helia.libp2p.dial.  A failure is shown and the load goes on.
Dial ==
    /\ pc = "dial"
    /\ pc' = "parse"
    /\ \/ /\ page.multiaddr = identity
          /\ connected' = TRUE
          /\ UNCHANGED screen
       \/ screen' = "dial_error" /\ UNCHANGED connected
    /\ UNCHANGED <<node, page, stack, entries, next, blobUrls, indexBlob, doc, opens>>

ParseCid ==
    /\ pc = "parse"
    /\ IF page.cid \in Directory THEN pc' = "ls" /\ UNCHANGED screen ELSE renderError
    /\ UNCHANGED <<node, connected, page, stack, entries, next, blobUrls, indexBlob, doc, opens>>

\* A block the tab does not have yet can be fetched over bitswap.
Reachable == connected /\ page.cid \in served

ListRoot ==
    /\ pc = "ls"
    /\ Reachable
    /\ stack' = << [prefix |-> <<>>, rest |-> Ls(page.cid, <<>>)] >>
    /\ pc' = "collect"
    /\ UNCHANGED <<node, connected, page, entries, next, blobUrls, indexBlob, screen, doc, opens>>

\* Mutant: an entry below a directory keeps only its own name.
name_only(prefix, entry) == <<Last(entry)>>

\* The path of an entry: its directory's, and its name.
RelativePath(prefix, entry) == Append(prefix, Last(entry))

\* One entry of the innermost directory: fs.stat, then its own listing or a
\* file found.  The listing's order is the builder's.
collectEntries ==
    /\ pc = "collect" /\ stack # <<>>
    /\ Reachable
    /\ \E entry \in Last(stack).rest :
         LET relative == RelativePath(Last(stack).prefix, entry)
             seen == [stack EXCEPT ![Len(stack)] = [prefix |-> @.prefix, rest |-> @.rest \ {entry}]]
         IN  IF IsDirectory(page.cid, entry)
             THEN /\ stack' = Append(seen, [prefix |-> relative, rest |-> Ls(page.cid, entry)])
                  /\ UNCHANGED entries
             ELSE /\ stack' = seen
                  /\ entries' = Append(entries, [path |-> relative, cid |-> entry])
    /\ UNCHANGED <<node, connected, page, pc, next, blobUrls, indexBlob, screen, doc, opens>>

\* Mutant: the end of the root's listing is not noticed.
listing_goes_on ==
    /\ pc = "collect" /\ stack # <<>>
    /\ Last(stack).rest = {}
    /\ stack' = Front(stack)
    /\ UNCHANGED <<node, connected, page, pc, entries, next, blobUrls, indexBlob, screen, doc, opens>>

\* The innermost listing is at its end.
ListingEnds ==
    /\ pc = "collect" /\ stack # <<>>
    /\ Last(stack).rest = {}
    /\ stack' = Front(stack)
    /\ pc' = IF stack' = <<>> THEN "fetch" ELSE "collect"
    /\ UNCHANGED <<node, connected, page, entries, next, blobUrls, indexBlob, screen, doc, opens>>

\* fs.stat left the first block of a file in the tab's own blockstore.
catToBlob(entry) ==
    /\ entry.cid \in LargeFile => Reachable
    /\ IF entry.path = Index
       THEN indexBlob' = TRUE /\ UNCHANGED blobUrls
       ELSE /\ blobUrls' = (entry.path :> [content |-> entry.cid,
                                           type |-> guessMimeType(entry.path)]) @@ blobUrls
            /\ UNCHANGED indexBlob

FetchEntry ==
    /\ pc = "fetch"
    /\ next <= Len(entries)
    /\ catToBlob(entries[next])
    /\ next' = next + 1
    /\ UNCHANGED <<node, connected, page, pc, stack, entries, screen, doc, opens>>

\* The rest of loadSite: no index.html, or its references rewritten and the
\* document replaced.
ShowSite ==
    /\ pc = "fetch"
    /\ next > Len(entries)
    /\ IF indexBlob
       THEN /\ doc' = [el \in Element |-> RewriteElement(el, blobUrls)]
            /\ pc' = "closed" /\ screen' = "site"
       ELSE renderError /\ UNCHANGED doc
    /\ UNCHANGED <<node, connected, page, stack, entries, next, blobUrls, indexBlob, opens>>

\* An ls, stat or cat rejects instead of answering.
Reject ==
    /\ pc \in {"ls", "collect", "fetch"}
    /\ renderError
    /\ UNCHANGED <<node, connected, page, stack, entries, next, blobUrls, indexBlob, doc, opens>>

\* The connection breaks, or the DHT finds the node; nothing dials it again.
Disconnect == connected /\ connected' = FALSE /\ UNCHANGED <<node, loader>>

Discover ==
    /\ DhtFindsProvider
    /\ pc \notin {"closed", "build"} /\ ~connected
    /\ connected' = TRUE
    /\ UNCHANGED <<node, loader>>

-----------------------------------------------------------------------------

SiteInit ==
    /\ pinned = {} /\ served = {}
    /\ identity = 0 /\ address \in {identity, NoAddress}
    /\ page = [cid |-> "none", multiaddr |-> NoAddress]
    /\ pc = "closed" /\ screen = "blank" /\ connected = FALSE
    /\ stack = <<>> /\ entries = <<>> /\ next = 1
    /\ blobUrls = <<>> /\ indexBlob = FALSE /\ doc = <<>>
    /\ restarts = 0 /\ opens = 0

Load ==
    \/ buildGatewayFreeHelia
    \/ Dial
    \/ ParseCid
    \/ ListRoot
    \/ collectEntries
    \/ ListingEnds
    \/ FetchEntry
    \/ ShowSite

SiteNext ==
    \/ \E d \in Directory : ipfs_host_page(d)
    \/ Restart
    \/ \E segment \in Directory \union Typo \union NotACid : bootstrap_page(segment)
    \/ Load
    \/ Reject
    \/ Disconnect
    \/ Discover

SiteSpec == SiteInit /\ [][SiteNext]_siteVars

\* The browser runs what is ready to run; an await goes on once its blocks can
\* be had.
SiteFairSpec == SiteSpec /\ WF_siteVars(Load)

-----------------------------------------------------------------------------
(* Properties.                                                             *)

\* When the walk of the tree is over it has found every file exactly once and
\* computed the path it has in the pinned directory, whatever the order of the
\* listings and however deep the directories are (collectEntries).
WalkExact ==
    pc = "fetch" =>
        /\ {e.path : e \in ToSet(entries)} = FilesOf[page.cid]
        /\ Len(entries) = Cardinality(FilesOf[page.cid])
        /\ \A e \in ToSet(entries) : e.path = e.cid

\* A reference the browser would resolve to a file of the site itself.
NamesOwnFile(value, f) ==
    value.lead \in {"", "./", "/"} /\ value.path = f

\* A site is only ever shown whole: all its files were fetched, each under its
\* own path and with the type of its extension, and every plain reference of an
\* element's src (or its href, if it has no src) to a file other than index.html
\* shows that file, while all other references are left as they were (loadSite).
ShownWhole ==
    LET assets == FilesOf[page.cid] \ {Index}
        Shows(value, shown) ==
            \/ \E f \in assets : /\ NamesOwnFile(value, f) /\ value.tail = ""
                                 /\ shown = [blob |-> blobUrls[f]]
            \/ /\ ~\E f \in assets : NamesOwnFile(value, f) /\ value.tail = ""
               /\ shown = value
    IN  screen = "site" =>
            /\ Index \in FilesOf[page.cid] /\ DOMAIN blobUrls = assets
            /\ \A f \in assets :
                   /\ blobUrls[f].content = f
                   /\ Len(Last(f)) > 1 /\ LowerCase[Last(Last(f))] \in DOMAIN MIME_TYPES
                      => blobUrls[f].type = MIME_TYPES[LowerCase[Last(Last(f))]]
            /\ \A el \in Element :
                   IF Src[el] # NoReference
                   THEN Shows(Src[el], doc[el].src) /\ doc[el].href = Href[el]
                   ELSE Shows(Href[el], doc[el].href)

\* A load that has ended stays as it ended until the page is opened again: an
\* error is not followed by a site nor a site by an error.  The message about a
\* failed dial is the one that may be followed by either (renderError).
EndIsFinal ==
    [][opens' = opens /\ screen \in {"error", "site", "bad_request"} => screen' = screen]_siteVars

\* A load that keeps its connection to a node that has the tree comes to an
\* end: the site or an error is shown.
LoadEnds ==
    (pc # "closed") ~> (pc = "closed" \/ ~Reachable)
=============================================================================
