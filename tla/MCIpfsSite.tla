----------------------------- MODULE MCIpfsSite -----------------------------
(***************************************************************************)
(* Small instances of IpfsSite.                                            *)
(***************************************************************************)
EXTENDS IpfsSite

Css    == <<"style", "css">>
Script == <<"app", "js">>
Sub    == <<"sub">>
Logo   == <<Sub, Sub, <<"logo", "PNG">>>>
Film   == << <<"film">> >>

\* A site with nested directories and two files of one name, a directory with
\* no index.html at its top, one with too many files, one too large, and an
\* empty one.
MCFilesOf ==
    [site  |-> {Index, <<Css>>, <<Sub, Css>>, Logo},
     bare  |-> {<<Sub, <<"index", "html">>>>, <<Sub, <<"license">>>>, << <<"css">> >>},
     wide  |-> {<< <<x>> >> : x \in {"f", "g", "h", "i", "j"}},
     heavy |-> {Index, Film},
     empty |-> {}]

AnyFile == UNION {MCFilesOf[d] : d \in DOMAIN MCFilesOf}

MCBytesOf == [f \in AnyFile |-> IF f = Film THEN 9 ELSE 1]

MCLowerCase ==
    [x \in {Last(Last(f)) : f \in AnyFile} |-> IF x = "PNG" THEN "png" ELSE x]

MCLargeFile == {Index, <<Sub, Css>>}

\* The elements of index.html, a src and an href each.
Ref(lead, path, tail) == [lead |-> lead, path |-> path, tail |-> tail]

Page ==
    [plain    |-> <<NoReference, Ref("", <<Css>>, "")>>,
     dotted   |-> <<NoReference, Ref("./", <<Sub, Css>>, "")>>,
     rooted   |-> <<Ref("/", Logo, ""), NoReference>>,
     both     |-> <<Ref("", Logo, ""), Ref("", <<Css>>, "")>>,
     cdn      |-> <<Ref("//", << <<"cdn">>, Script>>, ""), NoReference>>,
     absolute |-> <<Ref("https://", << <<"cdn">>, Script>>, ""), NoReference>>,
     parent   |-> <<NoReference, Ref("../", <<Css>>, "")>>,
     query    |-> <<NoReference, Ref("", <<Css>>, "?v=2")>>,
     home     |-> <<NoReference, Ref("", Index, "")>>,
     missing  |-> <<Ref("", <<Script>>, ""), NoReference>>]

MCElement == DOMAIN Page
MCSrc     == [el \in MCElement |-> Page[el][1]]
MCHref    == [el \in MCElement |-> Page[el][2]]

=============================================================================
