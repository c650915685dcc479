--------------------------- MODULE TransferProofs ---------------------------
(***************************************************************************)
(* Receipts are mutual, relayed content is accounted for, and a relayed    *)
(* request never circles, for any wiring of relay peers, any hop budget    *)
(* and any number of fetches and faults.                                   *)
(***************************************************************************)
EXTENDS Transfer, Integers, SequenceTheorems, TLAPS

\* What the proofs ask of the constants.
TransferConstants ==
    /\ Client \in Peer /\ relay_peers \in [Peer -> Seq(Peer)] /\ MaxHops \in Nat

ARequest ==
    [client : Peer, server : Peer, relay_hops_remaining : Nat, relay_path : Seq(Peer),
     nonce : Nat, state : {"local", "relay", "content", "receipt"}, tried : Nat, via : SUBSET Peer]

ARecord ==
    [role : {"server", "client"}, server : Peer, client : Peer, nonce : Nat, relayed_via : SUBSET Peer]

\* The server's record of the exchange of a request.
ServerHas(c, rs) ==
    \E s \in rs : s.role = "server" /\ s.nonce = c.nonce
                       /\ s.server = c.server /\ s.client = c.client

\* The relaying peer's record, as a client, of the peer the content came from.
Backed(peer, via, rs) ==
    \A v \in via : \E r \in rs : r.role = "client" /\ r.server = v /\ r.client = peer

RequestInv(c, rs) ==
    /\ c \in ARequest
    /\ c.state = "receipt" => ServerHas(c, rs)
    /\ Backed(c.server, c.via, rs)

\* The path of a request names the servers of those below it, in order.
StackInv(s) ==
    /\ \A i \in 1..Len(s) :
          /\ Len(s[i].relay_path) = i - 1
          /\ \A j \in 1..(i - 1) : s[i].relay_path[j] = s[j].server /\ s[j].server # s[i].server
          /\ i + s[i].relay_hops_remaining <= MaxHops + 1
    /\ \A i \in 2..Len(s) : s[i].client = s[i - 1].server

\* The stack of requests, given the records.
Sound(s, rs) ==
    s \in Seq(ARequest) /\ StackInv(s) /\ \A i \in 1..Len(s) : RequestInv(s[i], rs)

Mutual(rs) == \A r \in rs : r.role = "client" => ServerHas(r, rs)

Relayed(rs) == \A s \in rs : s.role = "server" => Backed(s.server, s.relayed_via, rs)

TransferInv ==
    /\ nonces \in Nat /\ records \subseteq ARecord
    /\ Sound(calls, records) /\ Mutual(records) /\ Relayed(records)

-----------------------------------------------------------------------------
\* The top of the stack and what is below it.
LEMMA TopOfStack ==
    ASSUME NEW S, NEW s \in Seq(S), s # <<>>
    PROVE  /\ Len(s) \in Nat \ {0} /\ Last(s) = s[Len(s)] /\ Last(s) \in S
           /\ Front(s) \in Seq(S) /\ Len(Front(s)) = Len(s) - 1
           /\ \A i \in 1..(Len(s) - 1) : Front(s)[i] = s[i]
<1>1. Len(s) \in Nat \ {0} /\ \A i \in 1..Len(s) : s[i] \in S
  BY EmptySeq, LenProperties
<1>2. Front(s) = SubSeq(s, 1, Len(s) - 1) /\ Last(s) = s[Len(s)]
  BY DEF Front, Last
<1>3. Len(s) - 1 \in Int /\ \A i \in 1..(Len(s) - 1) : s[i] \in S
  BY <1>1
<1>. DEFINE n == Len(s)
            q == SubSeq(s, 1, Len(s) - 1)
<1>4. /\ q \in Seq(S) /\ Len(q) = IF 1 <= n - 1 THEN n - 1 - 1 + 1 ELSE 0
      /\ \A i \in 1..(n - 1 - 1 + 1) : q[i] = s[1 + i - 1]
  BY <1>3, SubSeqProperties
<1>5. n \in Nat \ {0}
  BY <1>1
<1>. HIDE DEF n, q
<1>6. Len(q) = n - 1 /\ \A i \in 1..(n - 1) : i \in 1..(n - 1 - 1 + 1) /\ 1 + i - 1 = i
  BY <1>4, <1>5
<1>7. \A i \in 1..(n - 1) : q[i] = s[i]
  BY <1>4, <1>6
<1>. QED BY <1>1, <1>2, <1>4, <1>6, <1>7 DEF n, q

\* Replacing the top.
LEMMA ReplaceTop ==
    ASSUME NEW S, NEW s \in Seq(S), s # <<>>, NEW c \in S
    PROVE  /\ Append(Front(s), c) \in Seq(S) /\ Len(Append(Front(s), c)) = Len(s)
           /\ Append(Front(s), c)[Len(s)] = c
           /\ \A i \in 1..(Len(s) - 1) : Append(Front(s), c)[i] = s[i]
<1>1. /\ Len(s) \in Nat \ {0} /\ Front(s) \in Seq(S) /\ Len(Front(s)) = Len(s) - 1
      /\ \A i \in 1..(Len(s) - 1) : Front(s)[i] = s[i]
  BY TopOfStack
<1>. QED BY <1>1, AppendProperties

\* What StackInv says does not depend on anything but the places in the chain.
LEMMA SamePlaces ==
    ASSUME NEW s, NEW t, Len(s) \in Nat, Len(t) \in 0..Len(s), StackInv(s),
           \A i \in 1..Len(t) : /\ t[i].server = s[i].server /\ t[i].client = s[i].client
                                /\ t[i].relay_path = s[i].relay_path
                                /\ t[i].relay_hops_remaining = s[i].relay_hops_remaining
    PROVE  StackInv(t)
<1>1. ASSUME NEW i \in 1..Len(t)
      PROVE  /\ Len(t[i].relay_path) = i - 1
             /\ \A j \in 1..(i - 1) : t[i].relay_path[j] = t[j].server /\ t[j].server # t[i].server
             /\ i + t[i].relay_hops_remaining <= MaxHops + 1
  <2>1. i \in 1..Len(s) /\ \A j \in 1..(i - 1) : j \in 1..Len(t)
    OBVIOUS
  <2>2. /\ Len(s[i].relay_path) = i - 1
        /\ \A j \in 1..(i - 1) : s[i].relay_path[j] = s[j].server /\ s[j].server # s[i].server
        /\ i + s[i].relay_hops_remaining <= MaxHops + 1
    BY <2>1 DEF StackInv
  <2>. QED BY <2>1, <2>2
<1>2. ASSUME NEW i \in 2..Len(t) PROVE t[i].client = t[i - 1].server
  <2>1. i \in 2..Len(s) /\ i \in 1..Len(t) /\ i - 1 \in 1..Len(t)
    OBVIOUS
  <2>2. s[i].client = s[i - 1].server
    BY <2>1 DEF StackInv
  <2>. QED BY <2>1, <2>2
<1>. QED BY <1>1, <1>2 DEF StackInv

\* The stack without its top.
LEMMA PopKeeps ==
    ASSUME NEW s \in Seq(ARequest), s # <<>>, StackInv(s)
    PROVE  StackInv(Front(s))
<1>1. /\ Len(s) \in Nat \ {0} /\ Len(Front(s)) = Len(s) - 1
      /\ \A i \in 1..(Len(s) - 1) : Front(s)[i] = s[i]
  BY TopOfStack
<1>. DEFINE t == Front(s)
<1>2. Len(s) \in Nat /\ Len(t) \in 0..Len(s)
  BY <1>1
<1>3. \A i \in 1..Len(t) : t[i] = s[i]
  BY <1>1
<1>. HIDE DEF t
<1>4. \A i \in 1..Len(t) : /\ t[i].server = s[i].server /\ t[i].client = s[i].client
                           /\ t[i].relay_path = s[i].relay_path
                           /\ t[i].relay_hops_remaining = s[i].relay_hops_remaining
  BY <1>3
<1>5. StackInv(t)
  BY <1>2, <1>4, SamePlaces
<1>. QED BY <1>5 DEF t

\* The top may change in everything but its place in the chain.
LEMMA FrameKeeps ==
    ASSUME NEW s \in Seq(ARequest), s # <<>>, StackInv(s), NEW c \in ARequest,
           c.server = Last(s).server, c.client = Last(s).client,
           c.relay_path = Last(s).relay_path,
           c.relay_hops_remaining = Last(s).relay_hops_remaining
    PROVE  StackInv(Append(Front(s), c))
<1>. DEFINE t == Append(Front(s), c)
            top == Last(s)
<1>1. Len(s) \in Nat \ {0} /\ top = s[Len(s)]
  BY TopOfStack
<1>2. Len(t) = Len(s) /\ t[Len(s)] = c /\ \A i \in 1..(Len(s) - 1) : t[i] = s[i]
  BY ReplaceTop
<1>3. /\ c.server = top.server /\ c.client = top.client
      /\ c.relay_path = top.relay_path
      /\ c.relay_hops_remaining = top.relay_hops_remaining
  OBVIOUS
<1>. HIDE DEF t, top
<1>4. \A i \in 1..Len(t) : /\ t[i].server = s[i].server /\ t[i].client = s[i].client
                           /\ t[i].relay_path = s[i].relay_path
                           /\ t[i].relay_hops_remaining = s[i].relay_hops_remaining
  <2>. SUFFICES ASSUME NEW i \in 1..Len(t)
                PROVE  /\ t[i].server = s[i].server /\ t[i].client = s[i].client
                       /\ t[i].relay_path = s[i].relay_path
                       /\ t[i].relay_hops_remaining = s[i].relay_hops_remaining
    OBVIOUS
  <2>1. CASE i = Len(s)
    BY <1>1, <1>2, <1>3, <2>1
  <2>2. CASE i \in 1..(Len(s) - 1)
    BY <1>2, <2>2
  <2>. QED BY <1>1, <1>2, <2>1, <2>2
<1>5. Len(s) \in Nat /\ Len(t) \in 0..Len(s)
  BY <1>1, <1>2
<1>6. StackInv(t)
  BY <1>4, <1>5, SamePlaces
<1>. QED BY <1>6 DEF t

\* A relaying server's own request on top of the one it serves.
LEMMA PushKeeps ==
    ASSUME TransferConstants, NEW s \in Seq(ARequest), s # <<>>, StackInv(s), NEW c \in ARequest,
           c.client = Last(s).server,
           c.relay_path = Append(Last(s).relay_path, Last(s).server),
           c.server \notin ToSet(Last(s).relay_path) \union {Last(s).server},
           Last(s).relay_hops_remaining # 0,
           c.relay_hops_remaining = Last(s).relay_hops_remaining - 1
    PROVE  StackInv(Append(s, c))
<1>. DEFINE n == Len(s)
            top == Last(s)
            t == Append(s, c)
<1>1. n \in Nat \ {0} /\ top = s[n] /\ top \in ARequest
  BY TopOfStack
<1>2. Len(t) = n + 1 /\ t[n + 1] = c /\ \A i \in 1..n : t[i] = s[i]
  BY AppendProperties
<1>3. /\ top.relay_path \in Seq(Peer) /\ top.server \in Peer /\ top.relay_hops_remaining \in Nat
  BY <1>1 DEF ARequest
<1>4. Len(top.relay_path) = n - 1 /\ \A j \in 1..(n - 1) : top.relay_path[j] = s[j].server
  BY <1>1 DEF StackInv
<1>5. /\ Len(c.relay_path) = n /\ c.relay_path[n] = top.server
      /\ \A j \in 1..(n - 1) : c.relay_path[j] = top.relay_path[j]
  <2>1. /\ Len(c.relay_path) = Len(top.relay_path) + 1
        /\ c.relay_path[Len(top.relay_path) + 1] = top.server
        /\ \A j \in 1..Len(top.relay_path) : c.relay_path[j] = top.relay_path[j]
    BY <1>3, AppendProperties
  <2>. QED BY <1>1, <1>4, <2>1
<1>6. \A j \in 1..(n - 1) : top.relay_path[j] \in ToSet(top.relay_path)
  <2>1. DOMAIN top.relay_path = 1..(n - 1)
    BY <1>3, <1>4, LenProperties
  <2>. QED BY <2>1 DEF ToSet
<1>7. \A j \in 1..n : c.relay_path[j] = s[j].server /\ s[j].server # c.server
  BY <1>1, <1>4, <1>5, <1>6
<1>8. c.relay_hops_remaining + n + 1 <= MaxHops + 1
  <2>1. n + top.relay_hops_remaining <= MaxHops + 1
    BY <1>1 DEF StackInv
  <2>2. c.relay_hops_remaining = top.relay_hops_remaining - 1
    OBVIOUS
  <2>. HIDE DEF n, top
  <2>. QED BY <1>1, <1>3, <2>1, <2>2 DEF TransferConstants
<1>9. c.relay_hops_remaining \in Nat
  BY DEF ARequest
<1>10. c.client = s[n].server
  BY <1>1
<1>. HIDE DEF n, top, t
<1>11. \A i \in 1..Len(t) :
          /\ Len(t[i].relay_path) = i - 1
          /\ \A j \in 1..(i - 1) : t[i].relay_path[j] = t[j].server /\ t[j].server # t[i].server
          /\ i + t[i].relay_hops_remaining <= MaxHops + 1
  <2>1. CASE n = Len(s)
    <3>. SUFFICES ASSUME NEW i \in 1..(n + 1)
                  PROVE  /\ Len(t[i].relay_path) = i - 1
                         /\ \A j \in 1..(i - 1) : t[i].relay_path[j] = t[j].server
                                                  /\ t[j].server # t[i].server
                         /\ i + t[i].relay_hops_remaining <= MaxHops + 1
      BY <1>2
    <3>1. CASE i \in 1..n
      <4>1. t[i] = s[i] /\ \A j \in 1..(i - 1) : t[j] = s[j]
        BY <1>1, <1>2, <3>1
      <4>. QED BY <2>1, <3>1, <4>1 DEF StackInv
    <3>2. CASE i = n + 1
      <4>1. t[i] = c /\ i - 1 = n /\ \A j \in 1..(i - 1) : t[j] = s[j]
        BY <1>1, <1>2, <3>2
      <4>2. i + c.relay_hops_remaining <= MaxHops + 1
        BY <1>1, <1>8, <1>9, <3>2 DEF TransferConstants
      <4>. QED BY <1>5, <1>7, <4>1, <4>2, ZenonT(30)
    <3>. QED BY <1>1, <3>1, <3>2
  <2>. QED BY <2>1 DEF n
<1>12. \A i \in 2..Len(t) : t[i].client = t[i - 1].server
  <2>1. \A i \in 2..n : s[i].client = s[i - 1].server
    BY DEF StackInv, n
  <2>. SUFFICES ASSUME NEW i \in 2..(n + 1) PROVE t[i].client = t[i - 1].server
    BY <1>2
  <2>2. CASE i \in 2..n
    <3>1. t[i] = s[i] /\ t[i - 1] = s[i - 1]
      BY <1>1, <1>2, <2>2
    <3>. QED BY <2>1, <2>2, <3>1
  <2>3. CASE i = n + 1
    <3>1. t[i] = c /\ t[i - 1] = s[n]
      BY <1>1, <1>2, <2>3
    <3>. QED BY <1>10, <3>1
  <2>. QED BY <1>1, <2>2, <2>3
<1>. QED BY <1>11, <1>12 DEF StackInv, t

-----------------------------------------------------------------------------
\* The same for the whole of what is said of a stack.
LEMMA PopSound ==
    ASSUME NEW rs, NEW s, s # <<>>, Sound(s, rs)
    PROVE  Sound(Front(s), rs)
<1>. DEFINE t == Front(s)
<1>1. /\ Len(s) \in Nat \ {0} /\ t \in Seq(ARequest) /\ Len(t) = Len(s) - 1
      /\ \A i \in 1..(Len(s) - 1) : t[i] = s[i]
  BY TopOfStack DEF Sound
<1>2. StackInv(t)
  BY PopKeeps DEF Sound
<1>. HIDE DEF t
<1>3. \A i \in 1..Len(t) : RequestInv(t[i], rs)
  BY <1>1 DEF Sound
<1>4. Sound(t, rs)
  BY <1>1, <1>2, <1>3 DEF Sound
<1>. QED BY <1>4 DEF t

LEMMA SetTopSound ==
    ASSUME NEW rs, NEW s, s # <<>>, Sound(s, rs), NEW c, RequestInv(c, rs),
           c.server = Last(s).server, c.client = Last(s).client,
           c.relay_path = Last(s).relay_path,
           c.relay_hops_remaining = Last(s).relay_hops_remaining
    PROVE  Sound(Append(Front(s), c), rs)
<1>. DEFINE t == Append(Front(s), c)
<1>1. c \in ARequest /\ s \in Seq(ARequest)
  BY DEF RequestInv, Sound
<1>2. StackInv(t)
  BY <1>1, FrameKeeps DEF Sound
<1>3. /\ Len(s) \in Nat \ {0}
  BY <1>1, TopOfStack
<1>4. /\ t \in Seq(ARequest) /\ Len(t) = Len(s) /\ t[Len(s)] = c
      /\ \A i \in 1..(Len(s) - 1) : t[i] = s[i]
  BY <1>1, ReplaceTop
<1>. HIDE DEF t
<1>5. \A i \in 1..Len(t) : RequestInv(t[i], rs)
  BY <1>3, <1>4 DEF Sound
<1>6. Sound(t, rs)
  BY <1>2, <1>4, <1>5 DEF Sound
<1>. QED BY <1>6 DEF t

LEMMA PushSound ==
    ASSUME TransferConstants, NEW rs, NEW s, s # <<>>, Sound(s, rs), NEW c, RequestInv(c, rs),
           c.client = Last(s).server,
           c.relay_path = Append(Last(s).relay_path, Last(s).server),
           c.server \notin ToSet(Last(s).relay_path) \union {Last(s).server},
           Last(s).relay_hops_remaining # 0,
           c.relay_hops_remaining = Last(s).relay_hops_remaining - 1
    PROVE  Sound(Append(s, c), rs)
<1>. DEFINE t == Append(s, c)
<1>1. c \in ARequest /\ s \in Seq(ARequest)
  BY DEF RequestInv, Sound
<1>2. StackInv(t)
  BY <1>1, PushKeeps DEF Sound
<1>3. /\ Len(s) \in Nat /\ t \in Seq(ARequest) /\ Len(t) = Len(s) + 1 /\ t[Len(s) + 1] = c
      /\ \A i \in 1..Len(s) : t[i] = s[i]
  BY <1>1, AppendProperties, LenProperties
<1>. HIDE DEF t
<1>4. \A i \in 1..Len(t) : RequestInv(t[i], rs)
  BY <1>3 DEF Sound
<1>5. Sound(t, rs)
  BY <1>2, <1>3, <1>4 DEF Sound
<1>. QED BY <1>5 DEF t

\* Records are only added, so what they back stays backed.
LEMMA GrowSound ==
    ASSUME NEW rs, NEW more, NEW s, Sound(s, rs)
    PROVE  Sound(s, rs \union more)
BY DEF Sound, RequestInv, ServerHas, Backed

\* A stack of more than one request has a caller below its top.
LEMMA OneOnly ==
    ASSUME NEW S, NEW s \in Seq(S), s # <<>>, s # <<Last(s)>>
    PROVE  Front(s) # <<>> /\ Last(Front(s)) = s[Len(s) - 1]
<1>1. /\ Len(s) \in Nat \ {0} /\ Last(s) = s[Len(s)] /\ Last(s) \in S
      /\ Front(s) \in Seq(S) /\ Len(Front(s)) = Len(s) - 1
      /\ \A i \in 1..(Len(s) - 1) : Front(s)[i] = s[i]
  BY TopOfStack
<1>2. ASSUME Len(s) = 1 PROVE FALSE
  <2>1. s = <<s[1]>>
    BY <1>2
  <2>. QED BY <1>1, <1>2, <2>1
<1>. DEFINE t == Front(s)
<1>. HIDE DEF t
<1>3. t # <<>>
  <2>1. Len(t) # 0
    BY <1>1, <1>2 DEF t
  <2>. QED BY <2>1
<1>4. Last(t) = t[Len(t)]
  BY <1>1, <1>3, TopOfStack DEF t
<1>. QED BY <1>1, <1>2, <1>3, <1>4 DEF t

LEMMA NoneSound ==
    ASSUME NEW rs
    PROVE  Sound(<<>>, rs)
BY DEF Sound, StackInv

LEMMA TopSound ==
    ASSUME NEW rs, NEW s, s # <<>>, Sound(s, rs)
    PROVE  RequestInv(Last(s), rs)
<1>1. s \in Seq(ARequest)
  BY DEF Sound
<1>2. Len(s) \in Nat \ {0} /\ Last(s) = s[Len(s)]
  BY <1>1, TopOfStack
<1>. QED BY <1>2 DEF Sound

LEMMA FailedSound ==
    ASSUME TransferInv, calls # <<>>
    PROVE  Sound(Failed(Top), records)
BY NoneSound, PopSound DEF TransferInv, Failed

-----------------------------------------------------------------------------
\* A fetch starts with one request of its own.
LEMMA StartKeeps ==
    ASSUME TransferConstants, TransferInv, NEW server \in Peer, NEW max_hops \in 0..MaxHops,
           peer_fetch(server, max_hops)
    PROVE  TransferInv'
<1>. DEFINE c == Request(Client, server, max_hops, <<>>)
            s == <<c>>
<1>1. c \in ARequest
  BY DEF Request, ARequest, TransferConstants, TransferInv
<1>2. /\ c.state = "local" /\ c.via = {} /\ c.relay_path = <<>> /\ c.relay_hops_remaining = max_hops
  BY DEF Request
<1>3. /\ calls' = s /\ records' = records /\ nonces' = nonces + 1
  BY DEF peer_fetch
<1>. HIDE DEF c
<1>4. s \in Seq(ARequest) /\ Len(s) = 1 /\ s[1] = c
  BY <1>1
<1>. HIDE DEF s
<1>5. StackInv(s)
  <2>1. Len(c.relay_path) = 0 /\ 1 + c.relay_hops_remaining <= MaxHops + 1
    BY <1>2 DEF TransferConstants
  <2>. QED BY <1>4, <2>1 DEF StackInv
<1>6. RequestInv(c, records)
  BY <1>1, <1>2 DEF RequestInv, Backed
<1>7. Sound(s, records)
  BY <1>4, <1>5, <1>6 DEF Sound
<1>. QED BY <1>3, <1>7 DEF TransferInv

\* A step that leaves the records alone and the stack sound.
LEMMA StackKeeps ==
    ASSUME TransferInv, records' = records, nonces' \in Nat, Sound(calls', records)
    PROVE  TransferInv'
BY DEF TransferInv

LEMMA LocalKeeps ==
    ASSUME TransferInv, FetchLocally
    PROVE  TransferInv'
<1>. DEFINE c(x) == [Top EXCEPT !.state = x]
<1>1. calls # <<>> /\ records' = records /\ nonces' = nonces
      /\ \E x \in {"content", "relay"} : calls' = Append(Front(calls), c(x))
  BY DEF FetchLocally, SetTop
<1>2. PICK x \in {"content", "relay"} : calls' = Append(Front(calls), c(x))
  BY <1>1
<1>3. RequestInv(Top, records)
  BY <1>1, TopSound DEF TransferInv, Top
<1>4. /\ RequestInv(c(x), records) /\ c(x).server = Top.server /\ c(x).client = Top.client
      /\ c(x).relay_path = Top.relay_path /\ c(x).relay_hops_remaining = Top.relay_hops_remaining
  BY <1>3 DEF RequestInv, ARequest, Backed
<1>. HIDE DEF c
<1>5. Sound(calls', records)
  BY <1>1, <1>2, <1>4, SetTopSound DEF TransferInv, Top
<1>. QED BY <1>1, <1>5, StackKeeps DEF TransferInv

LEMMA RefusedKeeps ==
    ASSUME TransferInv, Refused
    PROVE  TransferInv'
<1>1. calls # <<>> /\ records' = records /\ nonces' = nonces /\ calls' = Failed(Top)
  BY DEF Refused
<1>. QED BY <1>1, FailedSound, StackKeeps DEF TransferInv

\* The next relay peer is skipped, asked, or there is none.
LEMMA RelayKeeps ==
    ASSUME TransferConstants, TransferInv, relay_fetch
    PROVE  TransferInv'
<1>. DEFINE i == Top.tried + 1
            relays == relay_peers[Top.server]
            c == [Top EXCEPT !.tried = i]
            s == Append(Front(calls), c)
            d == NextHop(relays[i])
<1>1. calls # <<>> /\ records' = records /\ nonces \in Nat
  BY DEF relay_fetch, TransferInv
<1>2. RequestInv(Top, records) /\ Top \in ARequest
  BY <1>1, TopSound DEF TransferInv, Top, RequestInv
<1>3. /\ RequestInv(c, records) /\ c.server = Top.server /\ c.client = Top.client
      /\ c.relay_path = Top.relay_path /\ c.relay_hops_remaining = Top.relay_hops_remaining
  BY <1>2 DEF RequestInv, ARequest, Backed, ServerHas
<1>4. Sound(s, records)
  <2>. HIDE DEF c
  <2>. QED BY <1>1, <1>3, SetTopSound DEF TransferInv, Top
<1>5. CASE calls' = Failed(Top) /\ UNCHANGED nonces
  BY <1>1, <1>5, FailedSound, StackKeeps
<1>6. CASE calls' = s /\ UNCHANGED nonces
  BY <1>1, <1>4, <1>6, StackKeeps
<1>7. CASE /\ Top.relay_hops_remaining # 0 /\ ~(i > Len(relays))
           /\ relays[i] \notin ToSet(Top.relay_path) \union {Top.server}
           /\ calls' = Append(s, d) /\ nonces' = nonces + 1
  <2>1. relays[i] \in Peer
    <3>1. relays \in Seq(Peer) /\ i \in Nat \ {0}
      BY <1>2 DEF TransferConstants, ARequest
    <3>2. i \in 1..Len(relays)
      BY <1>7, <3>1, LenProperties
    <3>. HIDE DEF relays, i
    <3>. QED BY <3>1, <3>2, ElementOfSeq
  <2>2. Append(Top.relay_path, Top.server) \in Seq(Peer)
    BY <1>2, AppendProperties DEF ARequest
  <2>3. /\ d \in ARequest /\ d.state = "local" /\ d.via = {} /\ d.client = Top.server
        /\ d.relay_path = Append(Top.relay_path, Top.server) /\ d.server = relays[i]
        /\ d.relay_hops_remaining = Top.relay_hops_remaining - 1
    <3>. DEFINE p == Append(Top.relay_path, Top.server)
                r == relays[i]
                h == Top.relay_hops_remaining - 1
    <3>1. p \in Seq(Peer) /\ r \in Peer /\ Top.server \in Peer /\ h \in Nat /\ nonces + 1 \in Nat
      BY <1>1, <1>2, <1>7, <2>1, <2>2 DEF ARequest
    <3>2. d = [client |-> Top.server, server |-> r, relay_hops_remaining |-> h, relay_path |-> p,
               nonce |-> nonces + 1, state |-> "local", tried |-> 0, via |-> {}]
      BY DEF NextHop, Request
    <3>. HIDE DEF p, r, h, d
    <3>3. /\ d \in ARequest /\ d.state = "local" /\ d.via = {} /\ d.client = Top.server
          /\ d.relay_path = p /\ d.server = r /\ d.relay_hops_remaining = h
      BY <3>1, <3>2 DEF ARequest
    <3>. QED BY <3>3 DEF p, r, h
  <2>4. s # <<>> /\ Last(s) = c
    <3>1. calls \in Seq(ARequest) /\ c \in ARequest
      BY <1>3 DEF TransferInv, Sound, RequestInv
    <3>. HIDE DEF c
    <3>2. Len(calls) \in Nat \ {0}
      BY <1>1, <3>1, TopOfStack
    <3>3. s \in Seq(ARequest) /\ Len(s) = Len(calls) /\ s[Len(calls)] = c
      BY <1>1, <3>1, ReplaceTop
    <3>. HIDE DEF s
    <3>4. s # <<>>
      BY <3>2, <3>3
    <3>. QED BY <3>3, <3>4, TopOfStack
  <2>5. RequestInv(d, records)
    <3>. HIDE DEF d
    <3>. QED BY <2>3 DEF RequestInv, Backed
  <2>6. /\ d.client = Last(s).server /\ d.relay_path = Append(Last(s).relay_path, Last(s).server)
        /\ d.server \notin ToSet(Last(s).relay_path) \union {Last(s).server}
        /\ Last(s).relay_hops_remaining # 0
        /\ d.relay_hops_remaining = Last(s).relay_hops_remaining - 1
    <3>. HIDE DEF d, c, s, relays, i
    <3>. QED BY <1>3, <1>7, <2>3, <2>4
  <2>. HIDE DEF d, c, s
  <2>7. Sound(Append(s, d), records)
    BY <1>4, <2>4, <2>5, <2>6, PushSound
  <2>. QED BY <1>1, <1>7, <2>7, StackKeeps
<1>. QED
  <2>. HIDE DEF d
  <2>. QED BY <1>5, <1>6, <1>7 DEF relay_fetch, SetTop, d

\* A record added on either side keeps the records matched.
LEMMA RecordAdded ==
    ASSUME NEW rs, Mutual(rs), Relayed(rs), NEW r,
           r.role = "client" => ServerHas(r, rs),
           r.role = "server" => Backed(r.server, r.relayed_via, rs)
    PROVE  Mutual(rs \union {r}) /\ Relayed(rs \union {r})
BY DEF Mutual, Relayed, ServerHas, Backed

LEMMA ServeKeeps ==
    ASSUME TransferInv, Serve
    PROVE  TransferInv'
<1>. DEFINE r == record_transfer(Top, "server")
            c == [Top EXCEPT !.state = "receipt"]
            rs == records \union {r}
<1>1. calls # <<>> /\ nonces' = nonces
  BY DEF Serve
<1>2. RequestInv(Top, records) /\ Top \in ARequest
  BY <1>1, TopSound DEF TransferInv, Top, RequestInv
<1>3. CASE calls' = Failed(Top) /\ records' = records
  BY <1>1, <1>3, FailedSound, StackKeeps DEF TransferInv
<1>4. CASE records' = rs /\ calls' = Append(Front(calls), c)
  <2>1. /\ r \in ARecord /\ r.role = "server" /\ r.nonce = Top.nonce /\ r.relayed_via = Top.via
        /\ r.server = Top.server /\ r.client = Top.client
    BY <1>2 DEF record_transfer, ARecord, ARequest
  <2>2. /\ c \in ARequest /\ c.server = Top.server /\ c.client = Top.client
        /\ c.relay_path = Top.relay_path /\ c.relay_hops_remaining = Top.relay_hops_remaining
        /\ c.nonce = Top.nonce /\ c.via = Top.via
    BY <1>2 DEF ARequest
  <2>. HIDE DEF r, c
  <2>3. Mutual(rs) /\ Relayed(rs)
    BY <1>2, <2>1, RecordAdded DEF TransferInv, RequestInv
  <2>4. RequestInv(c, rs)
    <3>1. ServerHas(c, rs)
      BY <2>1, <2>2 DEF ServerHas
    <3>2. Backed(c.server, c.via, rs)
      BY <1>2, <2>2 DEF RequestInv, Backed
    <3>. QED BY <2>2, <3>1, <3>2 DEF RequestInv
  <2>5. Sound(calls, rs)
    BY GrowSound DEF TransferInv
  <2>. HIDE DEF rs
  <2>6. Sound(Append(Front(calls), c), rs)
    BY <1>1, <2>2, <2>4, <2>5, SetTopSound DEF Top
  <2>7. rs \subseteq ARecord
    BY <2>1 DEF TransferInv, rs
  <2>. QED BY <1>1, <1>4, <2>3, <2>6, <2>7 DEF TransferInv
<1>. QED BY <1>3, <1>4 DEF Serve, SetTop

\* The client's record is written and its caller has the content.
LEMMA VerifyKeeps ==
    ASSUME TransferInv, fetch_and_verify
    PROVE  TransferInv'
<1>. DEFINE r == record_transfer(Top, "client")
            rs == records \union {r}
            below == Front(calls)
            caller == calls[Len(calls) - 1]
            c == [caller EXCEPT !.state = "content", !.via = {Top.server}]
<1>1. calls # <<>> /\ nonces' = nonces /\ Top.state = "receipt"
  BY DEF fetch_and_verify
<1>2. RequestInv(Top, records) /\ Top \in ARequest
  BY <1>1, TopSound DEF TransferInv, Top, RequestInv
<1>3. CASE calls' = Failed(Top) /\ records' = records
  BY <1>1, <1>3, FailedSound, StackKeeps DEF TransferInv
<1>4. CASE records' = rs /\ calls' = Received(Top)
  <2>1. /\ r \in ARecord /\ r.role = "client" /\ r.nonce = Top.nonce
        /\ r.server = Top.server /\ r.client = Top.client
    BY <1>2 DEF record_transfer, ARecord, ARequest
  <2>. HIDE DEF r
  <2>2. ServerHas(r, records)
    BY <1>1, <1>2, <2>1 DEF RequestInv, ServerHas
  <2>3. Mutual(rs) /\ Relayed(rs) /\ rs \subseteq ARecord
    BY <2>1, <2>2, RecordAdded DEF TransferInv
  <2>4. Sound(calls, rs)
    BY GrowSound DEF TransferInv
  <2>5. Backed(Top.client, {Top.server}, rs)
    BY <2>1 DEF Backed
  <2>. HIDE DEF rs
  <2>6. CASE calls = <<Top>>
    BY <1>1, <1>4, <2>3, <2>6, NoneSound DEF TransferInv, Received
  <2>7. CASE calls # <<Top>>
    <3>1. below # <<>> /\ caller = Last(below)
      BY <1>1, <2>4, <2>7, OneOnly DEF Sound, Top
    <3>2. Sound(below, rs)
      BY <1>1, <2>4, PopSound
    <3>3. caller.server = Top.client
      <4>1. calls \in Seq(ARequest) /\ StackInv(calls)
        BY <2>4 DEF Sound
      <4>2. Len(calls) \in Nat \ {0} /\ Len(below) = Len(calls) - 1 /\ Top = calls[Len(calls)]
            /\ below \in Seq(ARequest)
        BY <1>1, <4>1, TopOfStack DEF Top
      <4>3. Len(below) # 0
        <5>. HIDE DEF below
        <5>. QED BY <3>1, <4>2, EmptySeq
      <4>4. Len(calls) \in 2..Len(calls)
        <5>. HIDE DEF below
        <5>. QED BY <4>2, <4>3
      <4>. QED BY <4>1, <4>2, <4>4 DEF StackInv
    <3>. HIDE DEF caller
    <3>4. RequestInv(caller, rs) /\ caller \in ARequest
      BY <3>1, <3>2, TopSound DEF RequestInv
    <3>5. /\ c \in ARequest /\ c.server = caller.server /\ c.client = caller.client
          /\ c.relay_path = caller.relay_path
          /\ c.relay_hops_remaining = caller.relay_hops_remaining
          /\ c.state = "content" /\ c.via = {Top.server}
      BY <1>2, <3>4 DEF ARequest
    <3>6. calls' = Append(Front(below), c)
      BY <1>4, <2>7 DEF Received, caller
    <3>. HIDE DEF c, below
    <3>7. RequestInv(c, rs)
      BY <2>5, <3>3, <3>5 DEF RequestInv
    <3>8. Sound(Append(Front(below), c), rs)
      BY <3>1, <3>2, <3>5, <3>7, SetTopSound
    <3>. QED BY <1>1, <1>4, <2>3, <3>6, <3>8 DEF TransferInv
  <2>. QED BY <2>6, <2>7
<1>. QED BY <1>3, <1>4 DEF fetch_and_verify

-----------------------------------------------------------------------------
LEMMA TransferInvariant ==
    ASSUME TransferConstants
    PROVE  TransferSpec => []TransferInv
<1>1. TransferInit => TransferInv
  BY NoneSound DEF TransferInit, TransferInv, Mutual, Relayed
<1>2. TransferInv /\ [TransferNext]_transferVars => TransferInv'
  <2>. SUFFICES ASSUME TransferInv, [TransferNext]_transferVars PROVE TransferInv'
    OBVIOUS
  <2>1. CASE Progress
    BY <2>1, LocalKeeps, RefusedKeeps, RelayKeeps, ServeKeeps, VerifyKeeps DEF Progress
  <2>2. CASE \E server \in Peer \ {Client}, max_hops \in 0..MaxHops : peer_fetch(server, max_hops)
    BY <2>2, StartKeeps
  <2>3. CASE UNCHANGED transferVars
    BY <2>3 DEF transferVars, TransferInv
  <2>. QED BY <2>1, <2>2, <2>3 DEF TransferNext
<1>. QED BY <1>1, <1>2, PTL DEF TransferSpec

\* Whatever is lost or fails, a client's receipt has its counterpart in the
\* server's graph (record_transfer on both sides).
THEOREM ReceiptsMatch ==
    ASSUME TransferConstants
    PROVE  TransferSpec => []ReceiptsAreMutual
<1>1. TransferInv => ReceiptsAreMutual
  BY DEF TransferInv, Mutual, ServerHas, ReceiptsAreMutual
<1>. QED BY <1>1, TransferInvariant, PTL

\* A server that relayed the content has recorded where it came from
\* (relayed_via).
THEOREM RelaysAccountFor ==
    ASSUME TransferConstants
    PROVE  TransferSpec => []RelaysAreBacked
<1>1. TransferInv => RelaysAreBacked
  BY DEF TransferInv, Relayed, Backed, RelaysAreBacked
<1>. QED BY <1>1, TransferInvariant, PTL

\* No request is served twice by the same peer within one fetch, nor deeper
\* than its hop budget, however relay peers are wired (relay_fetch).
THEOREM RequestsNeverCircle ==
    ASSUME TransferConstants
    PROVE  TransferSpec => []NeverCircles
<1>1. TransferInv => NeverCircles
  <2>. SUFFICES ASSUME TransferInv PROVE NeverCircles
    OBVIOUS
  <2>1. calls \in Seq(ARequest) /\ StackInv(calls)
    BY DEF TransferInv, Sound
  <2>2. DOMAIN calls = 1..Len(calls) /\ Len(calls) \in Nat
    BY <2>1, LenProperties
  <2>3. ASSUME NEW i \in DOMAIN calls, NEW j \in DOMAIN calls, calls[i].server = calls[j].server
        PROVE  i = j
    <3>1. ASSUME NEW k \in 1..Len(calls), NEW l \in 1..(k - 1)
          PROVE  calls[l].server # calls[k].server
      BY <2>1 DEF StackInv
    <3>2. i \in 1..(j - 1) \/ j \in 1..(i - 1) \/ i = j
      BY <2>2
    <3>. QED BY <2>2, <2>3, <3>1, <3>2
  <2>4. ASSUME calls # <<>> PROVE Len(calls) + Top.relay_hops_remaining <= MaxHops + 1
    <3>1. Len(calls) \in Nat \ {0} /\ Top = calls[Len(calls)]
      BY <2>1, <2>4, TopOfStack DEF Top
    <3>2. Len(calls) \in 1..Len(calls)
      BY <3>1
    <3>. QED BY <2>1, <3>1, <3>2 DEF StackInv
  <2>. QED BY <2>3, <2>4 DEF NeverCircles, IsInjective
<1>. QED BY <1>1, TransferInvariant, PTL

=============================================================================
