--------------------------- MODULE CliTunnelProofs ---------------------------
(***************************************************************************)
(* Proofs about CliTunnel, for any number of tunnels, streams, chunks and  *)
(* frames in flight.                                                       *)
(***************************************************************************)
EXTENDS CliTunnel, TLAPS

\* Stream s has an upload in pendingRequests.
Owned(s) == pending[s[2]] # NoEntry /\ pending[s[2]].ws = s[1]

\* The CLI has not seen stream i of the current tunnel.
NotYet(i) ==
  \/ gw[i].phase = "unused"
  \/ \E p \in 1 .. Len(wire) : wire[p].id = i /\ wire[p].type = "headers"

\* A stream nobody has heard of has left no trace, whatever its ID did on earlier tunnels.
Fresh ==
  \A s \in Streams :
    s[1] > tun \/ (s[1] = tun /\ up /\ NotYet(s[2]))
      => sockets[s] = "none" /\ ran[s] = <<>> /\ ~Owned(s)

\* What is on the wire is what the gateway has sent of each stream, in order.
InFlight ==
  /\ up => tun \in Tuns
  /\ \A i \in Ids : gw[i].phase = "unused" => gw[i].sent = 0
  /\ \A p \in 1 .. Len(wire) :
       /\ up
       /\ gw[wire[p].id].phase # "unused" /\ wire[p].kind = gw[wire[p].id].kind
       /\ wire[p].n <= gw[wire[p].id].sent
       /\ wire[p].type = "data" => wire[p].n >= 1
       /\ wire[p].type = "end" =>
            wire[p].n = gw[wire[p].id].sent /\ gw[wire[p].id].phase = "ended"
  /\ \A p, q \in 1 .. Len(wire) :
       p < q /\ wire[p].id = wire[q].id =>
         /\ wire[q].type # "headers" /\ wire[p].type # "end"
         /\ wire[p].type = "data" /\ wire[q].type = "data" => wire[p].n < wire[q].n

Coming(i, c) == \E p \in 1 .. Len(wire) : wire[p].id = i /\ wire[p].type = "data" /\ wire[p].n = c

\* The chunks 1 .. n of stream s.
Body(s, n) == [c \in 1 .. n |-> [stream |-> s, n |-> c]]

\* An upload of this tunnel holds the first chunks of its body, the others are on the wire.
Uploads ==
  \A i \in Ids :
    /\ up /\ gw[i].kind = "post" /\ NotYet(i) => \A c \in 1 .. gw[i].sent : Coming(i, c)
    /\ up /\ Owned(Here(i)) =>
         /\ gw[i].kind = "post"
         /\ pending[i].chunks = Body(Here(i), Len(pending[i].chunks))
         /\ Len(pending[i].chunks) <= gw[i].sent
         /\ \A c \in Len(pending[i].chunks) + 1 .. gw[i].sent : Coming(i, c)
         /\ \A p \in 1 .. Len(wire) :
              wire[p].id = i /\ wire[p].type = "data" => wire[p].n > Len(pending[i].chunks)

\* Only upgraded streams have sockets.
UpgradesOnly == \A i \in Ids : up /\ sockets[Here(i)] # "none" => gw[i].kind = "ws"

\* What waits in pendingRequests has not been run.
WaitsOnce == \A s \in Streams : Owned(s) => ran[s] = <<>>

StreamInv == InFlight /\ Fresh /\ Uploads /\ UpgradesOnly /\ WaitsOnce /\ RunOnce /\ OwnBodyComplete

-----------------------------------------------------------------------------
(* The wire: frames are added at its end and taken from its front. *)

\* A frame f of the gateway goes out, and stream i is now g.
Sends(i, f, g) ==
  /\ up /\ Len(wire) < MaxInFlight
  /\ wire' = Append(wire, f) /\ gw' = [gw EXCEPT ![i] = g]
  /\ UNCHANGED <<tun, up, cli>>

LEMMA Appended ==
  ASSUME TypeOK, NEW f, wire' = Append(wire, f)
  PROVE  /\ Len(wire) \in Nat /\ Len(wire') = Len(wire) + 1
         /\ \A p \in 1 .. Len(wire) : wire'[p] = wire[p]
         /\ wire'[Len(wire) + 1] = f
BY DEF TypeOK

LEMMA Taken ==
  ASSUME TypeOK, wire # <<>>, wire' = Tail(wire)
  PROVE  /\ Len(wire) \in Nat \ {0} /\ Len(wire') = Len(wire) - 1
         /\ wire' \in Seq(Frame)
         /\ Head(wire) = wire[1] /\ wire[1] \in Frame
         /\ \A p \in 1 .. Len(wire') : wire'[p] = wire[p + 1]
BY DEF TypeOK

LEMMA WireType ==
  ASSUME TypeOK
  PROVE  /\ Len(wire) \in Nat
         /\ \A p \in 1 .. Len(wire) : wire[p] \in Frame
         /\ \A p \in 1 .. Len(wire) : wire[p].id \in Ids /\ wire[p].n \in Nat
<1>1. Len(wire) \in Nat /\ \A p \in 1 .. Len(wire) : wire[p] \in Frame
  BY DEF TypeOK
<1>2. \A f \in Frame : f.id \in Ids /\ f.n \in Nat
  BY BoundsAssumption DEF Frame
<1> QED
  BY <1>1, <1>2

\* What the gateway adds keeps the wire in order.
LEMMA SendInFlight ==
  ASSUME TypeOK, InFlight, NEW i \in Ids, NEW f, NEW g, Sends(i, f, g),
         f \in Frame, f.id = i, f.kind = g.kind, f.n <= g.sent, g.sent \in Nat,
         g.phase # "unused",
         gw[i].phase = "unused" \/ (g.kind = gw[i].kind /\ g.sent >= gw[i].sent),
         gw[i].phase # "ended",
         f.type = "headers" => gw[i].phase = "unused",
         f.type = "data" => f.n > gw[i].sent,
         f.type = "end" => f.n = g.sent /\ g.phase = "ended"
  PROVE  InFlight'
<1> DEFINE L == Len(wire)
<1>1. /\ L \in Nat /\ Len(wire') = L + 1 /\ wire'[L + 1] = f
      /\ \A p \in 1 .. L : wire'[p] = wire[p]
  BY Appended DEF Sends
<1>2. gw'[i] = g /\ \A j \in Ids : j # i => gw'[j] = gw[j]
  BY DEF Sends, TypeOK
<1>3. up' = up /\ tun' = tun /\ up
  BY DEF Sends
<1>4. \A p \in 1 .. L : wire[p].id \in Ids /\ wire[p].n \in Nat
  BY WireType
<1>5. \A p \in 1 .. L : wire[p].type # "end" \/ wire[p].id # i
  BY <1>4 DEF InFlight
<1>6. \A j \in Ids : gw[j].sent \in Nat
  BY DEF TypeOK
<1>7. ASSUME NEW p \in 1 .. L
      PROVE /\ gw'[wire[p].id].phase # "unused" /\ wire[p].kind = gw'[wire[p].id].kind
            /\ wire[p].n <= gw'[wire[p].id].sent
            /\ wire[p].type = "data" => wire[p].n >= 1
            /\ wire[p].type = "end" =>
                 wire[p].n = gw'[wire[p].id].sent /\ gw'[wire[p].id].phase = "ended"
  BY <1>1, <1>2, <1>4, <1>5, <1>6, <1>7 DEF InFlight
<1>8. /\ f.type = "data" => f.n >= 1
  BY <1>6 DEF Frame
<1>9. ASSUME NEW p \in 1 .. L + 1, NEW q \in 1 .. L + 1, p < q, wire'[p].id = wire'[q].id
      PROVE  /\ wire'[q].type # "headers" /\ wire'[p].type # "end"
             /\ wire'[p].type = "data" /\ wire'[q].type = "data" => wire'[p].n < wire'[q].n
  <2>1. CASE q \in 1 .. L
    BY <1>1, <1>9, <2>1 DEF InFlight
  <2>2. CASE q = L + 1
    <3>1. p \in 1 .. L /\ wire'[p] = wire[p] /\ wire'[q] = f /\ wire[p].id = i
      BY <1>1, <1>9, <2>2
    <3>2. gw[i].phase # "unused" /\ wire[p].n <= gw[i].sent
      BY <3>1 DEF InFlight
    <3> QED
      BY <3>1, <3>2, <1>4, <1>5, <1>6 DEF Frame
  <2> QED
    BY <1>1, <1>9, <2>1, <2>2
<1>10. \A j \in Ids : gw'[j].phase = "unused" => gw'[j].sent = 0
  BY <1>2 DEF InFlight
<1>11. \A p \in 1 .. Len(wire') :
       /\ up'
       /\ gw'[wire'[p].id].phase # "unused" /\ wire'[p].kind = gw'[wire'[p].id].kind
       /\ wire'[p].n <= gw'[wire'[p].id].sent
       /\ wire'[p].type = "data" => wire'[p].n >= 1
       /\ wire'[p].type = "end" =>
            wire'[p].n = gw'[wire'[p].id].sent /\ gw'[wire'[p].id].phase = "ended"
  <2> TAKE p \in 1 .. Len(wire')
  <2>1. CASE p = L + 1
    BY <2>1, <1>1, <1>2, <1>3, <1>8
  <2>2. CASE p \in 1 .. L
    BY <2>2, <1>1, <1>3, <1>7
  <2> QED
    BY <2>1, <2>2, <1>1
<1> QED
  BY <1>1, <1>3, <1>9, <1>10, <1>11 DEF InFlight

\* What the CLI takes leaves it in order.
LEMMA TakeInFlight ==
  ASSUME TypeOK, InFlight, wire # <<>>, wire' = Tail(wire), UNCHANGED <<tun, up, gw>>
  PROVE  InFlight'
<1>1. /\ Len(wire) \in Nat \ {0} /\ Len(wire') = Len(wire) - 1
      /\ \A p \in 1 .. Len(wire') : wire'[p] = wire[p + 1] /\ p + 1 \in 1 .. Len(wire)
  BY Taken
<1>2. \A p, q \in 1 .. Len(wire') : p < q => p + 1 < q + 1
  BY <1>1
<1> QED
  BY <1>1, <1>2 DEF InFlight

\* The frame the CLI takes is the only one that is not still to come; of its stream
\* only headers can be the first it sees, and nothing follows an END.
LEMMA TakenFrame ==
  ASSUME TypeOK, InFlight, wire # <<>>, wire' = Tail(wire), UNCHANGED <<tun, up, gw>>,
         NEW f, f = Head(wire)
  PROVE  /\ f \in Frame /\ up /\ tun \in Tuns
         /\ gw[f.id].phase # "unused" /\ f.kind = gw[f.id].kind
         /\ f.type = "data" => f.n >= 1 /\ f.n <= gw[f.id].sent
         /\ f.type = "end" => f.n = gw[f.id].sent
         /\ f.type = "headers" <=> NotYet(f.id)
         /\ ~NotYet(f.id)'
         /\ \A i \in Ids : NotYet(i)' => NotYet(i)
         /\ \A i \in Ids : \A c : Coming(i, c) =>
              Coming(i, c)' \/ (f.id = i /\ f.type = "data" /\ f.n = c)
         /\ \A c : f.type = "end" => ~Coming(f.id, c)
         /\ \A c \in Nat : f.type = "data" /\ Coming(f.id, c) => c >= f.n
         /\ \A p \in 1 .. Len(wire') :
              /\ \E q \in 1 .. Len(wire) : wire'[p] = wire[q]
              /\ wire'[p].n \in Nat
              /\ wire'[p].id = f.id /\ wire'[p].type = "data" =>
                   wire'[p].n >= 1 /\ (f.type = "data" => wire'[p].n > f.n)
<1> DEFINE L == Len(wire)
<1>1. /\ L \in Nat \ {0} /\ Len(wire') = L - 1 /\ f = wire[1] /\ f \in Frame
      /\ \A p \in 1 .. L - 1 : wire'[p] = wire[p + 1] /\ p + 1 \in 1 .. L /\ 1 < p + 1
      /\ \A q \in 1 .. L : q = 1 \/ (q - 1 \in 1 .. L - 1 /\ wire'[q - 1] = wire[q] /\ 1 < q)
  BY Taken
<1>2. 1 \in 1 .. L /\ f.id \in Ids /\ f.n \in Nat /\ \A p \in 1 .. L : wire[p].n \in Nat
  BY <1>1, WireType
<1>3. /\ up /\ tun \in Tuns /\ gw[f.id].phase # "unused" /\ f.kind = gw[f.id].kind
      /\ f.type = "data" => f.n >= 1 /\ f.n <= gw[f.id].sent
      /\ f.type = "end" => f.n = gw[f.id].sent
  BY <1>1, <1>2 DEF InFlight
<1>4. \A q \in 1 .. L : 1 < q /\ wire[q].id = f.id =>
        /\ wire[q].type # "headers" /\ f.type # "end"
        /\ f.type = "data" /\ wire[q].type = "data" => f.n < wire[q].n
  BY <1>1, <1>2 DEF InFlight
<1>5. /\ f.type = "headers" <=> NotYet(f.id)
      /\ ~NotYet(f.id)'
  <2>1. f.type = "headers" => NotYet(f.id)
    BY <1>1, <1>2 DEF NotYet
  <2>2. NotYet(f.id) => f.type = "headers"
    BY <1>1, <1>3, <1>4 DEF NotYet
  <2>3. ~NotYet(f.id)'
    BY <1>1, <1>3, <1>4 DEF NotYet
  <2> QED
    BY <2>1, <2>2, <2>3
<1>6. \A i \in Ids : NotYet(i)' => NotYet(i)
  BY <1>1 DEF NotYet
<1>7. \A i \in Ids : \A c : Coming(i, c) => Coming(i, c)' \/ (f.id = i /\ f.type = "data" /\ f.n = c)
  <2> SUFFICES ASSUME NEW i \in Ids, NEW c, NEW q \in 1 .. L,
                      wire[q].id = i, wire[q].type = "data", wire[q].n = c
               PROVE  Coming(i, c)' \/ (f.id = i /\ f.type = "data" /\ f.n = c)
    BY DEF Coming
  <2>1. CASE q = 1
    BY <2>1, <1>1
  <2>2. CASE q # 1
    BY <2>2, <1>1 DEF Coming
  <2> QED
    BY <2>1, <2>2
<1>8. \A c : f.type = "end" => ~Coming(f.id, c)
  BY <1>1, <1>4 DEF Coming
<1>9. \A c \in Nat : f.type = "data" /\ Coming(f.id, c) => c >= f.n
  BY <1>1, <1>2, <1>4 DEF Coming
<1>10. \A p \in 1 .. Len(wire') :
              /\ \E q \in 1 .. Len(wire) : wire'[p] = wire[q]
              /\ wire'[p].n \in Nat
              /\ wire'[p].id = f.id /\ wire'[p].type = "data" =>
                   wire'[p].n >= 1 /\ (f.type = "data" => wire'[p].n > f.n)
  BY <1>1, <1>2, <1>4 DEF InFlight
<1> QED
  BY <1>1, <1>3, <1>5, <1>6, <1>7, <1>8, <1>9, <1>10

-----------------------------------------------------------------------------
(* The steps of the gateway. *)

IInv == TypeOK /\ StreamInv

LEMMA StreamPair ==
  ASSUME NEW s \in Streams
  PROVE  s[1] \in Tuns /\ s[2] \in Ids /\ s = <<s[1], s[2]>>
BY DEF Streams

LEMMA SendStep ==
  ASSUME IInv, NEW i \in Ids, NEW f, NEW g, Sends(i, f, g),
         f \in Frame, f.id = i, f.kind = g.kind, g.sent \in 0 .. MaxChunks,
         g.kind \in Kinds, g.phase \in {"body", "wait", "relay", "ended"},
         g = [phase |-> g.phase, kind |-> g.kind, sent |-> g.sent],
         \/ /\ f.type = "headers" /\ gw[i].phase = "unused"
            /\ f.n = 0 /\ g.sent = 0
         \/ /\ f.type = "data" /\ gw[i].phase \notin {"unused", "ended"}
            /\ g.kind = gw[i].kind /\ f.n = gw[i].sent + 1 /\ g.sent = gw[i].sent + 1
         \/ /\ f.type = "end" /\ gw[i].phase \notin {"unused", "ended"} /\ g.phase = "ended"
            /\ g.kind = gw[i].kind /\ f.n = gw[i].sent /\ g.sent = gw[i].sent
  PROVE  IInv'
<1> DEFINE L == Len(wire)
<1>1. /\ L \in Nat /\ Len(wire') = L + 1 /\ wire'[L + 1] = f
      /\ \A p \in 1 .. L : wire'[p] = wire[p]
  BY Appended DEF Sends, IInv
<1>2. gw'[i] = g /\ \A j \in Ids : j # i => gw'[j] = gw[j]
  BY DEF Sends, TypeOK, IInv
<1>3. \A j \in Ids : gw[j].sent \in Nat /\ (gw[j].phase = "unused" => gw[j].sent = 0)
  BY BoundsAssumption DEF TypeOK, IInv, StreamInv, InFlight
<1>4. TypeOK'
  <2>1. gw' \in [Ids -> [phase : {"unused", "body", "wait", "relay", "ended"},
                     kind : Kinds, sent : 0 .. MaxChunks]]
    BY DEF Sends, TypeOK, IInv
  <2>2. wire' \in Seq(Frame) /\ Len(wire') <= MaxInFlight
    BY <1>1, BoundsAssumption DEF Sends, TypeOK, IInv
  <2> QED
    BY <2>1, <2>2 DEF Sends, TypeOK, IInv, cli
<1>5. InFlight'
  BY <1>3, SendInFlight DEF IInv, StreamInv
<1>6. \A j \in Ids : NotYet(j)' => NotYet(j)
  BY <1>1, <1>2 DEF NotYet
<1>7. \A j \in Ids : \A c : Coming(j, c) => Coming(j, c)'
  BY <1>1 DEF Coming
<1>8. \A s : Owned(s)' <=> Owned(s)
  BY DEF Sends, cli, Owned
<1>9. \A j \in Ids : Here(j)' = Here(j)
  BY DEF Sends, Here
<1>10. \A j \in Ids : NotYet(j) => sockets[Here(j)] = "none" /\ ~Owned(Here(j))
  <2> TAKE j \in Ids
  <2>1. up /\ Here(j) \in Streams /\ Here(j)[1] = tun /\ Here(j)[2] = j
    BY DEF Sends, IInv, StreamInv, InFlight, Streams, Here
  <2> QED
    BY <2>1 DEF IInv, StreamInv, Fresh
<1>11. Fresh'
  BY <1>6, <1>8, StreamPair DEF Sends, cli, IInv, StreamInv, Fresh
<1>12. Uploads'
  <2>1. ASSUME NEW j \in Ids, gw'[j].kind = "post", NotYet(j)', NEW c \in 1 .. gw'[j].sent
        PROVE  Coming(j, c)'
    <3>1. NotYet(j) /\ up
      BY <1>6, <2>1 DEF Sends
    <3>2. CASE j # i
      BY <1>2, <1>7, <2>1, <3>1, <3>2 DEF IInv, StreamInv, Uploads
    <3>3. CASE j = i /\ c \in 1 .. gw[j].sent
      BY <1>2, <1>3, <1>7, <2>1, <3>1, <3>3 DEF IInv, StreamInv, Uploads
    <3>4. CASE j = i /\ c \notin 1 .. gw[j].sent
      <4>1. f.type = "data" /\ f.n = c
        BY <1>2, <1>3, <2>1, <3>4
      <4> QED
        BY <1>1, <3>4, <4>1 DEF Coming
    <3> QED
      BY <3>2, <3>3, <3>4
  <2>2. ASSUME NEW j \in Ids, Owned(Here(j))
        PROVE  /\ gw'[j].kind = "post"
               /\ pending[j].chunks = Body(Here(j), Len(pending[j].chunks))
               /\ Len(pending[j].chunks) <= gw'[j].sent
               /\ \A c \in Len(pending[j].chunks) + 1 .. gw'[j].sent : Coming(j, c)'
               /\ \A p \in 1 .. Len(wire') :
                    wire'[p].id = j /\ wire'[p].type = "data" =>
                      wire'[p].n > Len(pending[j].chunks)
    <3> DEFINE n == Len(pending[j].chunks)
    <3>1. n \in Nat
      <4>1. pending[j] \in Entry
        BY <2>2 DEF Owned, Here, IInv, TypeOK
      <4> QED
        BY <4>1 DEF Entry
    <3>2. /\ gw[j].kind = "post" /\ n <= gw[j].sent
          /\ pending[j].chunks = Body(Here(j), n)
          /\ \A c \in n + 1 .. gw[j].sent : Coming(j, c)
          /\ \A p \in 1 .. L : wire[p].id = j /\ wire[p].type = "data" => wire[p].n > n
      BY <2>2 DEF Sends, IInv, StreamInv, Uploads
    <3>3. gw[j].phase # "unused"
      BY <1>10, <2>2 DEF NotYet
    <3>4. gw'[j].kind = "post" /\ n <= gw'[j].sent
      BY <1>2, <1>3, <3>1, <3>2, <3>3
    <3>5. ASSUME NEW c \in n + 1 .. gw'[j].sent PROVE Coming(j, c)'
      <4>1. CASE c \in n + 1 .. gw[j].sent
        BY <1>7, <3>2, <4>1
      <4>2. CASE c \notin n + 1 .. gw[j].sent
        <5>1. j = i /\ f.type = "data" /\ f.n = c
          BY <1>2, <1>3, <3>1, <3>3, <3>5, <4>2
        <5> QED
          BY <1>1, <5>1 DEF Coming
      <4> QED
        BY <4>1, <4>2
    <3>6. ASSUME NEW p \in 1 .. L + 1, wire'[p].id = j, wire'[p].type = "data"
          PROVE  wire'[p].n > n
      <4>1. CASE p = L + 1
        BY <1>1, <1>3, <3>1, <3>2, <3>3, <3>6, <4>1
      <4>2. CASE p \in 1 .. L
        BY <1>1, <3>2, <3>6, <4>2
      <4> QED
        BY <1>1, <4>1, <4>2
    <3> QED
      BY <1>1, <3>2, <3>4, <3>5, <3>6
  <2>3. pending' = pending
    BY DEF Sends, cli
  <2> QED
    BY <1>8, <1>9, <2>1, <2>2, <2>3 DEF Uploads
<1>13. UpgradesOnly'
  <2> SUFFICES ASSUME NEW j \in Ids, sockets[Here(j)] # "none" PROVE gw'[j].kind = "ws"
    BY <1>9 DEF UpgradesOnly, Sends, cli
  <2>1. gw[j].phase # "unused" /\ gw[j].kind = "ws"
    BY <1>10 DEF NotYet, Sends, IInv, StreamInv, UpgradesOnly
  <2> QED
    BY <1>2, <2>1
<1>14. WaitsOnce' /\ RunOnce' /\ OwnBodyComplete'
  BY <1>8 DEF Sends, cli, IInv, StreamInv, WaitsOnce, RunOnce, OwnBodyComplete
<1> QED
  BY <1>4, <1>5, <1>11, <1>12, <1>13, <1>14 DEF IInv, StreamInv

LEMMA TwoFields ==
  ASSUME NEW r, r = [phase |-> r.phase, kind |-> r.kind, sent |-> r.sent], NEW x, NEW y
  PROVE  [r EXCEPT !.phase = x, !.kind = y] = [phase |-> x, kind |-> y, sent |-> r.sent]
<1> DEFINE t == [r EXCEPT !.phase = x]
<1>1. t = [phase |-> x, kind |-> r.kind, sent |-> r.sent]
  OBVIOUS
<1>2. [r EXCEPT !.phase = x, !.kind = y] = [t EXCEPT !.kind = y]
  OBVIOUS
<1> HIDE DEF t
<1>3. [t EXCEPT !.kind = y] = [phase |-> x, kind |-> y, sent |-> r.sent]
  BY <1>1
<1> QED
  BY <1>2, <1>3

LEMMA GatewayStep ==
  ASSUME IInv, NEW i \in Ids,
         GwData(i) \/ GwEnd(i) \/ \E kind \in Kinds : GwRequest(i, kind)
  PROVE  IInv'
<1> DEFINE Was == gw[i]
<1>1. /\ Was.kind \in Kinds /\ Was.sent \in 0 .. MaxChunks
      /\ Was = [phase |-> Was.phase, kind |-> Was.kind, sent |-> Was.sent]
      /\ gw = [j \in Ids |-> gw[j]]
  BY DEF IInv, TypeOK
<1>2. ASSUME NEW kind \in Kinds, GwRequest(i, kind) PROVE IInv'
  <2> DEFINE g == [phase |-> IF kind = "post" THEN "body" ELSE "wait", kind |-> kind, sent |-> 0]
             f == [type |-> "headers", id |-> i, kind |-> kind, n |-> 0]
  <2>1. Was.phase = "unused" /\ Was.sent = 0
    BY <1>2 DEF GwRequest, IInv, StreamInv, InFlight
  <2>2. gw' = [gw EXCEPT ![i] = g] /\ gw'[i] = g
    <3>1. [Was EXCEPT !.phase = IF kind = "post" THEN "body" ELSE "wait", !.kind = kind] = g
      <4>1. Was = [phase |-> Was.phase, kind |-> Was.kind, sent |-> Was.sent]
        BY <1>1
      <4> HIDE DEF Was
      <4>2. \A x, y : [Was EXCEPT !.phase = x, !.kind = y]
                       = [phase |-> x, kind |-> y, sent |-> Was.sent]
        BY <4>1, TwoFields
      <4> QED
        BY <2>1, <4>2
    <3>2. gw' = [gw EXCEPT ![i] = [Was EXCEPT !.phase = IF kind = "post" THEN "body" ELSE "wait",
                                              !.kind = kind]]
      BY <1>1, <1>2 DEF GwRequest
    <3> QED
      BY <1>1, <3>1, <3>2
  <2>3. f \in Frame /\ g.sent \in 0 .. MaxChunks
    BY <1>1, BoundsAssumption DEF Frame
  <2>4. Sends(i, f, g)
    <3>1. Send("headers", i)
      BY <1>2 DEF GwRequest
    <3>2. [type |-> "headers", id |-> i, kind |-> gw'[i].kind, n |-> gw'[i].sent] = f
      BY <2>2
    <3> QED
      BY <2>2, <3>1, <3>2 DEF Send, Sends
  <2> HIDE DEF f, g
  <2>5. /\ f.type = "headers" /\ f.id = i /\ f.kind = g.kind /\ f.n = 0 /\ g.sent = 0
        /\ g.kind \in Kinds /\ g.phase \in {"body", "wait", "relay", "ended"}
        /\ g = [phase |-> g.phase, kind |-> g.kind, sent |-> g.sent]
    BY <1>2 DEF f, g
  <2> QED
    BY <2>1, <2>3, <2>4, <2>5, SendStep
<1>3. ASSUME GwData(i) PROVE IInv'
  <2> DEFINE g == [phase |-> Was.phase, kind |-> Was.kind, sent |-> Was.sent + 1]
             f == [type |-> "data", id |-> i, kind |-> Was.kind, n |-> Was.sent + 1]
  <2>1. Was.phase \in {"body", "relay"} /\ Was.sent + 1 \in 0 .. MaxChunks
    BY <1>1, <1>3, BoundsAssumption DEF GwData
  <2>2. gw' = [gw EXCEPT ![i] = g] /\ gw'[i] = g
    <3>1. [Was EXCEPT !.sent = Was.sent + 1] = g
      BY <1>1
    <3>2. gw' = [gw EXCEPT ![i] = [Was EXCEPT !.sent = Was.sent + 1]]
      BY <1>1, <1>3 DEF GwData
    <3> QED
      BY <1>1, <3>1, <3>2
  <2>3. f \in Frame
    BY <1>1, <2>1 DEF Frame
  <2>4. Sends(i, f, g)
    <3>1. Send("data", i)
      BY <1>3 DEF GwData
    <3>2. [type |-> "data", id |-> i, kind |-> gw'[i].kind, n |-> gw'[i].sent] = f
      BY <2>2
    <3> QED
      BY <2>2, <3>1, <3>2 DEF Send, Sends
  <2> HIDE DEF f, g
  <2>5. /\ f.type = "data" /\ f.id = i /\ f.kind = g.kind
        /\ f.n = Was.sent + 1 /\ g.sent = Was.sent + 1
        /\ g.kind = Was.kind /\ g.phase = Was.phase
        /\ g = [phase |-> g.phase, kind |-> g.kind, sent |-> g.sent]
    BY DEF f, g
  <2> QED
    BY <1>1, <2>1, <2>3, <2>4, <2>5, SendStep
<1>4. ASSUME GwEnd(i) PROVE IInv'
  <2> DEFINE g == [phase |-> "ended", kind |-> Was.kind, sent |-> Was.sent]
             f == [type |-> "end", id |-> i, kind |-> Was.kind, n |-> Was.sent]
  <2>1. Was.phase \in {"body", "relay"}
    BY <1>4 DEF GwEnd
  <2>2. gw' = [gw EXCEPT ![i] = g] /\ gw'[i] = g
    <3>1. [Was EXCEPT !.phase = "ended"] = g
      BY <1>1
    <3>2. gw' = [gw EXCEPT ![i] = [Was EXCEPT !.phase = "ended"]]
      BY <1>1, <1>4 DEF GwEnd
    <3> QED
      BY <1>1, <3>1, <3>2
  <2>3. f \in Frame
    BY <1>1 DEF Frame
  <2>4. Sends(i, f, g)
    <3>1. Send("end", i)
      BY <1>4 DEF GwEnd
    <3>2. [type |-> "end", id |-> i, kind |-> gw'[i].kind, n |-> gw'[i].sent] = f
      BY <2>2
    <3> QED
      BY <2>2, <3>1, <3>2 DEF Send, Sends
  <2> HIDE DEF f, g
  <2>5. /\ f.type = "end" /\ f.id = i /\ f.kind = g.kind
        /\ f.n = Was.sent /\ g.sent = Was.sent /\ g.kind = Was.kind /\ g.phase = "ended"
        /\ g = [phase |-> g.phase, kind |-> g.kind, sent |-> g.sent]
    BY DEF f, g
  <2> QED
    BY <1>1, <2>1, <2>3, <2>4, <2>5, SendStep
<1> QED
  BY <1>2, <1>3, <1>4

LEMMA UpgradedStep ==
  ASSUME IInv, NEW i \in Ids, GwUpgraded(i)
  PROVE  IInv'
<1>1. /\ up /\ UNCHANGED <<tun, up, wire, pending, sockets, active, wrote, ran>>
      /\ gw[i].phase = "wait" /\ gw' = [gw EXCEPT ![i].phase = "relay"]
  BY DEF GwUpgraded, cli
<1>2. /\ \A j \in Ids : gw'[j].kind = gw[j].kind /\ gw'[j].sent = gw[j].sent
      /\ \A j \in Ids : gw'[j].phase = gw[j].phase \/ (j = i /\ gw'[j].phase = "relay")
      /\ gw' \in [Ids -> [phase : {"unused", "body", "wait", "relay", "ended"},
                          kind : Kinds, sent : 0 .. MaxChunks]]
  BY <1>1 DEF IInv, TypeOK
<1>3. TypeOK'
  BY <1>1, <1>2 DEF IInv, TypeOK
<1>4. \A p \in 1 .. Len(wire) : wire[p].id \in Ids
  BY WireType DEF IInv
<1>5. InFlight'
  BY <1>1, <1>2, <1>4 DEF IInv, StreamInv, InFlight
<1>6. /\ \A j \in Ids : NotYet(j)' => NotYet(j)
      /\ \A j, c : Coming(j, c)' <=> Coming(j, c)
      /\ \A s : Owned(s)' <=> Owned(s)
      /\ \A j : Here(j)' = Here(j)
  BY <1>1, <1>2 DEF NotYet, Coming, Owned, Here
<1>7. Fresh'
  BY <1>1, <1>6, StreamPair DEF IInv, StreamInv, Fresh
<1>8. Uploads'
  BY <1>1, <1>2, <1>6 DEF IInv, StreamInv, Uploads
<1>9. UpgradesOnly' /\ WaitsOnce' /\ RunOnce' /\ OwnBodyComplete'
  BY <1>1, <1>2, <1>6 DEF IInv, StreamInv, UpgradesOnly, WaitsOnce, RunOnce, OwnBodyComplete
<1> QED
  BY <1>3, <1>5, <1>7, <1>8, <1>9 DEF IInv, StreamInv

-----------------------------------------------------------------------------
(* The tunnel and the local sockets. *)

LEMMA OpenStep ==
  ASSUME IInv, TunnelOpen
  PROVE  IInv'
<1>1. /\ ~up /\ tun' = tun + 1 /\ up' = TRUE /\ wire' = <<>> /\ Len(wire') = 0
      /\ gw' = [i \in Ids |-> Unused]
      /\ UNCHANGED <<pending, sockets, active, wrote, ran>>
  BY DEF TunnelOpen, cli
<1>2. tun \in Nat /\ tun' \in Tuns /\ tun' \in 0 .. MaxTunnels
  BY BoundsAssumption DEF TunnelOpen, IInv, TypeOK, Tuns
<1>3. \A i \in Ids : gw'[i].phase = "unused" /\ gw'[i].kind = "get" /\ gw'[i].sent = 0
  BY <1>1 DEF Unused
<1>4. TypeOK'
  BY <1>1, <1>2, BoundsAssumption DEF IInv, TypeOK, Unused, Kinds
<1>5. InFlight'
  BY <1>1, <1>2, <1>3 DEF InFlight
<1>6. \A s \in Streams : s[1] > tun => sockets[s] = "none" /\ ran[s] = <<>> /\ ~Owned(s)
  BY DEF IInv, StreamInv, Fresh
<1>7. \A s \in Streams : s[1] > tun' \/ s[1] = tun' => s[1] > tun
  BY <1>1, <1>2, StreamPair DEF Tuns
<1>8. \A s : Owned(s)' <=> Owned(s)
  BY <1>1 DEF Owned
<1>9. Fresh'
  BY <1>1, <1>6, <1>7, <1>8 DEF Fresh
<1>10. ASSUME NEW i \in Ids PROVE Here(i)' \in Streams /\ (Here(i)')[1] > tun
  BY <1>1, <1>2 DEF Here, Streams
<1>11. Uploads'
  BY <1>3, <1>6, <1>8, <1>10 DEF Uploads
<1>12. UpgradesOnly'
  BY <1>1, <1>6, <1>10 DEF UpgradesOnly
<1>13. WaitsOnce' /\ RunOnce' /\ OwnBodyComplete'
  BY <1>1, <1>8 DEF IInv, StreamInv, WaitsOnce, RunOnce, OwnBodyComplete
<1> QED
  BY <1>4, <1>5, <1>9, <1>11, <1>12, <1>13 DEF IInv, StreamInv

LEMMA CloseStep ==
  ASSUME IInv, TunnelClose
  PROVE  IInv'
<1>1. /\ up /\ up' = FALSE /\ wire' = <<>> /\ Len(wire') = 0
      /\ sockets' = [s \in Streams |->
            IF s[1] = tun /\ s[2] \in active[tun] THEN "closed" ELSE sockets[s]]
      /\ active' = [active EXCEPT ![tun] = {}]
      /\ UNCHANGED <<tun, gw, pending, wrote, ran>>
  BY DEF TunnelClose
<1>2. tun \in Tuns
  BY <1>1 DEF IInv, StreamInv, InFlight
<1>3. /\ sockets' \in [Streams -> {"none", "dialing", "open", "half", "closed"}]
      /\ active' \in [Tuns -> SUBSET Ids]
  BY <1>1 DEF IInv, TypeOK
<1>4. \A k \in Tuns : \A i \in active'[k] : sockets'[<<k, i>>] = "open"
  <2> SUFFICES ASSUME NEW k \in Tuns, NEW i \in active'[k] PROVE sockets'[<<k, i>>] = "open"
    OBVIOUS
  <2>1. k # tun /\ i \in active[k]
    BY <1>1 DEF IInv, TypeOK
  <2>2. <<k, i>> \in Streams /\ <<k, i>>[1] = k
    BY <2>1 DEF IInv, TypeOK, Streams
  <2> QED
    BY <1>1, <2>1, <2>2 DEF IInv, TypeOK
<1>5. TypeOK'
  <2>1. wire' \in Seq(Frame) /\ Len(wire') <= MaxInFlight
    BY <1>1, BoundsAssumption
  <2>2. up' \in BOOLEAN
    BY <1>1
  <2> QED
    BY <1>1, <1>3, <1>4, <2>1, <2>2 DEF IInv, TypeOK
<1>6. InFlight'
  BY <1>1 DEF InFlight, IInv, StreamInv
<1>7. \A s : Owned(s)' <=> Owned(s)
  BY <1>1 DEF Owned
<1>8. Fresh'
  <2> SUFFICES ASSUME NEW s \in Streams, s[1] > tun
               PROVE  sockets'[s] = "none" /\ ran'[s] = <<>> /\ ~Owned(s)'
    BY <1>1 DEF Fresh
  <2>1. s[1] # tun
    BY <1>2, StreamPair DEF Tuns
  <2> QED
    BY <1>1, <1>7, <2>1 DEF IInv, StreamInv, Fresh
<1>9. Uploads' /\ UpgradesOnly'
  BY <1>1 DEF Uploads, UpgradesOnly
<1>10. WaitsOnce' /\ RunOnce' /\ OwnBodyComplete'
  BY <1>1, <1>7 DEF IInv, StreamInv, WaitsOnce, RunOnce, OwnBodyComplete
<1> QED
  BY <1>5, <1>6, <1>8, <1>9, <1>10 DEF IInv, StreamInv

\* A socket that exists already changes its state.
LEMMA SocketStep ==
  ASSUME IInv, NEW s \in Streams, Upgraded(s) \/ Refused(s) \/ SocketClosed(s)
  PROVE  IInv'
<1>1. /\ sockets[s] # "none" /\ UNCHANGED <<tun, up, gw, wire, pending, wrote, ran>>
      /\ \/ sockets' = [sockets EXCEPT ![s] = "open"] /\ active' = [active EXCEPT ![s[1]] = @ \cup {s[2]}]
         \/ /\ sockets' = [sockets EXCEPT ![s] = "none"] /\ active' = active
            /\ sockets[s] = "dialing"
         \/ sockets' = [sockets EXCEPT ![s] = "closed"] /\ active' = [active EXCEPT ![s[1]] = @ \ {s[2]}]
  BY DEF Upgraded, Refused, SocketClosed
<1>2. s[1] \in Tuns /\ s[2] \in Ids /\ s = <<s[1], s[2]>>
  BY StreamPair
<1>3. \A r \in Streams : r # s => sockets'[r] = sockets[r]
  BY <1>1 DEF IInv, TypeOK
<1>4. TypeOK'
  <2>1. /\ sockets' \in [Streams -> {"none", "dialing", "open", "half", "closed"}]
        /\ active' \in [Tuns -> SUBSET Ids]
    <3>1. /\ sockets \in [Streams -> {"none", "dialing", "open", "half", "closed"}]
          /\ active \in [Tuns -> SUBSET Ids]
      BY DEF IInv, TypeOK
    <3>2. sockets' \in [Streams -> {"none", "dialing", "open", "half", "closed"}]
      BY <1>1, <3>1
    <3>3. active[s[1]] \cup {s[2]} \in SUBSET Ids /\ active[s[1]] \ {s[2]} \in SUBSET Ids
      BY <1>2, <3>1
    <3>4. active' \in [Tuns -> SUBSET Ids]
      BY <1>1, <1>2, <3>1, <3>3
    <3> QED
      BY <3>2, <3>4
  <2>2. ASSUME NEW k \in Tuns, NEW i \in active'[k] PROVE sockets'[<<k, i>>] = "open"
    <3>1. <<k, i>> \in Streams
      BY <2>1 DEF Streams
    <3>2. CASE <<k, i>> = s
      <4>1. k = s[1] /\ i = s[2]
        BY <3>2
      <4>2. /\ sockets \in [Streams -> {"none", "dialing", "open", "half", "closed"}]
            /\ active \in [Tuns -> SUBSET Ids]
            /\ i \in active[k] => sockets[s] = "open"
        BY <3>2, <4>1 DEF IInv, TypeOK
      <4>3. CASE sockets' = [sockets EXCEPT ![s] = "open"]
        BY <3>2, <4>2, <4>3
      <4>4. CASE sockets[s] = "dialing" /\ active' = active
        BY <2>2, <4>2, <4>4
      <4>5. CASE active' = [active EXCEPT ![s[1]] = @ \ {s[2]}]
        BY <1>2, <2>2, <4>1, <4>2, <4>5
      <4> QED
        BY <1>1, <4>3, <4>4, <4>5
    <3>3. CASE <<k, i>> # s
      <4>1. i \in active[k]
        BY <1>1, <1>2, <2>2, <3>3 DEF IInv, TypeOK
      <4> QED
        BY <1>3, <3>1, <3>3, <4>1 DEF IInv, TypeOK
    <3> QED
      BY <3>2, <3>3
  <2> QED
    BY <1>1, <2>1, <2>2 DEF IInv, TypeOK
<1>5. /\ \A i : NotYet(i)' <=> NotYet(i)
      /\ \A i, c : Coming(i, c)' <=> Coming(i, c)
      /\ \A r : Owned(r)' <=> Owned(r)
      /\ \A i : Here(i)' = Here(i)
  BY <1>1 DEF NotYet, Coming, Owned, Here
<1>6. InFlight'
  BY <1>1 DEF IInv, StreamInv, InFlight
<1>7. Fresh'
  BY <1>1, <1>3, <1>5 DEF IInv, StreamInv, Fresh
<1>8. Uploads'
  BY <1>1, <1>5 DEF IInv, StreamInv, Uploads
<1>9. UpgradesOnly'
  <2> SUFFICES ASSUME NEW i \in Ids, up, sockets'[Here(i)] # "none" PROVE gw[i].kind = "ws"
    BY <1>1, <1>5 DEF UpgradesOnly
  <2>1. Here(i) \in Streams
    BY DEF Here, Streams, IInv, StreamInv, InFlight
  <2>2. sockets[Here(i)] # "none"
    BY <1>1, <1>3, <2>1
  <2> QED
    BY <2>2 DEF IInv, StreamInv, UpgradesOnly
<1>10. WaitsOnce' /\ RunOnce' /\ OwnBodyComplete'
  BY <1>1, <1>5 DEF IInv, StreamInv, WaitsOnce, RunOnce, OwnBodyComplete
<1> QED
  BY <1>4, <1>6, <1>7, <1>8, <1>9, <1>10 DEF IInv, StreamInv

-----------------------------------------------------------------------------
(* The CLI's message handler. *)

\* What taking a frame other than the one handled leaves true.
Takes(f) == wire # <<>> /\ f = Head(wire) /\ wire' = Tail(wire) /\ UNCHANGED <<tun, up, gw>>

\* The parts of the invariant that a handler can disturb only through the CLI's variables.
LEMMA TakeStep ==
  ASSUME IInv, NEW f, Takes(f)
  PROVE  /\ InFlight'
         /\ tun' \in 0 .. MaxTunnels /\ up' \in BOOLEAN /\ gw' = gw
         /\ wire' \in Seq(Frame) /\ Len(wire') <= MaxInFlight
         /\ Here(f.id) \in Streams /\ Here(f.id) = <<tun, f.id>>
         /\ \A i : Here(i)' = Here(i)
         /\ NotYet(f.id) =>
              sockets[Here(f.id)] = "none" /\ ran[Here(f.id)] = <<>> /\ ~Owned(Here(f.id))
         /\ sockets[Here(f.id)] # "none" => gw[f.id].kind = "ws"
<1>1. up /\ tun \in Tuns /\ f.id \in Ids
  BY TakenFrame DEF Takes, IInv, StreamInv, Frame
<1>2. wire' \in Seq(Frame) /\ Len(wire') <= MaxInFlight
  BY Taken, BoundsAssumption DEF Takes, IInv, TypeOK
<1>3. Here(f.id) \in Streams /\ Here(f.id) = <<tun, f.id>> /\ Here(f.id)[1] = tun /\ Here(f.id)[2] = f.id
  BY <1>1 DEF Here, Streams
<1>4. NotYet(f.id) =>
        sockets[Here(f.id)] = "none" /\ ran[Here(f.id)] = <<>> /\ ~Owned(Here(f.id))
  BY <1>1, <1>3 DEF IInv, StreamInv, Fresh
<1>5. InFlight'
  BY TakeInFlight DEF Takes, IInv, StreamInv
<1>6. sockets[Here(f.id)] # "none" => gw[f.id].kind = "ws"
  BY <1>1 DEF IInv, StreamInv, UpgradesOnly
<1>7. \A i : Here(i)' = Here(i)
  BY DEF Takes, Here
<1>8. tun' \in 0 .. MaxTunnels
  BY DEF Takes, IInv, TypeOK
<1>9. up' \in BOOLEAN
  BY DEF Takes, IInv, TypeOK
<1> QED
  BY <1>2, <1>3, <1>4, <1>5, <1>6, <1>7, <1>8, <1>9 DEF Takes

\* Uploads the frame does not concern keep their part of the invariant.
LEMMA OtherUploads ==
  ASSUME IInv, NEW f, Takes(f), NEW i \in Ids, pending'[i] = pending[i],
         f.type = "data" => f.id # i \/ ~Owned(Here(i))
  PROVE  /\ up' /\ gw'[i].kind = "post" /\ NotYet(i)' =>
              \A c \in 1 .. gw'[i].sent : Coming(i, c)'
         /\ up' /\ Owned(Here(i))' =>
              /\ gw'[i].kind = "post"
              /\ pending'[i].chunks = Body(Here(i)', Len(pending'[i].chunks))
              /\ Len(pending'[i].chunks) <= gw'[i].sent
              /\ \A c \in Len(pending'[i].chunks) + 1 .. gw'[i].sent : Coming(i, c)'
              /\ \A p \in 1 .. Len(wire') :
                   wire'[p].id = i /\ wire'[p].type = "data" =>
                     wire'[p].n > Len(pending'[i].chunks)
<1>1. Here(i)' = Here(i) /\ gw' = gw /\ up' = up /\ (Owned(Here(i))' <=> Owned(Here(i)))
  BY DEF Takes, Here, Owned
<1>2. /\ NotYet(i)' => NotYet(i) /\ i # f.id
      /\ \A c : Coming(i, c) => Coming(i, c)' \/ (f.id = i /\ f.type = "data" /\ f.n = c)
      /\ \A p \in 1 .. Len(wire') : \E q \in 1 .. Len(wire) : wire'[p] = wire[q]
  BY TakenFrame DEF Takes, IInv, StreamInv
<1>3. CASE NotYet(i)'
  <2>1. ~Owned(Here(i)) \/ ~up
    <3>1. up => Here(i) \in Streams /\ Here(i)[1] = tun /\ Here(i)[2] = i
      BY DEF IInv, StreamInv, InFlight, Here, Streams
    <3> QED
      BY <1>2, <1>3, <3>1 DEF IInv, StreamInv, Fresh
  <2> QED
    BY <1>1, <1>2, <1>3, <2>1 DEF IInv, StreamInv, Uploads
<1>4. CASE ~NotYet(i)' /\ up /\ Owned(Here(i))
  <2>1. /\ gw[i].kind = "post"
        /\ pending[i].chunks = Body(Here(i), Len(pending[i].chunks))
        /\ Len(pending[i].chunks) <= gw[i].sent
        /\ \A c \in Len(pending[i].chunks) + 1 .. gw[i].sent : Coming(i, c)
        /\ \A p \in 1 .. Len(wire) :
             wire[p].id = i /\ wire[p].type = "data" => wire[p].n > Len(pending[i].chunks)
    BY <1>4 DEF IInv, StreamInv, Uploads
  <2> QED
    BY <1>1, <1>2, <1>4, <2>1
<1> QED
  BY <1>1, <1>3, <1>4

LEMMA HeadersStep ==
  ASSUME IInv, NEW f, Takes(f), OnHeaders(f)
  PROVE  IInv'
<1>1. /\ f \in Frame /\ f.id \in Ids /\ f.type = "headers" /\ f.kind = gw[f.id].kind
      /\ up /\ tun \in Tuns /\ NotYet(f.id) /\ ~NotYet(f.id)'
      /\ \A i \in Ids : NotYet(i)' => NotYet(i)
      /\ \A c : Coming(f.id, c) => Coming(f.id, c)'
      /\ \A p \in 1 .. Len(wire') :
           wire'[p].id = f.id /\ wire'[p].type = "data" => wire'[p].n >= 1 /\ wire'[p].n \in Nat
  BY TakenFrame DEF Takes, IInv, StreamInv, Frame, OnHeaders
<1>2. /\ InFlight' /\ gw' = gw /\ up' = up /\ tun' = tun
      /\ Here(f.id) \in Streams /\ Here(f.id) = <<tun, f.id>> /\ \A i : Here(i)' = Here(i)
      /\ sockets[Here(f.id)] = "none" /\ ran[Here(f.id)] = <<>> /\ ~Owned(Here(f.id))
  BY <1>1, TakeStep DEF Takes
<1>3. UNCHANGED <<active, wrote>>
  BY DEF OnHeaders
<1>4. /\ tun' \in 0 .. MaxTunnels /\ up' \in BOOLEAN
      /\ wire' \in Seq(Frame) /\ Len(wire') <= MaxInFlight
  BY TakeStep
<1>5. CASE f.kind = "ws"
  <2>1. sockets' = [sockets EXCEPT ![Here(f.id)] = "dialing"] /\ UNCHANGED <<pending, ran>>
    BY <1>5 DEF OnHeaders
  <2>2. \A s : Owned(s)' <=> Owned(s)
    BY <2>1 DEF Owned
  <2>3. TypeOK'
    <3>1. \A k \in Tuns : \A i \in active[k] : <<k, i>> # Here(f.id)
      BY <1>2 DEF IInv, TypeOK
    <3>2. \A k \in Tuns : \A i \in active[k] : <<k, i>> \in Streams
      BY DEF IInv, TypeOK, Streams
    <3>3. sockets' \in [Streams -> {"none", "dialing", "open", "half", "closed"}]
      BY <2>1 DEF IInv, TypeOK
    <3>4. \A k \in Tuns : \A i \in active[k] : sockets'[<<k, i>>] = "open"
      BY <2>1, <3>1, <3>2 DEF IInv, TypeOK
    <3> QED
      BY <1>2, <1>3, <1>4, <2>1, <3>3, <3>4 DEF IInv, TypeOK
  <2>4. Fresh'
    BY <1>1, <1>2, <2>1, <2>2, StreamPair DEF IInv, StreamInv, Fresh, TypeOK, Tuns
  <2>5. Uploads'
    BY <1>1, <2>1, OtherUploads DEF Uploads
  <2>6. UpgradesOnly'
    <3>1. \A i \in Ids : i # f.id => Here(i) # Here(f.id) /\ Here(i) \in Streams
      BY <1>1 DEF Here, Streams
    <3> QED
      BY <1>1, <1>2, <1>5, <2>1, <3>1 DEF IInv, StreamInv, UpgradesOnly, TypeOK
  <2>7. WaitsOnce' /\ RunOnce' /\ OwnBodyComplete'
    BY <2>1, <2>2 DEF IInv, StreamInv, WaitsOnce, RunOnce, OwnBodyComplete
  <2> QED
    BY <1>2, <2>3, <2>4, <2>5, <2>6, <2>7 DEF IInv, StreamInv
<1>6. CASE f.kind = "post"
  <2>1. /\ pending' = [pending EXCEPT ![f.id] = [ws |-> tun, chunks |-> <<>>]]
        /\ UNCHANGED <<sockets, ran>>
    BY <1>6 DEF OnHeaders
  <2>2. pending' \in [Ids -> Entry \cup {NoEntry}]
    BY <1>1, <2>1 DEF IInv, TypeOK, Entry
  <2>3. pending'[f.id] = [ws |-> tun, chunks |-> <<>>] /\ \A i \in Ids : i # f.id => pending'[i] = pending[i]
    BY <1>1, <2>1 DEF IInv, TypeOK
  <2>4. TypeOK'
    BY <1>2, <1>3, <1>4, <2>1, <2>2 DEF IInv, TypeOK
  <2>5. \A s \in Streams : Owned(s)' => s = Here(f.id) \/ Owned(s)
    BY <1>2, <2>3, StreamPair DEF Owned
  <2>6. Fresh'
    <3> SUFFICES ASSUME NEW s \in Streams, s[1] > tun \/ (s[1] = tun /\ NotYet(s[2])')
                 PROVE  sockets[s] = "none" /\ ran[s] = <<>> /\ ~Owned(s)'
      BY <1>2, <2>1 DEF Fresh
    <3>1. s # Here(f.id)
      BY <1>1, <1>2 DEF Tuns
    <3>2. sockets[s] = "none" /\ ran[s] = <<>> /\ ~Owned(s)
      BY <1>1, StreamPair DEF IInv, StreamInv, Fresh
    <3> QED
      BY <2>5, <3>1, <3>2
  <2>7. Uploads'
    <3>1. ASSUME NEW c \in 1 .. gw[f.id].sent PROVE Coming(f.id, c)'
      BY <1>1, <1>6 DEF IInv, StreamInv, Uploads
    <3>2. pending'[f.id].chunks = <<>> /\ Len(pending'[f.id].chunks) = 0
      BY <2>3
    <3>3. \A s : Body(s, 0) = <<>>
      BY DEF Body
    <3>4. gw[f.id].sent \in Nat
      BY <1>1 DEF IInv, TypeOK
    <3>5. /\ gw'[f.id].kind = "post"
          /\ pending'[f.id].chunks = Body(Here(f.id)', Len(pending'[f.id].chunks))
          /\ Len(pending'[f.id].chunks) <= gw'[f.id].sent
          /\ \A c \in Len(pending'[f.id].chunks) + 1 .. gw'[f.id].sent : Coming(f.id, c)'
          /\ \A p \in 1 .. Len(wire') :
               wire'[p].id = f.id /\ wire'[p].type = "data" =>
                 wire'[p].n > Len(pending'[f.id].chunks)
      BY <1>1, <1>2, <1>6, <3>1, <3>2, <3>3, <3>4
    <3> QED
      BY <1>1, <2>3, <3>5, OtherUploads DEF Uploads
  <2>8. UpgradesOnly'
    BY <1>2, <2>1 DEF IInv, StreamInv, UpgradesOnly
  <2>9. WaitsOnce' /\ RunOnce' /\ OwnBodyComplete'
    BY <1>2, <2>1, <2>5 DEF IInv, StreamInv, WaitsOnce, RunOnce, OwnBodyComplete
  <2> QED
    BY <1>2, <2>4, <2>6, <2>7, <2>8, <2>9 DEF IInv, StreamInv
<1>7. CASE f.kind = "get"
  <2> DEFINE run == [chunks |-> <<>>, by |-> Here(f.id), n |-> 0]
  <2>1. /\ ran' = [ran EXCEPT ![Here(f.id)] = Append(@, run)]
        /\ UNCHANGED <<sockets, pending>>
    BY <1>7 DEF OnHeaders, RunLocally
  <2>2. run \in Run
    BY <1>2, BoundsAssumption DEF Run
  <2>3. /\ ran' \in [Streams -> Seq(Run)] /\ ran'[Here(f.id)] = <<run>>
        /\ \A s \in Streams : s # Here(f.id) => ran'[s] = ran[s]
    <3>1. ran \in [Streams -> Seq(Run)]
      BY DEF IInv, TypeOK
    <3>2. Append(ran[Here(f.id)], run) = <<run>> /\ <<run>> \in Seq(Run)
      BY <1>2, <2>2
    <3> HIDE DEF run
    <3>3. ran' = [ran EXCEPT ![Here(f.id)] = <<run>>]
      BY <2>1, <3>2
    <3> QED
      BY <1>2, <3>1, <3>2, <3>3
  <2>4. \A s : Owned(s)' <=> Owned(s)
    BY <2>1 DEF Owned
  <2>5. TypeOK'
    BY <1>2, <1>3, <1>4, <2>1, <2>3 DEF IInv, TypeOK
  <2>6. Fresh'
    <3> SUFFICES ASSUME NEW s \in Streams, s[1] > tun \/ (s[1] = tun /\ NotYet(s[2])')
                 PROVE  sockets[s] = "none" /\ ran'[s] = <<>> /\ ~Owned(s)
      BY <1>2, <2>1, <2>4 DEF Fresh
    <3>1. s # Here(f.id)
      BY <1>1, <1>2 DEF Tuns
    <3>2. sockets[s] = "none" /\ ran[s] = <<>> /\ ~Owned(s)
      BY <1>1, StreamPair DEF IInv, StreamInv, Fresh
    <3> QED
      BY <2>3, <3>1, <3>2
  <2>7. Uploads'
    BY <1>1, <2>1, OtherUploads DEF Uploads
  <2>8. UpgradesOnly'
    BY <1>2, <2>1 DEF IInv, StreamInv, UpgradesOnly
  <2>9. WaitsOnce'
    BY <1>2, <2>3, <2>4 DEF IInv, StreamInv, WaitsOnce
  <2>10. RunOnce'
    <3> SUFFICES ASSUME NEW s \in Streams PROVE Len(ran'[s]) <= 1
      BY DEF RunOnce
    <3> HIDE DEF run
    <3>1. CASE s = Here(f.id)
      <4>1. ran'[s] = <<run>>
        BY <2>3, <3>1
      <4> QED
        BY <4>1
    <3>2. CASE s # Here(f.id)
      BY <2>3, <3>2 DEF IInv, StreamInv, RunOnce
    <3> QED
      BY <3>1, <3>2
  <2>11. OwnBodyComplete'
    <3> SUFFICES ASSUME NEW s \in Streams, NEW j \in 1 .. Len(ran'[s]), ran'[s][j].by = s
                 PROVE  ran'[s][j].chunks = [c \in 1 .. ran'[s][j].n |-> [stream |-> s, n |-> c]]
      BY DEF OwnBodyComplete
    <3>1. CASE s = Here(f.id)
      BY <2>3, <3>1
    <3>2. CASE s # Here(f.id)
      BY <2>3, <3>2 DEF IInv, StreamInv, OwnBodyComplete
    <3> QED
      BY <3>1, <3>2
  <2> QED
    BY <1>2, <2>5, <2>6, <2>7, <2>8, <2>9, <2>10, <2>11 DEF IInv, StreamInv
<1> QED
  BY <1>5, <1>6, <1>7 DEF OnHeaders

LEMMA DataStep ==
  ASSUME IInv, NEW f, Takes(f), OnData(f)
  PROVE  IInv'
<1>1. /\ f \in Frame /\ f.id \in Ids /\ f.n \in Nat /\ f.type = "data"
      /\ f.n >= 1 /\ f.n <= gw[f.id].sent
      /\ up /\ tun \in Tuns /\ ~NotYet(f.id) /\ ~NotYet(f.id)'
      /\ \A i \in Ids : NotYet(i)' => NotYet(i)
      /\ \A c : Coming(f.id, c) => Coming(f.id, c)' \/ f.n = c
      /\ \A c \in Nat : Coming(f.id, c) => c >= f.n
      /\ \A p \in 1 .. Len(wire') :
           /\ wire'[p].n \in Nat
           /\ wire'[p].id = f.id /\ wire'[p].type = "data" => wire'[p].n > f.n
  <2>1. f \in Frame => f.id \in Ids /\ f.n \in Nat
    BY BoundsAssumption DEF Frame
  <2>2. f.type = "data"
    BY DEF OnData
  <2> QED
    BY <2>1, <2>2, TakenFrame DEF Takes, IInv, StreamInv
<1>2. /\ InFlight' /\ gw' = gw /\ up' = up /\ tun' = tun
      /\ Here(f.id) \in Streams /\ Here(f.id) = <<tun, f.id>> /\ \A i : Here(i)' = Here(i)
      /\ sockets[Here(f.id)] # "none" => gw[f.id].kind = "ws"
  BY <1>1, TakeStep DEF Takes
<1>3. UNCHANGED <<sockets, active, ran>>
  BY DEF OnData
<1>4. /\ tun' \in 0 .. MaxTunnels /\ up' \in BOOLEAN
      /\ wire' \in Seq(Frame) /\ Len(wire') <= MaxInFlight
  BY TakeStep
<1>5. UpgradesOnly' /\ RunOnce' /\ OwnBodyComplete'
  BY <1>2, <1>3 DEF IInv, StreamInv, UpgradesOnly, RunOnce, OwnBodyComplete
<1>6. wrote' \in [Streams -> Seq(Chunk)]
  <2>1. wrote \in [Streams -> Seq(Chunk)]
    BY DEF IInv, TypeOK
  <2>2. wrote' = wrote \/ wrote' = [wrote EXCEPT ![Here(f.id)] = Append(@, Payload(f))]
    BY DEF OnData
  <2>3. Payload(f) \in Chunk
    <3>1. f.n \in 0 .. MaxChunks
      BY <1>1 DEF Frame
    <3> QED
      BY <1>1, <1>2, <3>1, BoundsAssumption DEF Chunk, Payload
  <2>4. Append(wrote[Here(f.id)], Payload(f)) \in Seq(Chunk)
    BY <1>2, <2>1, <2>3
  <2> QED
    BY <2>1, <2>2, <2>4
<1>7. CASE pending' = pending /\ ~Owned(Here(f.id))
  <2>1. \A s : Owned(s)' <=> Owned(s)
    BY <1>7 DEF Owned
  <2>2. TypeOK'
    BY <1>2, <1>3, <1>4, <1>6, <1>7 DEF IInv, TypeOK
  <2>3. Fresh'
    BY <1>1, <1>2, <1>3, <2>1, StreamPair DEF IInv, StreamInv, Fresh
  <2>4. Uploads'
    BY <1>7, OtherUploads DEF Uploads
  <2>5. WaitsOnce'
    BY <1>3, <2>1 DEF IInv, StreamInv, WaitsOnce
  <2> QED
    BY <1>2, <1>5, <2>2, <2>3, <2>4, <2>5 DEF IInv, StreamInv
<1>8. CASE /\ pending[f.id] # NoEntry
           /\ pending' = [pending EXCEPT ![f.id].chunks = Append(@, [stream |-> Here(f.id), n |-> f.n])]
  <2> DEFINE e == pending[f.id]
             chunk == [stream |-> Here(f.id), n |-> f.n]
             n == Len(e.chunks)
  <2>1. pending \in [Ids -> Entry \cup {NoEntry}] /\ e \in Entry
    BY <1>1, <1>8 DEF IInv, TypeOK
  <2>2. e.ws \in Tuns /\ e.chunks \in Seq(Chunk) /\ n \in Nat
    BY <2>1 DEF Entry
  <2>3. chunk \in Chunk
    <3>1. f.n \in 0 .. MaxChunks
      BY <1>1 DEF Frame
    <3> QED
      BY <1>1, <1>2, <3>1, BoundsAssumption DEF Chunk
  <2>4. /\ pending'[f.id] = [e EXCEPT !.chunks = Append(e.chunks, chunk)]
        /\ \A i \in Ids : i # f.id => pending'[i] = pending[i]
        /\ pending' = [pending EXCEPT ![f.id] = [e EXCEPT !.chunks = Append(e.chunks, chunk)]]
    BY <1>1, <1>8, <2>1
  <2>5. Append(e.chunks, chunk) \in Seq(Chunk)
    BY <2>2, <2>3
  <2>6. /\ [e EXCEPT !.chunks = Append(e.chunks, chunk)] \in Entry
        /\ pending'[f.id].ws = e.ws /\ pending'[f.id].chunks = Append(e.chunks, chunk)
    <3>1. \A cs \in Seq(Chunk) : /\ [e EXCEPT !.chunks = cs] \in Entry
                                 /\ [e EXCEPT !.chunks = cs].ws = e.ws
                                 /\ [e EXCEPT !.chunks = cs].chunks = cs
      <4> HIDE DEF e
      <4> QED
        BY <2>1 DEF Entry
    <3> QED
      BY <2>4, <2>5, <3>1
  <2>7. pending' \in [Ids -> Entry \cup {NoEntry}]
    BY <1>1, <2>1, <2>4, <2>6
  <2>8. TypeOK'
    BY <1>2, <1>3, <1>4, <1>6, <2>7 DEF IInv, TypeOK
  <2>9. \A s \in Streams : Owned(s)' => Owned(s)
    BY <1>8, <2>4, <2>6, StreamPair DEF Owned
  <2>10. Fresh'
    BY <1>1, <1>2, <1>3, <2>9, StreamPair DEF IInv, StreamInv, Fresh
  <2>11. WaitsOnce'
    BY <1>3, <2>9 DEF IInv, StreamInv, WaitsOnce
  <2>12. Uploads'
    <3>1. CASE ~Owned(Here(f.id))
      <4>1. ~Owned(Here(f.id))' /\ ~NotYet(f.id)' /\ Here(f.id)' = Here(f.id)
        BY <1>1, <1>2, <2>9, <3>1
      <4> QED
        BY <1>1, <2>4, <4>1, OtherUploads DEF Uploads
    <3>2. CASE Owned(Here(f.id))
      <4>1. /\ gw[f.id].kind = "post"
            /\ e.chunks = Body(Here(f.id), n) /\ n <= gw[f.id].sent
            /\ \A c \in n + 1 .. gw[f.id].sent : Coming(f.id, c)
            /\ \A p \in 1 .. Len(wire) :
                 wire[p].id = f.id /\ wire[p].type = "data" => wire[p].n > n
        BY <1>1, <3>2 DEF IInv, StreamInv, Uploads
      <4>2. gw[f.id].sent \in Nat
        BY <1>1, BoundsAssumption DEF IInv, TypeOK
      <4>3. f.n = n + 1
        <5>1. f.n > n
          BY <1>1, <4>1, Taken DEF Takes, IInv
        <5>2. n + 1 \in n + 1 .. gw[f.id].sent /\ n + 1 \in Nat
          BY <1>1, <2>2, <4>2, <5>1
        <5>3. n + 1 >= f.n
          BY <1>1, <4>1, <5>2
        <5> QED
          BY <1>1, <2>2, <5>1, <5>3
      <4>4. Append(e.chunks, chunk) = Body(Here(f.id), n + 1) /\ Len(Append(e.chunks, chunk)) = n + 1
        BY <2>2, <4>1, <4>3 DEF Body
      <4>5. ASSUME NEW c \in n + 1 + 1 .. gw[f.id].sent PROVE Coming(f.id, c)'
        <5>1. c \in n + 1 .. gw[f.id].sent /\ c # f.n
          BY <2>2, <4>2, <4>3
        <5> QED
          BY <1>1, <4>1, <5>1
      <4>6. /\ gw'[f.id].kind = "post"
            /\ pending'[f.id].chunks = Body(Here(f.id)', Len(pending'[f.id].chunks))
            /\ Len(pending'[f.id].chunks) <= gw'[f.id].sent
            /\ \A c \in Len(pending'[f.id].chunks) + 1 .. gw'[f.id].sent : Coming(f.id, c)'
            /\ \A p \in 1 .. Len(wire') :
                 wire'[p].id = f.id /\ wire'[p].type = "data" =>
                   wire'[p].n > Len(pending'[f.id].chunks)
        BY <1>1, <1>2, <2>2, <2>6, <4>1, <4>2, <4>3, <4>4, <4>5
      <4> QED
        BY <1>1, <2>4, <4>6, OtherUploads DEF Uploads
    <3> QED
      BY <3>1, <3>2
  <2> QED
    BY <1>2, <1>5, <2>8, <2>10, <2>11, <2>12 DEF IInv, StreamInv
<1>9. CASE f.id \in active[tun] /\ pending' = pending
  <2>1. sockets[<<tun, f.id>>] = "open"
    BY <1>1, <1>9 DEF IInv, TypeOK
  <2>2. gw[f.id].kind = "ws"
    BY <1>2, <2>1
  <2>3. ~Owned(Here(f.id))
    BY <1>1, <2>2 DEF IInv, StreamInv, Uploads
  <2> QED
    BY <1>7, <1>9, <2>3
<1>10. CASE pending[f.id] = NoEntry /\ pending' = pending
  <2>1. ~Owned(Here(f.id))
    BY <1>2, <1>10 DEF Owned
  <2> QED
    BY <1>7, <1>10, <2>1
<1> QED
  BY <1>8, <1>9, <1>10 DEF OnData, Payload

LEMMA EndStep ==
  ASSUME IInv, NEW f, Takes(f), OnEnd(f)
  PROVE  IInv'
<1>1. /\ f \in Frame /\ f.id \in Ids /\ f.n \in 0 .. MaxChunks /\ f.type = "end"
      /\ f.n = gw[f.id].sent
      /\ up /\ tun \in Tuns /\ ~NotYet(f.id) /\ ~NotYet(f.id)'
      /\ \A i \in Ids : NotYet(i)' => NotYet(i)
      /\ \A c : ~Coming(f.id, c)
  <2>1. f \in Frame => f.id \in Ids /\ f.n \in 0 .. MaxChunks
    BY DEF Frame
  <2>2. f.type = "end"
    BY DEF OnEnd
  <2> QED
    BY <2>1, <2>2, TakenFrame DEF Takes, IInv, StreamInv
<1>2. /\ InFlight' /\ gw' = gw /\ up' = up /\ tun' = tun
      /\ Here(f.id) \in Streams /\ Here(f.id) = <<tun, f.id>> /\ \A i : Here(i)' = Here(i)
      /\ sockets[Here(f.id)] # "none" => gw[f.id].kind = "ws"
  BY <1>1, TakeStep DEF Takes
<1>3. UNCHANGED wrote
  BY DEF OnEnd
<1>4. /\ tun' \in 0 .. MaxTunnels /\ up' \in BOOLEAN
      /\ wire' \in Seq(Frame) /\ Len(wire') <= MaxInFlight
  BY TakeStep
<1>5. CASE UNCHANGED <<pending, ran>>
  <2>1. \A s : Owned(s)' <=> Owned(s)
    BY <1>5 DEF Owned
  <2>2. Uploads'
    BY <1>1, <1>5, OtherUploads DEF Uploads
  <2>3. WaitsOnce' /\ RunOnce' /\ OwnBodyComplete'
    BY <1>5, <2>1 DEF IInv, StreamInv, WaitsOnce, RunOnce, OwnBodyComplete
  <2>4. CASE UNCHANGED <<sockets, active>>
    <3>1. TypeOK'
      BY <1>2, <1>3, <1>4, <1>5, <2>4 DEF IInv, TypeOK
    <3>2. Fresh'
      BY <1>1, <1>2, <1>5, <2>1, <2>4, StreamPair DEF IInv, StreamInv, Fresh
    <3>3. UpgradesOnly'
      BY <1>2, <2>4 DEF IInv, StreamInv, UpgradesOnly
    <3> QED
      BY <1>2, <2>2, <2>3, <3>1, <3>2, <3>3 DEF IInv, StreamInv
  <2>5. CASE /\ f.id \in active[tun]
             /\ active' = [active EXCEPT ![tun] = @ \ {f.id}]
             /\ sockets' = [sockets EXCEPT ![Here(f.id)] = "half"]
    <3>1. sockets[Here(f.id)] = "open"
      BY <1>1, <1>2, <2>5 DEF IInv, TypeOK
    <3>2. /\ sockets' \in [Streams -> {"none", "dialing", "open", "half", "closed"}]
          /\ \A s \in Streams : s # Here(f.id) => sockets'[s] = sockets[s]
      BY <2>5 DEF IInv, TypeOK
    <3>3. /\ active' \in [Tuns -> SUBSET Ids]
          /\ \A k \in Tuns : \A i \in active'[k] : i \in active[k] /\ <<k, i>> # <<tun, f.id>>
      BY <1>1, <2>5 DEF IInv, TypeOK
    <3>4. \A k \in Tuns : \A i \in active'[k] : sockets'[<<k, i>>] = "open"
      <4> SUFFICES ASSUME NEW k \in Tuns, NEW i \in active'[k] PROVE sockets'[<<k, i>>] = "open"
        OBVIOUS
      <4>1. i \in active[k] /\ <<k, i>> # Here(f.id) /\ i \in Ids
        BY <1>2, <3>3
      <4>2. <<k, i>> \in Streams /\ sockets[<<k, i>>] = "open"
        BY <4>1 DEF IInv, TypeOK, Streams
      <4> QED
        BY <3>2, <4>1, <4>2
    <3>5. TypeOK'
      BY <1>2, <1>3, <1>4, <1>5, <3>2, <3>3, <3>4 DEF IInv, TypeOK
    <3>6. Fresh'
      <4> SUFFICES ASSUME NEW s \in Streams, s[1] > tun \/ (s[1] = tun /\ NotYet(s[2])')
                   PROVE  sockets'[s] = "none" /\ ran[s] = <<>> /\ ~Owned(s)
        BY <1>2, <1>5, <2>1 DEF Fresh
      <4>1. s # Here(f.id)
        BY <1>1, <1>2 DEF Tuns
      <4>2. sockets[s] = "none" /\ ran[s] = <<>> /\ ~Owned(s)
        BY <1>1, StreamPair DEF IInv, StreamInv, Fresh
      <4> QED
        BY <3>2, <4>1, <4>2
    <3>7. UpgradesOnly'
      <4>1. \A i \in Ids : i # f.id => Here(i) # Here(f.id) /\ Here(i) \in Streams
        BY <1>1 DEF Here, Streams
      <4> QED
        BY <1>1, <1>2, <3>1, <3>2, <4>1 DEF IInv, StreamInv, UpgradesOnly
    <3> QED
      BY <1>2, <2>2, <2>3, <3>5, <3>6, <3>7 DEF IInv, StreamInv
  <2> QED
    BY <1>5, <2>4, <2>5 DEF OnEnd
<1>6. CASE /\ f.id \notin active[tun] /\ pending[f.id] # NoEntry
           /\ pending' = [pending EXCEPT ![f.id] = NoEntry]
           /\ RunLocally(<<pending[f.id].ws, f.id>>,
                         [chunks |-> pending[f.id].chunks, by |-> Here(f.id), n |-> f.n])
           /\ UNCHANGED <<sockets, active>>
  <2> DEFINE e == pending[f.id]
             s0 == <<e.ws, f.id>>
             run == [chunks |-> e.chunks, by |-> Here(f.id), n |-> f.n]
  <2>1. pending \in [Ids -> Entry \cup {NoEntry}] /\ e \in Entry
    BY <1>1, <1>6 DEF IInv, TypeOK
  <2>2. e.ws \in Tuns /\ e.chunks \in Seq(Chunk) /\ Len(e.chunks) \in Nat
    BY <2>1 DEF Entry
  <2>3. s0 \in Streams /\ Owned(s0)
    BY <1>1, <1>6, <2>2 DEF Streams, Owned
  <2>4. ran[s0] = <<>> /\ ran \in [Streams -> Seq(Run)]
    BY <2>3 DEF IInv, StreamInv, WaitsOnce, TypeOK
  <2>5. run \in Run
    BY <1>1, <1>2, <2>2 DEF Run
  <2>6. /\ ran' \in [Streams -> Seq(Run)] /\ ran'[s0] = <<run>>
        /\ \A s \in Streams : s # s0 => ran'[s] = ran[s]
    <3>1. ran' = [ran EXCEPT ![s0] = Append(@, run)]
      BY <1>6 DEF RunLocally
    <3>2. Append(ran[s0], run) = <<run>> /\ <<run>> \in Seq(Run)
      BY <2>4, <2>5
    <3> HIDE DEF run, s0
    <3>3. ran' = [ran EXCEPT ![s0] = <<run>>]
      BY <3>1, <3>2
    <3> QED
      BY <2>3, <2>4, <3>2, <3>3
  <2>7. /\ pending' \in [Ids -> Entry \cup {NoEntry}] /\ pending'[f.id] = NoEntry
        /\ \A i \in Ids : i # f.id => pending'[i] = pending[i]
    BY <1>1, <1>6, <2>1
  <2>8. TypeOK'
    BY <1>2, <1>3, <1>4, <1>6, <2>6, <2>7 DEF IInv, TypeOK
  <2>9. \A s \in Streams : Owned(s)' => Owned(s) /\ s # s0
    BY <2>7, StreamPair DEF Owned
  <2>10. Fresh'
    <3> SUFFICES ASSUME NEW s \in Streams, s[1] > tun \/ (s[1] = tun /\ NotYet(s[2])')
                 PROVE  sockets[s] = "none" /\ ran'[s] = <<>> /\ ~Owned(s)'
      BY <1>2, <1>6 DEF Fresh
    <3>1. sockets[s] = "none" /\ ran[s] = <<>> /\ ~Owned(s)
      BY <1>1, StreamPair DEF IInv, StreamInv, Fresh
    <3>2. s # s0
      BY <2>3, <3>1
    <3> QED
      BY <2>6, <2>9, <3>1, <3>2
  <2>11. Uploads'
    <3>1. ~Owned(Here(f.id))' /\ ~NotYet(f.id)' /\ Here(f.id)' = Here(f.id)
      BY <1>1, <1>2, <2>7 DEF Owned
    <3> QED
      BY <1>1, <2>7, <3>1, OtherUploads DEF Uploads
  <2>12. UpgradesOnly'
    BY <1>2, <1>6 DEF IInv, StreamInv, UpgradesOnly
  <2>13. WaitsOnce'
    BY <2>6, <2>9 DEF IInv, StreamInv, WaitsOnce
  <2>14. RunOnce'
    <3> SUFFICES ASSUME NEW s \in Streams PROVE Len(ran'[s]) <= 1
      BY DEF RunOnce
    <3> HIDE DEF run
    <3>1. CASE s = s0
      <4>1. ran'[s] = <<run>>
        BY <2>6, <3>1
      <4> QED
        BY <4>1
    <3>2. CASE s # s0
      BY <2>6, <3>2 DEF IInv, StreamInv, RunOnce
    <3> QED
      BY <3>1, <3>2
  <2>15. s0 = Here(f.id) => e.chunks = Body(s0, f.n)
    <3> SUFFICES ASSUME s0 = Here(f.id) PROVE e.chunks = Body(s0, f.n)
      OBVIOUS
    <3>1. /\ e.chunks = Body(s0, Len(e.chunks)) /\ Len(e.chunks) <= gw[f.id].sent
          /\ \A c \in Len(e.chunks) + 1 .. gw[f.id].sent : Coming(f.id, c)
      BY <1>1, <2>3 DEF IInv, StreamInv, Uploads
    <3>2. gw[f.id].sent \in Nat
      BY <1>1, BoundsAssumption
    <3>3. Len(e.chunks) = f.n
      BY <1>1, <2>2, <3>1, <3>2
    <3> QED
      BY <3>1, <3>3
  <2>16. OwnBodyComplete'
    <3> SUFFICES ASSUME NEW s \in Streams, NEW j \in 1 .. Len(ran'[s]), ran'[s][j].by = s
                 PROVE  ran'[s][j].chunks = [c \in 1 .. ran'[s][j].n |-> [stream |-> s, n |-> c]]
      BY DEF OwnBodyComplete
    <3>1. CASE s = s0
      <4> HIDE DEF run
      <4>1. ran'[s] = <<run>>
        BY <2>6, <3>1
      <4>2. ran'[s][j] = run
        BY <4>1
      <4> USE DEF run
      <4> QED
        BY <2>15, <3>1, <4>2 DEF Body
    <3>2. CASE s # s0
      BY <2>6, <3>2 DEF IInv, StreamInv, OwnBodyComplete
    <3> QED
      BY <3>1, <3>2
  <2> QED
    BY <1>2, <2>8, <2>10, <2>11, <2>12, <2>13, <2>14, <2>16 DEF IInv, StreamInv
<1> QED
  BY <1>5, <1>6 DEF OnEnd

LEMMA ReceiveStep ==
  ASSUME IInv, Receive
  PROVE  IInv'
<1>1. PICK f : Takes(f) /\ (OnHeaders(f) \/ OnData(f) \/ OnEnd(f))
  BY DEF Receive, Takes
<1> QED
  BY <1>1, HeadersStep, DataStep, EndStep

-----------------------------------------------------------------------------
(* The theorems. *)

LEMMA InitInv == Init => IInv
<1> SUFFICES ASSUME Init PROVE IInv
  OBVIOUS
<1>1. TypeOK
  <2>1. tun \in 0 .. MaxTunnels /\ Len(wire) <= MaxInFlight /\ wire \in Seq(Frame)
    BY BoundsAssumption DEF Init
  <2>2. up \in BOOLEAN
    BY DEF Init
  <2>3. Unused \in [phase : {"unused", "body", "wait", "relay", "ended"}, kind : Kinds,
                    sent : 0 .. MaxChunks]
    BY BoundsAssumption DEF Unused, Kinds
  <2>4. /\ sockets \in [Streams -> {"none", "dialing", "open", "half", "closed"}]
        /\ active \in [Tuns -> SUBSET Ids] /\ \A k \in Tuns : active[k] = {}
        /\ wrote \in [Streams -> Seq(Chunk)] /\ ran \in [Streams -> Seq(Run)]
        /\ pending \in [Ids -> Entry \cup {NoEntry}]
    BY DEF Init
  <2> QED
    BY <2>1, <2>2, <2>3, <2>4 DEF Init, TypeOK
<1>2. InFlight /\ Uploads /\ UpgradesOnly
  BY DEF Init, InFlight, Uploads, UpgradesOnly, Unused
<1>3. \A s \in Streams : ~Owned(s)
  BY StreamPair DEF Init, Owned
<1>4. Fresh /\ WaitsOnce /\ RunOnce /\ OwnBodyComplete
  BY <1>3 DEF Init, Fresh, WaitsOnce, RunOnce, OwnBodyComplete
<1> QED
  BY <1>1, <1>2, <1>4 DEF IInv, StreamInv

LEMMA StepInv == IInv /\ [Next]_vars => IInv'
<1> SUFFICES ASSUME IInv, [Next]_vars PROVE IInv'
  OBVIOUS
<1>1. CASE UNCHANGED vars
  <2>1. TypeOK'
    BY <1>1 DEF vars, IInv, TypeOK
  <2>2. InFlight' /\ Fresh' /\ Uploads'
    BY <1>1 DEF vars, IInv, StreamInv, InFlight, Fresh, Uploads, NotYet, Coming, Owned, Here
  <2>3. UpgradesOnly' /\ WaitsOnce' /\ RunOnce' /\ OwnBodyComplete'
    BY <1>1 DEF vars, IInv, StreamInv, UpgradesOnly, WaitsOnce, RunOnce, OwnBodyComplete, Owned, Here
  <2> QED
    BY <2>1, <2>2, <2>3 DEF IInv, StreamInv
<1> QED
  BY <1>1, OpenStep, CloseStep, ReceiveStep, GatewayStep, UpgradedStep, SocketStep DEF Next

LEMMA Invariance == Spec => []IInv
BY InitInv, StepInv, PTL DEF Spec

\* Every variable keeps its type; in particular what is in a tunnel's socket map is an
\* open socket (wsStreamsByTunnel).
THEOREM TypeCorrect == Spec => []TypeOK
<1>1. IInv => TypeOK
  BY DEF IInv
<1> QED
  BY <1>1, Invariance, PTL

\* No request is run twice on the local server, for any number of tunnels, streams and
\* frames in flight (handleBodyFrame, proxyToLocal).
THEOREM NoRequestRunsTwice == Spec => []RunOnce
<1>1. IInv => RunOnce
  BY DEF IInv, StreamInv
<1> QED
  BY <1>1, Invariance, PTL

\* A request run by its own END has exactly the body the gateway sent for it, although
\* pendingRequests keeps what earlier tunnels have left there.
THEOREM BodiesArriveWhole == Spec => []OwnBodyComplete
<1>1. IInv => OwnBodyComplete
  BY DEF IInv, StreamInv
<1> QED
  BY <1>1, Invariance, PTL

-----------------------------------------------------------------------------
(* What the sockets receive. *)

\* Stream i of the tunnel relays: the gateway sends nothing before it has seen the
\* socket open, what it has sent and the socket has not received is on the wire, and a
\* socket closed by its END has received all of it.
Relay(i) ==
  /\ gw[i].phase # "body"
  /\ gw[i].phase \in {"relay", "ended"} => sockets[Here(i)] \notin {"none", "dialing"}
  /\ gw[i].phase \notin {"relay", "ended"} => gw[i].sent = 0
  /\ i \in active[tun] =>
       /\ Len(wrote[Here(i)]) <= gw[i].sent
       /\ \A c \in Len(wrote[Here(i)]) + 1 .. gw[i].sent : Coming(i, c)
       /\ \A p \in 1 .. Len(wire) :
            wire[p].id = i /\ wire[p].type = "data" => wire[p].n > Len(wrote[Here(i)])
  /\ sockets[Here(i)] = "half" => gw[i].phase = "ended" /\ Len(wrote[Here(i)]) = gw[i].sent

\* Sockets hold the first chunks of their streams, none before they are open.
RelayInv ==
  /\ \A s \in Streams : wrote[s] = Body(s, Len(wrote[s]))
  /\ \A s \in Streams :
       s[1] > tun \/ (s[1] = tun /\ up /\ sockets[s] \in {"none", "dialing"}) => wrote[s] = <<>>
  /\ up => \A i \in Ids : gw[i].kind = "ws" => Relay(i)

\* A stream of the tunnel, as a pair.
LEMMA HereStream ==
  ASSUME IInv, up, NEW i \in Ids
  PROVE  Here(i) \in Streams /\ Here(i)[1] = tun /\ Here(i)[2] = i /\ tun \in Tuns
BY DEF IInv, StreamInv, InFlight, Streams, Here

\* A stream that a step does not concern relays as before.
LEMMA OtherRelay ==
  ASSUME up, UNCHANGED <<up, tun>>, NEW i, gw'[i] = gw[i], Relay(i),
         wrote'[Here(i)] = wrote[Here(i)], sockets'[Here(i)] = sockets[Here(i)],
         i \in active'[tun] => i \in active[tun],
         i \in active[tun] => \A c : Coming(i, c) => Coming(i, c)',
         \A p \in 1 .. Len(wire') : wire'[p].id = i => \E q \in 1 .. Len(wire) : wire'[p] = wire[q]
  PROVE  Relay(i)'
<1>1. Here(i)' = Here(i)
  BY DEF Here
<1> QED
  BY <1>1 DEF Relay

\* The tunnel opens and closes.
LEMMA RelayTunnel ==
  ASSUME IInv, RelayInv, TunnelOpen \/ TunnelClose
  PROVE  RelayInv'
<1>1. tun \in Nat
  BY DEF IInv, TypeOK
<1>2. CASE TunnelOpen
  <2>1. tun' = tun + 1 /\ wrote' = wrote /\ \A i \in Ids : gw'[i].kind = "get"
    BY <1>2 DEF TunnelOpen, cli, Unused
  <2>2. \A s \in Streams : s[1] > tun' \/ s[1] = tun' => s[1] > tun
    BY <1>1, <2>1, StreamPair DEF Tuns
  <2>3. \A s \in Streams : s[1] > tun' \/ s[1] = tun' => wrote'[s] = <<>>
    BY <2>1, <2>2 DEF RelayInv
  <2>4. \A s \in Streams : wrote'[s] = Body(s, Len(wrote'[s]))
    BY <2>1 DEF RelayInv
  <2>5. \A i \in Ids : gw'[i].kind # "ws"
    BY <2>1
  <2> QED
    BY <2>3, <2>4, <2>5 DEF RelayInv
<1>3. CASE TunnelClose
  BY <1>3 DEF TunnelClose, RelayInv
<1> QED
  BY <1>2, <1>3

\* The gateway sends.
LEMMA RelaySends ==
  ASSUME IInv, RelayInv, NEW i \in Ids,
         GwData(i) \/ GwEnd(i) \/ \E kind \in Kinds : GwRequest(i, kind)
  PROVE  RelayInv'
<1>1. PICK f : /\ wire' = Append(wire, f) /\ f.id = i /\ f.n = gw'[i].sent
               /\ f.type = "data" <=> GwData(i)
  <2>1. Send("data", i) \/ Send("headers", i) \/ Send("end", i)
    BY DEF GwData, GwEnd, GwRequest
  <2>2. GwData(i) => Send("data", i) /\ gw[i].phase # "unused"
    BY DEF GwData
  <2>3. CASE GwData(i)
    BY <2>2, <2>3 DEF Send
  <2>4. CASE ~GwData(i)
    <3>1. Send("headers", i) \/ Send("end", i)
      BY <2>4 DEF GwEnd, GwRequest
    <3> QED
      BY <2>4, <3>1 DEF Send
  <2> QED
    BY <2>3, <2>4
<1>2. up /\ UNCHANGED <<tun, up, pending, sockets, active, wrote, ran>>
  BY DEF GwData, GwEnd, GwRequest, Send, cli
<1>3. /\ Len(wire) \in Nat /\ Len(wire') = Len(wire) + 1
      /\ \A p \in 1 .. Len(wire) : wire'[p] = wire[p]
      /\ wire'[Len(wire) + 1] = f
  BY <1>1, Appended DEF IInv
<1>4. \A j, c : Coming(j, c) => Coming(j, c)'
  BY <1>3 DEF Coming
<1>5. gw[i] \in [phase : {"unused", "body", "wait", "relay", "ended"},
                 kind : Kinds, sent : 0 .. MaxChunks]
      /\ \A j \in Ids : j # i => gw'[j] = gw[j]
  BY DEF GwData, GwEnd, GwRequest, IInv, TypeOK
<1>6. ASSUME NEW j \in Ids, j # i, gw'[j].kind = "ws" PROVE Relay(j)'
  <2>1. \A p \in 1 .. Len(wire') : wire'[p].id = j => \E q \in 1 .. Len(wire) : wire'[p] = wire[q]
    BY <1>1, <1>3, <1>6
  <2>2. Relay(j)
    BY <1>2, <1>5, <1>6 DEF RelayInv
  <2> QED
    BY <1>2, <1>4, <1>5, <1>6, <2>1, <2>2, OtherRelay
<1>7. ASSUME gw'[i].kind = "ws" PROVE Relay(i)'
  <2>0. Here(i)' = Here(i) /\ Here(i) \in Streams
    BY <1>2, HereStream DEF Here
  <2>1. CASE \E kind \in Kinds : GwRequest(i, kind)
    <3>1. gw'[i].phase = "wait" /\ gw[i].phase = "unused" /\ gw[i].sent = 0 /\ gw'[i].sent = gw[i].sent
      <4>1. gw[i].phase = "unused" /\ gw[i].sent = 0
        BY <2>1 DEF GwRequest, IInv, StreamInv, InFlight
      <4>2. PICK kind \in Kinds : gw' = [gw EXCEPT ![i].phase = IF kind = "post" THEN "body" ELSE "wait",
                                                  ![i].kind = kind]
        BY <2>1 DEF GwRequest
      <4>3. /\ gw'[i].phase = IF kind = "post" THEN "body" ELSE "wait"
            /\ gw'[i].kind = kind /\ gw'[i].sent = gw[i].sent
        BY <4>2 DEF IInv, TypeOK
      <4> QED
        BY <1>7, <4>1, <4>3
    <3>2. sockets[Here(i)] = "none"
      BY <1>2, <3>1, HereStream DEF IInv, StreamInv, Fresh, NotYet
    <3>3. i \notin active[tun]
      BY <1>2, <3>2, HereStream DEF IInv, TypeOK, Here
    <3> QED
      BY <1>2, <2>0, <3>1, <3>2, <3>3 DEF Relay
  <2>2. CASE GwData(i)
    <3>1. /\ gw[i].phase \in {"body", "relay"} /\ gw'[i].phase = gw[i].phase
          /\ gw'[i].kind = gw[i].kind /\ gw'[i].sent = gw[i].sent + 1
      BY <2>2 DEF GwData, IInv, TypeOK
    <3>2. Relay(i) /\ gw[i].phase = "relay" /\ sockets[Here(i)] # "half"
      BY <1>2, <1>7, <3>1 DEF RelayInv, Relay
    <3>3. gw[i].sent \in Nat /\ Len(wrote[Here(i)]) \in Nat
      BY <1>5, <2>0, BoundsAssumption DEF IInv, TypeOK
    <3>4. ASSUME i \in active[tun]
          PROVE  /\ Len(wrote[Here(i)]) <= gw'[i].sent
                 /\ \A c \in Len(wrote[Here(i)]) + 1 .. gw'[i].sent : Coming(i, c)'
                 /\ \A p \in 1 .. Len(wire') :
                      wire'[p].id = i /\ wire'[p].type = "data" => wire'[p].n > Len(wrote[Here(i)])
      <4>1. Len(wrote[Here(i)]) <= gw[i].sent
        BY <3>2, <3>4 DEF Relay
      <4>2. \A c : c = gw'[i].sent => Coming(i, c)'
        <5>1. Len(wire) + 1 \in 1 .. Len(wire')
          BY <1>3
        <5>2. f.id = i /\ f.type = "data" /\ f.n = gw'[i].sent
          BY <1>1, <2>2
        <5> QED
          BY <1>3, <5>1, <5>2 DEF Coming
      <4>3. ASSUME NEW c \in Len(wrote[Here(i)]) + 1 .. gw'[i].sent PROVE Coming(i, c)'
        <5>1. c = gw'[i].sent \/ c \in Len(wrote[Here(i)]) + 1 .. gw[i].sent
          BY <3>1, <3>3
        <5>2. \A d \in Len(wrote[Here(i)]) + 1 .. gw[i].sent : Coming(i, d)
          BY <3>2, <3>4 DEF Relay
        <5> QED
          BY <1>4, <4>2, <5>1, <5>2
      <4>4. ASSUME NEW p \in 1 .. Len(wire'), wire'[p].id = i, wire'[p].type = "data"
            PROVE  wire'[p].n > Len(wrote[Here(i)])
        <5>1. CASE p = Len(wire) + 1
          BY <1>1, <1>3, <3>1, <3>3, <4>1, <5>1
        <5>2. CASE p \in 1 .. Len(wire)
          BY <1>3, <3>2, <3>4, <4>4, <5>2 DEF Relay
        <5> QED
          BY <1>3, <5>1, <5>2
      <4> QED
        BY <3>1, <3>3, <4>1, <4>3, <4>4
    <3> QED
      BY <1>2, <2>0, <3>1, <3>2, <3>4 DEF Relay
  <2>3. CASE GwEnd(i)
    <3>1. /\ gw[i].phase \in {"body", "relay"} /\ gw'[i].phase = "ended"
          /\ gw'[i].kind = gw[i].kind /\ gw'[i].sent = gw[i].sent
      BY <2>3 DEF GwEnd, IInv, TypeOK
    <3>2. Relay(i) /\ gw[i].phase = "relay" /\ sockets[Here(i)] # "half"
      BY <1>2, <1>7, <3>1 DEF RelayInv, Relay
    <3>3. f.type # "data"
      BY <1>1, <2>3, <3>1 DEF GwData, GwEnd, IInv, TypeOK
    <3>4. ASSUME i \in active[tun], NEW p \in 1 .. Len(wire'), wire'[p].id = i, wire'[p].type = "data"
          PROVE  wire'[p].n > Len(wrote[Here(i)])
      <4>1. p \in 1 .. Len(wire)
        BY <1>3, <3>3, <3>4
      <4> QED
        BY <1>3, <3>2, <3>4, <4>1 DEF Relay
    <3> QED
      BY <1>2, <1>4, <2>0, <3>1, <3>2, <3>4 DEF Relay
  <2> QED
    BY <2>1, <2>2, <2>3
<1> QED
  BY <1>2, <1>6, <1>7 DEF RelayInv

\* The gateway sees the socket open.
LEMMA RelayUpgraded ==
  ASSUME IInv, RelayInv, NEW i \in Ids, GwUpgraded(i)
  PROVE  RelayInv'
<1>1. /\ up /\ UNCHANGED <<tun, up, wire, pending, sockets, active, wrote, ran>>
      /\ gw[i].phase = "wait" /\ gw' = [gw EXCEPT ![i].phase = "relay"]
      /\ sockets[Here(i)] \notin {"none", "dialing"}
  BY DEF GwUpgraded, cli, Here
<1>2. /\ \A j \in Ids : gw'[j].kind = gw[j].kind /\ gw'[j].sent = gw[j].sent
      /\ gw'[i].phase = "relay" /\ \A j \in Ids : j # i => gw'[j] = gw[j]
  BY <1>1 DEF IInv, TypeOK
<1>3. /\ \A j, c : Coming(j, c)' <=> Coming(j, c)
      /\ \A j : Here(j)' = Here(j)
  BY <1>1 DEF Coming, Here
<1>4. ASSUME NEW j \in Ids, gw[j].kind = "ws" PROVE Relay(j)'
  <2>1. Relay(j)
    BY <1>1, <1>4 DEF RelayInv
  <2> QED
    BY <1>1, <1>2, <1>3, <2>1 DEF Relay
<1> QED
  BY <1>1, <1>2, <1>4 DEF RelayInv

\* The local server answers an upgrade request, or its socket closes.
LEMMA RelaySocket ==
  ASSUME IInv, RelayInv, NEW s \in Streams, Upgraded(s) \/ Refused(s) \/ SocketClosed(s)
  PROVE  RelayInv'
<1>1. UNCHANGED <<tun, up, gw, wire, pending, wrote, ran>>
  BY DEF Upgraded, Refused, SocketClosed
<1>2. s[1] \in Tuns /\ s[2] \in Ids /\ s = <<s[1], s[2]>>
  BY StreamPair
<1>3. \A r \in Streams : r # s => sockets'[r] = sockets[r]
  BY DEF IInv, TypeOK, Upgraded, Refused, SocketClosed
<1>4. \A k \in Tuns : \A i \in Ids : <<k, i>> # s => (i \in active'[k] <=> i \in active[k])
  BY <1>2 DEF IInv, TypeOK, Upgraded, Refused, SocketClosed
<1>5. \A r \in Streams : wrote'[r] = Body(r, Len(wrote'[r]))
  BY <1>1 DEF RelayInv
<1>6. ASSUME NEW r \in Streams, r[1] > tun \/ (r[1] = tun /\ up /\ sockets'[r] \in {"none", "dialing"})
      PROVE  wrote[r] = <<>>
  <2>1. CASE r # s
    BY <1>3, <1>6, <2>1 DEF RelayInv
  <2>2. CASE r = s
    <3>1. sockets'[s] \in {"none", "dialing"} => sockets[s] = "dialing"
      BY DEF IInv, TypeOK, Upgraded, Refused, SocketClosed
    <3> QED
      BY <1>6, <2>2, <3>1 DEF RelayInv
  <2> QED
    BY <2>1, <2>2
<1>7. ASSUME up, NEW i \in Ids, gw[i].kind = "ws" PROVE Relay(i)'
  <2>1. Relay(i) /\ Here(i) \in Streams /\ Here(i) = <<tun, i>> /\ tun \in Tuns
    BY <1>7, HereStream DEF RelayInv, Here
  <2>2. CASE Here(i) # s
    BY <1>1, <1>3, <1>4, <1>7, <2>1, <2>2, OtherRelay DEF Coming
  <2>3. CASE Here(i) = s
    <3>0. Here(i)' = Here(i) /\ \A c : Coming(i, c)' <=> Coming(i, c)
      BY <1>1 DEF Here, Coming
    <3>1. CASE Upgraded(s)
      <4>1. sockets[s] = "dialing" /\ sockets'[s] = "open" /\ wrote[s] = <<>>
        BY <1>7, <2>1, <2>3, <3>1, HereStream DEF Upgraded, RelayInv, IInv, TypeOK
      <4>2. gw[i].phase \notin {"relay", "ended"} /\ gw[i].sent = 0
        BY <2>1, <2>3, <4>1 DEF Relay
      <4>3. Len(wrote[s]) = 0
        BY <4>1
      <4>4. \A p \in 1 .. Len(wire) : wire[p].type = "data" => wire[p].n > 0
        BY WireType DEF IInv, StreamInv, InFlight
      <4>5. gw[i].phase # "body"
        BY <2>1 DEF Relay
      <4> QED
        BY <1>1, <2>3, <3>0, <4>1, <4>2, <4>3, <4>4, <4>5 DEF Relay
    <3>2. CASE Refused(s)
      <4>1. sockets[s] = "dialing" /\ sockets'[s] = "none" /\ UNCHANGED active
        BY <3>2 DEF Refused, IInv, TypeOK
      <4> QED
        BY <1>1, <2>1, <2>3, <3>0, <4>1 DEF Relay
    <3>3. CASE SocketClosed(s)
      <4>1. sockets'[s] = "closed" /\ i \notin active'[tun]
        BY <1>2, <2>1, <2>3, <3>3 DEF SocketClosed, IInv, TypeOK
      <4>2. sockets[s] \in {"open", "half"}
        BY <3>3 DEF SocketClosed
      <4> QED
        BY <1>1, <2>1, <2>3, <3>0, <4>1, <4>2 DEF Relay
    <3> QED
      BY <3>1, <3>2, <3>3
  <2> QED
    BY <2>2, <2>3
<1> QED
  BY <1>1, <1>5, <1>6, <1>7 DEF RelayInv

\* The CLI takes a frame.
LEMMA RelayReceive ==
  ASSUME IInv, RelayInv, NEW f, Takes(f), OnHeaders(f) \/ OnData(f) \/ OnEnd(f)
  PROVE  RelayInv'
<1>1. /\ f \in Frame /\ up /\ tun \in Tuns
      /\ f.type = "headers" => NotYet(f.id) /\ gw[f.id].kind = f.kind
      /\ f.type = "data" => f.n >= 1 /\ f.n <= gw[f.id].sent
      /\ \A i \in Ids : \A c : Coming(i, c) =>
           Coming(i, c)' \/ (f.id = i /\ f.type = "data" /\ f.n = c)
      /\ \A c : f.type = "end" => ~Coming(f.id, c)
      /\ \A c \in Nat : f.type = "data" /\ Coming(f.id, c) => c >= f.n
      /\ \A p \in 1 .. Len(wire') :
           /\ \E q \in 1 .. Len(wire) : wire'[p] = wire[q]
           /\ wire'[p].n \in Nat
           /\ wire'[p].id = f.id /\ wire'[p].type = "data" => (f.type = "data" => wire'[p].n > f.n)
  BY TakenFrame DEF Takes, IInv, StreamInv
<1>2. f.id \in Ids /\ f.n \in Nat /\ UNCHANGED <<tun, up, gw>>
  BY <1>1, BoundsAssumption DEF Frame, Takes
<1>3. Here(f.id) \in Streams /\ \A i : Here(i)' = Here(i)
  BY <1>1, <1>2, HereStream DEF Here
<1>4. \A i \in Ids : i # f.id => Here(i) # Here(f.id) /\ Here(i) \in Streams
  BY <1>1, HereStream DEF Here
<1>5. /\ wrote \in [Streams -> Seq(Chunk)] /\ active \in [Tuns -> SUBSET Ids]
      /\ sockets \in [Streams -> {"none", "dialing", "open", "half", "closed"}]
      /\ gw[f.id].sent \in Nat
  BY <1>2, BoundsAssumption DEF IInv, TypeOK
<1> DEFINE n == Len(wrote[Here(f.id)])
<1>6. n \in Nat
  BY <1>3, <1>5
<1>7. /\ \A s \in Streams : s # Here(f.id) => sockets'[s] = sockets[s] /\ wrote'[s] = wrote[s]
      /\ \A i \in Ids : i \in active'[tun] => i \in active[tun]
  BY <1>1, <1>3, <1>5 DEF OnHeaders, OnData, OnEnd
<1>8. ASSUME NEW i \in Ids, i # f.id, gw[i].kind = "ws" PROVE Relay(i)'
  <2>1. Relay(i)
    BY <1>1, <1>8 DEF RelayInv
  <2>2. \A c : Coming(i, c) => Coming(i, c)'
    BY <1>1, <1>8
  <2> QED
    BY <1>1, <1>2, <1>4, <1>7, <1>8, <2>1, <2>2, OtherRelay
<1>9. gw[f.id].kind = "ws" => Relay(f.id)
  BY <1>1, <1>2 DEF RelayInv
<1>headers. ASSUME OnHeaders(f) PROVE RelayInv'
  <2>1. /\ UNCHANGED <<active, wrote>> /\ f.type = "headers"
        /\ sockets' = sockets \/ (sockets' = [sockets EXCEPT ![Here(f.id)] = "dialing"])
    BY <1>headers DEF OnHeaders
  <2>2. sockets[Here(f.id)] = "none"
    BY <1>1, <1>2, <2>1, HereStream DEF IInv, StreamInv, Fresh
  <2>3. wrote[Here(f.id)] = <<>> /\ f.id \notin active[tun]
    BY <1>1, <1>2, <2>2, HereStream DEF RelayInv, IInv, TypeOK, Here
  <2>4. ASSUME gw[f.id].kind = "ws" PROVE Relay(f.id)'
    <3>1. sockets'[Here(f.id)] \in {"none", "dialing"}
      BY <1>3, <1>5, <2>1, <2>2
    <3> QED
      BY <1>2, <1>3, <1>9, <2>1, <2>2, <2>3, <2>4, <3>1 DEF Relay
  <2>5. \A s \in Streams :
          s[1] > tun \/ (s[1] = tun /\ up /\ sockets'[s] \in {"none", "dialing"}) => wrote[s] = <<>>
    BY <1>7, <2>3 DEF RelayInv
  <2> QED
    BY <1>2, <1>8, <2>1, <2>4, <2>5 DEF RelayInv
<1>end. ASSUME OnEnd(f) PROVE RelayInv'
  <2>1. UNCHANGED wrote /\ f.type = "end"
    BY <1>end DEF OnEnd
  <2>2. \/ UNCHANGED <<sockets, active>>
        \/ /\ f.id \in active[tun] /\ f.id \notin active'[tun]
           /\ sockets'[Here(f.id)] = "half"
    BY <1>1, <1>3, <1>5, <1>end DEF OnEnd
  <2>3. ASSUME gw[f.id].kind = "ws" PROVE Relay(f.id)'
    <3>1. CASE UNCHANGED <<sockets, active>>
      <4>1. \A c : Coming(f.id, c) => Coming(f.id, c)'
        BY <1>1, <1>2, <2>1
      <4> QED
        BY <1>1, <1>2, <1>7, <1>9, <2>1, <2>3, <3>1, <4>1, OtherRelay
    <3>2. CASE f.id \in active[tun] /\ f.id \notin active'[tun] /\ sockets'[Here(f.id)] = "half"
      <4>1. n <= gw[f.id].sent /\ \A c \in n + 1 .. gw[f.id].sent : Coming(f.id, c)
        BY <1>9, <2>3, <3>2 DEF Relay
      <4>2. n = gw[f.id].sent
        <5>1. n + 1 \notin n + 1 .. gw[f.id].sent
          BY <1>1, <2>1, <4>1
        <5> QED
          BY <1>5, <1>6, <4>1, <5>1
      <4>3. gw[f.id].phase = "ended"
        <5>1. 1 \in 1 .. Len(wire) /\ f = wire[1]
          BY Taken DEF Takes, IInv
        <5> QED
          BY <2>1, <5>1 DEF IInv, StreamInv, InFlight
      <4>4. Relay(f.id)
        BY <1>9, <2>3
      <4> QED
        BY <1>2, <1>3, <2>1, <3>2, <4>2, <4>3, <4>4 DEF Relay
    <3> QED
      BY <2>2, <3>1, <3>2
  <2>4. \A s \in Streams :
          s[1] > tun \/ (s[1] = tun /\ up /\ sockets'[s] \in {"none", "dialing"}) => wrote[s] = <<>>
    <3>1. sockets'[Here(f.id)] \in {"none", "dialing"} => sockets' = sockets
      BY <2>2
    <3> QED
      BY <1>7, <3>1 DEF RelayInv
  <2> QED
    BY <1>2, <1>8, <2>1, <2>3, <2>4 DEF RelayInv
<1>data. ASSUME OnData(f) PROVE RelayInv'
  <2>1. UNCHANGED <<sockets, active>> /\ f.type = "data"
    BY <1>data DEF OnData
  <2>2. CASE f.id \notin active[tun]
    <3>1. UNCHANGED wrote
      BY <1>data, <2>2 DEF OnData
    <3>2. ASSUME gw[f.id].kind = "ws" PROVE Relay(f.id)'
      BY <1>1, <1>2, <1>9, <2>1, <2>2, <3>1, <3>2, OtherRelay
    <3> QED
      BY <1>2, <1>8, <2>1, <3>1, <3>2 DEF RelayInv
  <2>3. CASE f.id \in active[tun]
    <3>1. wrote' = [wrote EXCEPT ![Here(f.id)] = Append(@, Payload(f))]
      BY <1>data, <2>3 DEF OnData
    <3>2. sockets[Here(f.id)] = "open"
      BY <1>1, <2>3 DEF IInv, TypeOK, Here
    <3>3. gw[f.id].kind = "ws" /\ Relay(f.id)
      BY <1>1, <1>2, <1>9, <3>2 DEF IInv, StreamInv, UpgradesOnly
    <3>4. /\ n <= gw[f.id].sent /\ \A c \in n + 1 .. gw[f.id].sent : Coming(f.id, c)
          /\ \A p \in 1 .. Len(wire) : wire[p].id = f.id /\ wire[p].type = "data" => wire[p].n > n
      BY <2>3, <3>3 DEF Relay
    <3>5. f.n = n + 1
      <4>1. f.n > n
        <5>1. 1 \in 1 .. Len(wire) /\ f = wire[1]
          BY Taken DEF Takes, IInv
        <5> QED
          BY <2>1, <3>4, <5>1
      <4>2. n + 1 \in n + 1 .. gw[f.id].sent /\ n + 1 \in Nat
        BY <1>1, <1>2, <1>5, <1>6, <2>1, <4>1
      <4>3. n + 1 >= f.n
        BY <1>1, <2>1, <3>4, <4>2
      <4> QED
        BY <1>2, <1>6, <4>1, <4>3
    <3>6. wrote[Here(f.id)] = Body(Here(f.id), n) /\ wrote[Here(f.id)] \in Seq(Chunk)
      BY <1>3, <1>5 DEF RelayInv
    <3>7. wrote'[Here(f.id)] = Append(wrote[Here(f.id)], [stream |-> Here(f.id), n |-> n + 1])
      BY <1>3, <1>5, <3>1, <3>5 DEF Payload
    <3>8. wrote'[Here(f.id)] = Body(Here(f.id), n + 1) /\ Len(wrote'[Here(f.id)]) = n + 1
      <4> DEFINE w == wrote[Here(f.id)]  s == Here(f.id)
      <4>1. w = Body(s, n) /\ n \in Nat /\ wrote'[s] = Append(w, [stream |-> s, n |-> n + 1])
        BY <1>6, <3>6, <3>7
      <4> HIDE DEF s
      <4>2. Len(Body(s, n)) = n
        BY <1>6 DEF Body
      <4>3. Append(Body(s, n), [stream |-> s, n |-> n + 1]) = Body(s, n + 1)
        BY <1>6, <4>2 DEF Body
      <4>4. Len(Body(s, n + 1)) = n + 1
        BY <1>6 DEF Body
      <4> QED
        BY <4>1, <4>3, <4>4 DEF s
    <3>9. \A s \in Streams : wrote'[s] = Body(s, Len(wrote'[s]))
      BY <1>7, <3>8 DEF RelayInv
    <3>10. \A s \in Streams :
          s[1] > tun \/ (s[1] = tun /\ up /\ sockets'[s] \in {"none", "dialing"}) => wrote'[s] = <<>>
      <4>1. ~(Here(f.id)[1] > tun)
        BY <1>1, <1>2, HereStream DEF Tuns
      <4> QED
        BY <1>7, <2>1, <3>2, <4>1 DEF RelayInv
    <3>11. Relay(f.id)'
      <4>1. n + 1 <= gw[f.id].sent
        BY <1>1, <2>1, <3>5
      <4>2. ASSUME NEW c \in n + 1 + 1 .. gw[f.id].sent PROVE Coming(f.id, c)'
        <5>1. c \in n + 1 .. gw[f.id].sent /\ c # f.n
          BY <1>5, <1>6, <3>5
        <5> QED
          BY <1>1, <1>2, <3>4, <5>1
      <4>3. \A p \in 1 .. Len(wire') : wire'[p].id = f.id /\ wire'[p].type = "data" => wire'[p].n > n + 1
        BY <1>1, <2>1, <3>5
      <4> QED
        BY <1>2, <1>3, <2>1, <3>2, <3>3, <3>8, <4>1, <4>2, <4>3 DEF Relay
    <3> QED
      BY <1>2, <1>8, <3>9, <3>10, <3>11 DEF RelayInv
  <2> QED
    BY <2>2, <2>3
<1> QED
  BY <1>headers, <1>end, <1>data

\* A local socket receives what the browser of its stream sent, in order and without a
\* gap, and everything before its END, for any number of tunnels that reuse its ID.
THEOREM SocketsReceiveTheirStreams == Spec => []SocketGetsItsStream
<1>1. ASSUME Init PROVE RelayInv
  <2>1. \A s \in Streams : wrote[s] = <<>> /\ Body(s, 0) = <<>>
    BY <1>1 DEF Init, Body
  <2> QED
    BY <1>1, <2>1 DEF Init, RelayInv
<1>2. ASSUME IInv, RelayInv, UNCHANGED vars PROVE RelayInv'
  BY <1>2 DEF vars, RelayInv, Relay, Coming, Here
<1>3. ASSUME IInv, RelayInv, Receive PROVE RelayInv'
  <2>1. PICK f : Takes(f) /\ (OnHeaders(f) \/ OnData(f) \/ OnEnd(f))
    BY <1>3 DEF Receive, Takes
  <2> QED
    BY <1>3, <2>1, RelayReceive
<1>4. IInv /\ RelayInv /\ [Next]_vars => RelayInv'
  BY <1>2, <1>3, RelayTunnel, RelaySends, RelayUpgraded, RelaySocket DEF Next
<1>5. ASSUME IInv, RelayInv PROVE SocketGetsItsStream
  <2>1. \A s \in Streams : wrote[s] = [c \in 1 .. Len(wrote[s]) |-> [stream |-> s, n |-> c]]
    BY <1>5 DEF RelayInv, Body
  <2>2. ASSUME NEW s \in Streams, up, tun = s[1], sockets[s] = "half"
        PROVE  Len(wrote[s]) = gw[s[2]].sent
    <3>1. s[2] \in Ids /\ s = Here(s[2])
      BY <2>2, StreamPair DEF Here
    <3>2. gw[s[2]].kind = "ws"
      BY <1>5, <2>2, <3>1 DEF IInv, StreamInv, UpgradesOnly
    <3>3. Relay(s[2])
      BY <1>5, <2>2, <3>1, <3>2 DEF RelayInv
    <3> QED
      BY <2>2, <3>1, <3>3 DEF Relay
  <2> QED
    BY <2>1, <2>2 DEF SocketGetsItsStream
<1> QED
  BY <1>1, <1>4, <1>5, Invariance, PTL DEF Spec
=============================================================================
