--------------------------- MODULE GatewayMuxProofs ---------------------------
(***************************************************************************)
(* Proofs about GatewayMux, for any number of requests, queue capacity and *)
(* losses: its types, its panics, and that it implements StreamDelivery.   *)
(***************************************************************************)
EXTENDS GatewayMux, TLAPS

Places == {"none", "opened", "upload", "headers", "body", "relay", "leaving", "closing", "over"}

\* While the tunnel lives only a handler that has come to its end has closed a done
\* channel, its own; the pump closes none before it has closed m.closed.
DoneInv ==
  /\ req \in [Ids -> Places]
  /\ pump.at \in {"range", "close"} => closed
  /\ ~closed => panics = {} /\ \A i \in Ids : i \in done => req[i] = "over"

\* A step of a handler that has not come to its end, and nothing else.
Calm == UNCHANGED <<pump, closed, panics, done>>

\* Moving a handler that is not over keeps the ones that are.
LEMMA Move ==
  ASSUME DoneInv, Calm, NEW i \in Ids, NEW there \in Places,
         req[i] # "over", req' = [req EXCEPT ![i] = there]
  PROVE  DoneInv'
<1>1. req' \in [Ids -> Places] /\ \A j \in Ids : req[j] = "over" => req'[j] = "over"
  BY DEF DoneInv
<1> QED
  BY <1>1 DEF DoneInv, Calm

LEMMA Stay ==
  ASSUME DoneInv, Calm, UNCHANGED req
  PROVE  DoneInv'
  BY DEF DoneInv, Calm

LEMMA CliIsCalm ==
  ASSUME NEW i \in Ids, Cli(i)
  PROVE  Calm /\ UNCHANGED req
<1>1. ASSUME NEW frames, NEW chunks, NEW next, Emit(i, frames, chunks, next) PROVE Calm /\ UNCHANGED req
  BY <1>1 DEF Emit, Calm, pumping, handling
<1> QED
  BY <1>1 DEF Cli, LocalAnswers, LocalRefuses, LocalSends, LocalEnds, LocalFails

LEMMA PumpStep ==
  ASSUME DoneInv, Pump
  PROVE  DoneInv'
<1> USE DEF DoneInv, others
<1>1. CASE PumpReads
  BY <1>1 DEF PumpReads
<1>2. CASE PumpDelivers
  BY <1>2 DEF PumpDelivers
<1>3. CASE PumpFails
  BY <1>3 DEF PumpFails
<1>4. CASE PumpCloses
  BY <1>4 DEF PumpCloses
<1>5. CASE PumpStops
  BY <1>5 DEF PumpStops
<1>6. ASSUME NEW i \in Ids, PumpTests(i) PROVE DoneInv'
  BY <1>6 DEF PumpTests
<1> QED
  BY <1>1, <1>2, <1>3, <1>4, <1>5, <1>6 DEF Pump

LEMMA HandlerStep ==
  ASSUME DoneInv, NEW i \in Ids, Handler(i)
  PROVE  DoneInv'
<1> USE DEF At, Goto, Places, Calm, tunnel, pumping
<1>1. CASE SendRequest(i) \/ Upload(i)
  <2>1. /\ Calm /\ req[i] \in {"opened", "upload"}
        /\ \E there \in Places : req' = [req EXCEPT ![i] = there]
    BY <1>1 DEF SendRequest, Upload, Written
  <2> QED
    BY <2>1, Move DEF Calm
<1>2. CASE ReadHeaders(i)
  <2>1. Calm /\ req[i] = "headers" /\ \E there \in Places : req' = [req EXCEPT ![i] = there]
    BY <1>2 DEF ReadHeaders
  <2> QED
    BY <2>1, Move DEF Calm
<1>3. CASE ReadBody(i)
  <2>1. Calm /\ req[i] \in {"body", "relay"}
    BY <1>3 DEF ReadBody, Reading
  <2>2. req' = req \/ req' = [req EXCEPT ![i] = "leaving"]
    BY <1>3 DEF ReadBody
  <2> QED
    BY <2>1, <2>2, Move, Stay
<1>4. CASE ReadClosed(i)
  <2>1. Calm /\ req[i] \in {"headers", "body", "relay"} /\ req' = [req EXCEPT ![i] = "leaving"]
    BY <1>4 DEF ReadClosed, Reading
  <2> QED
    BY <2>1, Move
<1>5. CASE RelayUp(i) \/ RelayWriteFails(i)
  <2>1. Calm
    BY <1>5 DEF RelayUp, RelayWriteFails
  <2>2. \/ req[i] = "relay" /\ req' = [req EXCEPT ![i] = "leaving"]
        \/ req' = req
    BY <1>5 DEF RelayUp, RelayWriteFails
  <2> QED
    BY <2>1, <2>2, Move, Stay
<1>6. CASE Remove(i)
  <2>1. Calm /\ req[i] = "leaving" /\ \E there \in Places : req' = [req EXCEPT ![i] = there]
    BY <1>6 DEF Remove
  <2> QED
    BY <2>1, Move
<1>7. CASE CloseDone(i)
  <2>1. /\ req[i] = "closing" /\ req' = [req EXCEPT ![i] = "over"]
        /\ done' = done \cup {i} /\ UNCHANGED <<pump, closed>>
    BY <1>7 DEF CloseDone
  <2>2. panics' = (IF i \in done THEN panics \cup {"handler"} ELSE panics)
    BY <1>7 DEF CloseDone, Twice
  <2>3. ~closed => i \notin done
    BY <2>1 DEF DoneInv
  <2>4. req' \in [Ids -> Places] /\ req'[i] = "over" /\ \A j \in Ids \ {i} : req'[j] = req[j]
    BY <2>1 DEF DoneInv
  <2> QED
    BY <2>1, <2>2, <2>3, <2>4 DEF DoneInv
<1> QED
  BY <1>1, <1>2, <1>3, <1>4, <1>5, <1>6, <1>7 DEF Handler, Runs

LEMMA DoneStep ==
  ASSUME DoneInv, [Next]_vars
  PROVE  DoneInv'
<1>1. CASE TunnelBreaks
  BY <1>1, Stay DEF TunnelBreaks, pumping, handling, Calm
<1>2. CASE Pump
  BY <1>2, PumpStep
<1>3. ASSUME NEW i \in Ids, Cli(i) PROVE DoneInv'
  BY <1>3, CliIsCalm, Stay
<1>4. ASSUME NEW i \in Ids, Open(i) PROVE DoneInv'
  <2>1. Calm /\ req[i] = "none" /\ req' = [req EXCEPT ![i] = "opened"]
    BY <1>4 DEF Open, At, Goto, pumping, Calm
  <2> QED
    BY <2>1, Move DEF Places
<1>5. ASSUME NEW i \in Ids, BrowserLeaves(i) \/ BrowserStalls(i) PROVE DoneInv'
  <2>1. UNCHANGED <<pumping, handling>>
    BY <1>5 DEF BrowserLeaves, BrowserStalls
  <2> QED
    BY <2>1, Stay DEF pumping, handling, Calm
<1>6. ASSUME NEW i \in Ids, Handler(i) PROVE DoneInv'
  BY <1>6, HandlerStep
<1>7. CASE UNCHANGED vars
  BY <1>7, Stay DEF vars, Calm
<1> QED
  BY <1>1, <1>2, <1>3, <1>4, <1>5, <1>6, <1>7 DEF Next

\* A closed channel is closed again, which panics, only once the pump has seen the
\* tunnel end: no interleaving of handlers, their second goroutines and a pump that
\* delivers closes a stream twice (mux.go, removeStream and readPump).
THEOREM PanicsNeedTheTunnelsEnd == Spec => []PanicNeedsTunnelEnd
<1>1. Init => DoneInv
  BY DEF Init, DoneInv, Places
<1>2. DoneInv /\ [Next]_vars => DoneInv'
  BY DoneStep
<1>3. DoneInv => PanicNeedsTunnelEnd
  BY DEF DoneInv, PanicNeedsTunnelEnd
<1> QED
  BY <1>1, <1>2, <1>3, PTL DEF Spec

-----------------------------------------------------------------------------
(* Types. *)

\* A frame in the pump's hand is for the stream the pump is at; a stream that is not
\* ended has room for one more chunk, one without a response has none, and the CLI is
\* idle until the handler has sent its request.
MuxTypes ==
  /\ TypeOK
  /\ \A k \in DOMAIN held : held[k].id = pump.id
  /\ \A i \in Ids :
       /\ cli[i] # "ended" => Len(sent[i]) <= MaxChunks
       /\ cli[i] \in {"idle", "asked"} => sent[i] = <<>>
       /\ req[i] \in {"none", "opened", "upload"} => cli[i] = "idle"

LEMMA Next1 ==
  ASSUME NEW m \in Nat, NEW p \in 1 .. m - 1
  PROVE  p + 1 \in 1 .. m /\ (p + 1) - 1 = p
  OBVIOUS

LEMMA Joined ==
  ASSUME NEW S, NEW s \in Seq(S), NEW t \in Seq(S)
  PROVE  /\ s \o t \in Seq(S) /\ Len(s \o t) = Len(s) + Len(t)
         /\ DOMAIN (s \o t) = 1 .. Len(s) + Len(t)
         /\ \A k \in 1 .. Len(s) : (s \o t)[k] = s[k]
  OBVIOUS

LEMMA JoinedRight ==
  ASSUME NEW S, NEW s \in Seq(S), NEW t \in Seq(S)
  PROVE  \A k \in 1 .. Len(t) : (s \o t)[Len(s) + k] = t[k]
  OBVIOUS

LEMMA JoinedOne ==
  ASSUME NEW S, NEW s \in Seq(S), NEW t \in Seq(S), Len(t) = 1
  PROVE  (s \o t)[Len(s) + 1] = t[1]
<1>1. PICK k \in Nat : k = 1
  OBVIOUS
<1>2. k \in 1 .. Len(t)
  BY <1>1
<1>3. (s \o t)[Len(s) + k] = t[k]
  BY <1>2, JoinedRight
<1> QED
  BY <1>1, <1>3

LEMMA SameSeq ==
  ASSUME NEW S, NEW s \in Seq(S), NEW t \in Seq(S), Len(s) = Len(t),
         \A k \in 1 .. Len(s) : s[k] = t[k]
  PROVE  s = t
  OBVIOUS

LEMMA Single ==
  ASSUME NEW S, NEW t \in Seq(S), Len(t) = 1
  PROVE  t = <<t[1]>> /\ t[1] \in S /\ DOMAIN t = {1}
<1>1. t[1] \in S /\ DOMAIN t = 1 .. 1
  OBVIOUS
<1>2. PICK u \in Seq(S) : u = <<t[1]>>
  BY <1>1
<1>3. Len(u) = 1 /\ u[1] = t[1]
  BY <1>2
<1>4. \A k \in 1 .. Len(t) : t[k] = u[k]
  BY <1>3
<1>5. t = u
  BY <1>3, <1>4, SameSeq
<1> QED
  BY <1>1, <1>2, <1>5

LEMMA Shifts ==
  ASSUME NEW S, NEW s \in Seq(S), NEW t \in Seq(S)
  PROVE  /\ t # <<>> => <<Head(t)>> \o Tail(t) = t
         /\ \A x \in S : Tail(<<x>> \o t) = t
         /\ \A u \in Seq(S) : (s \o t) \o u = s \o (t \o u)
         /\ \A n \in 0 .. Len(t) : s \o SubSeq(t, 1, n) = SubSeq(s \o t, 1, Len(s) + n)
<1>1. t # <<>> => <<Head(t)>> \o Tail(t) = t
  OBVIOUS
<1>2. \A x \in S : Tail(<<x>> \o t) = t
  OBVIOUS
<1>3. \A u \in Seq(S) : (s \o t) \o u = s \o (t \o u)
  OBVIOUS
<1>4. \A n \in 0 .. Len(t) : s \o SubSeq(t, 1, n) = SubSeq(s \o t, 1, Len(s) + n)
  OBVIOUS
<1> QED
  BY <1>1, <1>2, <1>3, <1>4

LEMMA Rest ==
  ASSUME NEW S, NEW s \in Seq(S), s # <<>>
  PROVE  /\ Tail(s) \in Seq(S) /\ s[1] \in S /\ Head(s) = s[1]
         /\ Len(s) \in Nat /\ 1 <= Len(s) /\ Len(Tail(s)) = Len(s) - 1
         /\ DOMAIN Tail(s) = 1 .. Len(s) - 1 /\ DOMAIN s = 1 .. Len(s)
         /\ \A k \in 1 .. Len(s) - 1 : Tail(s)[k] = s[k + 1]
  OBVIOUS

LEMMA OneMore ==
  ASSUME NEW i, NEW q \in Seq(Frames), NEW h \in Seq(Frames), Len(h) = 1, h[1].id = i,
         \A k \in DOMAIN q : q[k].id = i
  PROVE  Len(q \o h) = Len(q) + 1 /\ \A k \in DOMAIN (q \o h) : (q \o h)[k].id = i
<1>1. Len(q) \in Nat /\ DOMAIN q = 1 .. Len(q)
  OBVIOUS
<1>2. DOMAIN (q \o h) = 1 .. Len(q) + Len(h)
  BY Joined
<1>3. Len(q \o h) = Len(q) + Len(h)
  BY Joined
<1>4. \A k \in 1 .. Len(q) : (q \o h)[k] = q[k]
  OBVIOUS
<1>5. (q \o h)[Len(q) + 1] = h[1]
  BY JoinedOne
<1> QED
  BY <1>1, <1>2, <1>3, <1>4, <1>5

LEMMA FrameShape ==
  ASSUME NEW f \in Frames
  PROVE  /\ f.id \in Ids /\ f.type \in {"head", "data", "end"}
         /\ f.type = "data" => f.v \in Chunks
  BY DEF Frames

LEMMA NewFrames ==
  ASSUME NEW i \in Ids
  PROVE  /\ \A v \in Statuses : Headers(i, v) \in Frames
         /\ \A c \in Chunks : Data(i, c) \in Frames
         /\ End(i) \in Frames
  BY DEF Frames, Headers, Data, End

\* What one event of the CLI sends, f, with the chunks c, on the way to the state n:
\* frames of one stream, a head first if it is the first answer, the next chunk if
\* any, and ENDs last.
Shape(i, f, c, n) ==
  /\ \A p \in DOMAIN f : f[p].id = i
  /\ c \in {<<>>, <<Len(sent[i]) + 1>>}
  /\ \A p, q \in DOMAIN f : f[p].type = "data" =>
       /\ Len(c) = 1 /\ f[p].v = Len(sent[i]) + 1
       /\ f[q].type = "data" => p = q
       /\ f[q].type = "end" => p < q
  /\ Len(c) = 1 => \E p \in DOMAIN f : f[p].type = "data"
  /\ n # "ended" => /\ \A p \in DOMAIN f : f[p].type # "end"
                    /\ Len(sent[i]) + Len(c) <= MaxChunks
  /\ cli[i] = "asked" => f # <<>> /\ f[1].type = "head"
  /\ cli[i] \in {"asked", "body", "relay"}

LEMMA CliShape ==
  ASSUME MuxTypes, NEW i \in Ids, Cli(i)
  PROVE  \E f \in Seq(Frames), c \in Seq(Chunks), n \in {"body", "relay", "ended"} :
           Emit(i, f, c, n) /\ Shape(i, f, c, n)
<1>1. sent[i] \in Seq(Chunks) /\ Len(sent[i]) \in Nat
  BY DEF MuxTypes, TypeOK
<1>2. cli[i] # "ended" => Len(sent[i]) <= MaxChunks /\ Len(sent[i]) + 1 \in Chunks
  BY <1>1, BoundsAssumption DEF MuxTypes, Chunks
<1>3. cli[i] = "asked" => Len(sent[i]) = 0
  BY DEF MuxTypes
<1> DEFINE d == Len(sent[i]) + 1
           head(st) == <<Headers(i, st)>>
           data == <<Data(i, d)>>
           both == <<Headers(i, 101), Data(i, d)>>
           last == <<End(i)>>
           lasts == <<End(i), End(i)>>
           all(st) == <<Headers(i, st), Data(i, d), End(i)>>
           none == <<>>
           one == <<d>>
           nexts == {"body", "relay", "ended"}
<1>4. none \in Seq(Chunks) /\ Len(none) = 0 /\ Len(one) = 1 /\ one # none
  OBVIOUS
<1>5. cli[i] # "ended" => d \in Chunks /\ one \in Seq(Chunks)
  BY <1>2
<1>6. ASSUME NEW st \in Statuses
      PROVE  head(st) \in Seq(Frames) /\ last \in Seq(Frames) /\ lasts \in Seq(Frames)
  BY NewFrames
<1>7. ASSUME NEW st \in Statuses, d \in Chunks
      PROVE  data \in Seq(Frames) /\ both \in Seq(Frames) /\ all(st) \in Seq(Frames)
  BY <1>7, NewFrames DEF Statuses
<1>8. 200 \in Statuses /\ 101 \in Statuses /\ 502 \in Statuses
  BY DEF Statuses
<1> USE DEF Shape, Headers, Data, End
<1>9. ASSUME NEW st \in Statuses, NEW n \in nexts, cli[i] = "asked"
      PROVE  Shape(i, head(st), none, n)
  BY <1>1, <1>3, <1>9, BoundsAssumption
<1>10. ASSUME NEW n \in nexts, cli[i] = "asked"
       PROVE  Shape(i, both, one, n)
  BY <1>1, <1>3, <1>4, <1>10, BoundsAssumption
<1>11. ASSUME NEW st \in Statuses, cli[i] \in {"asked", "body"}
       PROVE  Shape(i, all(st), one, "ended")
  <2> DEFINE f == all(st)
  <2>1. DOMAIN f = {1, 2, 3} /\ f[1].type = "head" /\ f[2].type = "data" /\ f[3].type = "end"
    OBVIOUS
  <2>2. f[1].id = i /\ f[2].id = i /\ f[3].id = i /\ f[2].v = d /\ f # <<>>
    OBVIOUS
  <2> HIDE DEF f
  <2>3. Shape(i, f, one, "ended")
    BY <1>4, <1>11, <2>1, <2>2
  <2> QED
    BY <2>3 DEF f
<1>12. ASSUME cli[i] \in {"body", "relay"}, Len(sent[i]) < MaxChunks
       PROVE  Shape(i, data, one, cli[i])
  BY <1>1, <1>4, <1>12, BoundsAssumption
<1>13. ASSUME cli[i] \in {"body", "relay"}
       PROVE  Shape(i, last, none, "ended") /\ Shape(i, lasts, none, "ended")
  BY <1>1, <1>4, <1>13
<1> HIDE DEF Shape, Headers, Data, End, head, data, both, last, lasts, all, none, one
<1>14. CASE LocalAnswers(i)
  <2>1. cli[i] = "asked"
    BY <1>14 DEF LocalAnswers
  <2>2. \/ Emit(i, head(200), none, "body") \/ Emit(i, head(101), none, "relay")
        \/ Emit(i, both, one, "relay")
    BY <1>3, <1>14, <2>1 DEF LocalAnswers, head, both, none, one
  <2>3. CASE Emit(i, head(200), none, "body")
    BY <1>4, <1>6, <1>8, <1>9, <2>1, <2>3
  <2>4. CASE Emit(i, head(101), none, "relay")
    BY <1>4, <1>6, <1>8, <1>9, <2>1, <2>4
  <2>5. CASE Emit(i, both, one, "relay")
    BY <1>5, <1>7, <1>8, <1>10, <2>1, <2>5
  <2> QED
    BY <2>2, <2>3, <2>4, <2>5
<1>15. CASE LocalRefuses(i)
  <2>1. cli[i] = "asked" /\ Emit(i, all(200), one, "ended")
    BY <1>3, <1>15 DEF LocalRefuses, all, one
  <2> QED
    BY <1>4, <1>5, <1>7, <1>8, <1>11, <2>1
<1>16. CASE LocalSends(i)
  <2>1. /\ cli[i] \in {"body", "relay"} /\ Len(sent[i]) < MaxChunks
        /\ Emit(i, data, one, cli[i])
    BY <1>16 DEF LocalSends, data, one
  <2> QED
    BY <1>5, <1>7, <1>8, <1>12, <2>1
<1>17. CASE LocalEnds(i)
  <2>1. /\ cli[i] \in {"body", "relay"}
        /\ Emit(i, last, none, "ended") \/ Emit(i, lasts, none, "ended")
    BY <1>17 DEF LocalEnds, last, lasts, none
  <2> QED
    <3>1. last \in Seq(Frames) /\ lasts \in Seq(Frames)
      BY <1>6, <1>8
    <3>2. Shape(i, last, none, "ended") /\ Shape(i, lasts, none, "ended")
      BY <1>13, <2>1
    <3>3. CASE Emit(i, last, none, "ended")
      BY <1>4, <3>1, <3>2, <3>3
    <3>4. CASE Emit(i, lasts, none, "ended")
      BY <1>4, <3>1, <3>2, <3>4
    <3> QED
      BY <2>1, <3>3, <3>4
<1>18. CASE LocalFails(i)
  <2>1. cli[i] \in {"asked", "body"} /\ Emit(i, all(502), one, "ended")
    BY <1>18 DEF LocalFails, all, one
  <2> QED
    BY <1>5, <1>7, <1>8, <1>11, <2>1
<1> QED
  BY <1>14, <1>15, <1>16, <1>17, <1>18 DEF Cli

LEMMA EmitTypes ==
  ASSUME MuxTypes, NEW i \in Ids, NEW frames \in Seq(Frames), NEW chunks \in Seq(Chunks),
         NEW next \in {"body", "relay", "ended"}, Emit(i, frames, chunks, next),
         cli[i] # "idle", next # "ended" => Len(sent[i]) + Len(chunks) <= MaxChunks
  PROVE  MuxTypes'
<1> USE DEF MuxTypes, TypeOK, Emit, pumping, handling, browser
<1>1. wire' \in Seq(Frames) /\ cli' \in [Ids -> {"idle", "asked", "body", "relay", "ended"}]
  OBVIOUS
<1>2. sent' \in [Ids -> Seq(Chunks)] /\ Len(sent'[i]) = Len(sent[i]) + Len(chunks)
  OBVIOUS
<1>3. \A j \in Ids \ {i} : sent'[j] = sent[j] /\ cli'[j] = cli[j]
  OBVIOUS
<1>4. cli'[i] = next
  OBVIOUS
<1>5. TypeOK'
  BY <1>1, <1>2
<1>6. \A j \in Ids :
        /\ cli'[j] # "ended" => Len(sent'[j]) <= MaxChunks
        /\ cli'[j] \in {"idle", "asked"} => sent'[j] = <<>>
        /\ req'[j] \in {"none", "opened", "upload"} => cli'[j] = "idle"
  BY <1>2, <1>3, <1>4
<1> QED
  BY <1>5, <1>6

LEMMA CliTypes ==
  ASSUME MuxTypes, NEW i \in Ids, Cli(i)
  PROVE  MuxTypes'
<1>1. PICK f \in Seq(Frames), c \in Seq(Chunks), n \in {"body", "relay", "ended"} :
        Emit(i, f, c, n) /\ Shape(i, f, c, n)
  BY CliShape
<1>2. cli[i] # "idle" /\ (n # "ended" => Len(sent[i]) + Len(c) <= MaxChunks)
  BY <1>1 DEF Shape
<1> QED
  BY <1>1, <1>2, EmitTypes

LEMMA PumpTypes ==
  ASSUME MuxTypes, Pump
  PROVE  MuxTypes'
<1> USE DEF MuxTypes, TypeOK, others, browser
<1>1. CASE PumpReads
  <2>1. wire \in Seq(Frames) /\ wire # <<>> /\ Head(wire) \in Frames /\ Tail(wire) \in Seq(Frames)
    BY <1>1 DEF PumpReads
  <2>2. Head(wire).id \in Ids /\ <<Head(wire)>> \in Seq(Frames)
    BY <2>1, FrameShape
  <2>3. CASE Head(wire).id \in streams
    <3>1. /\ held' = <<Head(wire)>> /\ pump' = [at |-> "deliver", id |-> Head(wire).id]
          /\ wire' = Tail(wire)
      BY <1>1, <2>3 DEF PumpReads
    <3>2. Len(held') = 1 /\ \A k \in DOMAIN held' : held'[k].id = pump'.id
      BY <3>1
    <3>3. /\ pump'.at = "deliver" /\ pump'.id \in Ids /\ held' \in Seq(Frames)
          /\ wire' \in Seq(Frames)
      BY <2>1, <2>2, <3>1
    <3> QED
      BY <1>1, <3>2, <3>3 DEF PumpReads
  <2>4. CASE Head(wire).id \notin streams
    BY <1>1, <2>1, <2>4 DEF PumpReads
  <2> QED
    BY <2>3, <2>4
<1>2. CASE PumpDelivers
  <2>1. pump.id \in Ids /\ Len(held) = 1 /\ held \in Seq(Frames)
    BY <1>2 DEF PumpDelivers
  <2>2. ASSUME Len(queue[pump.id]) < Cap, queue' = [queue EXCEPT ![pump.id] = @ \o held]
        PROVE  /\ queue' \in [Ids -> Seq(Frames)]
               /\ \A i \in Ids : /\ Len(queue'[i]) <= Cap
                                 /\ \A k \in DOMAIN queue'[i] : queue'[i][k].id = i
    <3> DEFINE q == queue[pump.id]
    <3>1. q \in Seq(Frames) /\ Len(q) \in Nat /\ q \o held \in Seq(Frames)
      BY <2>1
    <3>2. /\ Len(q \o held) = Len(q) + 1
          /\ \A k \in DOMAIN (q \o held) : (q \o held)[k].id = pump.id
      <4>1. held[1].id = pump.id /\ \A k \in DOMAIN q : q[k].id = pump.id
        BY <2>1, <3>1
      <4> HIDE DEF q, MuxTypes, TypeOK
      <4> QED
        BY <2>1, <3>1, <4>1, OneMore
    <3>3. /\ queue' \in [Ids -> Seq(Frames)] /\ queue'[pump.id] = q \o held
          /\ \A j \in Ids \ {pump.id} : queue'[j] = queue[j]
      BY <2>1, <2>2, <3>1
    <3> QED
      BY <2>1, <2>2, <3>1, <3>2, <3>3, BoundsAssumption
  <2>3. /\ queue' \in [Ids -> Seq(Frames)]
        /\ \A i \in Ids : Len(queue'[i]) <= Cap /\ \A k \in DOMAIN queue'[i] : queue'[i][k].id = i
    BY <1>2, <2>2 DEF PumpDelivers
  <2> QED
    BY <1>2, <2>3 DEF PumpDelivers
<1>3. CASE PumpFails
  BY <1>3 DEF PumpFails
<1>4. CASE PumpCloses
  BY <1>4 DEF PumpCloses, Twice
<1>5. CASE PumpStops
  BY <1>5 DEF PumpStops
<1>6. ASSUME NEW i \in Ids, PumpTests(i) PROVE MuxTypes'
  BY <1>6 DEF PumpTests
<1> QED
  BY <1>1, <1>2, <1>3, <1>4, <1>5, <1>6 DEF Pump

LEMMA HandlerTypes ==
  ASSUME MuxTypes, NEW i \in Ids, Handler(i)
  PROVE  MuxTypes'
<1> USE DEF MuxTypes, TypeOK, tunnel, pumping, browser, At, Goto, OverAs, Places
<1>1. ASSUME Take(i)
      PROVE  /\ queue' \in [Ids -> Seq(Frames)] /\ queue[i][1] \in Frames
             /\ \A j \in Ids : Len(queue'[j]) <= Cap /\ \A k \in DOMAIN queue'[j] : queue'[j][k].id = j
  <2>1. queue[i] \in Seq(Frames) /\ queue[i] # <<>>
    BY <1>1 DEF Take
  <2>2. queue' \in [Ids -> Seq(Frames)] /\ queue'[i] = Tail(queue[i]) /\ queue[i][1] \in Frames
    BY <1>1, <2>1 DEF Take
  <2>3. Len(queue'[i]) <= Cap /\ \A k \in DOMAIN queue'[i] : queue'[i][k].id = i
    <3>1. Len(queue[i]) <= Cap /\ \A k \in DOMAIN queue[i] : queue[i][k].id = i
      OBVIOUS
    <3> QED
      BY <2>1, <2>2, <3>1, Rest, BoundsAssumption
  <2>4. \A j \in Ids \ {i} : queue'[j] = queue[j]
    BY <1>1 DEF Take
  <2> QED
    BY <2>2, <2>3, <2>4
<1>2. CASE SendRequest(i) \/ Upload(i)
  <2>0. req[i] \in {"opened", "upload"} /\ cli[i] = "idle"
    BY <1>2 DEF SendRequest, Upload
  <2>1. /\ cli' \in [Ids -> {"idle", "asked", "body", "relay", "ended"}]
        /\ req' \in [Ids -> Places]
        /\ how' \in [Ids -> {"open", "whole", "cut", "left", "refused"}]
    <3>1. /\ cli' = cli \/ cli' = [cli EXCEPT ![i] = "asked"]
          /\ \E there \in {"upload", "headers", "leaving"} : req' = [req EXCEPT ![i] = there]
          /\ how' = how \/ how' = [how EXCEPT ![i] = "cut"]
      BY <1>2 DEF SendRequest, Upload, Written
    <3>2. cli' \in [Ids -> {"idle", "asked", "body", "relay", "ended"}]
      BY <3>1
    <3>3. req' \in [Ids -> Places]
      BY <3>1
    <3>4. how' \in [Ids -> {"open", "whole", "cut", "left", "refused"}]
      BY <3>1
    <3> QED
      BY <3>2, <3>3, <3>4
  <2>2. \A j \in Ids : cli'[j] = cli[j] \/ (cli[j] = "idle" /\ cli'[j] = "asked")
    BY <1>2, <2>0 DEF SendRequest, Upload, Written
  <2>3. \A j \in Ids : req'[j] \in {"none", "opened", "upload"} => cli'[j] = "idle"
    <3>1. CASE req' = [req EXCEPT ![i] = "upload"] /\ cli' = cli
      BY <2>0, <3>1
    <3>2. CASE /\ req' = [req EXCEPT ![i] = "headers"] \/ req' = [req EXCEPT ![i] = "leaving"]
               /\ cli' = cli \/ cli' = [cli EXCEPT ![i] = "asked"]
      BY <2>0, <3>2
    <3> QED
      BY <1>2, <3>1, <3>2 DEF SendRequest, Upload, Written
  <2>4. /\ UNCHANGED <<tunnel, pumping, sent, browser, streams, done, queue, got, upward, panics>>
    BY <1>2 DEF SendRequest, Upload, Written
  <2> QED
    BY <2>1, <2>2, <2>3, <2>4
<1>3. CASE ReadHeaders(i)
  <2>1. /\ upward' \subseteq Ids
        /\ req' \in [Ids -> Places]
        /\ how' \in [Ids -> {"open", "whole", "cut", "left", "refused"}]
    <3>1. /\ upward' \in {upward, upward \cup {i}}
          /\ \E there \in {"body", "relay", "leaving"} : req' = [req EXCEPT ![i] = there]
          /\ how' = how \/ how' = [how EXCEPT ![i] = "refused"]
      BY <1>3 DEF ReadHeaders
    <3>2. upward' \subseteq Ids
      BY <3>1
    <3>3. req' \in [Ids -> Places]
      BY <3>1
    <3>4. how' \in [Ids -> {"open", "whole", "cut", "left", "refused"}]
      BY <3>1
    <3> QED
      BY <3>2, <3>3, <3>4
  <2>2. Take(i) /\ UNCHANGED <<up, wire, pump, held, closed, cli, sent, gone, stalled, streams, done, got, panics>>
    BY <1>3 DEF ReadHeaders
  <2>3. \A j \in Ids : req'[j] \in {"none", "opened", "upload"} => cli[j] = "idle"
    BY <1>3 DEF ReadHeaders
  <2> QED
    BY <1>1, <2>1, <2>2, <2>3
<1>4. CASE ReadBody(i)
  <2>1. got' \in [Ids -> Seq(Chunks)]
    <3>1. queue[i][1].type = "data" => queue[i][1].v \in Chunks
      BY <1>1, <1>4, FrameShape DEF ReadBody
    <3> DEFINE c == queue[i][1].v
    <3>4. got \in [Ids -> Seq(Chunks)]
      OBVIOUS
    <3> HIDE DEF MuxTypes, TypeOK
    <3>2. got' = got \/ (queue[i][1].type = "data" /\ got' = [got EXCEPT ![i] = Append(@, queue[i][1].v)])
      BY <1>4 DEF ReadBody
    <3>3. ASSUME NEW x \in Chunks
          PROVE  [got EXCEPT ![i] = Append(@, x)] \in [Ids -> Seq(Chunks)]
      BY <3>4
    <3>5. CASE got' = got
      BY <3>4, <3>5
    <3>6. CASE c \in Chunks /\ got' = [got EXCEPT ![i] = Append(@, c)]
      <4> HIDE DEF c
      <4> QED
        BY <3>3, <3>6
    <3> QED
      BY <3>1, <3>2, <3>5, <3>6
  <2>2. Take(i) /\ req' \in [Ids -> Places]
        /\ how' \in [Ids -> {"open", "whole", "cut", "left", "refused"}]
    BY <1>4 DEF ReadBody
  <2> QED
    BY <1>1, <1>4, <2>1, <2>2 DEF ReadBody
<1>5. CASE ReadClosed(i)
  BY <1>5 DEF ReadClosed
<1>6. CASE RelayUp(i) \/ RelayWriteFails(i)
  <2>1. /\ req' \in [Ids -> Places]
        /\ how' \in [Ids -> {"open", "whole", "cut", "left", "refused"}]
        /\ upward' \subseteq Ids
        /\ \A j \in Ids : req'[j] \in {"none", "opened", "upload"} => req[j] = req'[j]
    <3>1. /\ req' = req \/ req' = [req EXCEPT ![i] = "leaving"]
          /\ \/ how' = how \/ how' = [how EXCEPT ![i] = "left"]
             \/ how' = [how EXCEPT ![i] = "cut"]
          /\ upward' = upward \ {i}
      BY <1>6 DEF RelayUp, RelayWriteFails
    <3>2. how' \in [Ids -> {"open", "whole", "cut", "left", "refused"}]
      BY <3>1
    <3> QED
      BY <3>1, <3>2
  <2>2. UNCHANGED <<tunnel, pumping, cli, sent, browser, streams, done, queue, got, panics>>
    BY <1>6 DEF RelayUp, RelayWriteFails
  <2> QED
    BY <2>1, <2>2
<1>7. CASE Remove(i)
  <2>1. /\ queue' \in [Ids -> Seq(Frames)]
        /\ \A j \in Ids : Len(queue'[j]) <= Cap /\ \A k \in DOMAIN queue'[j] : queue'[j][k].id = j
    BY <1>7, BoundsAssumption DEF Remove
  <2> QED
    BY <1>7, <2>1 DEF Remove
<1>8. CASE CloseDone(i)
  BY <1>8 DEF CloseDone, Twice
<1> QED
  BY <1>2, <1>3, <1>4, <1>5, <1>6, <1>7, <1>8 DEF Handler, Runs

LEMMA TypesStep ==
  ASSUME MuxTypes, [Next]_vars
  PROVE  MuxTypes'
<1> USE DEF pumping, handling, browser, tunnel
<1>1. CASE TunnelBreaks
  <2>1. wire' \in Seq(Frames)
    BY <1>1 DEF TunnelBreaks, MuxTypes, TypeOK
  <2> QED
    BY <1>1, <2>1 DEF TunnelBreaks, MuxTypes, TypeOK
<1>2. CASE Pump
  BY <1>2, PumpTypes
<1>3. ASSUME NEW i \in Ids, Cli(i) PROVE MuxTypes'
  BY <1>3, CliTypes
<1>4. ASSUME NEW i \in Ids, Open(i) PROVE MuxTypes'
  BY <1>4 DEF Open, At, Goto, MuxTypes, TypeOK
<1>5. ASSUME NEW i \in Ids, BrowserLeaves(i) \/ BrowserStalls(i) PROVE MuxTypes'
  <2>1. gone' \subseteq Ids /\ stalled' \subseteq Ids
    BY <1>5 DEF BrowserLeaves, BrowserStalls, MuxTypes, TypeOK
  <2>2. UNCHANGED <<tunnel, pumping, cli, sent, handling>>
    BY <1>5 DEF BrowserLeaves, BrowserStalls
  <2> QED
    BY <2>1, <2>2 DEF MuxTypes, TypeOK
<1>6. ASSUME NEW i \in Ids, Handler(i) PROVE MuxTypes'
  BY <1>6, HandlerTypes
<1>7. CASE UNCHANGED vars
  BY <1>7 DEF vars, MuxTypes, TypeOK
<1> QED
  BY <1>1, <1>2, <1>3, <1>4, <1>5, <1>6, <1>7 DEF Next

LEMMA TypesStart == Init => MuxTypes
<1> SUFFICES ASSUME Init PROVE MuxTypes
  OBVIOUS
<1>1. queue \in [Ids -> Seq(Frames)] /\ sent \in [Ids -> Seq(Chunks)] /\ got \in [Ids -> Seq(Chunks)]
  BY DEF Init
<1>2. \A i \in Ids : queue[i] = <<>> /\ sent[i] = <<>> /\ cli[i] = "idle"
  BY DEF Init
<1>3. wire = <<>> /\ held = <<>> /\ pump = [at |-> "read", id |-> 0] /\ closed = FALSE
  BY DEF Init
<1>4. /\ req \in [Ids -> Places]
      /\ cli \in [Ids -> {"idle", "asked", "body", "relay", "ended"}]
      /\ how \in [Ids -> {"open", "whole", "cut", "left", "refused"}]
      /\ \A s \in {streams, done, upward, gone, stalled} : s \subseteq Ids
  BY DEF Init, Places
<1>5. \A i \in Ids : Len(queue[i]) <= Cap /\ \A k \in DOMAIN queue[i] : queue[i][k].id = i
  BY <1>2, BoundsAssumption
<1>6. wire \in Seq(Frames) /\ held \in Seq(Frames) /\ Len(held) = 0
  BY <1>3
<1>7. /\ up \in BOOLEAN /\ closed \in BOOLEAN /\ wire \in Seq(Frames) /\ held \in Seq(Frames)
      /\ panics \subseteq {"handler", "pump"}
  BY <1>3, <1>6 DEF Init
<1>8. TypeOK
  BY <1>1, <1>3, <1>4, <1>5, <1>6, <1>7 DEF TypeOK, Places
<1> QED
  BY <1>2, <1>3, <1>8, BoundsAssumption DEF MuxTypes

\* Types: the frames a queue holds are its stream's own and never more than its
\* capacity, the pump holds one frame exactly while it delivers, and m.closed is
\* closed exactly when the pump has left its loop (mux.go, readPump).
THEOREM MuxTypesHold == Spec => []TypeOK
<1>1. MuxTypes => TypeOK
  BY DEF MuxTypes
<1> QED
  BY <1>1, TypesStart, TypesStep, PTL DEF Spec

-----------------------------------------------------------------------------
(* What is in flight. *)

\* What the tunnel holds: the frame in the pump's hand and those behind it.
Line == held \o wire

IsData(f, i, k) == f.id = i /\ f.type = "data" /\ f.v = k

\* The chunks of stream i among the frames s are numbered from lo + 1 without a gap
\* or a repetition, and an END of i comes after all of them up to hi.
DataInPlace(i, s, lo, p) ==
  /\ \A k \in lo + 1 .. s[p].v - 1 : \E q \in 1 .. p - 1 : IsData(s[q], i, k)
  /\ \A q \in 1 .. p - 1 : ~IsData(s[q], i, s[p].v)

EndInPlace(i, s, lo, hi, p) == \A k \in lo + 1 .. hi : \E q \in 1 .. p - 1 : IsData(s[q], i, k)

Ordered(i, s, lo, hi) ==
  \A p \in DOMAIN s : s[p].id = i =>
    /\ s[p].type = "data" => s[p].v \in lo + 1 .. hi /\ DataInPlace(i, s, lo, p)
    /\ s[p].type = "end" => EndInPlace(i, s, lo, hi, p)

Full(i, s, lo, hi) == \A k \in lo + 1 .. hi : \E p \in DOMAIN s : IsData(s[p], i, k)

Has(i, s, type) == \E p \in DOMAIN s : s[p].id = i /\ s[p].type = type

HeadFirst(i, s) ==
  \A p \in DOMAIN s : s[p].id = i /\ s[p].type # "head"
    => \E q \in 1 .. p - 1 : s[q].id = i /\ s[q].type = "head"

LEMMA Places2 ==
  ASSUME NEW s \in Seq(Frames), NEW f \in Seq(Frames)
  PROVE  /\ DOMAIN s = 1 .. Len(s) /\ DOMAIN f = 1 .. Len(f) /\ Len(s) \in Nat /\ Len(f) \in Nat
         /\ DOMAIN (s \o f) = 1 .. Len(s) + Len(f)
         /\ \A p \in 1 .. Len(s) : (s \o f)[p] = s[p]
         /\ \A p \in 1 .. Len(f) : (s \o f)[Len(s) + p] = f[p]
         /\ \A p \in DOMAIN (s \o f) : p > Len(s) => p - Len(s) \in DOMAIN f /\ (s \o f)[p] = f[p - Len(s)]
<1>1. DOMAIN s = 1 .. Len(s) /\ DOMAIN f = 1 .. Len(f) /\ Len(s) \in Nat /\ Len(f) \in Nat
  OBVIOUS
<1>2. DOMAIN (s \o f) = 1 .. Len(s) + Len(f)
  BY Joined
<1>3. \A p \in 1 .. Len(s) : (s \o f)[p] = s[p]
  BY Joined
<1>4. \A p \in 1 .. Len(f) : (s \o f)[Len(s) + p] = f[p]
  BY JoinedRight
<1>5. ASSUME NEW p \in 1 .. Len(s) + Len(f), p > Len(s)
      PROVE  p - Len(s) \in DOMAIN f /\ (s \o f)[p] = f[p - Len(s)]
  <2>1. PICK r \in 1 .. Len(f) : p = Len(s) + r /\ r = p - Len(s)
    BY <1>1, <1>5
  <2> QED
    BY <1>1, <1>4, <2>1
<1> QED
  BY <1>1, <1>2, <1>3, <1>4, <1>5

\* A frame's place depends on the frames before it only.
LEMMA SameBefore ==
  ASSUME NEW i, NEW s, NEW t, NEW lo, NEW hi, NEW p \in Nat, p > 0,
         \A q \in 1 .. p : t[q] = s[q]
  PROVE  /\ DataInPlace(i, s, lo, p) => DataInPlace(i, t, lo, p)
         /\ EndInPlace(i, s, lo, hi, p) => EndInPlace(i, t, lo, hi, p)
<1>1. s[p] = t[p] /\ \A q \in 1 .. p - 1 : t[q] = s[q]
  OBVIOUS
<1> QED
  BY <1>1 DEF DataInPlace, EndInPlace

\* Frames of other streams change nothing for stream i.
LEMMA PushOther ==
  ASSUME NEW i, NEW s \in Seq(Frames), NEW f \in Seq(Frames), NEW lo \in Nat, NEW hi \in Nat,
         \A p \in DOMAIN f : f[p].id # i
  PROVE  /\ Ordered(i, s, lo, hi) => Ordered(i, s \o f, lo, hi)
         /\ Full(i, s, lo, hi) => Full(i, s \o f, lo, hi)
         /\ \A type : Has(i, s \o f, type) <=> Has(i, s, type)
         /\ HeadFirst(i, s) => HeadFirst(i, s \o f)
         /\ (\A p \in DOMAIN s : s[p].id # i) => \A p \in DOMAIN (s \o f) : (s \o f)[p].id # i
<1> DEFINE t == s \o f  m == Len(s)
<1>1. /\ DOMAIN s = 1 .. m /\ m \in Nat /\ DOMAIN t = 1 .. m + Len(f) /\ Len(f) \in Nat
      /\ \A p \in 1 .. m : t[p] = s[p]
      /\ \A p \in DOMAIN t : p > m => t[p].id # i
  BY Places2
<1> HIDE DEF t, m
<1>2. ASSUME Ordered(i, s, lo, hi) PROVE Ordered(i, t, lo, hi)
  <2> SUFFICES ASSUME NEW p \in DOMAIN t, t[p].id = i
               PROVE  /\ t[p].type = "data" => t[p].v \in lo + 1 .. hi /\ DataInPlace(i, t, lo, p)
                      /\ t[p].type = "end" => EndInPlace(i, t, lo, hi, p)
    BY DEF Ordered
  <2>1. p \in 1 .. m /\ p \in Nat /\ p > 0 /\ t[p] = s[p] /\ \A q \in 1 .. p : t[q] = s[q]
    BY <1>1
  <2>2. /\ s[p].type = "data" => s[p].v \in lo + 1 .. hi /\ DataInPlace(i, s, lo, p)
        /\ s[p].type = "end" => EndInPlace(i, s, lo, hi, p)
    BY <1>1, <1>2, <2>1 DEF Ordered
  <2> QED
    BY <2>1, <2>2, SameBefore
<1>3. ASSUME Full(i, s, lo, hi) PROVE Full(i, t, lo, hi)
  BY <1>1, <1>3 DEF Full
<1>4. \A type : Has(i, t, type) <=> Has(i, s, type)
  BY <1>1 DEF Has
<1>5. ASSUME HeadFirst(i, s) PROVE HeadFirst(i, t)
  BY <1>1, <1>5 DEF HeadFirst
<1>6. ASSUME \A p \in DOMAIN s : s[p].id # i PROVE \A p \in DOMAIN t : t[p].id # i
  BY <1>1, <1>6
<1> QED
  BY <1>2, <1>3, <1>4, <1>5, <1>6 DEF t

\* The next chunk, if any, and an END behind everything: still without a gap.
LEMMA PushOwn ==
  ASSUME NEW i, NEW s \in Seq(Frames), NEW f \in Seq(Frames), NEW lo \in Nat, NEW hi \in Nat,
         NEW c \in {0, 1}, lo <= hi,
         \A p \in DOMAIN f : f[p].id = i,
         \A p, q \in DOMAIN f : f[p].type = "data" =>
            /\ c = 1 /\ f[p].v = hi + 1
            /\ f[q].type = "data" => p = q
            /\ f[q].type = "end" => p < q,
         c = 1 => \E p \in DOMAIN f : f[p].type = "data",
         Ordered(i, s, lo, hi), Full(i, s, lo, hi), c = 1 => ~Has(i, s, "end")
  PROVE  Ordered(i, s \o f, lo, hi + c) /\ Full(i, s \o f, lo, hi + c)
<1> DEFINE t == s \o f  m == Len(s)
<1>1. /\ DOMAIN s = 1 .. m /\ m \in Nat /\ DOMAIN t = 1 .. m + Len(f) /\ Len(f) \in Nat
      /\ DOMAIN f = 1 .. Len(f)
      /\ \A p \in 1 .. m : t[p] = s[p]
      /\ \A p \in 1 .. Len(f) : t[m + p] = f[p]
      /\ \A p \in DOMAIN t : p > m => p - m \in DOMAIN f /\ t[p] = f[p - m]
  BY Places2
<1> HIDE DEF t, m
<1>2. \A k \in lo + 1 .. hi : \E q \in 1 .. m : IsData(t[q], i, k)
  BY <1>1 DEF Full
<1>3. c = 1 => \E p \in 1 .. Len(f) : IsData(t[m + p], i, hi + 1)
  BY <1>1 DEF IsData
<1>4. Full(i, t, lo, hi + c)
  <2> SUFFICES ASSUME NEW k \in lo + 1 .. hi + c PROVE \E p \in DOMAIN t : IsData(t[p], i, k)
    BY DEF Full
  <2>1. CASE k <= hi
    <3>1. k \in lo + 1 .. hi
      BY <2>1
    <3>2. PICK q \in 1 .. m : IsData(t[q], i, k)
      BY <1>2, <3>1
    <3> QED
      BY <1>1, <3>2
  <2>2. CASE k > hi
    <3>1. c = 1 /\ k = hi + 1
      BY <2>2
    <3>2. PICK p \in 1 .. Len(f) : IsData(t[m + p], i, hi + 1)
      BY <1>3, <3>1
    <3>3. m + p \in DOMAIN t
      BY <1>1
    <3> QED
      BY <3>1, <3>2, <3>3
  <2> QED
    BY <2>1, <2>2
<1>5. ASSUME NEW p \in DOMAIN t, t[p].id = i, t[p].type = "data"
      PROVE  t[p].v \in lo + 1 .. hi + c /\ DataInPlace(i, t, lo, p)
  <2>1. CASE p <= m
    <3>1. p \in DOMAIN s /\ p \in Nat /\ p > 0 /\ t[p] = s[p] /\ \A q \in 1 .. p : t[q] = s[q]
      BY <1>1, <2>1
    <3>2. s[p].v \in lo + 1 .. hi /\ DataInPlace(i, s, lo, p)
      BY <1>5, <3>1 DEF Ordered
    <3>3. s[p].v \in lo + 1 .. hi + c
      BY <3>2
    <3> QED
      BY <3>1, <3>2, <3>3, SameBefore
  <2>2. CASE p > m
    <3>1. p - m \in DOMAIN f /\ t[p] = f[p - m]
      BY <1>1, <2>2
    <3>2. c = 1 /\ t[p].v = hi + 1
      BY <1>5, <3>1
    <3>3. \A k \in lo + 1 .. hi : \E q \in 1 .. p - 1 : IsData(t[q], i, k)
      BY <1>1, <1>2, <2>2
    <3>4. ASSUME NEW q \in 1 .. p - 1, IsData(t[q], i, hi + 1) PROVE FALSE
      <4>1. CASE q <= m
        <5>1. q \in DOMAIN s /\ t[q] = s[q]
          BY <1>1, <2>2, <4>1
        <5>2. s[q].id = i /\ s[q].type = "data" /\ s[q].v = hi + 1
          BY <3>4, <5>1 DEF IsData
        <5> QED
          BY <5>1, <5>2 DEF Ordered
      <4>2. CASE q > m
        <5>1. q \in DOMAIN t
          BY <1>1, <2>2
        <5>2. q - m \in DOMAIN f /\ f[q - m].type = "data"
          BY <1>1, <3>4, <4>2, <5>1 DEF IsData
        <5>3. f[p - m].type = "data"
          BY <1>5, <3>1
        <5>4. q - m = p - m
          BY <3>1, <5>2, <5>3
        <5> QED
          BY <1>1, <5>1, <5>4
      <4> QED
        BY <1>1, <4>1, <4>2
    <3> QED
      BY <3>2, <3>3, <3>4 DEF DataInPlace
  <2> QED
    BY <1>1, <2>1, <2>2
<1>6. ASSUME NEW p \in DOMAIN t, t[p].id = i, t[p].type = "end", NEW k \in lo + 1 .. hi + c
      PROVE  \E q \in 1 .. p - 1 : IsData(t[q], i, k)
  <2>0. CASE p <= m
    <3>1. p \in DOMAIN s /\ p \in Nat /\ p > 0 /\ t[p] = s[p] /\ \A q \in 1 .. p : t[q] = s[q]
      BY <1>1, <2>0
    <3>2. c = 0 /\ k \in lo + 1 .. hi
      BY <1>6, <3>1 DEF Has
    <3>3. EndInPlace(i, s, lo, hi, p)
      BY <1>6, <3>1 DEF Ordered
    <3>4. EndInPlace(i, t, lo, hi, p)
      BY <3>1, <3>3, SameBefore
    <3> QED
      BY <3>2, <3>4 DEF EndInPlace
  <2> SUFFICES ASSUME p > m PROVE \E q \in 1 .. p - 1 : IsData(t[q], i, k)
    BY <1>1, <2>0
  <2>1. p - m \in DOMAIN f /\ f[p - m].type = "end"
    BY <1>1, <1>6
  <2>2. CASE k <= hi
    <3>1. k \in lo + 1 .. hi
      BY <2>2
    <3>2. PICK q \in 1 .. m : IsData(t[q], i, k)
      BY <1>2, <3>1
    <3>3. q \in 1 .. p - 1
      BY <1>1, <2>1
    <3> QED
      BY <3>2, <3>3
  <2>3. CASE k > hi
    <3>1. c = 1 /\ k = hi + 1
      BY <2>3
    <3>2. PICK d \in DOMAIN f : f[d].type = "data"
      BY <3>1
    <3>3. d < p - m /\ f[d].v = hi + 1
      BY <2>1, <3>2
    <3>4. IsData(t[m + d], i, k) /\ m + d \in 1 .. p - 1
      BY <1>1, <3>1, <3>2, <3>3 DEF IsData
    <3> QED
      BY <3>4
  <2> QED
    BY <2>2, <2>3
<1>7. Ordered(i, t, lo, hi + c)
  BY <1>5, <1>6 DEF Ordered, EndInPlace
<1> QED
  BY <1>4, <1>7 DEF t

\* Heads and ENDs alone.
LEMMA PushNone ==
  ASSUME NEW i, NEW s \in Seq(Frames), NEW f \in Seq(Frames), NEW lo \in Nat, NEW hi \in Nat,
         lo <= hi, \A p \in DOMAIN f : f[p].id = i /\ f[p].type # "data",
         Ordered(i, s, lo, hi), Full(i, s, lo, hi)
  PROVE  Ordered(i, s \o f, lo, hi) /\ Full(i, s \o f, lo, hi)
<1>1. PICK c \in {0, 1} : c = 0
  OBVIOUS
<1>2. \A p, q \in DOMAIN f : f[p].type = "data" =>
        /\ c = 1 /\ f[p].v = hi + 1
        /\ f[q].type = "data" => p = q
        /\ f[q].type = "end" => p < q
  OBVIOUS
<1>3. /\ \A p \in DOMAIN f : f[p].id = i
      /\ c = 1 => \E p \in DOMAIN f : f[p].type = "data"
      /\ c = 1 => ~Has(i, s, "end")
  BY <1>1
<1>4. Ordered(i, s \o f, lo, hi + c) /\ Full(i, s \o f, lo, hi + c)
  BY <1>2, <1>3, PushOwn
<1>5. hi + c = hi
  BY <1>1
<1> QED
  BY <1>4, <1>5

LEMMA PushedFacts ==
  ASSUME NEW i, NEW s \in Seq(Frames), NEW f \in Seq(Frames)
  PROVE  /\ \A type : Has(i, s \o f, type) => Has(i, s, type) \/ Has(i, f, type)
         /\ \A type : Has(i, s, type) \/ Has(i, f, type) => Has(i, s \o f, type)
         /\ (\A p \in DOMAIN f : f[p].id = i) /\ HeadFirst(i, s)
              /\ (Has(i, s, "head") \/ (f # <<>> /\ f[1].type = "head"))
            => HeadFirst(i, s \o f) /\ Has(i, s \o f, "head")
         /\ s # <<>> => (s \o f)[1] = s[1]
<1> DEFINE t == s \o f  m == Len(s)
<1>1. /\ DOMAIN s = 1 .. m /\ m \in Nat /\ DOMAIN t = 1 .. m + Len(f) /\ Len(f) \in Nat
      /\ DOMAIN f = 1 .. Len(f)
      /\ \A p \in 1 .. m : t[p] = s[p]
      /\ \A p \in 1 .. Len(f) : t[m + p] = f[p]
      /\ \A p \in DOMAIN t : p > m => p - m \in DOMAIN f /\ t[p] = f[p - m]
  BY Places2
<1>2. (s # <<>> => m >= 1) /\ (f # <<>> => Len(f) >= 1)
  OBVIOUS
<1> HIDE DEF t, m
<1>3. ASSUME NEW type, Has(i, t, type) PROVE Has(i, s, type) \/ Has(i, f, type)
  <2>1. PICK p \in DOMAIN t : t[p].id = i /\ t[p].type = type
    BY <1>3 DEF Has
  <2>2. CASE p <= m
    BY <1>1, <2>1, <2>2 DEF Has
  <2>3. CASE p > m
    BY <1>1, <2>1, <2>3 DEF Has
  <2> QED
    BY <1>1, <2>2, <2>3
<1>4. ASSUME NEW type, Has(i, s, type) PROVE Has(i, t, type)
  BY <1>1, <1>4 DEF Has
<1>5. ASSUME NEW type, Has(i, f, type) PROVE Has(i, t, type)
  <2>1. PICK p \in 1 .. Len(f) : f[p].id = i /\ f[p].type = type
    BY <1>1, <1>5 DEF Has
  <2>2. m + p \in DOMAIN t /\ t[m + p] = f[p]
    BY <1>1
  <2> QED
    BY <2>1, <2>2 DEF Has
<1>6. ASSUME \A p \in DOMAIN f : f[p].id = i, HeadFirst(i, s),
             Has(i, s, "head") \/ (f # <<>> /\ f[1].type = "head")
      PROVE  HeadFirst(i, t) /\ Has(i, t, "head")
  <2>1. Has(i, t, "head")
    <3>1. f # <<>> /\ f[1].type = "head" => Has(i, f, "head")
      BY <1>1, <1>2, <1>6 DEF Has
    <3> QED
      BY <1>4, <1>5, <1>6, <3>1
  <2>2. ASSUME NEW p \in DOMAIN t, t[p].id = i, t[p].type # "head"
        PROVE  \E q \in 1 .. p - 1 : t[q].id = i /\ t[q].type = "head"
    <3>1. CASE p <= m
      <4>1. p \in DOMAIN s /\ s[p] = t[p] /\ \A q \in 1 .. p - 1 : t[q] = s[q]
        BY <1>1, <3>1
      <4> QED
        BY <1>6, <2>2, <4>1 DEF HeadFirst
    <3>2. CASE p > m
      <4>1. CASE Has(i, s, "head")
        <5>1. PICK q \in 1 .. m : s[q].id = i /\ s[q].type = "head"
          BY <1>1, <4>1 DEF Has
        <5>2. q \in 1 .. p - 1 /\ t[q] = s[q]
          BY <1>1, <3>2
        <5> QED
          BY <5>1, <5>2
      <4>2. CASE f # <<>> /\ f[1].type = "head"
        <5>1. 1 \in 1 .. Len(f) /\ f[1].id = i
          BY <1>1, <1>2, <1>6, <4>2
        <5>2. t[m + 1] = f[1]
          BY <1>1, <5>1
        <5>3. p # m + 1
          BY <2>2, <4>2, <5>2
        <5>4. m + 1 \in 1 .. p - 1
          BY <1>1, <3>2, <5>3
        <5> QED
          BY <4>2, <5>1, <5>2, <5>4
      <4> QED
        BY <1>6, <4>1, <4>2
    <3> QED
      BY <1>1, <3>1, <3>2
  <2> QED
    BY <2>1, <2>2 DEF HeadFirst
<1>7. s # <<>> => t[1] = s[1]
  BY <1>1, <1>2
<1> QED
  BY <1>3, <1>4, <1>5, <1>6, <1>7 DEF t

LEMMA PopOther ==
  ASSUME NEW i, NEW s \in Seq(Frames), s # <<>>, NEW lo \in Nat, NEW hi \in Nat,
         s[1].id # i \/ s[1].type # "data"
  PROVE  /\ Ordered(i, s, lo, hi) => Ordered(i, Tail(s), lo, hi)
         /\ Full(i, s, lo, hi) => Full(i, Tail(s), lo, hi)
<1> DEFINE t == Tail(s)  m == Len(s)
<1>1. /\ DOMAIN s = 1 .. m /\ m \in Nat /\ m >= 1 /\ DOMAIN t = 1 .. m - 1
      /\ \A p \in 1 .. m - 1 : t[p] = s[p + 1]
  BY Rest
<1> HIDE DEF t, m
<1>2. \A k : ~IsData(s[1], i, k)
  BY DEF IsData
<1>3. ASSUME NEW k, NEW p \in 1 .. m, NEW q \in 1 .. p, IsData(s[q], i, k)
      PROVE  q - 1 \in 1 .. p - 1 /\ IsData(t[q - 1], i, k)
  <2>1. q # 1
    BY <1>2, <1>3
  <2>2. q - 1 \in 1 .. m - 1 /\ q - 1 \in 1 .. p - 1 /\ (q - 1) + 1 = q
    BY <1>1, <2>1
  <2> QED
    BY <1>1, <1>3, <2>2
<1>4. ASSUME Full(i, s, lo, hi) PROVE Full(i, t, lo, hi)
  <2> SUFFICES ASSUME NEW k \in lo + 1 .. hi PROVE \E p \in DOMAIN t : IsData(t[p], i, k)
    BY DEF Full
  <2>1. PICK p \in 1 .. m : IsData(s[p], i, k)
    BY <1>1, <1>4 DEF Full
  <2>2. p \in 1 .. p
    BY <1>1
  <2>3. p - 1 \in 1 .. p - 1 /\ IsData(t[p - 1], i, k)
    BY <1>3, <2>1, <2>2
  <2> QED
    BY <1>1, <2>3
<1>5. ASSUME Ordered(i, s, lo, hi), NEW p \in DOMAIN t, t[p].id = i
      PROVE  /\ t[p].type = "data" => t[p].v \in lo + 1 .. hi /\ DataInPlace(i, t, lo, p)
             /\ t[p].type = "end" => EndInPlace(i, t, lo, hi, p)
  <2>1. p + 1 \in 1 .. m /\ t[p] = s[p + 1] /\ (p + 1) - 1 = p
    BY <1>1
  <2>2. ASSUME NEW k, \E q \in 1 .. p : IsData(s[q], i, k)
        PROVE  \E q \in 1 .. p - 1 : IsData(t[q], i, k)
    <3>1. p \in 1 .. m
      BY <1>1
    <3> QED
      BY <1>3, <2>2, <3>1
  <2>3. CASE t[p].type = "data"
    <3>1. s[p + 1].v \in lo + 1 .. hi /\ DataInPlace(i, s, lo, p + 1)
      BY <1>1, <1>5, <2>1, <2>3 DEF Ordered
    <3>2. \A k \in lo + 1 .. t[p].v - 1 : \E q \in 1 .. p - 1 : IsData(t[q], i, k)
      BY <2>1, <2>2, <3>1 DEF DataInPlace
    <3>3. ASSUME NEW q \in 1 .. p - 1 PROVE ~IsData(t[q], i, t[p].v)
      <4>1. q + 1 \in 1 .. p /\ t[q] = s[q + 1]
        BY <1>1
      <4> QED
        BY <2>1, <3>1, <4>1 DEF DataInPlace
    <3> QED
      BY <2>1, <2>3, <3>1, <3>2, <3>3 DEF DataInPlace
  <2>4. CASE t[p].type = "end"
    <3>1. EndInPlace(i, s, lo, hi, p + 1)
      BY <1>1, <1>5, <2>1, <2>4 DEF Ordered
    <3> QED
      BY <2>1, <2>2, <2>4, <3>1 DEF EndInPlace
  <2> QED
    BY <2>3, <2>4
<1>6. Ordered(i, s, lo, hi) => Ordered(i, t, lo, hi)
  BY <1>5 DEF Ordered
<1> QED
  BY <1>4, <1>6 DEF t

\* The first frame, if it is a chunk of i, is the next one.
LEMMA PopData ==
  ASSUME NEW i, NEW s \in Seq(Frames), s # <<>>, NEW lo \in Nat, NEW hi \in Nat,
         s[1].id = i, s[1].type = "data", Ordered(i, s, lo, hi)
  PROVE  /\ s[1].v = lo + 1 /\ lo < hi
         /\ Ordered(i, Tail(s), lo + 1, hi)
         /\ Full(i, s, lo, hi) => Full(i, Tail(s), lo + 1, hi)
<1> DEFINE t == Tail(s)  m == Len(s)
<1>1. /\ DOMAIN s = 1 .. m /\ m \in Nat /\ m >= 1 /\ DOMAIN t = 1 .. m - 1
      /\ \A p \in 1 .. m - 1 : t[p] = s[p + 1]
  BY Rest
<1> HIDE DEF t, m
<1>2. s[1].v = lo + 1 /\ lo < hi
  <2>1. s[1].v \in lo + 1 .. hi /\ DataInPlace(i, s, lo, 1)
    BY <1>1 DEF Ordered
  <2>2. lo + 1 \notin lo + 1 .. s[1].v - 1
    BY <2>1 DEF DataInPlace
  <2> QED
    BY <2>1, <2>2
<1>3. ASSUME NEW k \in Nat, k > lo + 1, NEW p \in 1 .. m, NEW q \in 1 .. p, IsData(s[q], i, k)
      PROVE  q - 1 \in 1 .. p - 1 /\ IsData(t[q - 1], i, k)
  <2>1. q # 1
    BY <1>2, <1>3 DEF IsData
  <2>2. q - 1 \in 1 .. m - 1 /\ q - 1 \in 1 .. p - 1 /\ (q - 1) + 1 = q
    BY <1>1, <2>1
  <2> QED
    BY <1>1, <1>3, <2>2
<1>4. ASSUME Full(i, s, lo, hi) PROVE Full(i, t, lo + 1, hi)
  <2> SUFFICES ASSUME NEW k \in (lo + 1) + 1 .. hi PROVE \E p \in DOMAIN t : IsData(t[p], i, k)
    BY DEF Full
  <2>1. k \in lo + 1 .. hi /\ k \in Nat /\ k > lo + 1
    OBVIOUS
  <2>2. PICK p \in 1 .. m : IsData(s[p], i, k)
    BY <1>1, <1>4, <2>1 DEF Full
  <2>3. p - 1 \in 1 .. m - 1 /\ IsData(t[p - 1], i, k)
    BY <1>1, <1>3, <2>1, <2>2
  <2> QED
    BY <1>1, <2>3
<1>5. ASSUME NEW p \in DOMAIN t, t[p].id = i
      PROVE  /\ t[p].type = "data" => t[p].v \in (lo + 1) + 1 .. hi /\ DataInPlace(i, t, lo + 1, p)
             /\ t[p].type = "end" => EndInPlace(i, t, lo + 1, hi, p)
  <2>1. p + 1 \in 1 .. m /\ t[p] = s[p + 1] /\ (p + 1) - 1 = p
    <3>1. p \in 1 .. m - 1
      BY <1>1
    <3>2. t[p] = s[p + 1]
      BY <1>1, <3>1
    <3>3. p + 1 \in 1 .. m /\ (p + 1) - 1 = p
      BY <1>1, <3>1, Next1
    <3> QED
      BY <3>2, <3>3
  <2>2. ASSUME NEW k \in Nat, k > lo + 1, \E q \in 1 .. p : IsData(s[q], i, k)
        PROVE  \E q \in 1 .. p - 1 : IsData(t[q], i, k)
    <3>1. p \in 1 .. m
      BY <1>1
    <3> QED
      BY <1>3, <2>2, <3>1
  <2>3. CASE t[p].type = "data"
    <3>1. s[p + 1].v \in lo + 1 .. hi /\ DataInPlace(i, s, lo, p + 1)
      BY <1>1, <1>5, <2>1, <2>3 DEF Ordered
    <3>2. t[p].v # lo + 1
      <4>1. 1 \in 1 .. p /\ ~IsData(s[1], i, s[p + 1].v)
        BY <1>1, <2>1, <3>1 DEF DataInPlace
      <4> QED
        BY <1>2, <2>1, <4>1 DEF IsData
    <3>3. ASSUME NEW k \in (lo + 1) + 1 .. t[p].v - 1
          PROVE  \E q \in 1 .. p - 1 : IsData(t[q], i, k)
      <4>1. k \in lo + 1 .. s[p + 1].v - 1 /\ k \in Nat /\ k > lo + 1
        BY <2>1, <3>1
      <4> QED
        BY <2>1, <2>2, <3>1, <4>1 DEF DataInPlace
    <3>4. ASSUME NEW q \in 1 .. p - 1 PROVE ~IsData(t[q], i, t[p].v)
      <4>1. q + 1 \in 1 .. p /\ t[q] = s[q + 1]
        BY <1>1
      <4> QED
        BY <2>1, <3>1, <4>1 DEF DataInPlace
    <3>5. t[p].v \in (lo + 1) + 1 .. hi
      BY <2>1, <3>1, <3>2
    <3> QED
      BY <2>3, <3>3, <3>4, <3>5 DEF DataInPlace
  <2>4. CASE t[p].type = "end"
    <3>1. EndInPlace(i, s, lo, hi, p + 1)
      BY <1>1, <1>5, <2>1, <2>4 DEF Ordered
    <3>2. ASSUME NEW k \in (lo + 1) + 1 .. hi PROVE \E q \in 1 .. p - 1 : IsData(t[q], i, k)
      <4>1. k \in lo + 1 .. hi /\ k \in Nat /\ k > lo + 1
        OBVIOUS
      <4> QED
        BY <2>1, <2>2, <3>1, <4>1 DEF EndInPlace
    <3> QED
      BY <2>4, <3>2 DEF EndInPlace
  <2> QED
    BY <2>3, <2>4
<1>6. Ordered(i, t, lo + 1, hi)
  BY <1>5 DEF Ordered
<1> QED
  BY <1>2, <1>4, <1>6 DEF t

\* At an END there is no chunk left.
LEMMA PopEnd ==
  ASSUME NEW i, NEW s \in Seq(Frames), s # <<>>, NEW lo \in Nat, NEW hi \in Nat,
         s[1].id = i, s[1].type = "end", Ordered(i, s, lo, hi)
  PROVE  hi <= lo
<1>1. 1 \in DOMAIN s
  BY Rest
<1>2. EndInPlace(i, s, lo, hi, 1)
  BY <1>1 DEF Ordered
<1>3. lo + 1 \notin lo + 1 .. hi
  BY <1>2 DEF EndInPlace
<1> QED
  BY <1>3

\* What a breaking connection still delivers.
LEMMA CutShort ==
  ASSUME NEW i, NEW s \in Seq(Frames), NEW n \in 0 .. Len(s), NEW lo \in Nat, NEW hi \in Nat
  PROVE  /\ Ordered(i, s, lo, hi) => Ordered(i, SubSeq(s, 1, n), lo, hi)
         /\ \A type : Has(i, SubSeq(s, 1, n), type) => Has(i, s, type)
         /\ HeadFirst(i, s) => HeadFirst(i, SubSeq(s, 1, n))
         /\ (\A p \in DOMAIN s : s[p].id # i) => \A p \in DOMAIN SubSeq(s, 1, n) : SubSeq(s, 1, n)[p].id # i
<1> DEFINE t == SubSeq(s, 1, n)
<1>1. /\ DOMAIN s = 1 .. Len(s) /\ Len(s) \in Nat /\ n \in Nat /\ n <= Len(s) /\ DOMAIN t = 1 .. n
      /\ \A p \in 1 .. n : t[p] = s[p]
  OBVIOUS
<1> HIDE DEF t
<1>2. ASSUME Ordered(i, s, lo, hi), NEW p \in DOMAIN t, t[p].id = i
      PROVE  /\ t[p].type = "data" => t[p].v \in lo + 1 .. hi /\ DataInPlace(i, t, lo, p)
             /\ t[p].type = "end" => EndInPlace(i, t, lo, hi, p)
  <2>1. p \in DOMAIN s /\ p \in Nat /\ p > 0 /\ t[p] = s[p] /\ \A q \in 1 .. p : t[q] = s[q]
    BY <1>1
  <2>2. /\ s[p].type = "data" => s[p].v \in lo + 1 .. hi /\ DataInPlace(i, s, lo, p)
        /\ s[p].type = "end" => EndInPlace(i, s, lo, hi, p)
    BY <1>2, <2>1 DEF Ordered
  <2> QED
    BY <2>1, <2>2, SameBefore
<1>3. Ordered(i, s, lo, hi) => Ordered(i, t, lo, hi)
  BY <1>2 DEF Ordered
<1>4. \A type : Has(i, t, type) => Has(i, s, type)
  BY <1>1 DEF Has
<1>5. HeadFirst(i, s) => HeadFirst(i, t)
  BY <1>1 DEF HeadFirst
<1>6. ASSUME \A p \in DOMAIN s : s[p].id # i PROVE \A p \in DOMAIN t : t[p].id # i
  BY <1>1, <1>6
<1> QED
  BY <1>3, <1>4, <1>5, <1>6 DEF t

-----------------------------------------------------------------------------
(* The invariant of a stream. *)

\* A handler that may still deliver.
Live == {"none", "opened", "upload", "headers", "body", "relay"}

\* Between what the browser got and what the CLI sent lie, without a gap, the chunks
\* in the stream's queue, up to a, and then those in the tunnel; all of them as long
\* as the tunnel works.
Flowing(i) == \E a \in Len(got[i]) .. Len(sent[i]) :
  /\ Ordered(i, queue[i], Len(got[i]), a) /\ Full(i, queue[i], Len(got[i]), a)
  /\ Has(i, queue[i], "end") => a = Len(sent[i])
  /\ Ordered(i, Line, a, Len(sent[i]))
  /\ up => Full(i, Line, a, Len(sent[i]))

\* The first frame a handler reads is a head.
HeadComes(i) ==
  req[i] \in {"none", "opened", "upload", "headers"} =>
    \/ queue[i] # <<>> /\ queue[i][1].type = "head"
    \/ /\ queue[i] = <<>> /\ HeadFirst(i, Line)
       /\ up /\ cli[i] \notin {"idle", "asked"} => Has(i, Line, "head")

Numbered(i) ==
  /\ \A k \in DOMAIN sent[i] : sent[i][k] = k
  /\ \A k \in DOMAIN got[i] : got[i][k] = k
  /\ Len(got[i]) <= Len(sent[i])

\* The CLI is silent before the request, and no END is on its way before it has sent one.
Quiet(i) ==
  /\ cli[i] = "idle" => \A p \in DOMAIN Line : Line[p].id # i
  /\ cli[i] # "ended" => ~Has(i, queue[i], "end") /\ ~Has(i, Line, "end")

Placed(i) ==
  /\ req[i] \in Live => how[i] = "open"
  /\ req[i] \in Live \ {"none"} => i \in streams

Stream(i) ==
  /\ Numbered(i) /\ Quiet(i) /\ Placed(i)
  /\ req[i] \in Live => Flowing(i) /\ HeadComes(i)

MuxInv ==
  /\ MuxTypes /\ DoneInv
  /\ closed => ~up
  /\ \A i \in Ids : Stream(i)

\* A step that does not touch what stream j consists of.
Apart(j) ==
  /\ sent'[j] = sent[j] /\ got'[j] = got[j] /\ cli'[j] = cli[j] /\ queue'[j] = queue[j]
  /\ req'[j] = req[j] /\ how'[j] = how[j] /\ (j \in streams' <=> j \in streams)

LEMMA StreamSame ==
  ASSUME NEW j \in Ids, Stream(j), Apart(j), Line' = Line, up' = up
  PROVE  Stream(j)'
<1> USE DEF Apart
<1>1. Numbered(j)' /\ Quiet(j)' /\ Placed(j)'
  BY DEF Stream, Numbered, Quiet, Placed
<1>2. Flowing(j) => Flowing(j)'
  BY DEF Flowing
<1>3. HeadComes(j) => HeadComes(j)'
  BY DEF HeadComes
<1> QED
  BY <1>1, <1>2, <1>3 DEF Stream

LEMMA StreamPushed ==
  ASSUME NEW j \in Ids, Stream(j), Apart(j), NEW f \in Seq(Frames), Line' = Line \o f, up' = up,
         Line \in Seq(Frames), Len(sent[j]) \in Nat, Len(got[j]) \in Nat,
         \A p \in DOMAIN f : f[p].id # j
  PROVE  Stream(j)'
<1> USE DEF Apart
<1>1. ASSUME NEW lo \in Nat, NEW hi \in Nat
      PROVE  /\ Ordered(j, Line, lo, hi) => Ordered(j, Line', lo, hi)
             /\ Full(j, Line, lo, hi) => Full(j, Line', lo, hi)
  BY PushOther
<1>2. /\ \A type : Has(j, Line', type) <=> Has(j, Line, type)
      /\ HeadFirst(j, Line) => HeadFirst(j, Line')
      /\ (\A p \in DOMAIN Line : Line[p].id # j) => \A p \in DOMAIN Line' : Line'[p].id # j
  BY PushOther
<1>3. Numbered(j)' /\ Quiet(j)' /\ Placed(j)'
  BY <1>2 DEF Stream, Numbered, Quiet, Placed
<1>4. Flowing(j) => Flowing(j)'
  BY <1>1 DEF Flowing
<1>5. HeadComes(j) => HeadComes(j)'
  BY <1>2 DEF HeadComes
<1> QED
  BY <1>3, <1>4, <1>5 DEF Stream

LEMMA TailFacts ==
  ASSUME NEW i, NEW s \in Seq(Frames), s # <<>>
  PROVE  /\ \A type : Has(i, Tail(s), type) => Has(i, s, type)
         /\ (\A p \in DOMAIN s : s[p].id # i) => \A p \in DOMAIN Tail(s) : Tail(s)[p].id # i
         /\ HeadFirst(i, s) /\ s[1].id # i => HeadFirst(i, Tail(s))
         /\ HeadFirst(i, s) /\ s[1].id = i => s[1].type = "head"
         /\ s[1].id # i => \A type : Has(i, s, type) => Has(i, Tail(s), type)
<1> DEFINE t == Tail(s)  m == Len(s)
<1>1. /\ DOMAIN s = 1 .. m /\ m \in Nat /\ m >= 1 /\ DOMAIN t = 1 .. m - 1
      /\ \A p \in 1 .. m - 1 : t[p] = s[p + 1]
  BY Rest
<1> HIDE DEF t, m
<1>2. ASSUME NEW p \in 1 .. m - 1 PROVE p + 1 \in DOMAIN s /\ t[p] = s[p + 1] /\ (p + 1) - 1 = p
  BY <1>1, Next1
<1>3. ASSUME NEW p \in 1 .. m, p # 1 PROVE p - 1 \in DOMAIN t /\ t[p - 1] = s[p]
  <2>1. p - 1 \in 1 .. m - 1 /\ (p - 1) + 1 = p
    BY <1>1, <1>3
  <2> QED
    BY <1>1, <2>1
<1>4. \A type : Has(i, t, type) => Has(i, s, type)
  BY <1>1, <1>2 DEF Has
<1>5. ASSUME \A p \in DOMAIN s : s[p].id # i, NEW p \in DOMAIN t PROVE t[p].id # i
  BY <1>1, <1>2, <1>5
<1>6. ASSUME HeadFirst(i, s), s[1].id # i PROVE HeadFirst(i, t)
  <2> SUFFICES ASSUME NEW p \in DOMAIN t, t[p].id = i, t[p].type # "head"
               PROVE  \E q \in 1 .. p - 1 : t[q].id = i /\ t[q].type = "head"
    BY DEF HeadFirst
  <2>1. PICK q \in 1 .. (p + 1) - 1 : s[q].id = i /\ s[q].type = "head"
    BY <1>1, <1>2, <1>6 DEF HeadFirst
  <2>2. q # 1 /\ p \in 1 .. m - 1
    BY <1>1, <1>6, <2>1
  <2>3. q \in 1 .. m /\ q - 1 \in 1 .. p - 1
    BY <1>1, <1>2, <2>1, <2>2
  <2> QED
    BY <1>3, <2>1, <2>2, <2>3
<1>7. ASSUME HeadFirst(i, s), s[1].id = i PROVE s[1].type = "head"
  BY <1>1, <1>7 DEF HeadFirst
<1>8. ASSUME s[1].id # i, NEW type, Has(i, s, type) PROVE Has(i, t, type)
  BY <1>1, <1>3, <1>8 DEF Has
<1> QED
  BY <1>4, <1>5, <1>6, <1>7, <1>8 DEF t

\* The tunnel's first frame leaves it: another stream's, or for a handler that delivers
\* no more.
LEMMA StreamPopped ==
  ASSUME NEW j \in Ids, Stream(j), Apart(j), Line # <<>>, Line' = Tail(Line), up' = up,
         Line \in Seq(Frames), Len(sent[j]) \in Nat, Len(got[j]) \in Nat,
         Line[1].id # j \/ req[j] \notin Live
  PROVE  Stream(j)'
<1> USE DEF Apart
<1>1. Numbered(j)' /\ Quiet(j)' /\ Placed(j)'
  BY TailFacts DEF Stream, Numbered, Quiet, Placed
<1>2. CASE req[j] \notin Live
  BY <1>1, <1>2 DEF Stream
<1>3. CASE Line[1].id # j
  <2>1. ASSUME NEW lo \in Nat, NEW hi \in Nat
        PROVE  /\ Ordered(j, Line, lo, hi) => Ordered(j, Line', lo, hi)
               /\ Full(j, Line, lo, hi) => Full(j, Line', lo, hi)
    BY <1>3, PopOther
  <2>2. Flowing(j) => Flowing(j)'
    BY <2>1 DEF Flowing
  <2>3. HeadComes(j) => HeadComes(j)'
    BY <1>3, TailFacts DEF HeadComes
  <2> QED
    BY <1>1, <2>2, <2>3 DEF Stream
<1> QED
  BY <1>2, <1>3

LEMMA LineTypes ==
  ASSUME MuxTypes
  PROVE  /\ Line \in Seq(Frames) /\ wire \in Seq(Frames) /\ held \in Seq(Frames)
         /\ \A i \in Ids : /\ Len(sent[i]) \in Nat /\ Len(got[i]) \in Nat /\ queue[i] \in Seq(Frames)
                           /\ sent[i] \in Seq(Chunks) /\ got[i] \in Seq(Chunks)
         /\ pump.at # "deliver" => held = <<>> /\ Line = wire
         /\ pump.at = "deliver" => /\ Line # <<>> /\ Tail(Line) = wire /\ Line[1] = held[1]
                                   /\ held[1] \in Frames /\ held[1].id = pump.id /\ Len(held) = 1 /\ held # <<>>
                                   /\ DOMAIN held = {1} /\ pump.id \in Ids
<1>1. wire \in Seq(Frames) /\ held \in Seq(Frames) /\ Line \in Seq(Frames)
  BY DEF MuxTypes, TypeOK, Line
<1>2. \A i \in Ids : /\ Len(sent[i]) \in Nat /\ Len(got[i]) \in Nat /\ queue[i] \in Seq(Frames)
                     /\ sent[i] \in Seq(Chunks) /\ got[i] \in Seq(Chunks)
  BY DEF MuxTypes, TypeOK
<1>3. ASSUME pump.at # "deliver" PROVE held = <<>> /\ Line = wire
  <2>1. held = <<>>
    BY <1>1, <1>3 DEF MuxTypes, TypeOK
  <2> QED
    BY <1>1, <2>1 DEF Line
<1>4. ASSUME pump.at = "deliver"
      PROVE  /\ Line # <<>> /\ Tail(Line) = wire /\ Line[1] = held[1] /\ held[1] \in Frames
             /\ held[1].id = pump.id /\ Len(held) = 1 /\ held # <<>> /\ DOMAIN held = {1} /\ pump.id \in Ids
  <2>1. Len(held) = 1 /\ pump.id \in Ids /\ held[1].id = pump.id
    BY <1>1, <1>4 DEF MuxTypes, TypeOK
  <2>2. held[1] \in Frames /\ DOMAIN held = {1} /\ held # <<>>
    BY <1>1, <2>1, Single
  <2>3. Line # <<>> /\ Line[1] = held[1]
    BY <1>1, <2>1, <2>2, PushedFacts DEF Line
  <2>4. Tail(Line) = wire
    <3>1. held = <<held[1]>>
      BY <1>1, <2>1, Single
    <3> QED
      BY <1>1, <2>2, <3>1, Shifts DEF Line
  <2> QED
    BY <2>1, <2>2, <2>3, <2>4
<1> QED
  BY <1>1, <1>2, <1>3, <1>4

LEMMA CliStreams ==
  ASSUME MuxInv, NEW i \in Ids, Cli(i), NEW j \in Ids
  PROVE  Stream(j)'
<1>1. PICK f \in Seq(Frames), c \in Seq(Chunks), n \in {"body", "relay", "ended"} :
        Emit(i, f, c, n) /\ Shape(i, f, c, n)
  BY CliShape DEF MuxInv
<1> DEFINE s == Len(sent[i])
<1>2. /\ up /\ UNCHANGED <<up, pump, held, closed, streams, queue, req, got, how>>
      /\ sent' = [sent EXCEPT ![i] = @ \o c] /\ cli' = [cli EXCEPT ![i] = n]
      /\ wire' = wire \o f
  BY <1>1 DEF Emit, pumping, handling
<1>3. Line' = Line \o f
  <2>1. wire \in Seq(Frames) /\ held \in Seq(Frames) /\ held' = held
    BY <1>2, LineTypes DEF MuxInv
  <2> QED
    BY <1>2, <2>1, Shifts DEF Line
<1>4. /\ Line \in Seq(Frames) /\ wire \in Seq(Frames) /\ sent[i] \in Seq(Chunks)
      /\ s \in Nat /\ Len(got[i]) \in Nat /\ queue[i] \in Seq(Frames)
  BY LineTypes DEF MuxInv
<1>5. /\ sent \in [Ids -> Seq(Chunks)] /\ cli \in [Ids -> {"idle", "asked", "body", "relay", "ended"}]
      /\ Stream(i) /\ Stream(j)
  BY DEF MuxInv, MuxTypes, TypeOK
<1>6. CASE j # i
  <2>1. Apart(j)
    BY <1>2, <1>5, <1>6 DEF Apart
  <2>2. \A p \in DOMAIN f : f[p].id # j
    BY <1>1, <1>6 DEF Shape
  <2>3. Len(sent[j]) \in Nat /\ Len(got[j]) \in Nat
    BY LineTypes DEF MuxInv
  <2> QED
    BY <1>2, <1>3, <1>4, <1>5, <2>1, <2>2, <2>3, StreamPushed
<1>7. Stream(i)'
  <2>1. cli[i] \in {"asked", "body", "relay"} /\ cli'[i] = n /\ sent'[i] = sent[i] \o c
    BY <1>1, <1>2, <1>5 DEF Shape
  <2>2. c \in {<<>>, <<s + 1>>} /\ Len(c) \in {0, 1}
    BY <1>1 DEF Shape
  <2>3. Len(sent'[i]) = s + Len(c)
    BY <1>4, <2>1
  <2>4. ~Has(i, queue[i], "end") /\ ~Has(i, Line, "end")
    BY <1>5, <2>1 DEF Stream, Quiet
  <2>5. Numbered(i)'
    <3>1. ASSUME NEW k \in DOMAIN sent'[i] PROVE sent'[i][k] = k
      <4>1. CASE c = <<>>
        BY <1>4, <1>5, <2>1, <4>1 DEF Stream, Numbered
      <4>2. CASE c = <<s + 1>>
        BY <1>4, <1>5, <2>1, <4>2 DEF Stream, Numbered
      <4> QED
        BY <2>2, <4>1, <4>2
    <3> QED
      BY <1>2, <1>4, <1>5, <2>2, <2>3, <3>1 DEF Stream, Numbered
  <2>6. Quiet(i)'
    <3>1. n # "ended" => ~Has(i, f, "end")
      BY <1>1 DEF Shape, Has
    <3>2. n # "ended" => ~Has(i, Line', "end")
      BY <1>3, <1>4, <2>4, <3>1, PushedFacts
    <3> QED
      BY <1>2, <2>1, <2>4, <3>2 DEF Quiet
  <2>7. Placed(i)'
    BY <1>2, <1>5 DEF Stream, Placed
  <2>8. Flowing(i) => Flowing(i)'
    <3> SUFFICES ASSUME Flowing(i) PROVE Flowing(i)'
      OBVIOUS
    <3>1. PICK a \in Len(got[i]) .. s :
            /\ Ordered(i, queue[i], Len(got[i]), a) /\ Full(i, queue[i], Len(got[i]), a)
            /\ Ordered(i, Line, a, s) /\ Full(i, Line, a, s)
      BY <1>2 DEF Flowing
    <3>2. a \in Nat /\ a <= s
      BY <1>4
    <3>3. Len(c) \in {0, 1} /\ Len(c) = 1 => \E p \in DOMAIN f : f[p].type = "data"
      BY <1>1 DEF Shape
    <3>4. \A p, q \in DOMAIN f : f[p].type = "data" =>
            /\ Len(c) = 1 /\ f[p].v = s + 1
            /\ f[q].type = "data" => p = q
            /\ f[q].type = "end" => p < q
      BY <1>1 DEF Shape
    <3>5. \A p \in DOMAIN f : f[p].id = i
      BY <1>1 DEF Shape
    <3>6. Ordered(i, Line \o f, a, s + Len(c)) /\ Full(i, Line \o f, a, s + Len(c))
      BY <1>4, <2>2, <2>4, <3>1, <3>2, <3>3, <3>4, <3>5, PushOwn
    <3>7. a \in Len(got'[i]) .. Len(sent'[i])
      BY <1>2, <1>4, <2>2, <2>3, <3>1
    <3> QED
      BY <1>2, <1>3, <2>3, <2>4, <3>1, <3>6, <3>7 DEF Flowing
  <2>9. HeadComes(i) => HeadComes(i)'
    <3>1. \A p \in DOMAIN f : f[p].id = i
      BY <1>1 DEF Shape
    <3>2. cli[i] \in {"idle", "asked"} => f # <<>> /\ f[1].type = "head"
      BY <1>1, <2>1 DEF Shape
    <3>3. HeadFirst(i, Line) /\ (cli[i] \notin {"idle", "asked"} => Has(i, Line, "head"))
            => HeadFirst(i, Line \o f) /\ Has(i, Line \o f, "head")
      BY <1>4, <3>1, <3>2, PushedFacts
    <3> QED
      BY <1>2, <1>3, <3>3 DEF HeadComes
  <2> QED
    BY <1>2, <1>5, <2>5, <2>6, <2>7, <2>8, <2>9 DEF Stream
<1> QED
  BY <1>6, <1>7

\* A frame moves from the tunnel into the queue of its stream.
LEMMA DeliveredStream ==
  ASSUME MuxInv, NEW i \in Ids, i = pump.id, pump.at = "deliver",
         queue' = [queue EXCEPT ![pump.id] = @ \o held], Line' = Tail(Line),
         UNCHANGED <<up, streams, req, cli, sent, got, how>>
  PROVE  Stream(i)'
<1> DEFINE q == queue[i]  f == held[1]
<1>1. /\ Line \in Seq(Frames) /\ held \in Seq(Frames) /\ q \in Seq(Frames)
      /\ Len(sent[i]) \in Nat /\ Len(got[i]) \in Nat
      /\ Line # <<>> /\ Line[1] = f /\ f \in Frames /\ f.id = i /\ Len(held) = 1 /\ DOMAIN held = {1}
  BY LineTypes DEF MuxInv
<1>2. queue'[i] = q \o held
  BY DEF MuxInv, MuxTypes, TypeOK
<1>3. Stream(i)
  BY DEF MuxInv
<1>4. f.type \in {"head", "data", "end"}
  BY <1>1, FrameShape
<1>5. \A type : Has(i, held, type) <=> f.type = type
  BY <1>1 DEF Has
<1>6. f.type = "end" => Has(i, Line, "end")
  BY <1>1 DEF Has
<1>7. Quiet(i)'
  <2>1. Quiet(i)
    BY <1>3 DEF Stream
  <2>2. cli[i] = "idle" => \A p \in DOMAIN Tail(Line) : Tail(Line)[p].id # i
    BY <1>1, <2>1, TailFacts DEF Quiet
  <2>3. cli[i] # "ended" => ~Has(i, Tail(Line), "end")
    BY <1>1, <2>1, TailFacts DEF Quiet
  <2>4. cli[i] # "ended" => ~Has(i, q \o held, "end")
    BY <1>1, <1>5, <1>6, <2>1, PushedFacts DEF Quiet
  <2> QED
    BY <1>2, <2>2, <2>3, <2>4 DEF Quiet
<1>8. Numbered(i)' /\ Placed(i)'
  BY <1>3 DEF Stream, Numbered, Placed
<1>9. Flowing(i) => Flowing(i)'
  <2> SUFFICES ASSUME Flowing(i) PROVE Flowing(i)'
    OBVIOUS
  <2> DEFINE g == Len(got[i])  s == Len(sent[i])
  <2>1. PICK a \in g .. s :
          /\ Ordered(i, q, g, a) /\ Full(i, q, g, a)
          /\ Has(i, q, "end") => a = s
          /\ Ordered(i, Line, a, s)
          /\ up => Full(i, Line, a, s)
    BY DEF Flowing
  <2>2. a \in Nat /\ g \in Nat /\ s \in Nat /\ g <= a /\ a <= s
    BY <1>1
  <2> HIDE DEF g, s
  <2>3. \A p \in DOMAIN held : held[p].id = i /\ held[p] = f
    BY <1>1
  <2>4. CASE f.type = "data"
    <3>1. f.v = a + 1 /\ a < s /\ Ordered(i, Tail(Line), a + 1, s)
          /\ (up => Full(i, Tail(Line), a + 1, s))
      BY <1>1, <2>1, <2>2, <2>4, PopData
    <3>2. ~Has(i, q, "end") /\ ~Has(i, held, "end")
      BY <1>5, <2>1, <2>2, <2>4, <3>1
    <3>3. ~Has(i, q \o held, "end")
      BY <1>1, <3>2, PushedFacts
    <3>4. \E p \in DOMAIN held : held[p].type = "data"
      BY <1>1, <2>4
    <3>5. \A p, r \in DOMAIN held : held[p].type = "data" =>
            held[p].v = a + 1 /\ p = r /\ held[r].type # "end"
      BY <1>1, <2>4, <3>1
    <3>6. Ordered(i, q \o held, g, a + 1) /\ Full(i, q \o held, g, a + 1)
      BY <1>1, <2>1, <2>2, <2>3, <3>2, <3>4, <3>5, PushOwn
    <3>7. a + 1 \in g .. s
      BY <2>2, <3>1
    <3> QED
      BY <1>2, <3>1, <3>3, <3>6, <3>7 DEF Flowing, g, s
  <2>5. CASE f.type # "data"
    <3>1. Ordered(i, Tail(Line), a, s) /\ (up => Full(i, Tail(Line), a, s))
      BY <1>1, <2>1, <2>2, <2>5, PopOther
    <3>2. \A p \in DOMAIN held : held[p].type # "data"
      BY <1>1, <2>5
    <3>3. Ordered(i, q \o held, g, a) /\ Full(i, q \o held, g, a)
      <4>1. \A p \in DOMAIN held : held[p].id = i /\ held[p].type # "data"
        BY <2>3, <3>2
      <4> HIDE DEF q
      <4> QED
        BY <1>1, <2>1, <2>2, <4>1, PushNone
    <3>4. Has(i, q \o held, "end") => a = s
      <4>1. CASE f.type = "end"
        BY <1>1, <2>1, <2>2, <4>1, PopEnd
      <4>2. CASE f.type # "end"
        BY <1>1, <1>5, <2>1, <4>2, PushedFacts
      <4> QED
        BY <4>1, <4>2
    <3> QED
      BY <1>2, <2>1, <3>1, <3>3, <3>4 DEF Flowing, g, s
  <2> QED
    BY <2>4, <2>5
<1>10. HeadComes(i) => HeadComes(i)'
  <2>1. q # <<>> => queue'[i] # <<>> /\ queue'[i][1] = q[1]
    BY <1>1, <1>2, PushedFacts
  <2>2. q = <<>> => queue'[i] # <<>> /\ queue'[i][1] = f
    <3>1. q = <<>> => q \o held = held
      BY <1>1
    <3>2. held # <<>>
      BY LineTypes DEF MuxInv
    <3> QED
      BY <1>2, <3>1, <3>2
  <2>3. HeadFirst(i, Line) => f.type = "head"
    BY <1>1, TailFacts
  <2> QED
    BY <2>1, <2>2, <2>3 DEF HeadComes
<1> QED
  BY <1>3, <1>7, <1>8, <1>9, <1>10 DEF Stream

LEMMA PumpStreams ==
  ASSUME MuxInv, Pump, NEW j \in Ids
  PROVE  Stream(j)'
<1>1. /\ Line \in Seq(Frames) /\ wire \in Seq(Frames) /\ held \in Seq(Frames)
      /\ Len(sent[j]) \in Nat /\ Len(got[j]) \in Nat
  BY LineTypes DEF MuxInv
<1>2. Stream(j)
  BY DEF MuxInv
<1>3. Pump => UNCHANGED <<up, streams, req, cli, sent, got, how>>
  BY DEF Pump, PumpReads, PumpDelivers, PumpFails, PumpCloses, PumpStops, PumpTests, others
<1>4. ASSUME UNCHANGED <<wire, held, queue>> PROVE Stream(j)'
  <2>1. Line' = Line
    BY <1>4 DEF Line
  <2> QED
    BY <1>2, <1>3, <1>4, <2>1, StreamSame DEF Apart
<1>5. CASE PumpReads
  <2>1. pump.at = "read" /\ wire # <<>> /\ wire' = Tail(wire) /\ queue' = queue
    BY <1>5 DEF PumpReads
  <2>2. held = <<>> /\ Line = wire
    BY <2>1, LineTypes DEF MuxInv
  <2>3. CASE Head(wire).id \in streams
    <3>1. held' = <<Head(wire)>>
      BY <1>5, <2>3 DEF PumpReads
    <3>2. Line' = Line
      BY <1>1, <2>1, <2>2, <3>1, Shifts DEF Line
    <3> QED
      BY <1>2, <1>3, <2>1, <3>2, StreamSame DEF Apart
  <2>4. CASE Head(wire).id \notin streams
    <3>1. held' = held
      BY <1>5, <2>4 DEF PumpReads
    <3>2. Line' = Tail(Line)
      <4>1. Tail(wire) \in Seq(Frames) /\ <<>> \o Tail(wire) = Tail(wire)
        BY <1>1, <2>1
      <4> QED
        BY <2>1, <2>2, <3>1, <4>1 DEF Line
    <3>3. Line[1].id # j \/ req[j] \notin Live
      <4> SUFFICES ASSUME Line[1].id = j, req[j] \in Live PROVE FALSE
        OBVIOUS
      <4>1. Head(wire) = Line[1] /\ 1 \in DOMAIN Line
        BY <1>1, <2>1, <2>2, Rest
      <4>2. req[j] = "none"
        BY <1>2, <2>4, <4>1 DEF Stream, Placed, Live
      <4>3. cli[j] = "idle"
        BY <4>2 DEF MuxInv, MuxTypes
      <4> QED
        BY <1>2, <4>1, <4>3 DEF Stream, Quiet
    <3>4. Apart(j)
      BY <1>3, <2>1 DEF Apart
    <3> QED
      BY <1>1, <1>2, <1>3, <2>1, <2>2, <3>2, <3>3, <3>4, StreamPopped
  <2> QED
    BY <2>3, <2>4
<1>6. CASE PumpDelivers
  <2>1. pump.at = "deliver" /\ held' = <<>> /\ wire' = wire
    BY <1>6 DEF PumpDelivers, others
  <2>2. Line # <<>> /\ Tail(Line) = wire /\ Line[1].id = pump.id
    BY <2>1, LineTypes DEF MuxInv
  <2>3. Line' = Tail(Line)
    <3>1. <<>> \o wire = wire
      BY <1>1
    <3> QED
      BY <2>1, <2>2, <3>1 DEF Line
  <2>4. CASE pump.id = j /\ queue' = [queue EXCEPT ![pump.id] = @ \o held]
    BY <1>3, <2>1, <2>3, <2>4, DeliveredStream
  <2>5. CASE pump.id = j /\ pump.id \in done /\ queue' = queue
    <3>1. ~closed
      BY <2>1 DEF MuxInv, MuxTypes, TypeOK
    <3>2. req[j] \notin Live
      BY <2>5, <3>1 DEF MuxInv, DoneInv, Live
    <3>3. Apart(j)
      BY <1>3, <2>5 DEF Apart
    <3> QED
      BY <1>1, <1>2, <1>3, <2>2, <2>3, <3>2, <3>3, StreamPopped
  <2>6. CASE pump.id # j
    <3>1. queue'[j] = queue[j]
      BY <1>6, <2>6 DEF PumpDelivers, MuxInv, MuxTypes, TypeOK
    <3>2. Apart(j)
      BY <1>3, <3>1 DEF Apart
    <3> QED
      BY <1>1, <1>2, <1>3, <2>2, <2>3, <2>6, <3>2, StreamPopped
  <2>7. queue' = [queue EXCEPT ![pump.id] = @ \o held] \/ (pump.id \in done /\ queue' = queue)
    BY <1>6 DEF PumpDelivers
  <2> QED
    BY <2>4, <2>5, <2>6, <2>7
<1>7. CASE PumpFails
  BY <1>4, <1>7 DEF PumpFails
<1>8. CASE PumpCloses
  BY <1>4, <1>8 DEF PumpCloses
<1>9. CASE PumpStops
  BY <1>4, <1>9 DEF PumpStops
<1>10. ASSUME NEW i \in Ids, PumpTests(i) PROVE Stream(j)'
  BY <1>4, <1>10 DEF PumpTests
<1> QED
  BY <1>5, <1>6, <1>7, <1>8, <1>9, <1>10 DEF Pump

\* A handler that has come to its end delivers no more.
LEMMA StreamLeft ==
  ASSUME NEW i \in Ids, Stream(i), req'[i] \notin Live, Line' = Line,
         UNCHANGED <<cli, sent, got>>,
         Has(i, queue'[i], "end") => Has(i, queue[i], "end")
  PROVE  Stream(i)'
  BY DEF Stream, Numbered, Quiet, Placed, Live

\* A handler takes the first frame of its queue: what a chunk is, and what stays.
LEMMA Taken ==
  ASSUME MuxInv, NEW i \in Ids, Take(i), req[i] \in Live, Line' = Line,
         UNCHANGED <<up, cli, sent, streams>>
  PROVE  /\ queue'[i] = Tail(queue[i]) /\ queue[i] # <<>> /\ queue[i] \in Seq(Frames)
         /\ queue[i][1].id = i /\ queue[i][1].type \in {"head", "data", "end"}
         /\ \A type : Has(i, queue'[i], type) => Has(i, queue[i], type)
         /\ queue[i][1].type = "data" =>
              /\ queue[i][1].v = Len(got[i]) + 1 /\ Len(got[i]) < Len(sent[i])
              /\ got' = [got EXCEPT ![i] = Append(@, queue[i][1].v)] => Flowing(i)'
         /\ queue[i][1].type = "end" => cli[i] = "ended" /\ got[i] = sent[i]
         /\ queue[i][1].type = "head" /\ got' = got => Flowing(i)'
<1> DEFINE q == queue[i]  f == q[1]  g == Len(got[i])  s == Len(sent[i])
<1>1. /\ queue \in [Ids -> Seq(Frames)] /\ q \in Seq(Frames) /\ q # <<>> /\ queue'[i] = Tail(q)
      /\ g \in Nat /\ s \in Nat /\ got[i] \in Seq(Chunks) /\ sent[i] \in Seq(Chunks)
      /\ got \in [Ids -> Seq(Chunks)]
  BY LineTypes DEF MuxInv, MuxTypes, TypeOK, Take
<1>2. f \in Frames /\ 1 \in DOMAIN q /\ f.type \in {"head", "data", "end"}
  BY <1>1, Rest, FrameShape
<1>3. f.id = i
  BY <1>2 DEF MuxInv, MuxTypes, TypeOK
<1>4. Stream(i) /\ Flowing(i)
  BY DEF MuxInv, Stream
<1> HIDE DEF q, f, g, s
<1>5. PICK a \in g .. s :
        /\ Ordered(i, q, g, a) /\ Full(i, q, g, a)
        /\ Has(i, q, "end") => a = s
        /\ Ordered(i, Line, a, s)
        /\ up => Full(i, Line, a, s)
  BY <1>4 DEF Flowing, q, g, s
<1>6. a \in Nat /\ g <= a /\ a <= s
  BY <1>1
<1>7. \A type : Has(i, Tail(q), type) => Has(i, q, type)
  BY <1>1, TailFacts
<1>8. ASSUME f.type = "data"
      PROVE  /\ f.v = g + 1 /\ g < s
             /\ got' = [got EXCEPT ![i] = Append(@, f.v)] => Flowing(i)'
  <2>1. /\ f.v = g + 1 /\ g < a /\ Ordered(i, Tail(q), g + 1, a) /\ Full(i, Tail(q), g + 1, a)
    BY <1>1, <1>3, <1>5, <1>6, <1>8, PopData DEF f
  <2>2. ASSUME got' = [got EXCEPT ![i] = Append(@, f.v)] PROVE Flowing(i)'
    <3>1. Len(got'[i]) = g + 1
      BY <1>1, <2>2 DEF g
    <3>2. a \in Len(got'[i]) .. Len(sent'[i])
      BY <1>1, <1>6, <2>1, <3>1 DEF s
    <3> QED
      BY <1>1, <1>5, <1>7, <2>1, <3>1, <3>2 DEF Flowing, s
  <2> QED
    BY <1>1, <1>6, <2>1, <2>2
<1>9. ASSUME f.type = "end" PROVE cli[i] = "ended" /\ got[i] = sent[i]
  <2>1. Has(i, q, "end")
    BY <1>2, <1>3, <1>9 DEF Has, f
  <2>2. a <= g /\ a = s
    BY <1>1, <1>3, <1>5, <1>6, <1>9, <2>1, PopEnd DEF f
  <2>3. Len(got[i]) = Len(sent[i])
    BY <1>1, <1>6, <2>2 DEF g, s
  <2>4. /\ DOMAIN got[i] = 1 .. Len(got[i]) /\ DOMAIN sent[i] = 1 .. Len(sent[i])
        /\ \A k \in DOMAIN sent[i] : sent[i][k] = k
        /\ \A k \in DOMAIN got[i] : got[i][k] = k
    BY <1>1, <1>4 DEF Stream, Numbered
  <2>5. got[i] = sent[i]
    BY <1>1, <2>3, <2>4, SameSeq
  <2>6. cli[i] = "ended"
    BY <1>4, <2>1 DEF Stream, Quiet, q
  <2> QED
    BY <2>5, <2>6
<1>10. ASSUME f.type = "head", got' = got PROVE Flowing(i)'
  <2>1. Ordered(i, Tail(q), g, a) /\ Full(i, Tail(q), g, a)
    BY <1>1, <1>5, <1>6, <1>10, PopOther DEF f
  <2> QED
    BY <1>1, <1>5, <1>7, <1>10, <2>1 DEF Flowing, g, s
<1> QED
  BY <1>1, <1>2, <1>3, <1>7, <1>8, <1>9, <1>10 DEF q, f, g, s

LEMMA HandlerStreams ==
  ASSUME MuxInv, NEW i \in Ids, Handler(i), NEW j \in Ids
  PROVE  Stream(j)'
<1> USE DEF tunnel, pumping, At, Goto, OverAs
<1>1. Handler(i) => UNCHANGED <<up, wire, held, sent>>
  BY DEF Handler, Runs, SendRequest, Upload, Written, RelayWriteFails, ReadHeaders, ReadBody, ReadClosed, RelayUp, Remove, CloseDone
<1>2. Line' = Line
  BY <1>1 DEF Line
<1>3. /\ queue \in [Ids -> Seq(Frames)] /\ req \in [Ids -> Places] /\ got \in [Ids -> Seq(Chunks)]
      /\ cli \in [Ids -> {"idle", "asked", "body", "relay", "ended"}]
      /\ how \in [Ids -> {"open", "whole", "cut", "left", "refused"}]
  BY DEF MuxInv, MuxTypes, TypeOK, DoneInv
<1>4. Stream(i) /\ Stream(j)
  BY DEF MuxInv
<1>5. CASE j # i
  <2>1. Apart(j)
    <3>1. CASE SendRequest(i) \/ Upload(i)
      BY <1>3, <1>5, <3>1 DEF SendRequest, Upload, Written, Apart
    <3>2. CASE ReadHeaders(i)
      BY <1>3, <1>5, <3>2 DEF ReadHeaders, Take, Apart
    <3>3. CASE ReadBody(i)
      BY <1>3, <1>5, <3>3 DEF ReadBody, Take, Apart
    <3>4. CASE ReadClosed(i)
      BY <1>3, <1>5, <3>4 DEF ReadClosed, Apart
    <3>5. CASE RelayUp(i) \/ RelayWriteFails(i)
      BY <1>3, <1>5, <3>5 DEF RelayUp, RelayWriteFails, Apart
    <3>6. CASE Remove(i)
      BY <1>3, <1>5, <3>6 DEF Remove, Apart
    <3>7. CASE CloseDone(i)
      BY <1>3, <1>5, <3>7 DEF CloseDone, Apart
    <3> QED
      BY <3>1, <3>2, <3>3, <3>4, <3>5, <3>6, <3>7 DEF Handler, Runs
  <2> QED
    BY <1>1, <1>2, <1>4, <2>1, StreamSame
<1> SUFFICES Stream(i)'
  BY <1>5
<1>6. CASE SendRequest(i) \/ Upload(i)
  <2>1. req[i] \in {"opened", "upload"} /\ cli[i] = "idle"
    BY <1>6 DEF SendRequest, Upload, MuxInv, MuxTypes
  <2>2. UNCHANGED <<streams, queue, got, up>> /\ cli'[i] \in {"idle", "asked"}
    BY <1>3, <1>6, <2>1 DEF SendRequest, Upload, Written
  <2>3. Numbered(i)' /\ Quiet(i)'
    BY <1>1, <1>2, <1>4, <2>1, <2>2 DEF Stream, Numbered, Quiet
  <2>4. CASE /\ req' = [req EXCEPT ![i] = "upload"] \/ req' = [req EXCEPT ![i] = "headers"]
             /\ how' = how
    <3>1. req'[i] \in {"upload", "headers"}
      BY <1>3, <2>4
    <3>2. Flowing(i)' /\ HeadComes(i)'
      BY <1>1, <1>2, <1>4, <2>1, <2>2, <3>1 DEF Stream, Live, Flowing, HeadComes
    <3>3. Placed(i)'
      BY <1>4, <2>1, <2>2, <2>4, <3>1 DEF Stream, Placed, Live
    <3> QED
      BY <2>3, <3>2, <3>3 DEF Stream
  <2>5. CASE req' = [req EXCEPT ![i] = "leaving"]
    <3>1. req'[i] = "leaving"
      BY <1>3, <2>5
    <3> QED
      BY <2>3, <3>1 DEF Stream, Placed, Live
  <2> QED
    BY <1>6, <2>4, <2>5 DEF SendRequest, Upload, Written
<1>7. CASE ReadHeaders(i)
  <2>1. /\ req[i] = "headers" /\ Take(i) /\ UNCHANGED <<up, cli, sent, streams, got>>
    BY <1>7 DEF ReadHeaders
  <2>2. CASE req'[i] \in {"body", "relay"} /\ how' = how
    <3>1. queue[i][1].type = "head"
      BY <1>4, <2>1 DEF Stream, Live, HeadComes, Take
    <3>2. /\ Flowing(i)' /\ \A type : Has(i, queue'[i], type) => Has(i, queue[i], type)
      BY <1>2, <2>1, <2>2, <3>1, Taken DEF Live
    <3>3. Numbered(i)' /\ Quiet(i)' /\ Placed(i)' /\ HeadComes(i)'
      BY <1>2, <1>4, <2>1, <2>2, <3>2 DEF Stream, Live, Numbered, Quiet, Placed, HeadComes
    <3> QED
      BY <3>2, <3>3 DEF Stream
  <2>3. CASE req'[i] = "leaving"
    <3>1. Has(i, queue'[i], "end") => Has(i, queue[i], "end")
      BY <1>3, <2>1, TailFacts DEF Take
    <3> QED
      BY <1>2, <1>4, <2>1, <2>3, <3>1, StreamLeft DEF Live
  <2> QED
    BY <1>3, <1>7, <2>2, <2>3 DEF ReadHeaders
<1>8. CASE ReadBody(i)
  <2>1. /\ req[i] \in {"body", "relay"} /\ Take(i) /\ UNCHANGED <<up, cli, sent, streams>>
    BY <1>8 DEF ReadBody, Reading
  <2>2. \A type : Has(i, queue'[i], type) => Has(i, queue[i], type)
    BY <1>3, <2>1, TailFacts DEF Take
  <2>3. CASE req'[i] = "leaving" /\ got' = got
    BY <1>2, <1>4, <2>1, <2>2, <2>3, StreamLeft DEF Live
  <2>4. CASE req' = req /\ how' = how /\ Flowing(i)' /\ Numbered(i)'
    <3>1. Quiet(i)' /\ Placed(i)' /\ HeadComes(i)'
      BY <1>2, <1>4, <2>1, <2>2, <2>4 DEF Stream, Live, Quiet, Placed, HeadComes
    <3> QED
      BY <2>4, <3>1 DEF Stream
  <2>5. CASE queue[i][1].type = "data" /\ got' = [got EXCEPT ![i] = Append(@, queue[i][1].v)]
             /\ UNCHANGED <<req, how>>
    <3>1. /\ queue[i][1].v = Len(got[i]) + 1 /\ Len(got[i]) < Len(sent[i]) /\ Flowing(i)'
      BY <1>2, <2>1, <2>5, Taken DEF Live
    <3>2. got'[i] = Append(got[i], Len(got[i]) + 1)
      BY <1>3, <2>5, <3>1
    <3>3. got[i] \in Seq(Chunks) /\ Len(got[i]) \in Nat /\ Len(sent[i]) \in Nat
      BY LineTypes DEF MuxInv
    <3>4. \A k \in DOMAIN got'[i] : got'[i][k] = k
      BY <1>4, <3>2, <3>3 DEF Stream, Numbered
    <3>5. Len(got'[i]) <= Len(sent'[i])
      BY <1>1, <3>1, <3>2, <3>3
    <3>6. Numbered(i)'
      BY <1>1, <1>4, <3>4, <3>5 DEF Stream, Numbered
    <3> QED
      BY <2>4, <2>5, <3>1, <3>6
  <2>6. CASE queue[i][1].type = "head" /\ UNCHANGED <<req, got, how>>
    <3>1. Flowing(i)'
      BY <1>2, <2>1, <2>6, Taken DEF Live
    <3>2. Numbered(i)'
      BY <1>4, <2>1, <2>6 DEF Stream, Numbered
    <3> QED
      BY <2>4, <2>6, <3>1, <3>2
  <2> QED
    BY <1>3, <1>8, <2>3, <2>5, <2>6 DEF ReadBody
<1>9. CASE ReadClosed(i)
  <2>1. req'[i] = "leaving" /\ UNCHANGED <<cli, sent, got, queue>>
    BY <1>3, <1>9 DEF ReadClosed
  <2> QED
    BY <1>2, <1>4, <2>1, StreamLeft DEF Live
<1>10. CASE RelayUp(i) \/ RelayWriteFails(i)
  <2>1. UNCHANGED <<up, cli, sent, got, queue, streams>>
    BY <1>10 DEF RelayUp, RelayWriteFails
  <2>2. CASE req'[i] = "leaving"
    BY <1>2, <1>4, <2>1, <2>2, StreamLeft DEF Live
  <2>3. CASE UNCHANGED <<req, how>>
    BY <1>2, <1>4, <2>1, <2>3, StreamSame DEF Apart
  <2> QED
    BY <1>3, <1>10, <2>2, <2>3 DEF RelayUp, RelayWriteFails
<1>11. CASE Remove(i)
  <2>1. /\ req'[i] \in {"over", "closing"} /\ UNCHANGED <<cli, sent, got>> /\ queue'[i] = <<>>
    BY <1>3, <1>11 DEF Remove
  <2>2. ~Has(i, queue'[i], "end")
    BY <2>1 DEF Has
  <2> QED
    BY <1>2, <1>4, <2>1, <2>2, StreamLeft DEF Live
<1>12. CASE CloseDone(i)
  <2>1. req'[i] = "over" /\ UNCHANGED <<cli, sent, got, queue>>
    BY <1>3, <1>12 DEF CloseDone
  <2> QED
    BY <1>2, <1>4, <2>1, StreamLeft DEF Live
<1> QED
  BY <1>6, <1>7, <1>8, <1>9, <1>10, <1>11, <1>12 DEF Handler, Runs

LEMMA OtherStreams ==
  ASSUME MuxInv, NEW j \in Ids,
         TunnelBreaks \/ (\E i \in Ids : Open(i) \/ BrowserLeaves(i) \/ BrowserStalls(i))
         \/ UNCHANGED vars
  PROVE  Stream(j)'
<1>1. Stream(j) /\ Line \in Seq(Frames) /\ wire \in Seq(Frames) /\ held \in Seq(Frames)
      /\ Len(sent[j]) \in Nat /\ Len(got[j]) \in Nat /\ req \in [Ids -> Places]
  BY LineTypes DEF MuxInv, DoneInv
<1>2. CASE TunnelBreaks
  <2>1. PICK n \in 0 .. Len(wire) : wire' = SubSeq(wire, 1, n)
    BY <1>2 DEF TunnelBreaks
  <2>2. held' = held /\ up' = FALSE /\ Apart(j)
    BY <1>2 DEF TunnelBreaks, pumping, handling, Apart
  <2>3. Line' = SubSeq(Line, 1, Len(held) + n)
    BY <1>1, <2>1, <2>2, Shifts DEF Line
  <2>4. Len(held) + n \in 0 .. Len(Line)
    BY <1>1, Joined DEF Line
  <2>5. ASSUME NEW lo \in Nat, NEW hi \in Nat
        PROVE  Ordered(j, Line, lo, hi) => Ordered(j, Line', lo, hi)
    BY <1>1, <2>3, <2>4, CutShort
  <2>6. /\ \A type : Has(j, Line', type) => Has(j, Line, type)
        /\ HeadFirst(j, Line) => HeadFirst(j, Line')
        /\ (\A p \in DOMAIN Line : Line[p].id # j) => \A p \in DOMAIN Line' : Line'[p].id # j
    BY <1>1, <2>3, <2>4, CutShort
  <2>7. Numbered(j)' /\ Quiet(j)' /\ Placed(j)'
    BY <1>1, <2>2, <2>6 DEF Stream, Numbered, Quiet, Placed, Apart
  <2>8. Flowing(j) => Flowing(j)'
    BY <1>1, <2>2, <2>5 DEF Flowing, Apart
  <2>9. HeadComes(j) => HeadComes(j)'
    BY <2>2, <2>6 DEF HeadComes, Apart
  <2> QED
    BY <1>1, <2>2, <2>7, <2>8, <2>9 DEF Stream, Apart
<1>3. ASSUME NEW i \in Ids, Open(i) PROVE Stream(j)'
  <2>1. /\ req[i] = "none" /\ req' = [req EXCEPT ![i] = "opened"] /\ streams' = streams \cup {i}
        /\ UNCHANGED <<up, wire, held, cli, sent, queue, got, how>>
    BY <1>3 DEF Open, At, Goto, tunnel, pumping
  <2>2. Line' = Line
    BY <2>1 DEF Line
  <2>3. CASE i = j
    <3>1. req'[j] = "opened" /\ j \in streams'
      BY <1>1, <2>1, <2>3
    <3>2. Numbered(j)' /\ Quiet(j)' /\ Placed(j)'
      BY <1>1, <2>1, <2>2, <2>3, <3>1 DEF Stream, Numbered, Quiet, Placed, Live
    <3>3. Flowing(j)' /\ HeadComes(j)'
      BY <1>1, <2>1, <2>2, <2>3, <3>1 DEF Stream, Live, Flowing, HeadComes
    <3> QED
      BY <3>2, <3>3 DEF Stream
  <2>4. CASE i # j
    <3>1. Apart(j)
      BY <1>1, <2>1, <2>4 DEF Apart
    <3> QED
      BY <1>1, <2>1, <2>2, <3>1, StreamSame
  <2> QED
    BY <2>3, <2>4
<1>4. ASSUME UNCHANGED <<up, wire, held, cli, sent, queue, got, how, req, streams>> PROVE Stream(j)'
  <2>1. Line' = Line
    BY <1>4 DEF Line
  <2> QED
    BY <1>1, <1>4, <2>1, StreamSame DEF Apart
<1>5. ASSUME NEW i \in Ids, BrowserLeaves(i) \/ BrowserStalls(i) PROVE Stream(j)'
  BY <1>4, <1>5 DEF BrowserLeaves, BrowserStalls, tunnel, pumping, handling
<1>6. CASE UNCHANGED vars
  BY <1>4, <1>6 DEF vars
<1> QED
  BY <1>2, <1>3, <1>5, <1>6

LEMMA MuxStart == Init => MuxInv
<1> SUFFICES ASSUME Init PROVE MuxInv
  OBVIOUS
<1>1. MuxTypes /\ DoneInv /\ ~closed
  BY TypesStart DEF Init, DoneInv, Places
<1>2. Line = <<>>
  BY DEF Init, Line
<1>3. ASSUME NEW i \in Ids PROVE Stream(i)
  <2>1. /\ queue[i] = <<>> /\ sent[i] = <<>> /\ got[i] = <<>> /\ req[i] = "none" /\ cli[i] = "idle"
        /\ how[i] = "open" /\ Len(sent[i]) = 0 /\ Len(got[i]) = 0
    BY DEF Init
  <2>2. Numbered(i) /\ Quiet(i) /\ Placed(i)
    BY <1>2, <2>1 DEF Numbered, Quiet, Placed, Has
  <2>3. HeadComes(i)
    BY <1>2, <2>1 DEF HeadComes, HeadFirst
  <2>4. Ordered(i, <<>>, 0, 0) /\ Full(i, <<>>, 0, 0) /\ ~Has(i, <<>>, "end")
    BY DEF Ordered, Full, Has
  <2>5. Flowing(i)
    BY <1>2, <2>1, <2>4 DEF Flowing
  <2> QED
    BY <2>2, <2>3, <2>5 DEF Stream
<1> QED
  BY <1>1, <1>3 DEF MuxInv

LEMMA MuxStep ==
  ASSUME MuxInv, [Next]_vars
  PROVE  MuxInv'
<1>1. MuxTypes' /\ DoneInv'
  BY TypesStep, DoneStep DEF MuxInv
<1>2. ASSUME NEW j \in Ids PROVE Stream(j)'
  <2>1. CASE Pump
    BY <2>1, PumpStreams
  <2>2. ASSUME NEW i \in Ids, Cli(i) PROVE Stream(j)'
    BY <2>2, CliStreams
  <2>3. ASSUME NEW i \in Ids, Handler(i) PROVE Stream(j)'
    BY <2>3, HandlerStreams
  <2> QED
    BY <2>1, <2>2, <2>3, OtherStreams DEF Next
<1>3. closed' => ~up'
  <2>1. CASE TunnelBreaks
    BY <2>1 DEF TunnelBreaks
  <2>2. CASE PumpFails
    BY <2>2 DEF PumpFails, others
  <2>3. UNCHANGED <<up, closed>> => (closed' => ~up')
    BY DEF MuxInv
  <2>4. Pump => PumpFails \/ UNCHANGED <<up, closed>>
    BY DEF Pump, PumpReads, PumpDelivers, PumpTests, PumpCloses, PumpStops, others
  <2>5. ASSUME NEW i \in Ids, Cli(i) PROVE UNCHANGED <<up, closed>>
    BY <2>5 DEF Cli, LocalAnswers, LocalRefuses, LocalSends, LocalEnds, LocalFails, Emit, pumping
  <2>6. ASSUME NEW i \in Ids, Handler(i) PROVE UNCHANGED <<up, closed>>
    BY <2>6 DEF Handler, Runs, SendRequest, Upload, Written, RelayWriteFails, ReadHeaders, ReadBody, ReadClosed, RelayUp, Remove, CloseDone,
                tunnel, pumping
  <2>7. ASSUME NEW i \in Ids, Open(i) \/ BrowserLeaves(i) \/ BrowserStalls(i)
        PROVE  UNCHANGED <<up, closed>>
    BY <2>7 DEF Open, BrowserLeaves, BrowserStalls, tunnel, pumping
  <2>8. UNCHANGED vars => UNCHANGED <<up, closed>>
    BY DEF vars
  <2> QED
    BY <2>1, <2>2, <2>3, <2>4, <2>5, <2>6, <2>7, <2>8 DEF Next
<1> QED
  BY <1>1, <1>2, <1>3 DEF MuxInv

-----------------------------------------------------------------------------
(* The multiplexer implements StreamDelivery. *)

EndedNow == {i \in Ids : cli[i] = "ended"}
HowNow == [i \in Ids |-> IF how[i] = "refused" THEN "open" ELSE how[i]]
PromiseVars == <<sent, EndedNow, got, HowNow, ~up, gone>>

\* The CLI's events are the abstract sends.
LEMMA CliSends ==
  ASSUME MuxInv, NEW i \in Ids, Cli(i)
  PROVE  Promise!Send(i)
<1>1. PICK f \in Seq(Frames), c \in Seq(Chunks), n \in {"body", "relay", "ended"} :
        Emit(i, f, c, n) /\ Shape(i, f, c, n)
  BY CliShape DEF MuxInv
<1>2. /\ UNCHANGED <<got, how, up, gone>>
      /\ sent' = [sent EXCEPT ![i] = @ \o c] /\ cli' = [cli EXCEPT ![i] = n]
  BY <1>1 DEF Emit, handling, browser
<1>3. cli[i] # "ended" /\ cli \in [Ids -> {"idle", "asked", "body", "relay", "ended"}]
  BY <1>1 DEF Shape, MuxInv, MuxTypes, TypeOK
<1>4. i \notin EndedNow /\ (EndedNow' = EndedNow \/ EndedNow' = EndedNow \cup {i})
  BY <1>2, <1>3 DEF EndedNow
<1>5. c \in {<<>>} \cup {<<x>> : x \in Chunks}
  <2>1. c = <<>> \/ (c = <<Len(sent[i]) + 1>> /\ Len(c) = 1)
    BY <1>1 DEF Shape
  <2>2. Len(c) = 1 => c = <<c[1]>> /\ c[1] \in Chunks
    BY Single
  <2> QED
    BY <2>1, <2>2
<1>6. HowNow' = HowNow
  BY <1>2 DEF HowNow
<1> QED
  BY <1>2, <1>4, <1>5, <1>6 DEF Promise!Send, EndedNow, HowNow

\* A handler's end is an abstract one.
LEMMA EndsAs ==
  ASSUME MuxInv, NEW i \in Ids, req[i] \in Live, NEW r \in {"whole", "cut", "left"},
         how' = [how EXCEPT ![i] = r],
         r = "whole" => cli[i] = "ended" /\ got[i] = sent[i],
         r = "cut" => ~up,
         r = "left" => i \in gone,
         UNCHANGED <<sent, cli, got, up, gone>>
  PROVE  Promise!Finish(i)
<1>1. how[i] = "open" /\ how \in [Ids -> {"open", "whole", "cut", "left", "refused"}]
  BY DEF MuxInv, MuxTypes, TypeOK, Stream, Placed
<1>2. HowNow[i] = "open" /\ HowNow' = [HowNow EXCEPT ![i] = r]
  BY <1>1 DEF HowNow
<1>3. r = "whole" => i \in EndedNow /\ got[i] = sent[i]
  BY DEF EndedNow
<1>4. EndedNow' = EndedNow
  BY DEF EndedNow
<1> QED
  BY <1>2, <1>3, <1>4 DEF Promise!Finish, Promise!Whole, EndedNow, HowNow

LEMMA HandlerKeepsPromise ==
  ASSUME MuxInv, NEW i \in Ids, Handler(i)
  PROVE  Promise!Deliver(i) \/ Promise!Finish(i) \/ UNCHANGED PromiseVars
<1> USE DEF tunnel, pumping, browser, At, Goto, OverAs
<1>1. UNCHANGED <<up, wire, held, sent, gone>>
  BY DEF Handler, Runs, SendRequest, Upload, Written, RelayWriteFails, ReadHeaders, ReadBody, ReadClosed, RelayUp, Remove, CloseDone
<1>2. /\ how \in [Ids -> {"open", "whole", "cut", "left", "refused"}] /\ Stream(i)
      /\ cli \in [Ids -> {"idle", "asked", "body", "relay", "ended"}]
      /\ got \in [Ids -> Seq(Chunks)]
  BY DEF MuxInv, MuxTypes, TypeOK
<1>3. req[i] \in Live => how[i] = "open"
  BY <1>2 DEF Stream, Placed
<1>4. UNCHANGED <<cli, got, how>> => UNCHANGED PromiseVars
  BY <1>1 DEF PromiseVars, EndedNow, HowNow
<1>5. CASE SendRequest(i) \/ Upload(i)
  <2>1. req[i] \in Live /\ cli[i] = "idle" /\ UNCHANGED got
    BY <1>5 DEF SendRequest, Upload, Written, Live, MuxInv, MuxTypes
  <2>2. CASE how' = how
    <3>1. EndedNow' = EndedNow
      BY <1>2, <1>5, <2>1 DEF SendRequest, Upload, Written, EndedNow
    <3> QED
      BY <1>1, <2>1, <2>2, <3>1 DEF PromiseVars, HowNow
  <2>3. CASE ~up /\ how' = [how EXCEPT ![i] = "cut"] /\ cli' = cli
    BY <1>1, <2>1, <2>3, EndsAs
  <2> QED
    BY <1>5, <2>2, <2>3 DEF SendRequest, Upload, Written
<1>6. CASE ReadHeaders(i)
  <2>1. req[i] \in Live /\ UNCHANGED <<cli, got>>
    BY <1>6 DEF ReadHeaders, Live
  <2>2. how' = how \/ how' = [how EXCEPT ![i] = "refused"]
    BY <1>6 DEF ReadHeaders
  <2>3. HowNow' = HowNow
    BY <1>2, <1>3, <2>1, <2>2 DEF HowNow
  <2> QED
    BY <1>1, <2>1, <2>3 DEF PromiseVars, EndedNow
<1>7. CASE ReadBody(i)
  <2>1. req[i] \in Live /\ Take(i) /\ UNCHANGED <<cli, streams>>
    BY <1>7 DEF ReadBody, Reading, Live
  <2>2. Line' = Line
    BY <1>1 DEF Line
  <2>3. CASE queue[i][1].type = "data" /\ got' = [got EXCEPT ![i] = Append(@, queue[i][1].v)] /\ how' = how
    <3>1. queue[i][1].v = Len(got[i]) + 1 /\ Len(got[i]) < Len(sent[i])
      BY <1>1, <2>1, <2>2, <2>3, Taken
    <3>2. sent[i][Len(got[i]) + 1] = Len(got[i]) + 1
      <4>1. /\ sent[i] \in Seq(Chunks) /\ Len(got[i]) \in Nat /\ Len(sent[i]) \in Nat
            /\ \A k \in DOMAIN sent[i] : sent[i][k] = k
        BY <1>2, LineTypes DEF MuxInv, Stream, Numbered
      <4>2. Len(got[i]) + 1 \in DOMAIN sent[i]
        BY <3>1, <4>1
      <4> QED
        BY <4>1, <4>2
    <3>3. got' = [got EXCEPT ![i] = Append(@, sent[i][Len(@) + 1])]
      BY <2>3, <3>1, <3>2
    <3>4. HowNow[i] = "open" /\ HowNow' = HowNow /\ EndedNow' = EndedNow
      BY <1>3, <2>1, <2>3 DEF HowNow, EndedNow
    <3> QED
      BY <1>1, <3>1, <3>3, <3>4 DEF Promise!Deliver, HowNow, EndedNow
  <2>4. CASE queue[i][1].type = "data" /\ i \in gone /\ how' = [how EXCEPT ![i] = "left"] /\ got' = got
    BY <1>1, <2>1, <2>4, EndsAs
  <2>5. CASE queue[i][1].type = "end" /\ how' = [how EXCEPT ![i] = "whole"] /\ got' = got
    <3>1. cli[i] = "ended" /\ got[i] = sent[i]
      BY <1>1, <2>1, <2>2, <2>5, Taken
    <3> QED
      BY <1>1, <2>1, <2>5, <3>1, EndsAs
  <2>6. CASE UNCHANGED <<got, how>>
    BY <1>4, <2>1, <2>6
  <2> QED
    BY <1>7, <2>3, <2>4, <2>5, <2>6 DEF ReadBody
<1>8. CASE ReadClosed(i)
  <2>1. req[i] \in Live /\ how' = [how EXCEPT ![i] = "cut"] /\ UNCHANGED <<cli, got>>
    BY <1>8 DEF ReadClosed, Reading, Live
  <2>2. ~up
    BY <1>8, <2>1 DEF ReadClosed, Ended, MuxInv, DoneInv, Live
  <2> QED
    BY <1>1, <2>1, <2>2, EndsAs
<1>9. CASE RelayUp(i)
  <2>1. CASE req[i] = "relay"
    <3>1. i \in gone /\ how' = [how EXCEPT ![i] = "left"] /\ UNCHANGED <<cli, got>>
      BY <1>9, <2>1 DEF RelayUp
    <3> QED
      BY <1>1, <2>1, <3>1, EndsAs DEF Live
  <2>2. CASE req[i] # "relay"
    BY <1>4, <1>9, <2>2 DEF RelayUp
  <2> QED
    BY <2>1, <2>2
<1>12. CASE RelayWriteFails(i)
  <2>1. req[i] \in Live /\ ~up /\ how' = [how EXCEPT ![i] = "cut"] /\ UNCHANGED <<cli, got>>
    BY <1>12 DEF RelayWriteFails, Live
  <2> QED
    BY <1>1, <2>1, EndsAs
<1>10. CASE Remove(i)
  BY <1>4, <1>10 DEF Remove
<1>11. CASE CloseDone(i)
  BY <1>4, <1>11 DEF CloseDone
<1> QED
  BY <1>5, <1>6, <1>7, <1>8, <1>9, <1>10, <1>11, <1>12 DEF Handler, Runs

LEMMA KeepsPromise ==
  ASSUME MuxInv, [Next]_vars
  PROVE  [Promise!Next]_Promise!vars
<1>1. PromiseVars = Promise!vars /\ (UNCHANGED PromiseVars => UNCHANGED Promise!vars)
  BY DEF PromiseVars, EndedNow, HowNow, Promise!vars
<1>2. ASSUME UNCHANGED <<sent, cli, got, how, up, gone>> PROVE UNCHANGED Promise!vars
  BY <1>2 DEF Promise!vars
<1>3. CASE TunnelBreaks
  <2>1. up' = FALSE /\ UNCHANGED <<sent, cli, got, how, gone>>
    BY <1>3 DEF TunnelBreaks, handling, browser
  <2>2. Promise!Break
    BY <2>1 DEF Promise!Break
  <2> QED
    BY <2>2 DEF Promise!Next
<1>4. CASE Pump
  <2>1. UNCHANGED <<sent, cli, got, how, up, gone>>
    BY <1>4 DEF Pump, PumpReads, PumpDelivers, PumpFails, PumpCloses, PumpStops, PumpTests, others, browser
  <2> QED
    BY <1>2, <2>1
<1>5. ASSUME NEW i \in Ids, Open(i) PROVE UNCHANGED Promise!vars
  BY <1>2, <1>5 DEF Open, tunnel, browser
<1>6. ASSUME NEW i \in Ids, Cli(i) PROVE Promise!Next
  BY <1>6, CliSends DEF Promise!Next
<1>7. ASSUME NEW i \in Ids, Handler(i) PROVE [Promise!Next]_Promise!vars
  BY <1>1, <1>7, HandlerKeepsPromise DEF Promise!Next
<1>8. ASSUME NEW i \in Ids, BrowserLeaves(i) PROVE Promise!Next
  <2>1. gone' = gone \cup {i} /\ UNCHANGED <<sent, cli, got, how, up>>
    BY <1>8 DEF BrowserLeaves, tunnel, handling
  <2>2. Promise!Leave
    BY <2>1 DEF Promise!Leave
  <2> QED
    BY <2>2 DEF Promise!Next
<1>9. ASSUME NEW i \in Ids, BrowserStalls(i) PROVE UNCHANGED Promise!vars
  BY <1>2, <1>9 DEF BrowserStalls, tunnel, handling
<1>10. CASE UNCHANGED vars
  BY <1>2, <1>10 DEF vars
<1> QED
  BY <1>3, <1>4, <1>5, <1>6, <1>7, <1>8, <1>9, <1>10 DEF Next

\* Every browser receives what the CLI sent for its stream, in order and without a
\* gap, until the CLI's END, the tunnel's end or its own leaving: whatever the other
\* streams do, however small the queues, and wherever pump, handlers and the second
\* goroutine of an upgrade are interleaved (mux.go, tunnel.ts).
THEOREM MuxDelivers == Spec => DeliversStreams
<1>1. Init => Promise!Init
  <2> SUFFICES ASSUME Init PROVE Promise!Init
    OBVIOUS
  <2>1. /\ sent = [i \in Ids |-> <<>>] /\ got = sent /\ gone = {} /\ up = TRUE
        /\ how = [i \in Ids |-> "open"] /\ cli = [i \in Ids |-> "idle"]
    BY DEF Init
  <2>2. {i \in Ids : cli[i] = "ended"} = {}
    BY <2>1
  <2>3. [i \in Ids |-> IF how[i] = "refused" THEN "open" ELSE how[i]] = [i \in Ids |-> "open"]
    BY <2>1
  <2> QED
    BY <2>1, <2>2, <2>3 DEF Promise!Init
<1> QED
  BY <1>1, MuxStart, MuxStep, KeepsPromise, PTL DEF Spec, DeliversStreams, Promise!Spec
=============================================================================
