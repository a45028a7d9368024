------------------------------ MODULE GatewayMux ------------------------------
(***************************************************************************)
(* The gateway's multiplexer (gateway/mux.go) and the CLI's answers to it  *)
(* (cli/src/tunnel.ts): how one tunnel carries the responses of many       *)
(* browser requests.                                                       *)
(*                                                                         *)
(* Each request has a handler goroutine and a stream with a bounded queue  *)
(* of frames; one goroutine, the read pump, moves every frame from the     *)
(* tunnel to its stream's queue and blocks while that queue is full.  A     *)
(* stream's done channel is closed by its handler (removeStream) or by the *)
(* pump when the tunnel ends; both test the channel before they close it.  *)
(* An upgraded stream has a second goroutine that relays the browser's     *)
(* bytes.                                                                  *)
(***************************************************************************)
EXTENDS Naturals, Sequences, FiniteSets

CONSTANTS
  Requests,   \* bound: browser requests, one stream each
  Upgrades,   \* the requests that are WebSocket upgrades
  Cap,        \* capacity of a stream's queue (64 in the code)
  MaxChunks,  \* bound: DATA frames of the local server per stream
  MaxWire,    \* bound: frames in flight when the CLI sends more
  MaxLosses   \* bound: browsers that leave or stall

ASSUME BoundsAssumption ==
  /\ Requests \in Nat /\ Upgrades \subseteq 1 .. Requests /\ Cap \in Nat \ {0}
  /\ MaxChunks \in Nat \ {0} /\ MaxWire \in Nat \ {0} /\ MaxLosses \in Nat

Ids == 1 .. Requests

VARIABLES
  up,      \* the tunnel's connection works
  wire,    \* frames on their way from the CLI
  pump,    \* the read pump: what it does, and the stream it is at
  held,    \* the frame the pump is delivering, if it is
  closed,  \* muxConn.closed
  streams, \* streams in the map
  done,    \* streams whose done channel is closed
  queue,   \* stream -> its incoming frames
  req,     \* stream -> where its handler is
  cli,     \* stream -> the CLI's side of it
  sent,    \* stream -> chunks the CLI sent
  got,     \* stream -> chunks the browser received
  how,     \* stream -> how the delivery ended
  upward,  \* upgraded streams whose browser-to-tunnel goroutine runs
  gone,    \* streams whose browser has disconnected
  stalled, \* streams whose browser does not read
  panics   \* goroutines that closed a closed channel

vars == <<up, wire, pump, held, closed, streams, done, queue, req, cli, sent,
          got, how, upward, gone, stalled, panics>>

\* A stream's DATA chunks are numbered by their place; the last one may be the CLI's
\* own error text.
Chunks == 1 .. MaxChunks + 1
Statuses == {101, 200, 502}
Frames == [id : Ids, type : {"head"}, v : Statuses] \cup [id : Ids, type : {"data"}, v : Chunks]
            \cup [id : Ids, type : {"end"}, v : {0}]

TypeOK ==
  /\ up \in BOOLEAN /\ closed \in BOOLEAN
  /\ wire \in Seq(Frames)
  /\ pump.at \in {"read", "deliver", "range", "close", "stopped"}
  /\ pump.at \in {"deliver", "close"} => pump.id \in Ids
  /\ held \in Seq(Frames) /\ Len(held) = (IF pump.at = "deliver" THEN 1 ELSE 0)
  /\ closed <=> pump.at \in {"range", "close", "stopped"}
  /\ queue \in [Ids -> Seq(Frames)]
  /\ \A i \in Ids : Len(queue[i]) <= Cap /\ \A k \in DOMAIN queue[i] : queue[i][k].id = i
  /\ req \in [Ids -> {"none", "opened", "upload", "headers", "body", "relay", "leaving", "closing",
                    "over"}]
  /\ cli \in [Ids -> {"idle", "asked", "body", "relay", "ended"}]
  /\ sent \in [Ids -> Seq(Chunks)] /\ got \in [Ids -> Seq(Chunks)]
  /\ how \in [Ids -> {"open", "whole", "cut", "left", "refused"}]
  /\ \A s \in {streams, done, upward, gone, stalled} : s \subseteq Ids
  /\ panics \subseteq {"handler", "pump"}

Init ==
  /\ up = TRUE /\ closed = FALSE
  /\ wire = <<>> /\ held = <<>> /\ pump = [at |-> "read", id |-> 0]
  /\ queue = [i \in Ids |-> <<>>]
  /\ req = [i \in Ids |-> "none"]
  /\ cli = [i \in Ids |-> "idle"]
  /\ sent = queue /\ got = queue
  /\ how = [i \in Ids |-> "open"]
  /\ streams = {} /\ done = {} /\ upward = {}
  /\ gone = {} /\ stalled = {} /\ panics = {}

tunnel == <<up, wire>>
pumping == <<pump, held, closed>>
browser == <<gone, stalled>>
handling == <<streams, done, queue, req, got, how, upward, panics>>

-----------------------------------------------------------------------------
(* The CLI's answers (doProxyToLocal, proxyWebSocketToLocal).  Frames one   *)
(* event sends are appended together.                                      *)

Headers(i, status) == [id |-> i, type |-> "head", v |-> status]
Data(i, chunk) == [id |-> i, type |-> "data", v |-> chunk]
End(i) == [id |-> i, type |-> "end", v |-> 0]

\* What a closed WebSocket is given to send is discarded: with the tunnel the
\* CLI's part in it ends.
Emit(i, frames, chunks, next) ==
  /\ up /\ Len(wire) < MaxWire
  /\ wire' = wire \o frames
  /\ sent' = [sent EXCEPT ![i] = @ \o chunks]
  /\ cli' = [cli EXCEPT ![i] = next]
  /\ UNCHANGED <<up, pumping, handling, browser>>

\* The local server answers; an upgraded socket may already hold bytes.
LocalAnswers(i) ==
  /\ cli[i] = "asked"
  /\ \/ i \notin Upgrades /\ Emit(i, <<Headers(i, 200)>>, <<>>, "body")
     \/ i \in Upgrades /\ Emit(i, <<Headers(i, 101)>>, <<>>, "relay")
     \/ i \in Upgrades /\ Emit(i, <<Headers(i, 101), Data(i, 1)>>, <<1>>, "relay")

\* It answers an upgrade with a plain response, sent once it is complete.
LocalRefuses(i) ==
  /\ cli[i] = "asked" /\ i \in Upgrades
  /\ Emit(i, <<Headers(i, 200), Data(i, 1), End(i)>>, <<1>>, "ended")

LocalSends(i) ==
  /\ cli[i] \in {"body", "relay"} /\ Len(sent[i]) < MaxChunks
  /\ LET c == Len(sent[i]) + 1 IN Emit(i, <<Data(i, c)>>, <<c>>, cli[i])

\* The body or socket ends; a socket that fails has an "error" and a "close"
\* event, and each sends an END.
LocalEnds(i) ==
  /\ cli[i] \in {"body", "relay"}
  /\ \/ Emit(i, <<End(i)>>, <<>>, "ended")
     \/ cli[i] = "relay" /\ Emit(i, <<End(i), End(i)>>, <<>>, "ended")

\* The request or its body fails: a 502 with the error as its body, although
\* headers may have gone out before.
LocalFails(i) ==
  /\ cli[i] \in {"asked", "body"}
  /\ LET c == Len(sent[i]) + 1 IN Emit(i, <<Headers(i, 502), Data(i, c), End(i)>>, <<c>>, "ended")

Cli(i) == LocalAnswers(i) \/ LocalRefuses(i) \/ LocalSends(i) \/ LocalEnds(i) \/ LocalFails(i)

\* The connection breaks: frames in flight may be lost, the last ones first.
TunnelBreaks ==
  /\ up /\ up' = FALSE
  /\ \E n \in 0 .. Len(wire) : wire' = SubSeq(wire, 1, n)
  /\ UNCHANGED <<pumping, handling, cli, sent, browser>>

-----------------------------------------------------------------------------
(* readPump. *)

others == <<up, streams, req, cli, sent, got, how, upward, browser>>

\* ReadMessage, and the stream looked up: frames for others are dropped.
PumpReads ==
  /\ pump.at = "read" /\ wire # <<>>
  /\ wire' = Tail(wire)
  /\ IF Head(wire).id \in streams
     THEN held' = <<Head(wire)>> /\ pump' = [at |-> "deliver", id |-> Head(wire).id]
     ELSE UNCHANGED <<held, pump>>
  /\ UNCHANGED <<others, closed, done, queue, panics>>

\* Mutant of PumpDelivers: a full queue does not hold the pump up, the frame is lost.
PumpDeliversOrDrops ==
  /\ pump.at = "deliver"
  /\ queue' = IF Len(queue[pump.id]) < Cap THEN [queue EXCEPT ![pump.id] = @ \o held] ELSE queue
  /\ pump' = [at |-> "read", id |-> 0] /\ held' = <<>>
  /\ UNCHANGED <<others, wire, closed, done, panics>>

\* The select: into the queue when there is room, or dropped on s.done.
PumpDelivers ==
  /\ pump.at = "deliver"
  /\ \/ Len(queue[pump.id]) < Cap /\ queue' = [queue EXCEPT ![pump.id] = @ \o held]
     \/ pump.id \in done /\ UNCHANGED queue
  /\ pump' = [at |-> "read", id |-> 0] /\ held' = <<>>
  /\ UNCHANGED <<others, wire, closed, done, panics>>

\* Mutant of PumpFails: m.closed is not closed before the range.
PumpFailsUnclosed ==
  /\ pump.at = "read" /\ ~up /\ wire = <<>>
  /\ pump' = [at |-> "range", id |-> 0]
  /\ UNCHANGED <<others, wire, held, closed, done, queue, panics>>

\* ReadMessage fails: m.closed is closed, and the range over the map begins.
PumpFails ==
  /\ pump.at = "read" /\ ~up /\ wire = <<>>
  /\ closed' = TRUE /\ pump' = [at |-> "range", id |-> 0]
  /\ UNCHANGED <<others, wire, held, done, queue, panics>>

\* The range comes to a stream that is still there: its done is tested ...
PumpTests(i) ==
  /\ pump.at = "range" /\ i \in streams \ done
  /\ pump' = [at |-> "close", id |-> i]
  /\ UNCHANGED <<others, wire, held, closed, done, queue, panics>>

\* close(s.done): closing a closed channel panics.
Twice(i, who) == IF i \in done THEN panics \cup {who} ELSE panics

\* ... and then closed.
PumpCloses ==
  /\ pump.at = "close"
  /\ panics' = Twice(pump.id, "pump")
  /\ done' = done \cup {pump.id}
  /\ pump' = [at |-> "range", id |-> 0]
  /\ UNCHANGED <<others, wire, held, closed, queue>>

\* A stream opened while the range runs may be missed.
PumpStops ==
  /\ pump.at = "range" /\ \A i \in streams \ done : req[i] \in {"none", "opened"}
  /\ pump' = [at |-> "stopped", id |-> 0]
  /\ UNCHANGED <<others, wire, held, closed, done, queue, panics>>

Pump == PumpReads \/ PumpDelivers \/ PumpFails \/ PumpCloses \/ PumpStops \/ \E i \in Ids : PumpTests(i)

-----------------------------------------------------------------------------
(* A request's handler (proxyHTTPRequest, proxyWebSocketUpgrade). *)

At(i, here) == req[i] = here
Goto(i, there) == req' = [req EXCEPT ![i] = there]
OverAs(i, result) == how' = [how EXCEPT ![i] = result]

\* openStream: the next stream ID, in the map from here on.
Open(i) ==
  /\ At(i, "none") /\ \A j \in Ids : j < i => ~At(j, "none")
  /\ Goto(i, "opened")
  /\ streams' = streams \cup {i}
  /\ UNCHANGED <<tunnel, pumping, cli, sent, browser, done, queue, got, how, upward, panics>>

\* The last frame of the request is written, which starts it at the CLI; on a broken
\* connection the write fails, or goes nowhere.
Written(i) ==
  /\ \/ up /\ cli' = [cli EXCEPT ![i] = "asked"] /\ Goto(i, "headers") /\ UNCHANGED how
     \/ ~up /\ Goto(i, "headers") /\ UNCHANGED <<cli, how>>
     \/ ~up /\ Goto(i, "leaving") /\ OverAs(i, "cut") /\ UNCHANGED cli
  /\ UNCHANGED <<tunnel, pumping, sent, browser, streams, done, queue, got, upward, panics>>

\* REQUEST_HEADERS, which a request with a body does not end with.
SendRequest(i) ==
  /\ At(i, "opened")
  /\ \/ Written(i)
     \/ /\ i \notin Upgrades /\ Goto(i, "upload")
        /\ UNCHANGED <<tunnel, pumping, cli, sent, browser, streams, done, queue, got, how,
                       upward, panics>>

\* The body's last piece and END.  The loop reads the browser's connection and looks at
\* nothing else: it waits for a browser that sends nothing, also once the tunnel has ended.
Upload(i) == At(i, "upload") /\ Written(i)

\* readFrame takes the next frame of the queue.
Take(i) == queue[i] # <<>> /\ queue' = [queue EXCEPT ![i] = Tail(@)]

\* readResponseHeaders; 101 on an upgrade hijacks the connection, any other
\* status there is answered without its body.
ReadHeaders(i) ==
  /\ At(i, "headers") /\ Take(i)
  /\ LET status == queue[i][1].v IN
     \/ i \notin Upgrades /\ Goto(i, "body") /\ UNCHANGED <<how, upward>>
     \/ i \in Upgrades /\ status = 101 /\ Goto(i, "relay") /\ upward' = upward \cup {i} /\ UNCHANGED how
     \/ i \in Upgrades /\ status # 101 /\ Goto(i, "leaving") /\ OverAs(i, "refused") /\ UNCHANGED upward
  /\ UNCHANGED <<tunnel, pumping, cli, sent, browser, streams, done, got, panics>>

Reading(i) == At(i, "body") \/ (At(i, "relay") /\ how[i] = "open")

\* A DATA frame is written to a browser that reads; other headers are skipped.
ReadBody(i) ==
  /\ Reading(i) /\ Take(i)
  /\ LET f == queue[i][1] IN
     \/ f.type = "data" /\ i \notin gone \cup stalled /\ got' = [got EXCEPT ![i] = Append(@, f.v)] /\ UNCHANGED <<req, how>>
     \/ f.type = "data" /\ i \in gone /\ Goto(i, "leaving") /\ OverAs(i, "left") /\ UNCHANGED got
     \/ f.type = "end" /\ Goto(i, "leaving") /\ OverAs(i, "whole") /\ UNCHANGED got
     \/ f.type = "head" /\ UNCHANGED <<req, got, how>>
  /\ UNCHANGED <<tunnel, pumping, cli, sent, browser, streams, done, upward, panics>>

\* Mutant of Ended: readFrame does not look at the tunnel.
EndedByDone(i) == i \in done

\* readFrame finds the stream or the tunnel closed ...
Ended(i) == i \in done \/ closed

\* ... which it may prefer to frames still queued.
ReadClosed(i) ==
  /\ At(i, "headers") \/ Reading(i)
  /\ Ended(i)
  /\ Goto(i, "leaving") /\ OverAs(i, "cut")
  /\ UNCHANGED <<tunnel, pumping, cli, sent, browser, streams, done, queue, got, upward, panics>>

\* Mutant of RelayUp: the goroutine that ends removes the stream itself.
RelayUpRemoves(i) ==
  /\ i \in upward /\ (i \in gone \/ ~At(i, "relay"))
  /\ upward' = upward \ {i} /\ done' = done \cup {i}
  /\ IF At(i, "relay") THEN Goto(i, "leaving") /\ OverAs(i, "left") ELSE UNCHANGED <<req, how>>
  /\ UNCHANGED <<tunnel, pumping, cli, sent, browser, streams, queue, got, panics>>

\* Browser to tunnel: the browser's connection ends, by itself or because the
\* handler closed it, and the CLI is sent an END.
RelayUp(i) ==
  /\ i \in upward /\ (i \in gone \/ ~At(i, "relay"))
  /\ upward' = upward \ {i}
  /\ IF At(i, "relay") THEN Goto(i, "leaving") /\ OverAs(i, "left") ELSE UNCHANGED <<req, how>>
  /\ UNCHANGED <<tunnel, pumping, cli, sent, browser, streams, done, queue, got, panics>>

\* It has more to send, and the write fails on a broken connection.
RelayWriteFails(i) ==
  /\ i \in upward /\ At(i, "relay") /\ ~up
  /\ upward' = upward \ {i}
  /\ Goto(i, "leaving") /\ OverAs(i, "cut")
  /\ UNCHANGED <<tunnel, pumping, cli, sent, browser, streams, done, queue, got, panics>>

\* removeStream: LoadAndDelete, the test of done ...  (What is queued is garbage.)
Remove(i) ==
  /\ At(i, "leaving")
  /\ streams' = streams \ {i} /\ queue' = [queue EXCEPT ![i] = <<>>]
  /\ Goto(i, IF i \in done THEN "over" ELSE "closing")
  /\ UNCHANGED <<tunnel, pumping, cli, sent, browser, done, got, how, upward, panics>>

\* ... and close(done).
CloseDone(i) ==
  /\ At(i, "closing")
  /\ panics' = Twice(i, "handler")
  /\ done' = done \cup {i}
  /\ Goto(i, "over")
  /\ UNCHANGED <<tunnel, pumping, cli, sent, browser, streams, queue, got, how, upward>>

\* What a handler does without its browser, but for a disconnection.
Runs(i) ==
  \/ SendRequest(i) \/ (i \in gone /\ Upload(i)) \/ ReadHeaders(i) \/ ReadBody(i)
  \/ ReadClosed(i) \/ RelayUp(i) \/ Remove(i) \/ CloseDone(i)

Handler(i) == Runs(i) \/ Upload(i) \/ RelayWriteFails(i)

MayLose(i) == i \in gone \cup stalled \/ Cardinality(gone \cup stalled) < MaxLosses

\* The browser disconnects, or stops reading.
BrowserLeaves(i) ==
  /\ At(i, "upload") \/ At(i, "headers") \/ Reading(i)
  /\ i \notin gone /\ MayLose(i)
  /\ gone' = gone \cup {i} /\ stalled' = stalled \ {i}
  /\ UNCHANGED <<tunnel, pumping, cli, sent, handling>>

BrowserStalls(i) ==
  /\ Reading(i) /\ i \notin gone /\ MayLose(i)
  /\ stalled' = stalled \cup {i}
  /\ UNCHANGED <<tunnel, pumping, cli, sent, handling, gone>>

-----------------------------------------------------------------------------

\* A panic in the pump's goroutine ends the gateway.
Next ==
  /\ "pump" \notin panics
  /\ \/ TunnelBreaks \/ Pump
     \/ \E i \in Ids : Open(i) \/ Cli(i) \/ Handler(i) \/ BrowserLeaves(i) \/ BrowserStalls(i)

Spec == Init /\ [][Next]_vars

\* The goroutines run; the local server, the network and the browser need not.
FairSpec == Spec /\ WF_vars(Pump) /\ \A i \in Ids : WF_vars(Runs(i))

-----------------------------------------------------------------------------
(* Properties. *)

\* What each browser receives is what the CLI sent for its stream, in order and
\* without a gap, and it is cut short only by the tunnel's end or the browser's
\* own; full queues, a blocked pump and other streams never lose a frame.  (An
\* upgrade the local server refuses is outside: its body is not passed on.)
Promise == INSTANCE StreamDelivery WITH
  ended <- {i \in Ids : cli[i] = "ended"},
  how <- [i \in Ids |-> IF how[i] = "refused" THEN "open" ELSE how[i]],
  broken <- ~up

DeliversStreams == Promise!Spec

\* A channel is closed twice only when a handler returns while the pump closes
\* the streams of a tunnel that has ended: as long as the tunnel lives, each
\* stream is removed by its own handler alone, upgraded streams with their two
\* goroutines included.
PanicNeedsTunnelEnd == panics # {} => closed

\* The pump waits for room in the queue of a stream whose browser does not read.
HeldUp == pump.at = "deliver" /\ pump.id \in stalled /\ Len(queue[pump.id]) = Cap

\* Once the CLI has ended a stream, or the tunnel has ended, the request is
\* over before long, also one that came when the tunnel was already closing; unless
\* its own browser sends its body without an end or does not read, or another's does
\* not read until the frames for it hold the pump up.
RequestsEnd ==
  \A i \in Ids :
    ~At(i, "none") /\ (cli[i] = "ended" \/ ~up)
      ~> At(i, "over") \/ At(i, "upload") \/ i \in stalled \/ HeldUp \/ "pump" \in panics

\* Streams are independent and run in parallel over the tunnel: a request whose response
\* the CLI has sent is over before long unless its own browser does not read or the
\* tunnel ends.
StreamsAreIndependent ==
  \A i \in Ids : cli[i] = "ended" ~> At(i, "over") \/ i \in stalled \/ ~up
=============================================================================
