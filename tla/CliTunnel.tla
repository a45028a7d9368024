------------------------------ MODULE CliTunnel ------------------------------
(***************************************************************************)
(* The CLI's end of the tunnel: dispatching multiplexed frames to the      *)
(* local opencode server (cli/src/tunnel.ts).                              *)
(*                                                                         *)
(* The gateway opens streams on a tunnel and numbers them from 1.  A       *)
(* stream carries one request: without a body ("get"), with a body sent as *)
(* DATA frames and an END ("post"), or a WebSocket upgrade ("ws") that     *)
(* relays DATA both ways until an END.  When a tunnel closes the CLI opens *)
(* the next one, where stream IDs start at 1 again.  Bodies are collected  *)
(* in pendingRequests, one map for the whole process; the sockets of       *)
(* upgraded streams are kept per tunnel.                                   *)
(*                                                                         *)
(* A stream is named <<tunnel, id>>.  Every handler of the code runs to    *)
(* completion in one turn of the event loop, so each is one action.        *)
(***************************************************************************)
EXTENDS Naturals, Sequences, FiniteSets

CONSTANTS
  MaxTunnels,   \* bound: tunnels opened one after another
  MaxStreams,   \* bound: streams per tunnel
  MaxChunks,    \* bound: DATA frames the gateway sends per stream
  MaxInFlight,  \* bound: frames on their way to the CLI
  NoEntry       \* no entry in pendingRequests

ASSUME BoundsAssumption ==
  /\ MaxTunnels \in Nat \ {0} /\ MaxStreams \in Nat \ {0}
  /\ MaxChunks \in Nat /\ MaxInFlight \in Nat \ {0}

Tuns == 1 .. MaxTunnels
Ids == 1 .. MaxStreams
Streams == Tuns \X Ids

VARIABLES
  tun,      \* the current tunnel, 0 before the first
  up,       \* it is connected
  gw,       \* the gateway's end of each stream of the current tunnel
  wire,     \* frames in flight to the CLI on the current tunnel
  pending,  \* pendingRequests: id -> entry, NoEntry if none
  sockets,  \* stream -> its connection to the local server, for upgrades
  active,   \* tunnel -> ids in its socket map (wsStreamsByTunnel)
  wrote,    \* stream -> the DATA written into its socket
  ran       \* stream -> the requests run locally for it

vars == <<tun, up, gw, wire, pending, sockets, active, wrote, ran>>

Kinds == {"get", "post", "ws"}

\* A DATA frame's payload is named by its stream and its place in it; an END
\* names how many DATA frames its stream sent.
Frame == [type : {"headers", "data", "end"}, id : Ids, kind : Kinds, n : 0 .. MaxChunks]
Chunk == [stream : Streams, n : 1 .. MaxChunks]
Entry == [ws : Tuns, chunks : Seq(Chunk)]
Run == [chunks : Seq(Chunk), by : Streams, n : 0 .. MaxChunks]

TypeOK ==
  /\ tun \in 0 .. MaxTunnels /\ up \in BOOLEAN
  /\ gw \in [Ids -> [phase : {"unused", "body", "wait", "relay", "ended"},
                     kind : Kinds, sent : 0 .. MaxChunks]]
  /\ wire \in Seq(Frame) /\ Len(wire) <= MaxInFlight
  /\ pending \in [Ids -> Entry \cup {NoEntry}]
  /\ sockets \in [Streams -> {"none", "dialing", "open", "half", "closed"}]
  /\ active \in [Tuns -> SUBSET Ids]
  /\ \A k \in Tuns : \A i \in active[k] : sockets[<<k, i>>] = "open"
  /\ wrote \in [Streams -> Seq(Chunk)]
  /\ ran \in [Streams -> Seq(Run)]

Unused == [phase |-> "unused", kind |-> "get", sent |-> 0]

Init ==
  /\ tun = 0 /\ up = FALSE
  /\ gw = [i \in Ids |-> Unused]
  /\ wire = <<>>
  /\ pending = [i \in Ids |-> NoEntry]
  /\ sockets = [s \in Streams |-> "none"]
  /\ active = [k \in Tuns |-> {}]
  /\ wrote = [s \in Streams |-> <<>>]
  /\ ran = [s \in Streams |-> <<>>]

cli == <<pending, sockets, active, wrote, ran>>

-----------------------------------------------------------------------------
(* The tunnel. *)

\* startTunnel succeeds; the gateway has a fresh muxConn.
TunnelOpen ==
  /\ ~up /\ tun < MaxTunnels
  /\ tun' = tun + 1 /\ up' = TRUE
  /\ gw' = [i \in Ids |-> Unused]
  /\ wire' = <<>>
  /\ UNCHANGED cli

\* The tunnel's "close" event: closeAllStreamsFor destroys the sockets in its
\* map.  Frames in flight are lost; pendingRequests is left as it is.
TunnelClose ==
  /\ up
  /\ up' = FALSE
  /\ wire' = <<>>
  /\ sockets' = [s \in Streams |->
        IF s[1] = tun /\ s[2] \in active[tun] THEN "closed" ELSE sockets[s]]
  /\ active' = [active EXCEPT ![tun] = {}]
  /\ UNCHANGED <<tun, gw, pending, wrote, ran>>

-----------------------------------------------------------------------------
(* What the gateway sends (mux.go). *)

Send(type, i) ==
  /\ up /\ Len(wire) < MaxInFlight
  /\ wire' = Append(wire, [type |-> type, id |-> i, kind |-> gw'[i].kind, n |-> gw'[i].sent])
  /\ UNCHANGED <<tun, up, cli>>

\* openStream takes the next ID; the request headers go out.
GwRequest(i, kind) ==
  /\ gw[i].phase = "unused" /\ \A j \in 1 .. i - 1 : gw[j].phase # "unused"
  /\ gw' = [gw EXCEPT ![i].phase = IF kind = "post" THEN "body" ELSE "wait",
                      ![i].kind = kind]
  /\ Send("headers", i)

GwData(i) ==
  /\ gw[i].phase \in {"body", "relay"} /\ gw[i].sent < MaxChunks
  /\ gw' = [gw EXCEPT ![i].sent = @ + 1]
  /\ Send("data", i)

\* The body ends, or the browser's connection of an upgraded stream does (also
\* because the CLI's END made the gateway close it).
GwEnd(i) ==
  /\ gw[i].phase \in {"body", "relay"}
  /\ gw' = [gw EXCEPT ![i].phase = "ended"]
  /\ Send("end", i)

\* The gateway sees the 101 the CLI sent when the socket opened, and relays.
GwUpgraded(i) ==
  /\ up
  /\ gw[i].phase = "wait" /\ gw[i].kind = "ws"
  /\ sockets[<<tun, i>>] \in {"open", "half", "closed"}
  /\ gw' = [gw EXCEPT ![i].phase = "relay"]
  /\ UNCHANGED <<tun, up, wire, cli>>

-----------------------------------------------------------------------------
(* The CLI's message handler. *)

Here(i) == <<tun, i>>

\* A DATA frame's payload.
Payload(f) == [stream |-> Here(f.id), n |-> f.n]

\* doProxyToLocal starts the request that belongs to stream s.
RunLocally(s, run) == ran' = [ran EXCEPT ![s] = Append(@, run)]

\* Mutant of OnHeaders: an entry that is already there is kept.
OnHeadersKeepsEntry(f) ==
  /\ f.type = "headers"
  /\ \/ /\ f.kind = "ws"
        /\ sockets' = [sockets EXCEPT ![Here(f.id)] = "dialing"]
        /\ UNCHANGED <<pending, ran>>
     \/ /\ f.kind = "post"
        /\ pending' = [pending EXCEPT ![f.id] =
             [ws |-> tun, chunks |-> IF @ = NoEntry THEN <<>> ELSE @.chunks]]
        /\ UNCHANGED <<sockets, ran>>
     \/ /\ f.kind = "get"
        /\ RunLocally(Here(f.id), [chunks |-> <<>>, by |-> Here(f.id), n |-> 0])
        /\ UNCHANGED <<sockets, pending>>
  /\ UNCHANGED <<active, wrote>>

\* FRAME_REQUEST_HEADERS: proxyToLocal.
OnHeaders(f) ==
  /\ f.type = "headers"
  /\ \/ /\ f.kind = "ws"
        /\ sockets' = [sockets EXCEPT ![Here(f.id)] = "dialing"]
        /\ UNCHANGED <<pending, ran>>
     \/ /\ f.kind = "post"
        /\ pending' = [pending EXCEPT ![f.id] = [ws |-> tun, chunks |-> <<>>]]
        /\ UNCHANGED <<sockets, ran>>
     \/ /\ f.kind = "get"
        /\ RunLocally(Here(f.id), [chunks |-> <<>>, by |-> Here(f.id), n |-> 0])
        /\ UNCHANGED <<sockets, pending>>
  /\ UNCHANGED <<active, wrote>>

\* Mutant of OnData: one map of sockets for all tunnels.
OnDataGlobalMap(f) ==
  /\ f.type = "data"
  /\ \E k \in Tuns :
       f.id \in active[k] /\ wrote' = [wrote EXCEPT ![<<k, f.id>>] = Append(@, Payload(f))]
  /\ UNCHANGED <<sockets, active, ran, pending>>

\* FRAME_DATA: handleBodyFrame.
OnData(f) ==
  /\ f.type = "data"
  /\ \/ /\ f.id \in active[tun]
        /\ wrote' = [wrote EXCEPT ![Here(f.id)] = Append(@, Payload(f))]
        /\ UNCHANGED pending
     \/ /\ f.id \notin active[tun] /\ pending[f.id] # NoEntry
        /\ pending' = [pending EXCEPT ![f.id].chunks = Append(@, Payload(f))]
        /\ UNCHANGED wrote
     \/ /\ f.id \notin active[tun] /\ pending[f.id] = NoEntry
        /\ UNCHANGED <<pending, wrote>>
  /\ UNCHANGED <<sockets, active, ran>>

\* Mutant of OnEnd: what has been run stays in pendingRequests.
OnEndKeepsEntry(f) ==
  /\ f.type = "end"
  /\ f.id \notin active[tun] /\ pending[f.id] # NoEntry
  /\ RunLocally(<<pending[f.id].ws, f.id>>,
                [chunks |-> pending[f.id].chunks, by |-> Here(f.id), n |-> f.n])
  /\ UNCHANGED <<sockets, active, pending, wrote>>

\* Mutant of OnEnd: one map of sockets for all tunnels.
OnEndGlobalMap(f) ==
  /\ f.type = "end"
  /\ \/ \E k \in Tuns :
          /\ f.id \in active[k]
          /\ active' = [active EXCEPT ![k] = @ \ {f.id}]
          /\ sockets' = [sockets EXCEPT ![<<k, f.id>>] = "half"]
          /\ UNCHANGED <<pending, ran>>
     \/ /\ \A k \in Tuns : f.id \notin active[k]
        /\ \/ /\ pending[f.id] # NoEntry
              /\ pending' = [pending EXCEPT ![f.id] = NoEntry]
              /\ RunLocally(<<pending[f.id].ws, f.id>>,
                            [chunks |-> pending[f.id].chunks, by |-> Here(f.id), n |-> f.n])
           \/ pending[f.id] = NoEntry /\ UNCHANGED <<pending, ran>>
        /\ UNCHANGED <<sockets, active>>
  /\ UNCHANGED wrote

\* FRAME_END: handleBodyFrame.
OnEnd(f) ==
  /\ f.type = "end"
  /\ \/ /\ f.id \in active[tun]
        /\ active' = [active EXCEPT ![tun] = @ \ {f.id}]
        /\ sockets' = [sockets EXCEPT ![Here(f.id)] = "half"]
        /\ UNCHANGED <<pending, ran>>
     \/ /\ f.id \notin active[tun] /\ pending[f.id] # NoEntry
        /\ pending' = [pending EXCEPT ![f.id] = NoEntry]
        /\ RunLocally(<<pending[f.id].ws, f.id>>,
                      [chunks |-> pending[f.id].chunks, by |-> Here(f.id), n |-> f.n])
        /\ UNCHANGED <<sockets, active>>
     \/ /\ f.id \notin active[tun] /\ pending[f.id] = NoEntry
        /\ UNCHANGED <<pending, ran, sockets, active>>
  /\ UNCHANGED wrote

Receive ==
  /\ up /\ wire # <<>>
  /\ wire' = Tail(wire)
  /\ OnHeaders(Head(wire)) \/ OnData(Head(wire)) \/ OnEnd(Head(wire))
  /\ UNCHANGED <<tun, up, gw>>

-----------------------------------------------------------------------------
(* The local server's answers to upgrade requests. *)

\* The request's "upgrade" event, also on a tunnel that has closed meanwhile:
\* streamsFor(ws, true) makes a new map for it.
Upgraded(s) ==
  /\ sockets[s] = "dialing"
  /\ sockets' = [sockets EXCEPT ![s] = "open"]
  /\ active' = [active EXCEPT ![s[1]] = @ \cup {s[2]}]
  /\ UNCHANGED <<tun, up, gw, wire, pending, wrote, ran>>

\* Its "response" or "error" event: the gateway gets a plain response.
Refused(s) ==
  /\ sockets[s] = "dialing"
  /\ sockets' = [sockets EXCEPT ![s] = "none"]
  /\ UNCHANGED <<tun, up, gw, wire, pending, active, wrote, ran>>

\* The socket's "close" or "error" event: forgetIfCurrent, and an END to the
\* gateway.
SocketClosed(s) ==
  /\ sockets[s] \in {"open", "half"}
  /\ sockets' = [sockets EXCEPT ![s] = "closed"]
  /\ active' = [active EXCEPT ![s[1]] = @ \ {s[2]}]
  /\ UNCHANGED <<tun, up, gw, wire, pending, wrote, ran>>

-----------------------------------------------------------------------------

Next ==
  \/ TunnelOpen \/ TunnelClose \/ Receive
  \/ \E i \in Ids, kind \in Kinds : GwRequest(i, kind)
  \/ \E i \in Ids : GwData(i) \/ GwEnd(i) \/ GwUpgraded(i)
  \/ \E s \in Streams : Upgraded(s) \/ Refused(s) \/ SocketClosed(s)

Spec == Init /\ [][Next]_vars

\* The CLI reads what arrives.
FairSpec == Spec /\ WF_vars(Receive)

-----------------------------------------------------------------------------
(* Properties. *)

\* A request is run on the local server at most once, however streams, aborted
\* uploads and reconnects interleave (handleBodyFrame deletes what it runs).
RunOnce == \A s \in Streams : Len(ran[s]) <= 1

\* A request run by its own END has the whole body the gateway sent for it, in
\* order, and nothing of another stream's, even if an upload with the same
\* stream ID was cut off by an earlier tunnel's end.
OwnBodyComplete ==
  \A s \in Streams : \A j \in 1 .. Len(ran[s]) :
    LET r == ran[s][j] IN
    r.by = s => r.chunks = [c \in 1 .. r.n |-> [stream |-> s, n |-> c]]

\* A local socket receives what the browser of its stream sent, from the first byte on,
\* in order and without a gap: the gateway starts to relay when the socket is in its
\* tunnel's map, a leftover upload with its ID takes none of its frames, and a socket
\* that opens after its tunnel closed gets nothing from the next tunnel's stream with
\* its ID.  When the browser's END closes it, it has received everything.
SocketGetsItsStream ==
  \A s \in Streams :
    /\ wrote[s] = [c \in 1 .. Len(wrote[s]) |-> [stream |-> s, n |-> c]]
    /\ up /\ tun = s[1] /\ sockets[s] = "half" => Len(wrote[s]) = gw[s[2]].sent

\* An upload whose END the gateway has sent is run, unless its tunnel closes
\* first: no leftover of another stream swallows its frames.
CompleteUploadRuns ==
  \A s \in Streams :
    up /\ tun = s[1] /\ gw[s[2]].kind = "post" /\ gw[s[2]].phase = "ended"
      ~> Len(ran[s]) > 0 \/ ~(up /\ tun = s[1])
=============================================================================
