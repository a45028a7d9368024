------------------------------ MODULE ApiProxy ------------------------------
(***************************************************************************)
(* A request on its way through the API to a session's machine, and what   *)
(* becomes of the answer (api/src/index.ts, auth.ts, proxy.ts, guards.ts,  *)
(* request-body.ts, ws-relay.ts, provider-secrets.ts).                     *)
(*                                                                         *)
(* The request passes authentication, the access check, the session lookup *)
(* and the guards of its session's opencode version; it is then forwarded  *)
(* once.  A WebSocket is relayed frame by frame, an event stream chunk by  *)
(* chunk; either lasts until one side ends it or a re-check of the user's  *)
(* access denies.                                                          *)
(***************************************************************************)
EXTENDS ApiGuards

CONSTANTS
  Deployments,  \* sets of disabled features
  MaxFrames     \* bound: frames the browser sends on a WebSocket

ASSUME DeploymentsAssumption == Deployments \subseteq SUBSET Features
ASSUME BoundsAssumption == MaxFrames \in Nat

Kinds == {"object", "array", "garbage", "huge"}
Paths == {"plain", "odd", "undecodable"}

\* Facts a body of the route may hold, and the requests a browser may make.  A
\* project's start command is one of its commands.
FactsOf(v, r) ==
  IF v = 1 THEN {x \in Facts : \E f \in Features : <<r, x>> \in FeatureGuard[f].rules}
  ELSE {x \in Facts : <<r, x>> \in
          {<<"worktree", "directory">>, <<"fsWrite", "elsewhere">>, <<"session", "permission">>,
           <<"project", "commands">>, <<"project", "upload">>, <<"command", "runs">>}
          \cup {"apiPrompt", "command"} \X {"upload", "file"}}
Requests(v) ==
  {q \in [route : Routes, kind : Kinds, facts : SUBSET Facts, path : Paths] :
     /\ q.facts \subseteq IF q.kind = "object" THEN FactsOf(v, q.route) ELSE {}
     /\ q.route = "project" /\ "runs" \in q.facts => "commands" \in q.facts
     /\ q.route \in Reads => q.kind = "object"
     /\ q.kind # "object" => q.path = "plain"}

VARIABLES
  req, version, disabled,  \* the request, its session's opencode version, the deployment
  at,       \* how far it has come
  todo,     \* checks of the guard set that have not run
  unread,   \* the request's body has not been read
  kept,     \* c.var.body holds it
  relayed,  \* what opencode got: "no", "whole" or "lost" (the body)
  answer,   \* what goes back to the browser
  down,     \* the browser's end of a stream
  up,       \* the gateway's end of it
  watch,    \* its access watch runs
  hand,     \* an event stream's pull: what it waits for or holds
  pending, got, sent  \* frames that wait, that went up, that the browser sent

request == <<req, version, disabled>>
body == <<unread, kept>>
stream == <<down, up, watch, hand, pending, got, sent>>
vars == <<request, at, todo, body, relayed, answer, stream>>

TypeOK ==
  /\ version \in {1, 2} /\ req \in Requests(version) /\ disabled \in Deployments
  /\ at \in {"auth", "access", "lookup", "guards", "forward", "fetched", "events", "socket", "done"}
  /\ todo \in Seq([stop : BOOLEAN, reads : BOOLEAN, objects : BOOLEAN, denies : SUBSET Facts])
  /\ unread \in BOOLEAN /\ kept \in BOOLEAN
  /\ relayed \in {"no", "whole", "lost"} /\ answer \in {"none", "as is", "clean", "502", "error"}
  /\ down \in {"none", "open", "closing", "closed"}
  /\ up \in {"none", "connecting", "open", "closing", "closed", "failed"}
  /\ watch \in BOOLEAN /\ hand \in {"idle", "reading", "chunk", "done", "error"}
  /\ pending \in Seq(1 .. MaxFrames) /\ got \in Seq(1 .. MaxFrames) /\ sent \in 0 .. MaxFrames

Init ==
  /\ version \in {1, 2} /\ req \in Requests(version) /\ disabled \in Deployments
  /\ at = "auth" /\ todo = <<>>
  /\ unread = TRUE /\ kept = FALSE /\ relayed = "no" /\ answer = "none"
  /\ down = "none" /\ up = "none" /\ watch = FALSE /\ hand = "idle"
  /\ pending = <<>> /\ got = <<>> /\ sent = 0

-----------------------------------------------------------------------------
(* The request. *)

Go(from, to) == at = from /\ at' = to

\* 401 without a valid token; 403 or 503 from the access check.
Authenticate == (Go("auth", "access") \/ Go("auth", "done"))
                /\ UNCHANGED <<request, todo, body, relayed, answer, stream>>
CheckAccess == (Go("access", "lookup") \/ Go("access", "done"))
               /\ UNCHANGED <<request, todo, body, relayed, answer, stream>>

\* sessionAccess: 404 unless the session is the user's, 502 without a gateway.  Its
\* record's version chooses the guards.
SessionAccess ==
  /\ \/ Go("lookup", "guards") /\ todo' = VersionedGuards(version, disabled, req)
     \/ Go("lookup", "done") /\ UNCHANGED todo
  /\ UNCHANGED <<request, body, relayed, answer, stream>>

\* The body as jsonBody finds it: a stream that was read is empty.
Found == IF kept \/ unread THEN req ELSE [req EXCEPT !.kind = "object", !.facts = {}]

\* Mutant of JsonBody: the bytes are not kept for the next guard and the proxy.
JsonBodyDrops == unread' = FALSE /\ UNCHANGED kept

JsonBody == unread' = FALSE /\ kept' = (Found.kind # "huge")

Refuses(check) ==
  \/ check.stop
  \/ /\ check.reads
     /\ \/ Found.kind \in {"huge", "garbage"}
        \/ Found.kind = "array" /\ check.objects
        \/ Found.kind = "object" /\ Found.facts \cap check.denies # {}

\* The next check of the guard set runs; the first refusal is the answer.
RunCheck ==
  /\ at = "guards" /\ todo # <<>>
  /\ todo' = Tail(todo)
  /\ IF Head(todo).reads THEN JsonBody ELSE UNCHANGED body
  /\ at' = IF Refuses(Head(todo)) THEN "done" ELSE "guards"
  /\ UNCHANGED <<request, relayed, answer, stream>>

\* wsRelay takes an upgrade, a GET; the browser's socket opens, then the one to the gateway.
OnOpen ==
  /\ todo = <<>> /\ req.route \in Reads /\ Go("guards", "socket")
  /\ relayed' = "whole" /\ down' = "open" /\ up' = "connecting" /\ watch' = TRUE
  /\ UNCHANGED <<request, todo, body, answer, hand, pending, got, sent>>

\* proxyHttp sends the checked bytes, or the stream nobody has read.
Forward ==
  /\ todo = <<>> /\ Go("guards", "fetched")
  /\ relayed' = IF kept \/ unread THEN "whole" ELSE "lost"
  /\ UNCHANGED <<request, todo, body, answer, stream>>

\* providerSecretsGuard: 1.x responses that hold the secrets of providers.  Of the two routes
\* "config" stands for, PATCH /global/config answers with the whole file, PATCH /config with
\* no more than it was sent.
Rewritten == version = 1 /\ req.route \in {"providers", "config"}
Untouched == ~Rewritten \/ req.route = "config"

\* The answer to an ordinary request goes back as it is, every answer outside 2xx ("error")
\* too; a rewritten one without its secrets, or as a 502 when it cannot be parsed.
Respond ==
  /\ req.route # "events" /\ Go("fetched", "done")
  /\ \/ Rewritten /\ answer' \in {"clean", "502"}
     \/ Untouched /\ answer' = "as is"
     \/ answer' = "error"
  /\ UNCHANGED <<request, todo, body, relayed, stream>>

\* An event stream goes back under the user's access watch (endOnDenial).
RespondStream ==
  /\ req.route = "events" /\ Go("fetched", "events")
  /\ answer' = "as is" /\ down' = "open" /\ up' = "open" /\ watch' = TRUE
  /\ UNCHANGED <<request, todo, body, relayed, hand, pending, got, sent>>

-----------------------------------------------------------------------------
(* An event stream: pull reads from the gateway and enqueues for the browser. *)

Quiet == UNCHANGED <<request, at, todo, body, relayed, answer>>
NoFrames == UNCHANGED <<pending, got, sent>>

\* close(ctl), ctl.error and cancel: all stop the watch.
CloseDown == down' = "closed" /\ watch' = FALSE

Pull ==
  /\ at = "events" /\ down = "open" /\ hand = "idle" /\ hand' = "reading"
  /\ Quiet /\ NoFrames /\ UNCHANGED <<down, up, watch>>

\* reader.read() settles: with a chunk, or as the gateway's stream has ended.
ReadSettles ==
  /\ at = "events" /\ hand = "reading"
  /\ \/ up = "open" /\ hand' = "chunk"
     \/ up = "closed" /\ hand' = "done"
     \/ up = "failed" /\ hand' = "error"
  /\ Quiet /\ NoFrames /\ UNCHANGED <<down, up, watch>>

\* pull goes on: a chunk is enqueued, the end closes, unless a denial or the browser
\* has closed first.
PullEnds ==
  /\ at = "events" /\ hand \in {"chunk", "done", "error"} /\ hand' = "idle"
  /\ IF hand # "chunk" /\ down = "open" THEN CloseDown ELSE UNCHANGED <<down, watch>>
  /\ Quiet /\ NoFrames /\ UNCHANGED up

GatewayEnds ==
  /\ at = "events" /\ up = "open" /\ up' \in {"closed", "failed"}
  /\ Quiet /\ NoFrames /\ UNCHANGED <<down, watch, hand>>

\* A denial, or the browser leaving: the reader is cancelled.
EndStream ==
  /\ at = "events" /\ down = "open"
  /\ CloseDown /\ up' = (IF up = "open" THEN "closed" ELSE up)
  /\ Quiet /\ NoFrames /\ UNCHANGED hand

-----------------------------------------------------------------------------
(* A WebSocket: relayEvents. *)

Socket == at = "socket" /\ Quiet /\ UNCHANGED hand
Closing(end) == IF end \in {"closing", "closed"} THEN end ELSE "closing"

\* Mutant of UpOpen: the queue is sent but not emptied.
UpOpenKeepsPending ==
  /\ Socket /\ up = "connecting" /\ up' = "open"
  /\ got' = got \o pending
  /\ UNCHANGED <<down, watch, pending, sent>>

UpOpen ==
  /\ Socket /\ up = "connecting" /\ up' = "open"
  /\ got' = got \o pending /\ pending' = <<>>
  /\ UNCHANGED <<down, watch, sent>>

\* onMessage: to the gateway once its socket is open, to the queue otherwise.
OnMessage ==
  /\ Socket /\ down = "open" /\ sent < MaxFrames /\ sent' = sent + 1
  /\ IF up = "open" THEN got' = Append(got, sent') /\ UNCHANGED pending
     ELSE pending' = Append(pending, sent') /\ UNCHANGED got
  /\ UNCHANGED <<down, up, watch>>

\* upstream.onerror, which a close follows.
UpErrors ==
  /\ Socket /\ up \in {"connecting", "open"} /\ up' = "closing"
  /\ down' = Closing(down)
  /\ UNCHANGED <<watch, pending, got, sent>>

\* upstream.onclose: the gateway closed, or the closing handshake is over.
UpCloses ==
  /\ Socket /\ up \in {"open", "closing"} /\ up' = "closed"
  /\ watch' = FALSE /\ down' = Closing(down)
  /\ NoFrames

\* Mutant of DownCloses: the gateway's socket is left alone.
DownClosesAlone ==
  /\ Socket /\ down \in {"open", "closing"} /\ down' = "closed"
  /\ watch' = FALSE
  /\ NoFrames /\ UNCHANGED up

\* onClose: the browser closed or vanished, or the closing handshake is over.
DownCloses ==
  /\ Socket /\ down \in {"open", "closing"} /\ down' = "closed"
  /\ watch' = FALSE /\ up' = Closing(up)
  /\ NoFrames

\* The watch denies, having stopped itself.
Deny ==
  /\ Socket /\ watch /\ watch' = FALSE
  /\ down' = Closing(down) /\ up' = Closing(up)
  /\ NoFrames

-----------------------------------------------------------------------------
Next ==
  \/ Authenticate \/ CheckAccess \/ SessionAccess \/ RunCheck
  \/ OnOpen \/ Forward \/ Respond \/ RespondStream
  \/ Pull \/ ReadSettles \/ PullEnds \/ GatewayEnds \/ EndStream
  \/ UpOpen \/ OnMessage \/ UpErrors \/ UpCloses \/ DownCloses \/ Deny

Spec == Init /\ [][Next]_vars

\* Promises and socket events are delivered, a browser reads its event stream, and a
\* connection attempt or a closing handshake ends.
FairSpec ==
  /\ Spec
  /\ WF_vars(Pull) /\ WF_vars(ReadSettles) /\ WF_vars(PullEnds)
  /\ WF_vars(up = "connecting" /\ (UpOpen \/ UpErrors))
  /\ WF_vars(up = "closing" /\ UpCloses) /\ WF_vars(down = "closing" /\ DownCloses)

-----------------------------------------------------------------------------
(* Properties. *)

\* What reaches opencode is the whole body the browser sent, and nothing that a disabled
\* feature or opencode-rc itself keeps out, whichever guards looked at it before and
\* whatever they read (feature-guards.ts, v2-guard.ts, request-body.ts:39-49).
DisabledStaysOut ==
  relayed # "no" =>
    /\ relayed = "whole"
    /\ Uses(req) \cap disabled = {}
    /\ ~Forbidden(version, req)

\* Frames that came before the gateway's socket opened go before those that came after,
\* and none is sent twice or dropped while both ends are open (ws-relay.ts:43-59).
FramesInOrder ==
  /\ got \o pending = [i \in 1 .. sent |-> i]
  /\ up = "open" => pending = <<>>

\* Whichever end of a stream closes, fails or is denied first, the other end closes too
\* and the re-checks of the user's access stop (ws-relay.ts:49-63, proxy.ts:156-190).
EndsTogether ==
  (down \in {"closing", "closed"} \/ up \in {"closing", "closed", "failed"})
    ~> (down = "closed" /\ up \in {"closed", "failed"} /\ ~watch)

=============================================================================
