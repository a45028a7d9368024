# Verification of opencode-rc

opencode-rc lets a browser (or a phone) control opencode sessions that run on a
user's own machine.  A CLI beside the local opencode server dials out to a
gateway and keeps one WebSocket tunnel open; the gateway multiplexes HTTP
requests and upgraded WebSockets over it; an API in front of the gateway signs
users in, lists their sessions and relays their requests; a web UI talks to the
API only.  Gateway and API run as several replicas and share one Redis.

This directory holds TLA+ models of the parts of that system that carry its own
state and its own protocols, TLC configurations that model-check them on small
instances, and proofs checked by TLAPS.  Definitions are translated from the
sources; `PROJECT.json` maps each of them to the lines it stands for.

    tlc -workers 2 -config MCRegistry.cfg MCSessionRegistry
    tlapm SessionRegistryProofs.tla

## 1. Inventory

| Component | Source | State it keeps | Operations |
|---|---|---|---|
| Gateway session registry | `gateway/registry.go`, `store.go`, `tunnel.go` | per pod: `sync.Map` session → tunnel; in Redis: a record with a TTL per session, a set of sessions per user; per tunnel: its refresh loop | Register, Deregister, RefreshLoop, store Put/Get/Delete, the tunnel handler |
| Session list of the API | `api/src/store.ts` | none of its own (reads and prunes the gateway's keys) | list, get |
| Gateway multiplexer | `gateway/mux.go` | per tunnel: stream table, next stream ID, `closed`; per stream: a queue of 64 frames, `done` | openStream, removeStream, readPump, proxyHTTPRequest, proxyWebSocketUpgrade |
| Gateway proxy and authentication | `gateway/gateway_proxy.go`, `token.go`, `oidc.go` | key cache | verify the token, look the tunnel up, hand over to the multiplexer |
| Version policy | `gateway/versions.go`, `protocol.go` | none | compare versions |
| CLI tunnel end | `cli/src/tunnel.ts` | `pendingRequests` (request bodies by stream ID), `wsStreamsByTunnel` (local sockets by tunnel and stream ID) | frame dispatch, proxyToLocal, handleBodyFrame, proxyWebSocketToLocal, closeAllStreamsFor |
| CLI reconnect loop, process | `cli/src/tunnel.ts` 488-582, `server.ts`, `shutdown.ts`, `index.ts` | current tunnel handle, back-off, the child process | startTunnelWithReconnect, close, startServer, shutdown |
| CLI sign-in, configuration | `cli/src/oidc.ts`, `config.ts` | none while running | one interactive flow |
| Refresh-token store | `api/src/token-store.ts` | in Redis: chain key, token records, used marks, grace keys, login codes | createChain, rotate, revoke, sessionActive, createCode, consumeCode |
| API login and token routes | `api/src/auth.ts`, `token.ts`, `oidc.ts` | cookies of a login in progress | login, callback, token, refresh, logout |
| Authorizer and access watch | `api/src/authz.ts` | in Redis: cache generation, one cached decision per user and generation; per open stream: a timer | check, watch, evict, evictAll, requireAccess |
| API stream relays | `api/src/ws-relay.ts`, `proxy.ts` | per stream: queued frames, open/closed of both sides | relayEvents, endOnDenial |
| API guards | `api/src/*-guard.ts`, `permission-rules.ts`, route tables | none | stateless decisions on one request |
| UI authentication | `ui/src/auth.ts` | the token pair, one refresh in flight, the tab lock | refresh, authFetch, logout |
| UI transport, access re-check | `ui/src/proxy-fetch.ts`, `native-transport.ts`, `access-recheck.ts` | open streams, throttle | fetch over the relay or the native bridge |
| UI views, native shells, deployment | `ui/src/*.tsx`, `ui/ios`, `ui/android`, `charts` | presentation | |

How they interact.

- CLI and gateway: one WebSocket per CLI.  The gateway sends REQUEST_HEADERS,
  DATA, END; the CLI answers with RESPONSE_HEADERS, DATA, END.  Stream IDs are
  the gateway's, and start again at 1 with every tunnel.
- Gateway pods and API: through Redis only.  The gateway writes session records,
  the API lists them, and the gateway's pod that holds the tunnel serves them.
- API and gateway: HTTP and WebSocket requests with a short-lived token.
- UI and API: access token (short), refresh token (rotated on every use).
- API and operator: a webhook that grants or denies access, and two admin
  routes that evict cached answers.

What is hard in it.

- Interleavings between goroutines of one pod, between pods, and between API
  replicas, on Redis keys that are read and written in separate calls.
- Reconnects: an old tunnel and its successor are alive at the same time at
  the gateway; at the CLI, state of the old tunnel outlives it.
- Crashes and rollouts: what a stopped pod or a dying request leaves in Redis.
- Time: record TTLs against refresh loops; cached decisions against re-check
  timers; grace windows against retries.
- Partial failure: a failed Redis call is logged and ignored in some places and
  final in others.

Each hazard, with the line where it bites and the properties that would catch
it, is listed in `PROJECT.json` under `hazards`.  What makes each component
correct:

- registry: every connected tunnel is routed, in its pod, and its record is in
  Redis; nothing else stays behind for ever; a tunnel removes only what is its own;
- CLI tunnel: each request reaches the local server at most once, with its own
  whole body; socket data stays within its stream; nothing of a dead tunnel acts
  on a live one;
- token store: one line of tokens per session; an answered token works; ended
  sessions and replayed tokens get nothing, and a replay ends the session;
- authorizer: bounds on how old an effective decision is, for requests and for
  open streams, and eviction that takes effect;
- multiplexer: a browser receives what the CLI sent for its stream, in order and
  without a gap; requests end when their answer or the tunnel does; handlers and
  the read pump do not close one channel twice while the tunnel lives;
- CLI process: it starts or exits, has one WebSocket at a time, comes back after
  any failure that can pass, and stops when told to;
- API guards: what a deployment has switched off never reaches opencode, whichever
  of its versions runs, and a body that a guard has read is forwarded whole;
- relays: no frame is lost, repeated or overtaken; whichever end closes first,
  fails or is denied, both ends close and the re-checks stop;
- UI authentication: tabs present refresh tokens in order, keep a session that
  lives, and never wait for a refresh that does not end;
- sign-in: tabs that share cookies never become somebody else, and a login code
  makes one session.

## 2. Modules

| Module | Models | Extends / uses |
|---|---|---|
| `SessionRegistry` | registry, Redis store, tunnel handler, session list | |
| `CliTunnel` | CLI frame dispatch with the gateway's sending side | |
| `StreamDelivery` | abstract: what the tunnel promises one browser request | |
| `GatewayMux` | the multiplexer with the CLI's response frames; implements `StreamDelivery` | `StreamDelivery` (INSTANCE) |
| `VersionPolicy` | version comparison, ranges, the policies of gateway and CLI | |
| `CliProcess` | the CLI from `main()` to exit, its connection attempts included | `VersionPolicy` |
| `RefreshSession` | abstract: what token rotation promises | |
| `TokenStore` | rotation as Redis calls; implements `RefreshSession` | `RefreshSession` (INSTANCE) |
| `SignIn` | sign-in of several tabs, its cookies and login codes | |
| `UiAuth` | tokens in the tabs of one browser, against `RefreshSession`'s rules | |
| `AccessWatch` | authorizer, cache, watch, in discrete time | |
| `ApiGuards` | the guard sets of both opencode versions | |
| `ApiProxy` | a request through the API's middlewares and guards, and the stream after it | `ApiGuards` |
| `MC...` | small instances (`MCSessionRegistry`, `MCCliProcess`, `MCApiProxy`) and symmetry (`MCTokenStore`, `MCAccessWatch`) | the module they name |
| `...Proofs` | theorems about `SessionRegistry`, `CliTunnel`, `GatewayMux`, `TokenStore`, `SignIn`, `AccessWatch`, `ApiProxy` | the module they name, TLAPS |
| `ClientProofs` | theorems about the two programs at the ends: `CliProcess` (with `VersionPolicy`) and `UiAuth` | `CliProcess`, `UiAuth`, TLAPS |

An operator whose name continues an action's name (`PutNoReindex` before `Put`)
and whose comment begins with "Mutant of" is that action with a plausible bug.
No specification uses it: it documents, for one property each, which mistake in
the code that property would catch.

### SessionRegistry

One `pc` per tunnel follows its handler goroutine through `TunnelHandler`,
`Register` and `Deregister`; one `loop` per tunnel is its `RefreshLoop`; one
`lister` per user is an API request that lists sessions.  Each action is one
access to the `sync.Map` or one Redis call, since nothing in the code makes two
of them atomic.  (`SET` + `SADD` of Put, and `DEL` + `SREM` of Delete, are each a
pipeline of a few hundred bytes on one connection, which Redis reads and executes
in one go; each is one action.)  A record is written once per tunnel, so `rec[s]`
names the tunnel whose registration made it.

- `Fault` is a Redis call that fails, with what the code does then: a failed
  owner check counts as "no record", a failed Put or Delete is logged, a failed
  Get ends the refresh loop.
- `Stop` is a pod that crashes or is rolled out.  `Server.Shutdown` does not wait
  for hijacked connections, so its handlers never deregister.
- A tunnel ends in two steps.  Its WebSocket closes (`TunnelDown`, `CloseOld`); then its
  read pump returns and closes `m.closed` (`PumpEnds`), which is what the handler
  waits for.  The pump may be stuck at a full stream queue (`GatewayMux`), so nothing
  promises the second step.
- `Expire` is the record's one-hour TTL.  A running loop renews it every five minutes,
  so it runs out only when no loop of the session runs, or after an hour of failing
  Puts (a `Fault`).
- The index key's own TTL is left out: every Put renews it with the record's, so
  it runs out only after all records of its user have.
- Authentication, protocol and version checks come before anything the handler
  changes and are left out.
- CLIs connect when they like.  Two history variables tell the situations apart in which the
  code's promises differ: `crossed` holds the tunnels whose Register call ran beside
  another for the same session and pod, `sole` those that found nothing of an earlier
  tunnel as they connected, until a later one connects.

### CliTunnel

Frames to the CLI travel in `wire`; each turn of the CLI's event loop that
changes state is an action.  `pending` is `pendingRequests`, one map by stream ID
for the whole process; `active` is the per-tunnel socket map; `sockets` is the
life of an upgraded stream's local connection, which may be answered at any time,
also after its tunnel has closed; `wrote` is what a stream's socket has been given, chunk by
chunk, and which chunk a frame brings is the frame's own matter (`Payload`), not the stream's.
The gateway's side (`GwRequest`, `GwData`,
`GwEnd`, `GwUpgraded`) sends what `mux.go` sends.  A chunk of data is named by its
stream and its number.  Response frames do not act back on the state modelled
here; they are `GatewayMux`'s.

### GatewayMux and StreamDelivery

Per request one handler (`req`, with its upload, if it has one) and one stream: a queue of at most `Cap` frames,
a done channel, its place in the stream map; `pump` is `readPump`, one action
per thing it can block at or be overtaken in: reading a frame, delivering it into
a queue that may be full (`held` is the frame in its hand), closing `m.closed`,
and then testing and closing every stream's channel.  `removeStream` is split at
its test in the same way, since nothing makes test and close atomic.  A second
close of a channel is recorded in `panics`: the process dies there.  `Cli(i)` is
the answering side of `tunnel.ts`: headers, chunks and END of a local response, an
error text where the local server fails, a second head and END where it fails
half-way.  Browsers may leave (`gone`), stop reading (`stalled`) or not send the rest of their body
(`Upload`, which waits for the browser and looks at nothing else); a broken
tunnel may lose the frames in flight, last ones first.  `HeldUp` says that the pump waits
for room in the queue of a browser that does not read.

`StreamDelivery` says that a browser gets a prefix of what was sent for its stream
and that its delivery ends whole, or cut off by the tunnel's end, or by its own
leaving.  The mapping is the identity but for upgrades that the local server
refuses, whose body the gateway does not pass on: they are mapped to a delivery
that never ends.

### CliProcess and VersionPolicy

`at` follows `main()`: configuration, the opencode version check, the browser
sign-in with its callback and time-out, the start of the local server, then the
reconnect loop (`preflight`, `dial`, `up`, `sleep`) until `exit` with a `code`.  An
attempt is a pre-flight request, whose answer tells fatal mismatches from what may
get better, and then the WebSocket's own request; the gateway may be replaced
(`GatewayReplaced`) between the two, hence `Rejected`.  `VersionPolicy` has the comparisons
as operators: `Supported`, `Narrow`, `Reported`, `Refused`.  The child process may
be ready, fail or die at any time; Ctrl+C reaches it too.  The five-second
termination timer of `close()` is left out, because `process.exit` follows at once.

### TokenStore and RefreshSession

`RefreshSession` is the design's promise: a token is exchanged once; the exchange
opens a window in which it is decided that the same successor is handed out again, though
the answer may arrive later (`owed`); an ended session stays ended.  `TokenStore` is what `rotate` and `revoke` do: one action per
Redis call, any number of requests at the same time, each of which may die at any
call (`Die`).  Tokens are numbered in the order `randomToken` makes them.  A grace
key expires 30 s after it was set whatever runs (`GraceExpires`), also between two calls of a
request that presents its token.  Two requests must be slow for that to let a token be
exchanged twice: one that found the token unused before the key was set and claims it after the key has
gone, or the one that set the key and has not marked the token used.  The history variable
`stalled` records that a grace key has expired on such a request (`Unmarked`): one of the
requests with this token has then spent half of the window or more on a couple of Redis calls.  The refinement maps
the chain key to `live`, the grace keys that exist to `window`, and the requests that have a
successor in hand to `owed`; a step is allowed to deviate only once a request has died
or stalled (`Undisturbed`).

### SignIn

One tab goes from `page` through `/auth/start`, the identity provider, `/auth/callback`
and `/auth/token` back to a page with a user.  The tab keeps its verifier, but
the state, return and challenge cookies are one set for the whole browser; a user
may press Back to an earlier page of the identity provider, or repeat a request,
and an answer may be lost.  An attempt's number stands for its verifier,
challenge, state, code and the user who authenticates in it, so two of these match
exactly when they come from one sign-in.

### UiAuth

Per tab: the access token, the single flight (`inflight`), one call of `authFetch`
with its retry, a `logout`.  Shared: the refresh token in `localStorage` and, where
the browser has it, the queue of the Web Lock.  The server is `RefreshSession`'s:
a token is exchanged once, handed out again within its grace, and ends the session
after it.  Where the store fails between the grace key and the record of the token that the key
announces (`HalfRefresh`, a 503), a retry is handed a token that has no record: its number
is 0, the next refresh with it is refused, and a sign-out with it ends nothing (`Unrecorded`).
A failure after the record and before the used mark is `TokenStore`'s alone: here it would be a
token that can be exchanged again after its grace.  The server may also restart with a new secret, which makes the access tokens it
has issued useless.  A call that fails, an answer that is lost and a restart are one
`Fault` each.  A sign-in in a tab is one step here; `SignIn` has its inside.  `Without` is
the browser's part of a page that goes away: its place in the lock's queue is closed up.
The names that every specification has begin with `Ui` here (`UiInit`, `UiNext`,
`UiSpec`, `UiTypeOK`), so that `ClientProofs` can extend this module beside `CliProcess`.

### AccessWatch

Time is discrete.  `policy` is the webhook's current answer, `cache` the decisions
under each generation with their remaining seconds, `timer` the watch of each open
stream.  An allowed request goes on to the session lookup, the guards and the gateway, which
may take any time, and only then may become a stream that is watched (`Open`).  A check is a sequence of Redis and webhook calls (`GetGen`, `GetCached`,
`Ask`, `SetCached`), used by requests and by watch ticks, and lasts at most
`MaxDelay`.  `age` and `gone` measure how long ago access or the sign-in session
was withdrawn, `since` how long a stream has been open.  The assumption `MaxDelay < AllowedTtl` (webhook time-out 5 s against
60 s by default) means a tick never finds the previous one running; the branch
for it is there but idle.  The disabled authorizer (everyone allowed) and the admin
token comparison are left out.

### ApiGuards and ApiProxy

A route stands for the methods and path templates that the guards treat alike; a
fact is something in a JSON body that a rule looks for (a file part, a permission
rule, a shell command).  A guard set is a sequence of checks, in the code's order;
a check refuses, or reads the body and refuses facts, or lets pass.  What makes a
body have a fact (globs, file references, shell syntax) is data handling and stays
abstract; that OPTIONS passes the 2.x guard is abstracted with the methods.

`ApiProxy` takes a request through authentication, access check, session lookup,
its version's guards (`todo` is what is left of them) and the forwarding.  `kept`
and `unread` say who has consumed the body: `jsonBody` reads it once and keeps it,
and `relayed` records whether what is forwarded is whole.  After it, a WebSocket's two
sides (`relayEvents`) or an event stream with its pull source (`endOnDenial`) run until
one side closes, fails, or is denied.

## 3. Runs

| Run | Configuration | Result |
|---|---|---|
| `registry` | `MCRegistry` | passes |
| `registry_reconnect` | `MCRegistryReconnect` | violates `NewerRegistrationKept` |
| `cli_tunnel` | `MCCliTunnel` | passes |
| `gateway_mux` | `MCGatewayMux` | passes |
| `streams_parallel` | `MCGatewayMuxParallel` | violates `StreamsAreIndependent` |
| `cli_process` | `MCCliProcess` | passes |
| `token_rotation` | `MCTokenStore` | passes |
| `sign_in` | `MCSignIn` | passes |
| `ui_auth` | `MCUiAuth` | passes |
| `access_watch` | `MCAccessWatch` | passes |
| `revocation_in_ttl` | `MCAccessWatchTtl` | violates `RevokedWithinTtl` |
| `api_proxy` | `MCApiProxy` | passes |

**registry**: any two of three tunnels for one session (two of one user in one pod, one of
another user in another pod), a listing, one Redis call that fails, one pod stop; Register calls overlap
freely.  No map entry is without a handler that will remove it (`EntryHasHandler`), and none
is taken from a tunnel that has not ended (`RemovedOnlyWhenClosed`).  A connected tunnel
whose Register did not run beside another is the one its pod routes to
(`OpenTunnelIsRouted`), although old handlers may be anywhere in their deregistration.  The
record of a session that took over cleanly is its own until a later tunnel connects or Redis fails
(`OwnRecordWhileServing`), and if the listing's late `SREM` drops it from the index, the
refresh loop brings it back (`ListedAgain`).  A tunnel that has ended, wherever its handler was
by then, is in the end out of the map for good and its loop has stopped
(`EndedLeavesNothing`).  Two tunnels reach every overlap of two Register calls and of one with a
Deregister, and the third lets them be of one user or two, in one pod or two; the safety
properties are proved for any number.

**registry_reconnect**: two tunnels, one user, no faults.  Register closes the old
tunnel, whose handler wakes up, passes `CompareAndDelete` because the new tunnel is
not yet stored, and deletes the record the new tunnel has just put.  The comment on
Deregister says this is prevented.  The new tunnel's loop then finds no record and
stops: a connected session that is not listed.

**cli_tunnel**: two tunnels one after another, two streams each with the same IDs,
up to two chunks, one frame in flight.  A request is run at most once (`RunOnce`),
with its own whole body if its own END completes it (`OwnBodyComplete`), a socket
gets its own stream's data, whole and in order (`SocketGetsItsStream`), a complete upload is run
(`CompleteUploadRuns`).  Two tunnels and coinciding IDs are what stale state needs;
two chunks show truncation and order.  More frames in flight change nothing that
the CLI sees, since it handles them one by one and a close drops the rest.

**gateway_mux**: an ordinary request and an upgraded one over one tunnel, queues of
one frame, one chunk each, one frame in flight, one browser that leaves or stalls.
`DeliversStreams` is the refinement.  `RequestsEnd`: an answered request, or any request
of a tunnel that has ended, is over before long unless its own browser does not
finish its body or does not read, or another's does not read and holds the pump up
(`HeldUp`).  `PanicNeedsTunnelEnd`: no channel is closed twice while the tunnel
lives.  Once it has ended, that can happen (section 6).  Queues of one frame fill up
with the first chunk, which a second frame then meets; two requests are enough for one to be
blocked by the other, and both kinds of handler take part.

**streams_parallel**: two ordinary requests.  The browser of one stops reading, its queue
fills up, the pump waits for room in it, and the other request never gets the answer the CLI
has sent.  `docs/tunnel-design.md:63` says that streams are independent and
requests run in parallel over one tunnel.

**cli_process**: six installed versions (none, 1.x, three of 2.x inside and outside the ranges, 3.x) and six gateways
(down, from before versions, usual, narrowed, without 2.x, newer), two changes of
gateway.  `OneTunnel`, `ReconnectsSoon` (a connection that was up is tried again within a
second, whatever backoff was reached before), `Reconnects`, `StartsOrExits`, `Stops`.  Two
changes are a bad gateway after a good one and a good one after it.

**token_rotation**: three requests of any kind at the same time, three tokens, one
request that dies.  `SingleSuccessor`, `GrantedIsStored` and the refinement
`ImplementsSession` hold until a request dies or stalls for half of a grace window;
`RefusedIsNotGranted` and `ReplayEndsSession` until one stalls.  `GrantedIsStored` does not say
that a second caller's next refresh succeeds: it may present the announced token before the first
caller's request has stored it, and get a 401.  Two requests reach the race for `SET NX` and the
expiry between their calls, a third presents the token they are at odds about; three
tokens give a chain with a used, a current and a new token.

**sign_in**: two tabs, four sign-ins, one failed call or lost answer.  `OwnUser`,
`OneSessionPerCode`, and `SomeoneSignsIn`: two tabs that sign in at the same time delete each other's
cookies, but not so that both are refused, if nothing fails and nobody presses Back.
Four sign-ins let each tab start again once and go back to its first one.

**ui_auth**: two tabs of which one sends requests, two sign-in sessions, two recorded tokens
each, one failure.  `PresentsNewest` (where Web Locks exist, and until a call fails),
`DroppedWhenOver`, `RetryIsAccepted`, `RefreshEnds`.  Two tabs race, two sessions let a sign-in
overtake a refresh, two tokens make one exchange per session, after which a tab
holds a token the other has used.  A second tab that also sends requests would only refresh
more often, and refreshes without requests are enumerated already.

**access_watch**: two connections, `allowedTtl` 2, `deniedTtl` 1, checks of at most
one time unit, one change of access, one generation step, one Redis failure.
`AllowedIsFresh`, `RevokedStreamEnds` and `SignedOutStreamEnds` give the bounds that
do hold: a revoked user's stream ends in less than two periods and two checks, one that
opened later, because the gateway took its time, at its first check; `EvictAllIsFinal` says that evicting everyone cannot be undone by a check
already under way (evicting one user can).  `MaxAge` 8 reaches every bound in the
properties (the largest is 2 * 2 + 2 * 1 + 2), so the counters never saturate below one.  Two
connections are needed for one to write the cache entry the other reads.

**revocation_in_ttl**: one connection, no failures.  A stream opens, its user's next request
asks the webhook late in the period and writes its answer to the cache after the
access was withdrawn; the watch's check finds that entry and keeps the stream for another period.
`RevokedWithinTtl`, allowedTtl and the duration of a check, is what `authz.ts:78-79` and
`README.md:189` promise.

**api_proxy**: each of the 256 sets of disabled features, both opencode versions, every
request of a route, path and body kind; two frames from the browser.  `DisabledStaysOut`,
`FramesInOrder`, `EndsTogether`.  Two frames are one before and one after the gateway's
socket opens.

Deadlock is not checked.  In most instances tunnels, tokens, attempts or requests
are used once and are bounded, and a state in which all are used up is the end of
the instance; a CLI that has exited and a proxied request that is answered are
the end of what the code does.

## 4. Fairness

- `SessionRegistry!FairSpec`: weak fairness of each handler's and each loop's own
  steps.  Goroutines are scheduled, tickers fire, and a Redis call returns or times
  out (a failure is a step too).  Nothing is assumed of CLIs, networks, TTLs, pod
  stops and listings, nor of read pumps (`PumpEnds`), which may wait at a full queue for ever.
- `CliTunnel!FairSpec`: weak fairness of `Receive`; Node's event loop delivers
  frames that have arrived.  Nothing is assumed of the gateway and the local server.
- `GatewayMux!FairSpec`: weak fairness of the pump and of each handler's own steps (`Runs`);
  goroutines run.  Nothing is assumed of the local server, the tunnel and the browsers, and so
  nothing of an upload whose browser is there (`Upload`), nor that a relay has something to
  write (`RelayWriteFails`).
- `CliProcess!FairSpec`: weak fairness of the process's own phases, of its timers, of the
  pre-flight request and of the local server's start and exit: each of them is
  answered or fails in the end, the sign-in and the server's start by a timer of the code.  Strong fairness of `Connected`
  only: the gateway may be replaced between pre-flight and dial each time, but one
  that accepts the CLI again and again opens the connection in the end.  Signing in,
  Ctrl+C and the gateway are free.
- `UiAuth!UiFairSpec`: weak fairness, per tab, of its refresh's steps: `fetch` has an
  end, since a browser's request is answered or its connection fails, a lock is handed
  on and continuations run.  Nothing is assumed of
  calls, sign-ins and sign-outs.
- `ApiProxy!FairSpec`: weak fairness of the pull loop, of pending reads, of a
  connection attempt's outcome and of closing handshakes: promises and socket
  events are delivered, and a browser that stays reads its event stream.  Neither end
  need ever close, and the watch need never deny.
- `TokenStore`, `SignIn` and `AccessWatch` state safety only.  The time bounds of the
  latter are safety properties: `Tick` waits for timers that are due and for checks
  that have used up `MaxDelay`.

## 5. Proofs

Each of the theorems holds for every value of the constants that the named assumptions of
its module allow: any number of tunnels, tabs, requests, streams, tokens, any
times to live.

`SessionRegistryProofs`:

- `TypeCorrect`: types, and that a refresh loop runs only beside its handler and
  writes only what it has read (`LoopOK`, the part the others need).
- `EntriesHaveHandlers`: `EntryHasHandler` is inductive with the types: a slot is
  filled by the handler that will serve from it and emptied by it before it moves on.
- `RoutesOutliveTunnels`: the action property, from `EntryHasHandler`.
- `OpenTunnelsAreRouted`: `OpenTunnelIsRouted` alone is not inductive.  `SlotInv` adds
  that two calls of Register under way for one slot have crossed, and that when one has
  passed `CloseOld` no uncrossed tunnel that serves from that slot is open; only then may
  `StoreTunnel` overwrite the slot.
- `ServedSessionsKeepTheirRecord`: `RecordInv` adds, while Redis has not failed, that a `sole`
  tunnel is the only active one of its session, that its record is its own from Put on, that
  its loop runs, and that what the loop holds to write is that record.  `KeyInv`: a
  record is of the session it is stored under.

`TokenStoreProofs`:

- `TypeCorrect`: the types are not inductive alone, since an answer grants what a
  request holds.  `LinkInv` says what it may hold: a grace key names a successor,
  successors are later than Root and no later than the last token made, requests
  present granted tokens, and one about to answer holds a successor of its token.
- `RefusedGetNothing` and `ReplaysEndTheSession`, without a restriction on deaths, while no
  request has stalled: `KnownInv` says that a used token has a record, and that a request which
  found its token unused before another marked it finds the grace key set; hence nobody sets
  the grace key of a used token again, and a refused request stays before the check
  that refuses it (`RefusedInv`).
- `OneSuccessor`, `GrantedTokensAreStored`: `LineInv` adds, until a request dies or stalls, that a
  token exchanged but not yet marked used has its grace key and the request that is
  about to mark it, so `SET NX` fails for everyone else.
- `StoreImplementsSession`: the refinement, step by step: `Claim` is `Exchange`, reading the
  grace key is `Retry`, `Reply` is `Grant`, `GraceExpires` is `CloseWindow`, deleting or expiring
  the chain is `End`, every other call stutters.  It uses `LineInv` for `Exchange` (no
  successor yet) and `LinkInv` for `Retry` and `Grant` (what the key and the request hold is the
  successor).

`CliTunnelProofs` (`RunOnce`, `OwnBodyComplete`): one invariant of
seven parts, none inductive without the others.  `InFlight`: what is on the wire is
what the gateway has sent of each stream, in order, and END comes last.  `Fresh`: a stream the
CLI has not heard of has left no trace, whatever its ID did on earlier tunnels.
`Uploads`: an upload of this tunnel holds a prefix of its body and the rest is on the
wire.  `UpgradesOnly`: only upgraded streams have sockets.  `WaitsOnce`: what waits in `pendingRequests` has not been run.  The
upload that an earlier tunnel has left under the same ID is not excluded: the proof shows
that it never counts as the new stream's.  `SocketsReceiveTheirStreams` (`SocketGetsItsStream`) adds
`RelayInv`: a socket holds the first chunks of its stream and the rest is on the wire
in its order, none is written before it is open, and the gateway relays only to
a stream that the CLI has in its map.

`GatewayMuxProofs`:

- `PanicsNeedTheTunnelsEnd`: `DoneInv`, that before `m.closed` is closed only handlers
  that are over have closed a channel, each its own.
- `MuxTypesHold`: `MuxTypes` adds what the types need: the frame in the pump's hand belongs
  to the stream the pump is at, a stream that has not ended has room for one more chunk,
  and the CLI is idle until a handler has sent its request.
- `MuxDelivers`: the refinement of `StreamDelivery`, step by step, with `EndedNow`, `HowNow`
  and `~up` for what the abstract state calls ended, how and broken.  What has been sent and
  not received is in the stream's queue, in the pump's hand or on the wire, between
  frames of other streams.  `Flowing` says of a stream whose handler may still deliver
  that up to some chunk they are all in the queue, and the rest all in the
  tunnel while it works, each in its place (`Ordered`, `Full`), with the
  END behind all of them; a connection that breaks cuts off the last of them only
  (`CutShort`).  `HeadComes`: the first frame a handler reads is the head.  `Numbered`:
  what a browser has is the beginning of what was sent.  `Quiet`: the CLI is silent
  before the request and no END is on its way before it has sent one.  Each action
  then maps to one step of `StreamDelivery` or a stutter: the CLI's answers to `Send`, what
  a handler writes to `Deliver`, its end to `Finish`, which is whole only for a handler
  that has read END.

`ClientProofs`, the CLI: `NarrowIsIntersection` is a theorem about versions alone (a deployment's range
narrows the built-in one to what both allow); `OneTunnel` follows from `LiveInv` (a
WebSocket lives exactly while the loop dials or is up), `ReconnectsSoon` from `UpInv`
(while up, the backoff is back at one).

`ClientProofs`, the web UI: the types need what the tokens are.  `UiInv` has four parts.

- `LockInv`: with Web Locks the tabs that refresh are those in the queue, each once, and
  only the first has posted; without, the queue is empty.  Lemmas say what joining, leaving
  at the head and going away from anywhere do to the queue (`Joined`, `Left`, `Gone`),
  and `FlightSteps` that a step does one of these to one tab at most.
- `TokenInv`: a refresh under way holds a token of a session that has begun, tokens in their
  grace window are not newer than the newest of their session, and a refresh is refused only
  when its session is over or its token has no record.  It gives `DroppedForAReason`.
- `CallInv`: a request that waits for its second token waits without an access token, so
  only a refresh can let it go on.  It gives `RetriesAreAccepted`.
- `LockedRefreshesPresentNewest` adds `GraceInv` (until a call fails, a token in its grace window
  has a recorded successor) and `FreshInv`, until a call fails: posted and received
  tokens are the newest of their sessions, and the stored one is, unless its
  successor has been received by a tab that has not saved it yet.  That tab then holds the
  lock (`OneRuns`), so nobody can read the stored token before it is replaced.

`SignInProofs`:

- `CodeInv` (a stored login code has made no session yet) gives `OneSessionPerCode`.
- `BindInv` (a code carries the challenge of its own sign-in, since the callback passes only
  with that sign-in's cookies, and a granted tab has shown its verifier) gives `OwnUser`.
- `NotAllFail` (`SomeoneSignsIn`): `CalmInv`, while no call fails and no user strays, has three
  parts.  `Known`: no two tabs are in one sign-in.  `OnTheWay`: a tab has what each step
  that is left asks of it (an unused provider's code, its verifier, a login code bound to
  its challenge).  And there is a tab that is `Sure`: past the identity provider, or there
  with its own cookies set.  A tab that replaces the cookies of another, or deletes
  them, is `Sure` itself.

`ApiProxyProofs`: `DisabledStaysOut` rests on lemmas about the guard sets of each version
(`GuardsRefuse`: a request that is to be kept out meets a check that refuses it) and on
`GuardInv`, that such a check is still to come until the request is answered, whatever was
read before.  `FramesInv` relates frames sent, queued and forwarded, and gives `FramesInOrder`.

`AccessWatchProofs`: `FinalInv` says that after everyone was evicted, no generation from
the current one on holds or is about to get an answer that allows; `FreshInv` that the age of an allowing
entry and the time it still lives add up to at most `AllowedTtl + MaxDelay`; `LifeInv`
follows one stream's timer against the time since its user's access was revoked, since it opened
and since its session ended, with a period for each failed check.  They give
`EvictAllIsFinal`, `AllowedIsFresh`, `RevokedStreamEnds` and `SignedOutStreamEnds`.

The types (`TypeCorrect`, `MuxTypesHold`, `UiTypesHold`) are proved in every module, each
with what they need to be inductive.

These proofs share the models' assumptions: tokens, verifiers and login codes never coincide, a check lasts less than `AllowedTtl`.

Only model-checked, on the instances above: the liveness properties
(`ListedAgain`, `EndedLeavesNothing`, `CompleteUploadRuns`, `RequestsEnd`,
`Reconnects`, `StartsOrExits`, `Stops`, `RefreshEnds`, `EndsTogether`), because TLAPS does
not handle fairness.  Every invariant, action property and refinement that a passing run
checks is stated by a theorem.

## 6. What is not modelled

- The gateway's proxy before the multiplexer: it verifies a token, looks the tunnel
  and its metadata up, and keeps nothing.
- Guards' data handling (globs, file references, shell syntax, rewriting of
  responses), OIDC discovery, signing, CORS, configuration, logging.
- The native app's routes, `nativeLogin`, the native transports and bridges, the
  patched `XMLHttpRequest` and the throttled access re-check of the UI.
- The disabled authorizer (everyone allowed) and the admin token comparison.
- UI views, native shells, charts, build scripts, tests: no state of the protocol.
- In the modelled parts: wording, the contents of bodies and records, close codes,
  stream IDs that wrap after 2^32 streams.

Reading the code for the models showed more than the three disagreements that have a run
(`registry_reconnect`, `revocation_in_ttl`, `streams_parallel`).  These are known, are within the models' behaviour unless noted, and
have no run of their own:

- A stopped gateway leaves the records of its sessions, which stay listed until
  their TTL ends (`gateway/main.go:247`), while the UI takes a listed session to be
  connected (`ui/src/api.ts:16-17`).
- An upload cut off by a reconnect stays in `pendingRequests`; the END of an upgraded
  stream of the next tunnel with the same ID, whose socket is already gone, runs it with half its body
  (`cli/src/tunnel.ts:53`).  `OwnBodyComplete` speaks of a request's own END.
- An upgrade that the local server answers after its tunnel has closed leaves a socket
  that nothing destroys (`cli/src/tunnel.ts:219`).
- A request that dies between the grace key and the successor's record leaves an
  announced token without a record: retries within the grace get a token that the next
  refresh refuses, which signs the browser out (`api/src/token-store.ts:90`).  `DroppedWhenOver`
  excepts it.  While the request lives, another caller may be too fast for it in the same way.
- A request that takes half of the grace window or more between its Redis calls can exchange
  a token for a second time (`api/src/token-store.ts:90`).
- A tunnel whose read pump waits for room at a stalled browser's queue is not noticed to
  have ended, keeps its map entry and goes on renewing its record (`gateway/mux.go:151`).
- A browser that neither sends the rest of a request's body nor leaves keeps its handler
  after the tunnel's end (`gateway/mux.go:207`).
- Handler and pump may close one stream's channel twice once the tunnel has ended
  (`gateway/mux.go:84`), which ends the gateway's process.
- The body of an upgrade that the local server refuses is dropped (`gateway/mux.go:333`).
- In the UI a sign-out during a refresh, or a sign-in that overtakes a refused refresh, can
  leave a stored token that is not the session's (`ui/src/auth.ts:93-113`).
- Not within the models: an `XMLHttpRequest` that is aborted and opened again while it waits for
  its token (`ui/src/proxy-fetch.ts:195`), and the page of an old sign-in that meets the CLI's
  callback of a new one (`cli/src/oidc.ts:131`).

## 7. Plan

What would come next:

1. The throttled access re-check and the patched `XMLHttpRequest` beside `UiAuth`, then the
   native transports: a socket's events over the bridge, and `nativeLogin`.
2. The gateway's proxy as the composition of `SessionRegistry` and `GatewayMux`: a request
   routed while its session is handed over.
3. Proofs about what these models would add, and the safety half of the liveness properties:
   what each of them waits for stays possible (no step takes it away).
