------------------------------ MODULE CliProcess ------------------------------
(***************************************************************************)
(* The CLI process from main() to exit: its configuration and sign-in      *)
(* (cli/src/config.ts, oidc.ts), the local opencode server it starts       *)
(* (cli/src/server.ts) and the tunnel it keeps connected (startTunnel and  *)
(* startTunnelWithReconnect in cli/src/tunnel.ts).                         *)
(*                                                                         *)
(* The gateway it talks to may be replaced by one of another version, or   *)
(* be down; the ID token may expire; the user may press Ctrl+C, which      *)
(* signals the server's process as well.  An attempt to connect is a plain *)
(* request first (the pre-flight) and then the WebSocket's own request: the *)
(* gateway may change in between.                                          *)
(***************************************************************************)
EXTENDS VersionPolicy, Integers

CONSTANTS
  Installed,   \* opencode versions that may be installed, None for no release
  Gateways,    \* gateways that may answer, Down among them
  Down,
  MaxChanges   \* bound: replacements of the gateway

\* proto: its TunnelProtocol (0 before there was one); minCli: its
\* MinCLIProtocol; def, dep: the 2.x range it is built with and the deployment's.
ASSUME GatewaysAssumption ==
  /\ Down \in Gateways /\ MaxChanges \in Nat
  /\ \A g \in Gateways \ {Down} :
       /\ g.proto \in Nat /\ g.minCli \in Nat
       /\ \A r \in {g.def, g.dep} : r = None \/ (r \in Ranges /\ Less(r.min, r.max))

VARIABLES
  opencode, \* the installed version
  given,    \* OPENCODE_RC_TOKEN is set
  at,       \* what main() is doing
  initial,  \* the first connection has not been made yet
  backoff,  \* seconds the next wait takes
  live,     \* WebSockets that have not closed
  failing,  \* the connected WebSocket has had an error and will close
  child,    \* the local server's process
  ctrlC,    \* the user has pressed Ctrl+C
  code,     \* exit code
  gateway,  \* the gateway that answers now
  changes,
  expired   \* the ID token has expired

vars == <<opencode, given, at, initial, backoff, live, failing, child, ctrlC, code,
          gateway, changes, expired>>

Backoffs == {1, 2, 4, 8, 16, 30}
SignInPhases == {"config", "check", "listen", "browser", "exchange"}
Phases == SignInPhases \cup {"start", "preflight", "dial", "up", "sleep", "exit"}

TypeOK ==
  /\ opencode \in Installed /\ gateway \in Gateways /\ given \in BOOLEAN
  /\ at \in Phases /\ backoff \in Backoffs
  /\ live \in Nat
  /\ failing \in BOOLEAN /\ initial \in BOOLEAN /\ ctrlC \in BOOLEAN /\ expired \in BOOLEAN
  /\ child \in {"none", "starting", "ready", "died", "seen"}
  /\ code \in {-1, 0, 1, 130} /\ (code = -1 <=> at # "exit")
  /\ changes \in 0 .. MaxChanges

Init ==
  /\ opencode \in Installed /\ gateway \in Gateways /\ given \in BOOLEAN
  /\ at = "config" /\ initial = TRUE /\ backoff = 1
  /\ live = 0 /\ failing = FALSE
  /\ child = "none" /\ ctrlC = FALSE /\ code = -1
  /\ changes = 0 /\ expired = FALSE

world == <<opencode, given, ctrlC, gateway, changes, expired>>
loop == <<initial, backoff, live, failing>>

\* process.exit: the WebSocket and the server's stdin are closed with it.
Exit(c) == at' = "exit" /\ code' = c /\ live' = 0
Runs(phase) == at = phase

-----------------------------------------------------------------------------
(* Configuration and sign-in (index.ts, config.ts, oidc.ts).  What fails    *)
(* rejects main(), which exits.                                            *)

Start == at' = "start" /\ child' = "starting"
Fail == Exit(1) /\ UNCHANGED child
Proceed(phase) == at' = phase /\ UNCHANGED <<child, code, live>>
Before == UNCHANGED <<world, initial, backoff, failing>>

\* The server publishes its issuer and client, the issuer its endpoints.
LoadConfig == Runs("config") /\ (Proceed("check") \/ Fail) /\ Before

\* main() refuses an opencode it cannot run or does not support, then signs in
\* unless it was given a token.
CheckVersion ==
  /\ Runs("check")
  /\ \/ Fail
     \/ ~Refused(opencode) /\ given /\ Start /\ UNCHANGED <<code, live>>
     \/ ~Refused(opencode) /\ ~given /\ Proceed("listen")
  /\ Before

\* The callback server takes the first free port; the browser is opened.
Listen == Runs("listen") /\ (Proceed("browser") \/ Fail) /\ Before

\* A request to /callback: with this run's state and a code, or with an error,
\* another state or no code, from whatever page.  Each ends the wait.
Callback == Runs("browser") /\ (Proceed("exchange") \/ Fail) /\ Before

\* Mutant of SignInTimeout: the timer is stopped when the server listens.
SignInTimeoutListening == Runs("listen") /\ Fail /\ Before

\* Five minutes, from before the server listens.
SignInTimeout == (Runs("listen") \/ Runs("browser")) /\ Fail /\ Before

\* The code is exchanged at the issuer's token endpoint.
Exchange ==
  /\ Runs("exchange")
  /\ Fail \/ (Start /\ UNCHANGED <<code, live>>)
  /\ Before

-----------------------------------------------------------------------------
(* The local server (index.ts, server.ts). *)

\* The server prints its URL: startServer resolves.
ServerReady ==
  /\ Runs("start") /\ child = "starting"
  /\ child' = "ready" /\ at' = "preflight"
  /\ UNCHANGED <<world, loop, code>>

\* It does not start, exits first or takes too long: startServer rejects and
\* main() ends the process.
ServerFails ==
  /\ Runs("start")
  /\ Exit(1) /\ child' = "seen"
  /\ UNCHANGED <<world, initial, backoff, failing>>

\* The server's process ends by itself ...
ServerDies ==
  /\ child \in {"starting", "ready"}
  /\ child' = "died"
  /\ UNCHANGED <<world, loop, at, code>>

\* Mutant of WatchesServer: an exit is noticed only while a tunnel is up.
WatchesServerWhenUp == opencode # None /\ opencode[1] = 2 /\ at = "up"

\* The 1.x server is started by the SDK, which reports no later exit.
WatchesServer == opencode # None /\ opencode[1] = 2

\* ... and its "close" event: onExit stops the CLI.
ServerClosed ==
  /\ child = "died" /\ at \notin {"start", "exit"} /\ WatchesServer
  /\ Exit(1) /\ child' = "seen"
  /\ UNCHANGED <<world, initial, backoff, failing>>

\* SIGINT's handler: shutdown() closes both and exits.  It is there once the
\* sign-in is over; before, the signal ends the process.
Shutdown ==
  /\ ctrlC /\ at # "exit"
  /\ Exit(IF at \in SignInPhases THEN 130 ELSE 0)
  /\ UNCHANGED <<world, initial, backoff, failing, child>>

-----------------------------------------------------------------------------
(* One attempt to connect (startTunnel, TunnelHandler). *)

\* The protocol number this CLI sends, and the gateway protocols it accepts.
PROTOCOL == 1
TooOld(g) == g.proto < 1 \/ (Reported(opencode) # None /\ opencode[1] = 2 /\ g.proto < 2)

\* TunnelHandler's checks in order; a gateway before protocol 2 does not know
\* about opencode versions.  400: everything is right but for the WebSocket.
Status(g) ==
  CASE PROTOCOL < g.minCli -> 426
    [] PROTOCOL >= g.minCli /\ expired -> 401
    [] PROTOCOL >= g.minCli /\ ~expired
         /\ g.proto >= 2 /\ ~Supported(Narrow(g.def, g.dep), Reported(opencode)) -> 422
    [] OTHER -> 400

Fatal(g) == g # Down /\ (Status(g) \in {426, 422} \/ TooOld(g))
Accepts(g) == g # Down /\ Status(g) = 400

NextBackoff == IF backoff * 2 > 30 THEN 30 ELSE backoff * 2

\* The wait before the next attempt; the wait after it is longer.
Retry == at' = "sleep"

\* The pre-flight request: a version mismatch is fatal, what may get better
\* (no answer, 401, 5xx) is retried.
Preflight ==
  /\ Runs("preflight")
  /\ \/ Fatal(gateway) /\ Exit(1)
     \/ ~Fatal(gateway) /\ ~Accepts(gateway) /\ Retry /\ UNCHANGED <<code, live>>
     \/ ~Fatal(gateway) /\ Accepts(gateway)
          /\ at' = "dial" /\ live' = live + 1 /\ UNCHANGED code
  /\ UNCHANGED <<world, initial, backoff, failing, child>>

\* Mutant of Connected: the backoff of earlier failures is kept.
ConnectedKeepsBackoff ==
  /\ Runs("dial") /\ Accepts(gateway)
  /\ at' = "up" /\ failing' = FALSE
  /\ UNCHANGED <<world, initial, backoff, live, code, child>>

\* "open": the loop's backoff starts again.
Connected ==
  /\ Runs("dial") /\ Accepts(gateway)
  /\ at' = "up" /\ backoff' = 1 /\ failing' = FALSE
  /\ UNCHANGED <<world, initial, live, code, child>>

\* The connection cannot be made, or the gateway answers something else now:
\* rejectOnce, whatever the reason.
Rejected ==
  /\ Runs("dial")
  /\ Retry /\ live' = live - 1
  /\ UNCHANGED <<world, initial, backoff, failing, code, child>>

\* A connected WebSocket's "error" event is only logged.
TunnelError ==
  /\ Runs("up") /\ ~failing
  /\ failing' = TRUE
  /\ UNCHANGED <<world, at, initial, backoff, live, code, child>>

\* Mutant of TunnelClosed: the attempt begins before the old socket has closed.
TunnelClosedEarly ==
  /\ Runs("up") /\ failing
  /\ at' = "preflight" /\ initial' = FALSE
  /\ UNCHANGED <<world, backoff, live, failing, code, child>>

\* Its "close" event resolves disconnected.  The loop that follows the first
\* connection begins with an attempt, later ones with a wait.
TunnelClosed ==
  /\ Runs("up")
  /\ live' = live - 1 /\ initial' = FALSE
  /\ IF initial THEN at' = "preflight" ELSE Retry
  /\ UNCHANGED <<world, backoff, failing, code, child>>

\* Mutant of WakeUp: only the first connection is tried again.
WakeUpInitially ==
  /\ Runs("sleep") /\ initial
  /\ at' = "preflight" /\ backoff' = NextBackoff
  /\ UNCHANGED <<world, initial, live, failing, code, child>>

\* The wait is over.
WakeUp ==
  /\ Runs("sleep")
  /\ at' = "preflight" /\ backoff' = NextBackoff
  /\ UNCHANGED <<world, initial, live, failing, code, child>>

Attempt == Preflight \/ Connected \/ WakeUp

-----------------------------------------------------------------------------
(* The world around it. *)

GatewayReplaced ==
  /\ changes < MaxChanges /\ changes' = changes + 1
  /\ gateway' \in Gateways \ {gateway}
  /\ UNCHANGED <<opencode, given, at, loop, child, ctrlC, code, expired>>

TokenExpires ==
  /\ ~expired /\ expired' = TRUE /\ at \notin SignInPhases
  /\ UNCHANGED <<opencode, given, at, loop, child, ctrlC, code, gateway, changes>>

CtrlC ==
  /\ ~ctrlC /\ at # "exit" /\ ctrlC' = TRUE
  /\ UNCHANGED <<opencode, given, at, loop, child, code, gateway, changes, expired>>

Next ==
  \/ LoadConfig \/ CheckVersion \/ Listen \/ Callback \/ SignInTimeout \/ Exchange
  \/ ServerReady \/ ServerFails \/ ServerDies \/ ServerClosed \/ Shutdown
  \/ Attempt \/ Rejected \/ TunnelError \/ TunnelClosed
  \/ GatewayReplaced \/ TokenExpires \/ CtrlC

Spec == Init /\ [][Next]_vars

\* The event loop and its timers run and requests are answered or fail; the user
\* need not sign in.  A dialled connection that is accepted
\* again and again opens in the end.
FairSpec ==
  /\ Spec
  /\ WF_vars(LoadConfig) /\ WF_vars(CheckVersion) /\ WF_vars(Listen)
  /\ WF_vars(SignInTimeout) /\ WF_vars(Exchange) /\ WF_vars(ServerClosed) /\ WF_vars(Shutdown)
  /\ WF_vars(Preflight) /\ WF_vars(WakeUp) /\ SF_vars(Connected)
  /\ WF_vars(Runs("start") /\ (ServerReady \/ ServerFails))

-----------------------------------------------------------------------------
(* Properties. *)

\* At most one WebSocket of the process is alive: an attempt begins only when
\* the previous one's socket has closed, also after an error event.
OneTunnel == live <= (IF at \in {"dial", "up"} THEN 1 ELSE 0)

\* A tunnel that was up is tried again at once or after a second, however many
\* attempts had failed before it.
ReconnectsSoon == [][at = "up" /\ at' = "sleep" => backoff' = 1]_vars

\* While a gateway that accepts this CLI answers and its token is valid, the
\* tunnel is up again and again: no failure before ends the attempts for good.
Reconnects ==
  []<>(~Accepts(gateway) \/ Fatal(gateway)) \/ []<>(at \in {"up", "exit"})

\* Whatever the issuer, the browser and the local server do, the CLI comes to ask
\* the gateway for its tunnel, or exits: no step of its start waits for ever.
StartsOrExits == at = "config" ~> at \in {"preflight", "exit"}

\* The process ends when the user asks for it or, with opencode 2.x, when the
\* server dies, whatever the tunnel is doing.
Stops ==
  (ctrlC \/ (child = "died" /\ opencode # None /\ opencode[1] = 2)) ~> at = "exit"
=============================================================================
