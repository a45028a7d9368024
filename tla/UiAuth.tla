------------------------------- MODULE UiAuth -------------------------------
(***************************************************************************)
(* Tokens in the tabs of one browser (ui/src/auth.ts).                     *)
(*                                                                         *)
(* Every tab keeps an access token in memory; the refresh token is one     *)
(* localStorage item that all of them read and write.  A tab refreshes in  *)
(* a single flight, under the Web Lock "orc-refresh" where the browser has *)
(* it.  Requests, answers, sign-ins and sign-outs of the tabs interleave   *)
(* at every await.  The server follows the rules of RefreshSession: a      *)
(* token is exchanged once, handed out again during its grace window, and  *)
(* ends its session when it is presented after that.                       *)
(*                                                                         *)
(* Names every specification has begin with Ui here: ClientProofs extends  *)
(* this module and CliProcess.                                             *)
(***************************************************************************)
EXTENDS Naturals, Sequences

CONSTANTS
  Tabs,
  Viewers,     \* bound: the tabs that send requests; the others refresh, sign in and out
  MaxLogins,   \* bound: sign-in sessions
  MaxTokens,   \* bound: refresh tokens of a session
  MaxFaults    \* bound: failed calls, lost answers, rejected access tokens

ASSUME ViewersAssumption == Viewers \subseteq Tabs
ASSUME BoundsAssumption == MaxLogins \in Nat \ {0} /\ MaxTokens \in Nat \ {0} /\ MaxFaults \in Nat

Sessions == 1 .. MaxLogins
\* A session's refresh tokens are numbered.  Number 0 are those it has announced and never
\* recorded.
Tokens == [s : Sessions, n : 0 .. MaxTokens]
NoToken == [s |-> 0, n |-> 0]
Unrecorded == MaxLogins + 1

\* A fresh access token (more than EARLY_REFRESH_MS left): one the server accepts,
\* or one it issued under an earlier secret.  Others count as none.
AccessTokens == {"none", "good", "outdated"}

VARIABLES
  \* The server:
  session,  \* session -> "new" | "live" | "over"
  newest,   \* session -> the number of its newest refresh token
  grace,    \* tokens in their grace window
  \* The browser:
  locks,    \* navigator.locks exists
  queue,    \* tabs that hold or wait for the lock, first in first out
  stored,   \* localStorage["opencode-rc-refresh"]
  \* Each tab, its page and its requests:
  access,   \* the access token
  inflight, \* the refresh: "none" | "waiting" | "posted" | "answered" |
            \* "outdated" (answered before the secret changed) | "refused" | "failed"
  req,      \* the refresh token it posted; once answered, the one it got
  call,     \* authFetch: "none" | "token" | "sent" | "token2" | "sent2"
  bearer,   \* the access token the call was sent with
  since,    \* the session the call began in
  leaving,  \* the session of the refresh token logout has posted, Unrecorded for one the
            \* server has no record of, 0 outside logout
  faults,
  rejected  \* history: the server has changed its secret

server == <<session, newest, grace>>
refreshing == <<inflight, req>>
calling == <<call, bearer, since>>
uiVars == <<session, newest, grace, locks, queue, stored, access, inflight, req, call, bearer,
          since, leaving, faults, rejected>>

\* Tab t's refresh has been posted: if the page goes away now, its answer is lost.
Underway(t) == inflight[t] \notin {"none", "waiting"}

UiTypeOK ==
  /\ session \in [Sessions -> {"new", "live", "over"}]
  /\ newest \in [Sessions -> 0 .. MaxTokens]
  /\ grace \subseteq Tokens
  /\ locks \in BOOLEAN
  /\ queue \in Seq(Tabs) /\ \A i, j \in DOMAIN queue : queue[i] = queue[j] => i = j
  /\ stored \in Tokens \cup {NoToken}
  /\ access \in [Tabs -> AccessTokens]
  /\ inflight \in [Tabs -> {"none", "waiting", "posted", "answered", "outdated", "refused",
                          "failed"}]
  /\ req \in [Tabs -> Tokens \cup {NoToken}]
  /\ call \in [Tabs -> {"none", "token", "sent", "token2", "sent2"}]
  /\ bearer \in [Tabs -> AccessTokens]
  /\ since \in [Tabs -> Sessions \cup {0}]
  /\ leaving \in [Tabs -> 0 .. Unrecorded]
  /\ faults \in 0 .. MaxFaults
  /\ rejected \in BOOLEAN
  \* Only the tab at the head of the queue runs, the others wait.
  /\ locks => \A t \in Tabs : Underway(t) => t = Head(queue)

\* The tabs were opened while signed in to the first session.
UiInit ==
  /\ session = [s \in Sessions |-> IF s = 1 THEN "live" ELSE "new"]
  /\ newest = [s \in Sessions |-> IF s = 1 THEN 1 ELSE 0]
  /\ grace = {}
  /\ locks \in BOOLEAN /\ queue = <<>>
  /\ stored = [s |-> 1, n |-> 1]
  /\ access = [t \in Tabs |-> "none"]
  /\ inflight = [t \in Tabs |-> "none"] /\ req = [t \in Tabs |-> NoToken]
  /\ call = [t \in Tabs |-> "none"] /\ bearer = [t \in Tabs |-> "none"]
  /\ since = [t \in Tabs |-> 0]
  /\ leaving = [t \in Tabs |-> 0]
  /\ faults = 0 /\ rejected = FALSE

Fault == faults < MaxFaults /\ faults' = faults + 1
hasSession == stored # NoToken

\* A session is over: what is left of a grace window makes no difference any more.
EndSession(s) ==
  /\ session' = [session EXCEPT ![s] = "over"]
  /\ grace' = {r \in grace : r.s # s}

-----------------------------------------------------------------------------
(* Refreshing. *)

\* getAccessToken when no fresh token is cached and no refresh is in flight.
StartRefresh(t) ==
  /\ inflight[t] = "none" /\ inflight' = [inflight EXCEPT ![t] = "waiting"]
  /\ queue' = IF locks THEN Append(queue, t) ELSE queue
  /\ UNCHANGED req

EndCall(t) ==
  /\ call' = [call EXCEPT ![t] = "none"]
  /\ bearer' = [bearer EXCEPT ![t] = "none"]
  /\ since' = [since EXCEPT ![t] = 0]

\* The call of tab t has waited for a refresh: it goes out with token a or fails.
Resume(t, a, threw) ==
  IF threw THEN EndCall(t)
  ELSE /\ call' = [call EXCEPT ![t] = IF @ = "token" THEN "sent" ELSE "sent2"]
       /\ bearer' = [bearer EXCEPT ![t] = a]
       /\ UNCHANGED since

\* Mutant of EndRefresh: a refresh that throws keeps the lock.
EndRefreshKeepsLock(t, a, threw) ==
  /\ inflight' = [inflight EXCEPT ![t] = "none"]
  /\ req' = [req EXCEPT ![t] = NoToken]
  /\ queue' = IF locks /\ ~threw THEN Tail(queue) ELSE queue
  /\ IF call[t] \in {"token", "token2"} THEN Resume(t, a, threw) ELSE UNCHANGED calling

\* The flight ends: the lock is released, inflight is null again.  Callers that
\* waited for it go on with token a, or fail when it threw.
EndRefresh(t, a, threw) ==
  /\ inflight' = [inflight EXCEPT ![t] = "none"]
  /\ req' = [req EXCEPT ![t] = NoToken]
  /\ queue' = IF locks THEN Tail(queue) ELSE queue
  /\ IF call[t] \in {"token", "token2"} THEN Resume(t, a, threw) ELSE UNCHANGED calling

\* Mutant of Holds: Web Locks are there and are not used.
HoldsUnlocked(t) == inflight[t] = "waiting"

Holds(t) == inflight[t] = "waiting" /\ (locks => t = Head(queue))

\* With the lock: another caller may have left a fresh token, another tab may
\* have rotated or removed the refresh token in the meantime.
RunRefresh(t) ==
  /\ Holds(t)
  /\ \/ access[t] # "none" /\ EndRefresh(t, access[t], FALSE)
     \/ access[t] = "none" /\ ~hasSession /\ EndRefresh(t, "none", FALSE)
     \/ /\ access[t] = "none" /\ hasSession
        /\ inflight' = [inflight EXCEPT ![t] = "posted"]
        /\ req' = [req EXCEPT ![t] = stored]
        /\ UNCHANGED <<queue, calling>>
  /\ UNCHANGED <<server, locks, stored, access, leaving, faults, rejected>>

\* Token r is exchanged for the session's next one.
Exchanged(r) ==
  session[r.s] = "live" /\ r.n = newest[r.s] /\ r.n < MaxTokens /\ r \notin grace

\* What the server hands out for r in its grace window: the token that has followed it, or
\* one without a record where storing it has failed.
Announced(r) == [r EXCEPT !.n = IF @ = newest[r.s] THEN 0 ELSE @ + 1]

\* POST /auth/refresh reaches the server.  A token that is presented after its grace
\* window ends the session; one without a record is refused, no more.  A session's last
\* token (a bound) is presented when its time is over.
ServeRefresh(t) ==
  LET r == req[t] IN
  /\ inflight[t] = "posted"
  /\ \/ /\ Exchanged(r)
        /\ newest' = [newest EXCEPT ![r.s] = r.n + 1]
        /\ grace' = grace \cup {r}
        /\ inflight' = [inflight EXCEPT ![t] = "answered"]
        /\ req' = [req EXCEPT ![t] = [r EXCEPT !.n = @ + 1]]
        /\ UNCHANGED session
     \/ /\ session[r.s] = "live" /\ r \in grace
        /\ inflight' = [inflight EXCEPT ![t] = "answered"]
        /\ req' = [req EXCEPT ![t] = Announced(r)]
        /\ UNCHANGED <<session, newest, grace>>
     \/ /\ \/ session[r.s] # "live" \/ r.n = 0
           \/ r \notin grace /\ (r.n = MaxTokens \/ r.n < newest[r.s])
        /\ IF r.n = 0 THEN UNCHANGED <<session, grace>> ELSE EndSession(r.s)
        /\ inflight' = [inflight EXCEPT ![t] = "refused"]
        /\ UNCHANGED <<newest, req>>
  /\ UNCHANGED <<locks, queue, stored, access, calling, leaving, faults, rejected>>

\* The store fails between the grace key and the record of the token it announces: 503.
HalfRefresh(t) ==
  /\ inflight[t] = "posted" /\ Exchanged(req[t])
  /\ grace' = grace \cup {req[t]}
  /\ inflight' = [inflight EXCEPT ![t] = "failed"]
  /\ Fault
  /\ UNCHANGED <<session, newest, locks, queue, stored, access, req, calling, leaving, rejected>>

\* The request or its answer is lost, or the server answers 426 or 503.
LoseRefresh(t) ==
  /\ inflight[t] \in {"posted", "answered", "outdated", "refused"}
  /\ inflight' = [inflight EXCEPT ![t] = "failed"]
  /\ Fault
  /\ UNCHANGED <<server, locks, queue, stored, access, req, calling, leaving, rejected>>

\* Mutant of FinishRefresh: any answer but a token clears the session.
FinishRefreshClears(t) ==
  /\ \/ /\ inflight[t] \in {"answered", "outdated"}
        /\ LET a == IF inflight[t] = "answered" THEN "good" ELSE "outdated" IN
           access' = [access EXCEPT ![t] = a] /\ EndRefresh(t, a, FALSE)
        /\ stored' = req[t]
     \/ /\ inflight[t] \in {"refused", "failed"}
        /\ access' = [access EXCEPT ![t] = "none"] /\ stored' = NoToken
        /\ EndRefresh(t, "none", FALSE)
  /\ UNCHANGED <<server, locks, leaving, faults, rejected>>

\* save, clear or throw, in the continuation of the POST.
FinishRefresh(t) ==
  /\ \/ /\ inflight[t] \in {"answered", "outdated"}
        /\ LET a == IF inflight[t] = "answered" THEN "good" ELSE "outdated" IN
           access' = [access EXCEPT ![t] = a] /\ EndRefresh(t, a, FALSE)
        /\ stored' = req[t]
     \/ /\ inflight[t] = "refused"
        /\ access' = [access EXCEPT ![t] = "none"] /\ stored' = NoToken
        /\ EndRefresh(t, "none", FALSE)
     \/ /\ inflight[t] = "failed"
        /\ EndRefresh(t, "none", TRUE)
        /\ UNCHANGED <<access, stored>>
  /\ UNCHANGED <<server, locks, leaving, faults, rejected>>

-----------------------------------------------------------------------------
(* Requests: authFetch, and the patched fetch of the session views. *)

\* await getAccessToken() in a call that is then at position at.
AwaitToken(t, at) ==
  \/ /\ access[t] # "none"
     /\ call' = [call EXCEPT ![t] = IF at = "token" THEN "sent" ELSE "sent2"]
     /\ bearer' = [bearer EXCEPT ![t] = access[t]]
     /\ UNCHANGED <<refreshing, queue>>
  \/ /\ access[t] = "none"
     /\ call' = [call EXCEPT ![t] = at]
     /\ IF inflight[t] = "none" THEN StartRefresh(t) ELSE UNCHANGED <<refreshing, queue>>
     /\ UNCHANGED bearer

\* fetchMe and the others: only with a session.
BeginCall(t) ==
  /\ call[t] = "none" /\ leaving[t] = 0 /\ hasSession
  /\ since' = [since EXCEPT ![t] = stored.s]
  /\ AwaitToken(t, "token")
  /\ UNCHANGED <<server, locks, stored, access, leaving, faults, rejected>>

\* warmToken: a refresh nobody waits for.
WarmToken(t) ==
  /\ access[t] = "none" /\ leaving[t] = 0 /\ hasSession
  /\ StartRefresh(t)
  /\ UNCHANGED <<server, locks, stored, access, calling, leaving, faults, rejected>>

\* An answer other than 401, or none at all.
CallAnswered(t) ==
  /\ call[t] \in {"sent", "sent2"} /\ EndCall(t)
  /\ \/ bearer[t] = "good" /\ UNCHANGED faults
     \/ Fault
  /\ UNCHANGED <<server, locks, queue, stored, access, refreshing, leaving, rejected>>

\* Mutant of TryAgain: the token the server refused is asked for again.
TryAgainKeepsToken(t) ==
  /\ call[t] = "sent" /\ bearer[t] # "good"
  /\ AwaitToken(t, "token2")
  /\ UNCHANGED access

\* 401 to the first attempt: forget the access token, try once more.  The patched fetch
\* does so without a session, too.
TryAgain(t) ==
  /\ call[t] = "sent" /\ bearer[t] # "good"
  /\ access' = [access EXCEPT ![t] = "none"]
  /\ call' = [call EXCEPT ![t] = "token2"] /\ bearer' = [bearer EXCEPT ![t] = "none"]
  /\ IF inflight[t] = "none" THEN StartRefresh(t) ELSE UNCHANGED <<refreshing, queue>>

RetryCall(t) ==
  /\ TryAgain(t)
  /\ UNCHANGED <<server, locks, stored, since, leaving, faults, rejected>>

\* 401 to the second attempt, or in authFetch without a session: the caller sees it.
GiveUp(t) ==
  /\ bearer[t] # "good"
  /\ call[t] = "sent2" \/ (call[t] = "sent" /\ ~hasSession)
  /\ EndCall(t)
  /\ UNCHANGED <<server, locks, queue, stored, access, refreshing, leaving, faults, rejected>>

-----------------------------------------------------------------------------
(* Sign-out and sign-in. *)

Logout(t) ==
  /\ leaving[t] = 0 /\ hasSession
  /\ leaving' = [leaving EXCEPT ![t] = IF stored.n = 0 THEN Unrecorded ELSE stored.s]
  /\ access' = [access EXCEPT ![t] = "none"] /\ stored' = NoToken
  /\ UNCHANGED <<server, locks, queue, refreshing, calling, faults, rejected>>

\* The queue when tab t is gone: those behind it move up.
Without(t) ==
  IF \E i \in DOMAIN queue : queue[i] = t
  THEN LET place == CHOOSE i \in DOMAIN queue : queue[i] = t IN
       [i \in 1 .. Len(queue) - 1 |-> queue[IF i < place THEN i ELSE i + 1]]
  ELSE queue

\* A new page: what the old one had in flight goes on at the server, its lock is free.
NewPage(t) ==
  /\ inflight' = [inflight EXCEPT ![t] = "none"] /\ req' = [req EXCEPT ![t] = NoToken]
  /\ queue' = Without(t)
  /\ access' = [access EXCEPT ![t] = "none"]
  /\ EndCall(t)

\* POST /auth/logout, or its failure, which is swallowed; then the page is loaded again.
LogoutDone(t) ==
  /\ leaving[t] # 0 /\ leaving' = [leaving EXCEPT ![t] = 0]
  /\ \/ /\ IF leaving[t] = Unrecorded THEN UNCHANGED <<session, grace>>
           ELSE EndSession(leaving[t])
        /\ IF Underway(t) /\ req[t].s # leaving[t] THEN Fault ELSE UNCHANGED faults
     \/ Fault /\ UNCHANGED <<session, grace>>
  /\ NewPage(t)
  /\ UNCHANGED <<newest, locks, stored, rejected>>

\* The user reloads the page during a refresh; its answer is lost.
Reload(t) ==
  /\ leaving[t] = 0 /\ inflight[t] # "none"
  /\ IF Underway(t) THEN Fault ELSE UNCHANGED faults
  /\ NewPage(t)
  /\ UNCHANGED <<server, locks, stored, leaving, rejected>>

\* completeLogin: a tab without a running page comes back from the identity
\* provider with a code and saves the tokens of a new session.
CompleteLogin(t) ==
  /\ inflight[t] = "none" /\ call[t] = "none" /\ leaving[t] = 0
  /\ \E s \in Sessions :
       /\ session[s] = "new"
       /\ session' = [session EXCEPT ![s] = "live"] /\ newest' = [newest EXCEPT ![s] = 1]
       /\ stored' = [s |-> s, n |-> 1]
  /\ access' = [access EXCEPT ![t] = "good"]
  /\ UNCHANGED <<grace, locks, queue, refreshing, calling, leaving, faults, rejected>>

-----------------------------------------------------------------------------
(* Time and the server's own events. *)

\* An access token comes within EARLY_REFRESH_MS of its end.
AccessAges(t) ==
  /\ access[t] # "none"
  /\ access' = [access EXCEPT ![t] = "none"]
  /\ UNCHANGED <<server, locks, queue, stored, refreshing, calling, leaving, faults, rejected>>

\* The grace window may end while a request with the token is on its way.
GraceEnds(r) ==
  /\ r \in grace
  /\ grace' = grace \ {r}
  /\ UNCHANGED <<session, newest, locks, queue, stored, access, refreshing, calling, leaving,
                 faults, rejected>>

\* The server restarts with another secret: the access tokens it issued are refused.
SecretChanges ==
  /\ ~rejected /\ rejected' = TRUE /\ Fault
  /\ access' = [t \in Tabs |-> IF access[t] = "good" THEN "outdated" ELSE access[t]]
  /\ bearer' = [t \in Tabs |-> IF bearer[t] = "good" THEN "outdated" ELSE bearer[t]]
  /\ inflight' = [t \in Tabs |-> IF inflight[t] = "answered" THEN "outdated" ELSE inflight[t]]
  /\ UNCHANGED <<server, locks, queue, stored, req, call, since, leaving>>

\* The session's absolute lifetime ends.
SessionExpires(s) ==
  /\ session[s] = "live" /\ EndSession(s)
  /\ UNCHANGED <<newest, locks, queue, stored, access, refreshing, calling, leaving,
                 faults, rejected>>

Progress(t) ==
  \/ RunRefresh(t) \/ ServeRefresh(t) \/ FinishRefresh(t)
  \/ CallAnswered(t) \/ RetryCall(t) \/ GiveUp(t) \/ LogoutDone(t)

UiNext ==
  \/ \E t \in Tabs :
       \/ Progress(t) \/ LoseRefresh(t) \/ HalfRefresh(t) \/ (t \in Viewers /\ BeginCall(t))
       \/ WarmToken(t) \/ Logout(t) \/ Reload(t) \/ CompleteLogin(t) \/ AccessAges(t)
  \/ \E r \in Tokens : GraceEnds(r)
  \/ \E s \in Sessions : SessionExpires(s)
  \/ SecretChanges

UiSpec == UiInit /\ [][UiNext]_uiVars

\* Every request is answered or fails in the end, and continuations run.
UiFairSpec ==
  UiSpec /\ \A t \in Tabs : WF_uiVars(RunRefresh(t) \/ ServeRefresh(t) \/ FinishRefresh(t))

-----------------------------------------------------------------------------
(* Properties. *)

\* Where the browser has Web Locks, a refresh presents the newest token of its
\* session, whatever the other tabs do meanwhile: they never race the server with
\* a token one of them has used already.  Holds until a call fails.
PresentsNewest ==
  locks /\ faults = 0 =>
    \A t \in Tabs : inflight[t] = "posted" /\ session[req[t].s] = "live"
                      => req[t].n = newest[req[t].s]

\* The stored token is dropped only when its session is over, by a sign-out, or
\* by a refusal that is about another session (a sign-in overtook the refresh) or about
\* a token the server has announced and failed to record: lost calls and answers, other
\* failures of the store and other tabs sign nobody out.
DroppedWhenOver ==
  [][hasSession /\ stored' = NoToken =>
       \/ session[stored.s] # "live"
       \/ leaving' # leaving
       \/ \E t \in Tabs : inflight[t] = "refused" /\ (req[t].s # stored.s \/ req[t].n = 0)]_uiVars

\* The second attempt of a request goes out with a token the server accepts, even
\* if the server has changed its secret, unless the session the request began in
\* is no longer the browser's.  (A refresh answered before the secret changed and
\* joined by the request still hands out a token of the old one.)
RetryIsAccepted ==
  [][\A t \in Tabs :
       call[t] # "sent2" /\ call'[t] = "sent2" /\ inflight[t] # "outdated" =>
         bearer'[t] = "good" \/ stored'.s # since[t]]_uiVars

\* Every refresh ends, also behind another tab's that failed: neither the lock nor
\* the single flight is kept for ever.
RefreshEnds == \A t \in Tabs : inflight[t] # "none" ~> inflight[t] = "none"
=============================================================================
