------------------------------- MODULE SignIn -------------------------------
(***************************************************************************)
(* Signing in to the web UI from several tabs of one browser: the redirect *)
(* through /auth/start, the identity provider and /auth/callback           *)
(* (api/src/auth.ts), the login code (api/src/token-store.ts) and its      *)
(* exchange by the page that comes back (ui/src/auth.ts).                  *)
(*                                                                         *)
(* A verifier is kept per tab (sessionStorage), but the state, return and  *)
(* challenge cookies are shared by all tabs: one set, overwritten by the   *)
(* next sign-in that starts and deleted by the next that comes back.  An   *)
(* attempt's number stands for its verifier, its challenge, its state, the *)
(* identity provider's code and the user who authenticates in it.          *)
(***************************************************************************)
EXTENDS Naturals

CONSTANTS
  Tabs,
  MaxAttempts,  \* bound: sign-ins that are started
  MaxFaults     \* bound: failed calls, lost answers, codes that expire unused

ASSUME BoundsAssumption == MaxAttempts \in Nat \ {0} /\ MaxFaults \in Nat

Attempts == 1 .. MaxAttempts
None == 0

VARIABLES
  at,        \* tab -> what it shows or waits for
  attempt,   \* tab -> the attempt it is in
  verifier,  \* tab -> sessionStorage[VERIFIER_KEY]
  visited,   \* tab -> attempts whose page at the identity provider is in its history
  carried,   \* tab -> the cookies its callback was sent with
  posted,    \* tab -> the verifier it has posted
  user,      \* tab -> the attempt whose user it is signed in as
  cookies,   \* the attempt orc_state, orc_return and orc_challenge belong to
  spent,     \* identity provider codes that have been exchanged
  challenge, \* login code of an attempt -> the challenge in its record, None without
  sessions,  \* attempt -> sessions created for its login code
  started, faults,
  strayed    \* history: the user has gone back, or left a sign-in half-way

browser == <<attempt, verifier, visited, carried, posted, user>>
api == <<spent, challenge, sessions>>
vars == <<at, browser, cookies, api, started, faults, strayed>>

Places == {"page", "start", "idp", "exchange", "answered", "landing", "posting", "granted",
           "failed", "in"}

TypeOK ==
  /\ at \in [Tabs -> Places]
  /\ \A f \in {attempt, verifier, carried, posted, user} : f \in [Tabs -> Attempts \cup {None}]
  /\ visited \in [Tabs -> SUBSET Attempts]
  /\ cookies \in Attempts \cup {None}
  /\ spent \subseteq Attempts
  /\ challenge \in [Attempts -> Attempts \cup {None}]
  /\ sessions \in [Attempts -> Nat]
  /\ started \in 0 .. MaxAttempts /\ faults \in 0 .. MaxFaults /\ strayed \in BOOLEAN

Init ==
  /\ at = [t \in Tabs |-> "page"]
  /\ attempt = [t \in Tabs |-> None] /\ verifier = [t \in Tabs |-> None]
  /\ visited = [t \in Tabs |-> {}]
  /\ carried = [t \in Tabs |-> None]
  /\ posted = [t \in Tabs |-> None] /\ user = [t \in Tabs |-> None]
  /\ cookies = None
  /\ spent = {} /\ challenge = [a \in Attempts |-> None] /\ sessions = [a \in Attempts |-> 0]
  /\ started = 0 /\ faults = 0 /\ strayed = FALSE

Go(t, from, to) == at[t] = from /\ at' = [at EXCEPT ![t] = to]
Fault == faults < MaxFaults /\ faults' = faults + 1

-----------------------------------------------------------------------------
(* To the identity provider and back. *)

\* login(): a new verifier, and off to /auth/start.
Login(t) ==
  /\ Go(t, "page", "start") /\ started < MaxAttempts
  /\ started' = started + 1
  /\ attempt' = [attempt EXCEPT ![t] = started + 1]
  /\ verifier' = [verifier EXCEPT ![t] = started + 1]
  /\ UNCHANGED <<visited, carried, posted, user, cookies, api, faults, strayed>>

\* GET /auth/start answers with the cookies and the redirect.
Start(t) ==
  /\ Go(t, "start", "idp")
  /\ cookies' = attempt[t]
  /\ visited' = [visited EXCEPT ![t] = @ \cup {attempt[t]}]
  /\ UNCHANGED <<attempt, verifier, carried, posted, user, api, started, faults, strayed>>

\* GET /auth/callback is sent with the cookies there are now.
Carry(t) ==
  /\ carried' = [carried EXCEPT ![t] = cookies]
  /\ UNCHANGED <<attempt, verifier, visited, posted, user, api, started, faults, strayed>>

\* Mutants of Authenticate: any state is accepted; a wrong one costs the cookies.
AuthenticateAnyState(t) ==
  /\ \/ cookies # None /\ Go(t, "idp", "exchange")
     \/ cookies = None /\ Go(t, "idp", "failed")
  /\ Carry(t) /\ UNCHANGED cookies

AuthenticateClears(t) ==
  /\ \/ cookies = attempt[t] /\ Go(t, "idp", "exchange") /\ UNCHANGED cookies
     \/ cookies # attempt[t] /\ Go(t, "idp", "failed") /\ cookies' = None
  /\ Carry(t)

\* The user authenticates; the callback is refused (400) unless its state is the
\* cookies'.
Authenticate(t) ==
  /\ \/ cookies = attempt[t] /\ Go(t, "idp", "exchange")
     \/ cookies # attempt[t] /\ Go(t, "idp", "failed")
  /\ Carry(t) /\ UNCHANGED cookies

\* The callback exchanges the provider's code, once, and stores a login code bound
\* to the challenge of its cookies (createCode).
Exchange(t) ==
  LET a == attempt[t] IN
  /\ \/ /\ a \notin spent /\ Go(t, "exchange", "answered")
        /\ spent' = spent \cup {a}
        /\ challenge' = [challenge EXCEPT ![a] = carried[t]]
        /\ UNCHANGED faults
     \/ /\ a \in spent /\ Go(t, "exchange", "failed")
        /\ UNCHANGED <<spent, challenge, faults>>
     \/ /\ Go(t, "exchange", "failed") /\ Fault
        /\ spent' \in {spent, spent \cup {a}}
        /\ UNCHANGED challenge
  /\ UNCHANGED <<browser, cookies, sessions, started, strayed>>

\* Its answer deletes the cookies, whosever they are now, and redirects to the page
\* with the code; or it is lost and the request is made again.
CallbackAnswered(t) ==
  /\ \/ Go(t, "answered", "landing") /\ cookies' = None /\ UNCHANGED faults
     \/ Go(t, "answered", "idp") /\ Fault /\ UNCHANGED cookies
  /\ UNCHANGED <<browser, api, started, strayed>>

-----------------------------------------------------------------------------
(* The page with #code. *)

\* completeLogin takes the tab's verifier and posts it with the code.
CompleteLogin(t) ==
  /\ \/ verifier[t] # None /\ Go(t, "landing", "posting")
     \/ verifier[t] = None /\ Go(t, "landing", "page")
  /\ posted' = [posted EXCEPT ![t] = verifier[t]]
  /\ verifier' = [verifier EXCEPT ![t] = None]
  /\ UNCHANGED <<attempt, visited, carried, user, cookies, api, started, faults, strayed>>

\* Mutant of Token: GET where the code has GETDEL.
TokenKeepsCode(t) ==
  LET a == attempt[t] IN
  /\ at[t] = "posting"
  /\ \/ /\ challenge[a] # None /\ challenge[a] = posted[t] /\ Go(t, "posting", "granted")
        /\ sessions' = [sessions EXCEPT ![a] = @ + 1] /\ UNCHANGED faults
     \/ /\ challenge[a] # posted[t] /\ Go(t, "posting", "page")
        /\ UNCHANGED <<sessions, faults>>
     \/ Go(t, "posting", "page") /\ Fault /\ UNCHANGED sessions
  /\ UNCHANGED <<browser, cookies, spent, challenge, started, strayed>>

\* POST /auth/token: the code is consumed, then its challenge compared, then the
\* session created.  The store may fail at the first or at the last of these.
Token(t) ==
  LET a == attempt[t]
      consumed == [challenge EXCEPT ![a] = None]
  IN
  /\ at[t] = "posting"
  /\ \/ /\ challenge[a] # None /\ challenge[a] = posted[t] /\ Go(t, "posting", "granted")
        /\ sessions' = [sessions EXCEPT ![a] = @ + 1]
        /\ challenge' = consumed /\ UNCHANGED faults
     \/ /\ challenge[a] # posted[t] /\ Go(t, "posting", "page")
        /\ challenge' = consumed /\ UNCHANGED <<sessions, faults>>
     \/ /\ Go(t, "posting", "page") /\ Fault
        /\ challenge' \in {consumed, challenge} /\ UNCHANGED sessions
  /\ UNCHANGED <<browser, cookies, spent, started, strayed>>

\* The page saves the tokens; or the answer is lost, and the request may be made
\* again by the browser or come to nothing.
TokenAnswered(t) ==
  /\ \/ /\ Go(t, "granted", "in") /\ user' = [user EXCEPT ![t] = attempt[t]]
        /\ UNCHANGED faults
     \/ (Go(t, "granted", "posting") \/ Go(t, "granted", "page")) /\ Fault /\ UNCHANGED user
  /\ UNCHANGED <<attempt, verifier, visited, carried, posted, cookies, api, started, strayed>>

-----------------------------------------------------------------------------
(* The user and the clock. *)

\* After a 400 or 401 the user opens the app again.
OpenApp(t) ==
  /\ Go(t, "failed", "page")
  /\ UNCHANGED <<browser, cookies, api, started, faults, strayed>>

\* The user leaves a sign-in half-way ...
Leave(t) ==
  /\ Go(t, "start", "page") \/ Go(t, "idp", "page")
  /\ strayed' = TRUE
  /\ UNCHANGED <<browser, cookies, api, started, faults>>

\* ... or goes back to an identity provider page of an earlier one.
GoBack(t, a) ==
  /\ at[t] \in {"page", "idp", "failed"} /\ a \in visited[t]
  /\ at' = [at EXCEPT ![t] = "idp"]
  /\ attempt' = [attempt EXCEPT ![t] = a]
  /\ strayed' = TRUE
  /\ UNCHANGED <<verifier, visited, carried, posted, user, cookies, api, started, faults>>

\* A login code lives 60 s.
CodeExpires(a) ==
  /\ challenge[a] # None /\ Fault
  /\ challenge' = [challenge EXCEPT ![a] = None]
  /\ UNCHANGED <<at, browser, cookies, spent, sessions, started, strayed>>

Next ==
  \/ \E t \in Tabs :
       \/ Login(t) \/ Start(t) \/ Authenticate(t) \/ Exchange(t) \/ CallbackAnswered(t)
       \/ CompleteLogin(t) \/ Token(t) \/ TokenAnswered(t) \/ OpenApp(t) \/ Leave(t)
       \/ \E a \in Attempts : GoBack(t, a)
  \/ \E a \in Attempts : CodeExpires(a)

Spec == Init /\ [][Next]_vars

-----------------------------------------------------------------------------
(* Properties. *)

\* A tab is signed in as the user who authenticated in the sign-in its verifier
\* was made for, also after the user went back to an earlier one or another tab
\* replaced the cookies (state in /auth/callback, challenge in /auth/token).
OwnUser == \A t \in Tabs : user[t] # None => user[t] = posted[t]

\* One login code makes one session, whatever is retried (GETDEL in consumeCode).
OneSessionPerCode == \A a \in Attempts : sessions[a] <= 1

\* Tabs that sign in at the same time overwrite and delete each other's cookies,
\* but they do not all fail: unless a call failed or the user strayed, one of them
\* is signed in or still on its way.
SomeoneSignsIn ==
  started > 0 /\ faults = 0 /\ ~strayed => \E t \in Tabs : at[t] \notin {"page", "failed"}
=============================================================================
