----------------------------- MODULE ClientProofs -----------------------------
(***************************************************************************)
(* Proofs about the two programs at the ends of the system: the CLI        *)
(* process (CliProcess, with the version policy it meets), for any         *)
(* versions, gateways and number of replacements; and the web UI's tokens  *)
(* (UiAuth), for any tabs, sign-ins, tokens and faults.                    *)
(***************************************************************************)
EXTENDS CliProcess, UiAuth, TLAPS

-----------------------------------------------------------------------------
(* The version policy. *)

\* The later of two lower bounds is the bound that both are.
LEMMA LaterMin ==
  ASSUME NEW a \in Versions, NEW b \in Versions, NEW v \in Versions
  PROVE  ~Less(v, IF Less(a, b) THEN b ELSE a) <=> ~Less(v, a) /\ ~Less(v, b)
BY SMT DEF Less, Versions

\* The earlier of two upper bounds is the bound that both are.
LEMMA EarlierMax ==
  ASSUME NEW a \in Versions, NEW b \in Versions, NEW v \in Versions
  PROVE  Less(v, IF Less(b, a) THEN b ELSE a) <=> Less(v, a) /\ Less(v, b)
BY SMT DEF Less, Versions

\* A range that holds a version is not empty.
LEMMA Inhabited ==
  ASSUME NEW r \in Ranges, NEW v \in Versions, Contains(r, v)
  PROVE  Less(r.min, r.max)
BY SMT DEF Less, Versions, Ranges, Contains

\* A deployment can only narrow the 2.x versions the gateway is built with, and it
\* narrows them to exactly those both ranges hold, also when the ranges overlap in
\* part, not at all, or one of them is missing (NarrowVersionPolicy, Check).
THEOREM NarrowIsIntersection ==
  ASSUME NEW def \in Ranges \cup {None}, NEW dep \in Ranges \cup {None},
         NEW v \in Versions, v[1] = 2
  PROVE  Supported(Narrow(def, dep), v)
           <=> Supported(def, v) /\ (dep = None \/ Supported(dep, v))
<1>1. v # None
  BY NoneAssumption
<1>2. CASE dep = None
  BY <1>2 DEF Narrow
<1>3. CASE dep # None /\ def = None
  BY <1>1, <1>3 DEF Narrow, Supported
<1>4. CASE dep # None /\ def # None
  <2>1. def \in Ranges /\ dep \in Ranges
    BY <1>4
  <2>2. /\ def.min \in Versions /\ def.max \in Versions
        /\ dep.min \in Versions /\ dep.max \in Versions
    BY <2>1 DEF Ranges
  <2> DEFINE lo == IF Less(def.min, dep.min) THEN dep.min ELSE def.min
             hi == IF Less(dep.max, def.max) THEN dep.max ELSE def.max
             out == [min |-> lo, max |-> hi]
  <2>3. out \in Ranges /\ out # None
    BY <2>2, NoneAssumption DEF Ranges
  <2>4. Contains(out, v) <=> Contains(def, v) /\ Contains(dep, v)
    <3>1. ~Less(v, lo) <=> ~Less(v, def.min) /\ ~Less(v, dep.min)
      BY <2>2, LaterMin
    <3>2. Less(v, hi) <=> Less(v, def.max) /\ Less(v, dep.max)
      BY <2>2, EarlierMax
    <3> QED
      BY <3>1, <3>2 DEF Contains
  <2>5. Narrow(def, dep) = IF Less(lo, hi) THEN out ELSE None
    BY <1>4 DEF Narrow
  <2>6. Contains(out, v) => Less(lo, hi)
    BY <2>3, Inhabited
  <2> QED
    BY <1>1, <1>4, <2>3, <2>4, <2>5, <2>6 DEF Supported
<1> QED
  BY <1>2, <1>3, <1>4

-----------------------------------------------------------------------------
(* The process. *)

\* A WebSocket is alive while main() dials or is up, and only then.
LiveInv == live = IF at \in {"dial", "up"} THEN 1 ELSE 0

IInv == TypeOK /\ LiveInv

\* TypeOK in two parts, for provers that are good at one of them each.
Flags ==
  /\ given \in BOOLEAN /\ failing \in BOOLEAN /\ initial \in BOOLEAN
  /\ ctrlC \in BOOLEAN /\ expired \in BOOLEAN
Others ==
  /\ opencode \in Installed /\ gateway \in Gateways
  /\ at \in Phases /\ backoff \in Backoffs
  /\ live \in Nat
  /\ child \in {"none", "starting", "ready", "died", "seen"}
  /\ code \in {-1, 0, 1, 130} /\ (code = -1 <=> at # "exit")
  /\ changes \in 0 .. MaxChanges

LEMMA Parts == IInv <=> Flags /\ Others /\ LiveInv
BY DEF IInv, TypeOK, Flags, Others

LEMMA PartsNext == Flags' /\ Others' /\ LiveInv' => IInv'
BY DEF IInv, TypeOK, Flags, Others

LEMMA BackoffDoubles == backoff \in Backoffs => NextBackoff \in Backoffs
BY DEF Backoffs, NextBackoff

LEMMA ChangesBound == MaxChanges \in Nat
BY GatewaysAssumption

LEMMA InitInv == Init => IInv
<1>1. Init => Flags
  BY DEF Init, Flags
<1>2. Init => Others /\ LiveInv
  BY ChangesBound, SMT DEF Init, Others, LiveInv, Phases, SignInPhases, Backoffs
<1> QED
  BY <1>1, <1>2, Parts

\* Sign-in steps: the loop has not begun, so no WebSocket is alive.
LEMMA SignInSteps ==
  ASSUME IInv, LoadConfig \/ CheckVersion \/ Listen \/ Callback \/ SignInTimeout \/ Exchange
  PROVE  IInv'
<1> USE DEF Runs, Proceed, Fail, Exit, Before, Start, world, IInv, TypeOK, LiveInv, Phases,
            SignInPhases
<1>1. CASE LoadConfig
  BY <1>1, SMT DEF LoadConfig
<1>2. CASE CheckVersion
  BY <1>2, SMT DEF CheckVersion
<1>3. CASE Listen
  BY <1>3, SMT DEF Listen
<1>4. CASE Callback
  BY <1>4, SMT DEF Callback
<1>5. CASE SignInTimeout
  BY <1>5, SMT DEF SignInTimeout
<1>6. CASE Exchange
  BY <1>6, SMT DEF Exchange
<1> QED
  BY <1>1, <1>2, <1>3, <1>4, <1>5, <1>6

LEMMA ServerSteps ==
  ASSUME IInv, ServerReady \/ ServerFails \/ ServerDies \/ ServerClosed \/ Shutdown
  PROVE  IInv'
<1> USE DEF Runs, Exit, world, loop, IInv, TypeOK, LiveInv, Phases, SignInPhases
<1>1. CASE ServerReady
  BY <1>1, SMT DEF ServerReady
<1>2. CASE ServerFails
  BY <1>2, SMT DEF ServerFails
<1>3. CASE ServerDies
  BY <1>3, SMT DEF ServerDies
<1>4. CASE ServerClosed
  BY <1>4, SMT DEF ServerClosed
<1>5. CASE Shutdown
  BY <1>5, SMT DEF Shutdown
<1> QED
  BY <1>1, <1>2, <1>3, <1>4, <1>5

LEMMA TunnelSteps ==
  ASSUME IInv, Attempt \/ Rejected \/ TunnelError \/ TunnelClosed
  PROVE  IInv'
<1> USE DEF Runs, Exit, Retry, world, IInv, TypeOK, LiveInv, Phases, SignInPhases
<1>1. CASE Preflight
  BY <1>1, SMT DEF Preflight
<1>2. CASE Connected
  <2>1. Flags'
    BY <1>2, Zenon DEF Connected, Flags
  <2>2. Others' /\ LiveInv'
    BY <1>2, SMT DEF Connected, Backoffs, Others
  <2> QED
    BY <2>1, <2>2, PartsNext
<1>3. CASE WakeUp
  BY <1>3, BackoffDoubles, SMT DEF WakeUp
<1>4. CASE Rejected
  BY <1>4, SMT DEF Rejected
<1>5. CASE TunnelError
  BY <1>5, SMT DEF TunnelError
<1>6. CASE TunnelClosed
  <2>1. Flags'
    BY <1>6, Zenon DEF TunnelClosed, Flags
  <2>2. Others' /\ LiveInv'
    BY <1>6, SMT DEF TunnelClosed, Others
  <2> QED
    BY <2>1, <2>2, PartsNext
<1> QED
  BY <1>1, <1>2, <1>3, <1>4, <1>5, <1>6 DEF Attempt

LEMMA WorldSteps ==
  ASSUME IInv, GatewayReplaced \/ TokenExpires \/ CtrlC
  PROVE  IInv'
<1>1. Flags'
  BY Zenon DEF GatewayReplaced, TokenExpires, CtrlC, loop, IInv, TypeOK, Flags
<1>2. Others' /\ LiveInv'
  BY ChangesBound, SMT
  DEF GatewayReplaced, TokenExpires, CtrlC, loop, IInv, TypeOK, Others, LiveInv, Phases,
      SignInPhases
<1> QED
  BY <1>1, <1>2, PartsNext

LEMMA Inductive == Spec => []IInv
<1>1. IInv /\ UNCHANGED vars => IInv'
  BY DEF vars, IInv, TypeOK, LiveInv
<1>2. IInv /\ Next => IInv'
  BY SignInSteps, ServerSteps, TunnelSteps, WorldSteps DEF Next
<1> QED
  BY InitInv, <1>1, <1>2, PTL DEF Spec

\* The process's state keeps its types; the backoff is one of 1, 2, 4, 8, 16 and 30 s,
\* and there is an exit code exactly when the process has exited.
THEOREM TypeCorrect == Spec => []TypeOK
<1>1. IInv => TypeOK
  BY DEF IInv
<1> QED
  BY Inductive, <1>1, PTL

\* At most one WebSocket is alive, whatever the gateway, the local server and the
\* user do: a new attempt begins only after the old socket's close event.
THEOREM OneTunnelAtATime == Spec => []OneTunnel
<1>1. IInv => OneTunnel
  BY SMT DEF IInv, LiveInv, OneTunnel
<1> QED
  BY Inductive, <1>1, PTL

\* A tunnel that was up is retried at once or after a second: the backoff that earlier
\* failures have built up is gone.  UpInv is what makes this inductive.
UpInv == at = "up" => backoff = 1

THEOREM ReconnectsWithinASecond == Spec => ReconnectsSoon
<1>1. Init => UpInv
  BY DEF Init, UpInv
<1>2. UpInv /\ [Next]_vars => UpInv'
  <2> SUFFICES ASSUME UpInv, [Next]_vars PROVE UpInv'
    OBVIOUS
  <2> USE DEF UpInv, Runs, Exit, Retry, Proceed, Fail, Before, Start, world, loop
  <2>1. CASE Connected
    BY <2>1 DEF Connected
  <2>2. CASE LoadConfig \/ CheckVersion \/ Listen \/ Callback \/ SignInTimeout \/ Exchange
    BY <2>2 DEF LoadConfig, CheckVersion, Listen, Callback, SignInTimeout, Exchange
  <2>3. CASE ServerReady \/ ServerFails \/ ServerDies \/ ServerClosed \/ Shutdown
    BY <2>3 DEF ServerReady, ServerFails, ServerDies, ServerClosed, Shutdown
  <2>4. CASE Preflight \/ WakeUp \/ Rejected \/ TunnelError \/ TunnelClosed
    BY <2>4 DEF Preflight, WakeUp, Rejected, TunnelError, TunnelClosed
  <2>5. CASE GatewayReplaced \/ TokenExpires \/ CtrlC \/ UNCHANGED vars
    BY <2>5 DEF GatewayReplaced, TokenExpires, CtrlC, vars
  <2> QED
    BY <2>1, <2>2, <2>3, <2>4, <2>5 DEF Next, Attempt
<1>3. UpInv /\ [Next]_vars => [at = "up" /\ at' = "sleep" => backoff' = 1]_vars
  <2> SUFFICES ASSUME UpInv, Next, at = "up", at' = "sleep" PROVE backoff' = 1
    OBVIOUS
  <2> USE DEF UpInv, Runs, Exit, Proceed, Fail, Before, Start, world, loop
  <2>1. CASE TunnelClosed
    BY <2>1 DEF TunnelClosed
  <2>2. CASE LoadConfig \/ CheckVersion \/ Listen \/ Callback \/ SignInTimeout \/ Exchange
    BY <2>2 DEF LoadConfig, CheckVersion, Listen, Callback, SignInTimeout, Exchange
  <2>3. CASE ServerReady \/ ServerFails \/ ServerDies \/ ServerClosed \/ Shutdown
    BY <2>3 DEF ServerReady, ServerFails, ServerDies, ServerClosed, Shutdown
  <2>4. CASE Attempt \/ Rejected \/ TunnelError
    BY <2>4 DEF Attempt, Preflight, Connected, WakeUp, Rejected, TunnelError
  <2>5. CASE GatewayReplaced \/ TokenExpires \/ CtrlC
    BY <2>5 DEF GatewayReplaced, TokenExpires, CtrlC
  <2> QED
    BY <2>1, <2>2, <2>3, <2>4, <2>5 DEF Next
<1> QED
  BY <1>1, <1>2, <1>3, PTL DEF Spec, ReconnectsSoon

-----------------------------------------------------------------------------
(* The web UI: the lock's queue as a sequence. *)

Once(q) == \A i, j \in DOMAIN q : q[i] = q[j] => i = j
In(q, t) == \E i \in DOMAIN q : q[i] = t

\* A tab that joins is the last; it is the first if there is no other.
LEMMA Joined ==
  ASSUME NEW q \in Seq(Tabs), Once(q), NEW t \in Tabs, ~In(q, t),
         NEW r, r = Append(q, t)
  PROVE  /\ r \in Seq(Tabs) /\ Once(r) /\ r # <<>>
         /\ \A u \in Tabs : In(r, u) <=> In(q, u) \/ u = t
         /\ q # <<>> => Head(r) = Head(q)
<1>1. r \in Seq(Tabs) /\ Len(r) = Len(q) + 1 /\ r[Len(q) + 1] = t
      /\ \A i \in 1 .. Len(q) : r[i] = q[i]
  BY SMT
<1>2. Once(r)
  BY <1>1, SMT DEF Once, In
<1>3. \A u \in Tabs : In(r, u) <=> In(q, u) \/ u = t
  <2>1. \A u \in Tabs : In(q, u) => In(r, u)
    BY <1>1, SMT DEF In
  <2>2. In(r, t)
    BY <1>1, SMT DEF In
  <2>3. \A u \in Tabs : In(r, u) => In(q, u) \/ u = t
    BY <1>1, SMT DEF In
  <2> QED
    BY <2>1, <2>2, <2>3
<1>4. r # <<>> /\ (q # <<>> => Head(r) = Head(q))
  BY <1>1, SMT
<1> QED
  BY <1>1, <1>2, <1>3, <1>4

\* The first tab leaves.
LEMMA Left ==
  ASSUME NEW q \in Seq(Tabs), Once(q), q # <<>>, NEW r, r = Tail(q)
  PROVE  /\ r \in Seq(Tabs) /\ Once(r)
         /\ \A u \in Tabs : In(r, u) <=> In(q, u) /\ u # Head(q)
<1>1. r \in Seq(Tabs) /\ Len(r) = Len(q) - 1 /\ Len(q) \in Nat \ {0} /\ Head(q) = q[1]
      /\ \A i \in 1 .. Len(r) : r[i] = q[i + 1]
  BY SMT
<1>2. Once(r)
  BY <1>1, SMT DEF Once
<1>3. ASSUME NEW u \in Tabs, In(r, u) PROVE In(q, u) /\ u # Head(q)
  <2>1. PICK i \in 1 .. Len(r) : r[i] = u
    BY <1>1, <1>3, SMT DEF In
  <2>2. i + 1 \in DOMAIN q /\ 1 \in DOMAIN q /\ q[i + 1] = u /\ i + 1 # 1
    BY <1>1, <2>1, SMT
  <2> QED
    BY <1>1, <2>2 DEF In, Once
<1>4. ASSUME NEW u \in Tabs, In(q, u), u # Head(q) PROVE In(r, u)
  <2>1. PICK i \in 1 .. Len(q) : q[i] = u
    BY <1>4, SMT DEF In
  <2>2. i # 1
    BY <1>1, <1>4, <2>1
  <2>3. i - 1 \in 1 .. Len(r) /\ (i - 1) + 1 = i
    BY <1>1, <2>2, SMT
  <2>4. i - 1 \in DOMAIN r /\ r[i - 1] = u
    BY <1>1, <2>1, <2>3, SMT
  <2> QED
    BY <2>4 DEF In
<1> QED
  BY <1>1, <1>2, <1>3, <1>4

\* A tab goes from wherever it is; the first stays the first, unless it is the one.
LEMMA Gone ==
  ASSUME queue \in Seq(Tabs), Once(queue), NEW t \in Tabs
  PROVE  /\ Without(t) \in Seq(Tabs) /\ Once(Without(t))
         /\ \A u \in Tabs : In(Without(t), u) <=> In(queue, u) /\ u # t
         /\ queue # <<>> /\ Head(queue) # t =>
              Without(t) # <<>> /\ Head(Without(t)) = Head(queue)
         /\ queue = <<>> => Without(t) = <<>>
<1>1. CASE ~In(queue, t)
  <2>1. Without(t) = queue
    BY <1>1 DEF Without, In
  <2> QED
    BY <1>1, <2>1
<1>2. CASE In(queue, t)
  <2> DEFINE n == Len(queue)
             k == CHOOSE i \in DOMAIN queue : queue[i] = t
             r == [i \in 1 .. n - 1 |-> queue[IF i < k THEN i ELSE i + 1]]
  <2>1. Without(t) = r
    BY <1>2 DEF Without, In
  <2>2. n \in Nat /\ DOMAIN queue = 1 .. n /\ \A i \in 1 .. n : queue[i] \in Tabs
    BY SMT
  <2>3. k \in 1 .. n /\ queue[k] = t
    BY <1>2, <2>2 DEF In
  <2> HIDE DEF k
  <2>4. n - 1 \in Nat /\ r \in [1 .. n - 1 -> Tabs]
    BY <2>2, <2>3, SMT
  <2>5. r \in Seq(Tabs) /\ Len(r) = n - 1
    BY <2>4, SMT
  <2>6. /\ \A i \in 1 .. n - 1 : i < k => r[i] = queue[i]
        /\ \A i \in 1 .. n - 1 : i >= k => r[i] = queue[i + 1]
    BY <2>2, <2>3, SMT
  <2> HIDE DEF r
  <2>7. Once(r)
    <3> SUFFICES ASSUME NEW i \in 1 .. n - 1, NEW j \in 1 .. n - 1, r[i] = r[j] PROVE i = j
      BY <2>4 DEF Once
    <3> QED
      BY <2>2, <2>3, <2>6, SMT DEF Once
  <2>8. ASSUME NEW u \in Tabs, In(r, u) PROVE In(queue, u) /\ u # t
    <3>1. PICK i \in 1 .. n - 1 : r[i] = u
      BY <2>4, <2>8 DEF In
    <3>2. PICK j \in 1 .. n : queue[j] = u /\ j # k
      BY <2>2, <2>3, <2>6, <3>1, SMT
    <3> QED
      BY <2>2, <2>3, <3>2 DEF In, Once
  <2>9. ASSUME NEW u \in Tabs, In(queue, u), u # t PROVE In(r, u)
    <3>1. PICK i \in 1 .. n : queue[i] = u
      BY <2>2, <2>9 DEF In
    <3>2. i # k
      BY <2>3, <2>9, <3>1
    <3>3. CASE i < k
      <4>1. i \in 1 .. n - 1 /\ r[i] = u
        BY <2>2, <2>3, <2>6, <3>1, <3>3, SMT
      <4> QED
        BY <2>4, <4>1 DEF In
    <3>4. CASE i > k
      <4>1. i - 1 \in 1 .. n - 1 /\ i - 1 >= k /\ (i - 1) + 1 = i
        BY <2>2, <2>3, <3>1, <3>4, SMT
      <4>2. r[i - 1] = u
        BY <2>6, <3>1, <4>1
      <4> QED
        BY <2>4, <4>1, <4>2 DEF In
    <3> QED
      BY <2>2, <2>3, <3>1, <3>2, <3>3, <3>4, SMT
  <2>10. queue # <<>> /\ Head(queue) # t => r # <<>> /\ Head(r) = Head(queue)
    <3> SUFFICES ASSUME queue # <<>>, Head(queue) # t PROVE r # <<>> /\ Head(r) = Head(queue)
      OBVIOUS
    <3>1. Head(queue) = queue[1]
      BY SMT
    <3>2. k # 1
      BY <2>3, <3>1
    <3>3. 1 \in 1 .. n - 1 /\ 1 < k
      BY <2>2, <2>3, <3>2, SMT
    <3>4. r[1] = queue[1]
      BY <2>6, <3>3
    <3> QED
      BY <2>5, <3>1, <3>3, <3>4, SMT
  <2>11. queue # <<>>
    BY <2>2, <2>3, SMT
  <2> QED
    BY <2>1, <2>5, <2>7, <2>8, <2>9, <2>10, <2>11
<1> QED
  BY <1>1, <1>2

-----------------------------------------------------------------------------
(* The web UI: the refreshes and the lock. *)

\* What a step can do to the refreshes: one begins, goes on, ends, or is gone with its
\* page; or all the answers under way are of the old secret now.
Begins(t) == StartRefresh(t)
GoesOn(t) ==
  /\ Holds(t) \/ Underway(t)
  /\ inflight' = [inflight EXCEPT ![t] = inflight'[t]]
  /\ inflight'[t] \in {"posted", "answered", "outdated", "refused", "failed"}
  /\ UNCHANGED queue
Ends(t) ==
  /\ Holds(t) \/ Underway(t)
  /\ inflight' = [inflight EXCEPT ![t] = "none"]
  /\ queue' = IF locks THEN Tail(queue) ELSE queue
IsGone(t) == inflight' = [inflight EXCEPT ![t] = "none"] /\ queue' = Without(t)
AllOutdated ==
  /\ inflight' = [t \in Tabs |-> IF inflight[t] = "answered" THEN "outdated" ELSE inflight[t]]
  /\ UNCHANGED queue

Flights == {"none", "waiting", "posted", "answered", "outdated", "refused", "failed"}

\* Every step does one of these, to one tab, or nothing to the refreshes.
LEMMA FlightSteps ==
  ASSUME inflight \in [Tabs -> Flights], [UiNext]_uiVars
  PROVE  /\ UNCHANGED locks
         /\ \/ UNCHANGED <<inflight, queue>>
            \/ AllOutdated
            \/ \E t \in Tabs : Begins(t) \/ GoesOn(t) \/ Ends(t) \/ IsGone(t)
<1> USE DEF Flights, Begins, GoesOn, Ends, IsGone, Underway
<1>1. ASSUME NEW t \in Tabs, RunRefresh(t)
      PROVE  UNCHANGED locks /\ (GoesOn(t) \/ Ends(t))
  BY <1>1 DEF RunRefresh, EndRefresh, Holds
<1>2. ASSUME NEW t \in Tabs, ServeRefresh(t) PROVE UNCHANGED locks /\ GoesOn(t)
  BY <1>2 DEF ServeRefresh
<1>3. ASSUME NEW t \in Tabs, FinishRefresh(t) PROVE UNCHANGED locks /\ Ends(t)
  BY <1>3 DEF FinishRefresh, EndRefresh
<1>4. ASSUME NEW t \in Tabs, LoseRefresh(t) \/ HalfRefresh(t)
      PROVE  UNCHANGED locks /\ GoesOn(t)
  BY <1>4 DEF LoseRefresh, HalfRefresh
<1>5. ASSUME NEW t \in Tabs, BeginCall(t) \/ WarmToken(t) \/ RetryCall(t)
      PROVE  UNCHANGED locks /\ (UNCHANGED <<inflight, queue>> \/ Begins(t))
  BY <1>5 DEF BeginCall, AwaitToken, WarmToken, RetryCall, TryAgain, refreshing
<1>6. ASSUME NEW t \in Tabs, LogoutDone(t) \/ Reload(t) PROVE UNCHANGED locks /\ IsGone(t)
  BY <1>6 DEF LogoutDone, Reload, NewPage
<1>7. ASSUME NEW t \in Tabs,
             CallAnswered(t) \/ GiveUp(t) \/ Logout(t) \/ CompleteLogin(t) \/ AccessAges(t)
      PROVE  UNCHANGED <<locks, inflight, queue>>
  BY <1>7 DEF CallAnswered, GiveUp, Logout, CompleteLogin, AccessAges, refreshing
<1>8. ASSUME NEW r \in Tokens, GraceEnds(r) PROVE UNCHANGED <<locks, inflight, queue>>
  BY <1>8 DEF GraceEnds, refreshing
<1>9. ASSUME NEW s \in Sessions, SessionExpires(s) PROVE UNCHANGED <<locks, inflight, queue>>
  BY <1>9 DEF SessionExpires, refreshing
<1>10. CASE SecretChanges
  BY <1>10 DEF SecretChanges, AllOutdated
<1>11. CASE UNCHANGED uiVars
  BY <1>11 DEF uiVars
<1> QED
  BY <1>1, <1>2, <1>3, <1>4, <1>5, <1>6, <1>7, <1>8, <1>9, <1>10, <1>11 DEF UiNext, Progress

\* With Web Locks, the tabs that refresh are those in the queue, and only the first runs;
\* without, the queue is not used.
LockInv ==
  /\ queue \in Seq(Tabs) /\ Once(queue)
  /\ ~locks => queue = <<>>
  /\ locks => \A t \in Tabs : inflight[t] # "none" <=> In(queue, t)
  /\ locks => \A t \in Tabs : Underway(t) => queue # <<>> /\ t = Head(queue)

LEMMA LockStep ==
  ASSUME locks \in BOOLEAN, inflight \in [Tabs -> Flights], LockInv, [UiNext]_uiVars
  PROVE  inflight' \in [Tabs -> Flights] /\ LockInv'
<1>1. CASE UNCHANGED <<inflight, queue, locks>>
  BY <1>1 DEF LockInv, Underway
<1>2. CASE AllOutdated /\ UNCHANGED locks
  BY <1>2 DEF LockInv, Underway, AllOutdated, Flights
<1>3. ASSUME NEW t \in Tabs, Begins(t), UNCHANGED locks
      PROVE  inflight' \in [Tabs -> Flights] /\ LockInv'
  <2> USE DEF Begins, StartRefresh
  <2>1. inflight' \in [Tabs -> Flights]
    BY <1>3 DEF Flights
  <2>2. CASE ~locks
    BY <1>3, <2>1, <2>2 DEF LockInv
  <2>3. CASE locks
    <3>1. ~In(queue, t) /\ queue' = Append(queue, t)
      BY <1>3, <2>3 DEF LockInv
    <3>2. /\ queue' \in Seq(Tabs) /\ Once(queue') /\ queue' # <<>>
          /\ \A u \in Tabs : In(queue', u) <=> In(queue, u) \/ u = t
          /\ queue # <<>> => Head(queue') = Head(queue)
      BY <3>1, Joined DEF LockInv
    <3>3. \A u \in Tabs : inflight'[u] # "none" <=> In(queue', u)
      BY <1>3, <2>3, <3>2 DEF LockInv
    <3>4. \A u \in Tabs : Underway(u)' => queue' # <<>> /\ u = Head(queue')
      BY <1>3, <2>3, <3>2 DEF LockInv, Underway
    <3> QED
      BY <1>3, <2>1, <2>3, <3>2, <3>3, <3>4 DEF LockInv
  <2> QED
    BY <2>1, <2>2, <2>3
<1>4. ASSUME NEW t \in Tabs, GoesOn(t), UNCHANGED locks
      PROVE  inflight' \in [Tabs -> Flights] /\ LockInv'
  <2> USE DEF GoesOn
  <2>1. inflight' \in [Tabs -> Flights]
    BY <1>4 DEF Flights
  <2>2. locks => queue # <<>> /\ t = Head(queue)
    <3>1. CASE Underway(t)
      BY <3>1 DEF LockInv
    <3>2. CASE Holds(t)
      <4>1. locks => In(queue, t) /\ t = Head(queue)
        BY <3>2 DEF Holds, LockInv
      <4>2. queue = <<>> => ~In(queue, t)
        BY SMT DEF In
      <4> QED
        BY <4>1, <4>2
    <3> QED
      BY <1>4, <3>1, <3>2
  <2>3. inflight[t] # "none"
    BY <1>4 DEF Holds, Underway
  <2> QED
    BY <1>4, <2>1, <2>2, <2>3 DEF LockInv, Underway
<1>5. ASSUME NEW t \in Tabs, Ends(t), UNCHANGED locks
      PROVE  inflight' \in [Tabs -> Flights] /\ LockInv'
  <2> USE DEF Ends
  <2>1. inflight' \in [Tabs -> Flights]
    BY <1>5 DEF Flights
  <2>2. CASE ~locks
    BY <1>5, <2>1, <2>2 DEF LockInv
  <2>3. CASE locks
    <3>1. queue # <<>> /\ t = Head(queue)
      <4>1. CASE Underway(t)
        BY <2>3, <4>1 DEF LockInv
      <4>2. CASE Holds(t)
        <5>1. In(queue, t) /\ t = Head(queue)
          BY <2>3, <4>2 DEF Holds, LockInv
        <5>2. queue = <<>> => ~In(queue, t)
          BY SMT DEF In
        <5> QED
          BY <5>1, <5>2
      <4> QED
        BY <1>5, <4>1, <4>2
    <3>2. /\ queue' \in Seq(Tabs) /\ Once(queue')
          /\ \A u \in Tabs : In(queue', u) <=> In(queue, u) /\ u # t
      BY <1>5, <2>3, <3>1, Left DEF LockInv
    <3>3. \A u \in Tabs : inflight'[u] # "none" <=> In(queue', u)
      BY <1>5, <2>3, <3>2 DEF LockInv
    <3>4. \A u \in Tabs : ~Underway(u)'
      BY <1>5, <2>3, <3>1 DEF LockInv, Underway
    <3> QED
      BY <1>5, <2>1, <2>3, <3>2, <3>3, <3>4 DEF LockInv
  <2> QED
    BY <2>2, <2>3
<1>6. ASSUME NEW t \in Tabs, IsGone(t), UNCHANGED locks
      PROVE  inflight' \in [Tabs -> Flights] /\ LockInv'
  <2> USE DEF IsGone
  <2>1. inflight' \in [Tabs -> Flights]
    BY <1>6 DEF Flights
  <2>2. /\ queue' \in Seq(Tabs) /\ Once(queue')
        /\ \A u \in Tabs : In(queue', u) <=> In(queue, u) /\ u # t
        /\ queue # <<>> /\ Head(queue) # t => queue' # <<>> /\ Head(queue') = Head(queue)
        /\ queue = <<>> => queue' = <<>>
    BY <1>6, Gone DEF LockInv
  <2>3. locks => \A u \in Tabs : inflight'[u] # "none" <=> In(queue', u)
    BY <1>6, <2>2 DEF LockInv
  <2>4. locks => \A u \in Tabs : Underway(u)' => queue' # <<>> /\ u = Head(queue')
    BY <1>6, <2>2 DEF LockInv, Underway
  <2> QED
    BY <1>6, <2>1, <2>2, <2>3, <2>4 DEF LockInv
<1> QED
  BY <1>1, <1>2, <1>3, <1>4, <1>5, <1>6, FlightSteps

\* With the lock, nobody else's refresh is under way.
LEMMA OneRuns ==
  ASSUME LockInv, locks, NEW t \in Tabs, Holds(t) \/ Underway(t), NEW u \in Tabs, Underway(u)
  PROVE  u = t
BY DEF LockInv, Holds

-----------------------------------------------------------------------------
(* The web UI: its tokens and the server's. *)

UiTypes ==
  /\ session \in [Sessions -> {"new", "live", "over"}]
  /\ newest \in [Sessions -> 0 .. MaxTokens]
  /\ grace \subseteq Tokens
  /\ locks \in BOOLEAN
  /\ stored \in Tokens \cup {NoToken}
  /\ access \in [Tabs -> AccessTokens]
  /\ inflight \in [Tabs -> Flights]
  /\ req \in [Tabs -> Tokens \cup {NoToken}]
  /\ call \in [Tabs -> {"none", "token", "sent", "token2", "sent2"}]
  /\ bearer \in [Tabs -> AccessTokens]
  /\ since \in [Tabs -> Sessions \cup {0}]
  /\ leaving \in [Tabs -> 0 .. Unrecorded]
  /\ faults \in 0 .. MaxFaults
  /\ rejected \in BOOLEAN

\* A token that is held somewhere is one of a session that has begun.
Issued(x) == x # NoToken => session[x.s] # "new"

\* A refresh that is under way holds a token.  Tokens in their grace window are of sessions
\* that have begun, and not newer than the newest.  A refresh is refused when its session is
\* over or its token has no record.
TokenInv ==
  /\ Issued(stored)
  /\ \A t \in Tabs : Issued(req[t]) /\ (Underway(t) <=> req[t] # NoToken)
  /\ \A r \in grace : session[r.s] # "new" /\ r.n <= newest[r.s] /\ r.n < MaxTokens
  /\ \A t \in Tabs : inflight[t] = "refused" => session[req[t].s] # "live" \/ req[t].n = 0

\* A request knows the session it began in.  One that waits for its second token waits
\* for a refresh: there is no access token meanwhile.
CallInv ==
  \A t \in Tabs :
    /\ call[t] # "none" <=> since[t] # 0
    /\ call[t] = "token2" => access[t] = "none"

UiInv == UiTypes /\ LockInv /\ TokenInv /\ CallInv

\* NoToken is of no session.
LEMMA NoTokenIsNone == NoToken \notin Tokens /\ NoToken.s = 0 /\ 0 \notin Sessions
BY SMT DEF NoToken, Tokens, Sessions

\* The next token of a session: its number is one higher.
LEMMA NextToken ==
  ASSUME NEW r \in Tokens, r.n < MaxTokens, NEW next, next = [r EXCEPT !.n = @ + 1]
  PROVE  next \in Tokens /\ next.s = r.s /\ next.n = r.n + 1 /\ next # NoToken
BY BoundsAssumption, SMT DEF Tokens, NoToken, Sessions

\* The token announced for another one is of the same session.
LEMMA AnnouncedToken ==
  ASSUME NEW r \in Tokens, r.n < MaxTokens, NEW next, next = Announced(r)
  PROVE  next \in Tokens /\ next.s = r.s /\ next # NoToken
<1>1. r.n \in 0 .. MaxTokens /\ r.s \in Sessions /\ r = [s |-> r.s, n |-> r.n]
  BY SMT DEF Tokens
<1>2. PICK k \in 0 .. MaxTokens : next = [r EXCEPT !.n = k]
  <2>1. r.n + 1 \in 0 .. MaxTokens /\ 0 \in 0 .. MaxTokens
    BY <1>1, BoundsAssumption, SMT
  <2>2. CASE r.n = newest[r.s]
    BY <2>1, <2>2 DEF Announced
  <2>3. CASE r.n # newest[r.s]
    BY <2>1, <2>3 DEF Announced
  <2> QED
    BY <2>2, <2>3
<1>3. next = [s |-> r.s, n |-> k]
  BY <1>1, <1>2
<1>4. r.s # 0
  BY <1>1, SMT DEF Sessions
<1> QED
  BY <1>1, <1>3, <1>4, SMT DEF Tokens, NoToken

\* The fields of a token.
LEMMA TokenFields ==
  ASSUME NEW r \in Tokens
  PROVE  r.s \in Sessions /\ r.n \in Nat /\ r.n <= MaxTokens /\ r # NoToken
BY BoundsAssumption, SMT DEF Tokens, NoToken, Sessions

\* Faults are counted up to their bound.
LEMMA UiFaultBound == Fault /\ faults \in 0 .. MaxFaults => faults' \in 0 .. MaxFaults
BY BoundsAssumption, SMT DEF Fault

\* A session ends.
LEMMA SessionEnds ==
  ASSUME UiTypes, NEW x \in Sessions, EndSession(x)
  PROVE  /\ session' \in [Sessions -> {"new", "live", "over"}] /\ session'[x] = "over"
         /\ grace' \subseteq grace /\ \A r \in grace' : r.s # x
         /\ \A y \in Sessions : /\ session[y] # "new" => session'[y] # "new"
                                /\ session[y] # "live" => session'[y] # "live"
BY DEF UiTypes, EndSession

\* It may end when a sign-out has reached the server.
LEMMA SignedOut ==
  ASSUME UiTypes, NEW t \in Tabs, LogoutDone(t)
  PROVE  /\ UNCHANGED <<session, grace>> \/ (leaving[t] \in Sessions /\ EndSession(leaving[t]))
         /\ session' \in [Sessions -> {"new", "live", "over"}] /\ grace' \subseteq grace
         /\ \A y \in Sessions : /\ session[y] # "new" => session'[y] # "new"
                                /\ session[y] # "live" => session'[y] # "live"
<1>1. leaving[t] = Unrecorded \/ leaving[t] \in Sessions
  BY BoundsAssumption, SMT DEF LogoutDone, UiTypes, Unrecorded, Sessions
<1>2. UNCHANGED <<session, grace>> \/ (leaving[t] \in Sessions /\ EndSession(leaving[t]))
  BY <1>1 DEF LogoutDone
<1>3. CASE UNCHANGED <<session, grace>>
  BY <1>2, <1>3 DEF UiTypes
<1>4. CASE leaving[t] \in Sessions /\ EndSession(leaving[t])
  BY <1>2, <1>4, SessionEnds
<1> QED
  BY <1>2, <1>3, <1>4

\* Sessions that end take no token its session.
LEMMA StillIssued ==
  ASSUME UiTypes, TokenInv, UNCHANGED newest, grace' \subseteq grace,
         \A y \in Sessions : session[y] # "new" => session'[y] # "new"
  PROVE  /\ \A x \in Tokens \cup {NoToken} : Issued(x) => (x # NoToken => session'[x.s] # "new")
         /\ \A x \in grace' : session'[x.s] # "new" /\ x.n <= newest'[x.s] /\ x.n < MaxTokens
<1>1. \A x \in Tokens : x.s \in Sessions
  BY TokenFields
<1>2. \A x \in Tokens \cup {NoToken} : Issued(x) => (x # NoToken => session'[x.s] # "new")
  BY <1>1 DEF Issued
<1>3. ASSUME NEW x \in grace'
      PROVE  session'[x.s] # "new" /\ x.n <= newest'[x.s] /\ x.n < MaxTokens
  <2>1. x \in grace /\ x.s \in Sessions
    BY <1>1, <1>3 DEF UiTypes
  <2> QED
    BY <2>1 DEF TokenInv
<1> QED
  BY <1>2, <1>3

\* POST /auth/refresh is served: what it does to its session and its tab.
LEMMA Served ==
  ASSUME UiInv, NEW t \in Tabs, ServeRefresh(t)
  PROVE  /\ inflight[t] = "posted" /\ req[t] \in Tokens /\ req[t].s \in Sessions
         /\ session[req[t].s] # "new"
         /\ inflight' = [inflight EXCEPT ![t] = inflight'[t]]
         /\ \/ /\ inflight'[t] = "answered"
               /\ req[t].n < MaxTokens /\ session[req[t].s] = "live"
               /\ UNCHANGED session
               /\ \/ /\ newest[req[t].s] = req[t].n
                     /\ req' = [req EXCEPT ![t] = [req[t] EXCEPT !.n = @ + 1]]
                     /\ newest' = [newest EXCEPT ![req[t].s] = req[t].n + 1]
                     /\ grace' = grace \cup {req[t]}
                  \/ /\ req[t] \in grace
                     /\ req' = [req EXCEPT ![t] = Announced(req[t])]
                     /\ UNCHANGED <<newest, grace>>
            \/ /\ inflight'[t] = "refused"
               /\ \/ req[t].n = 0 /\ UNCHANGED <<session, grace>>
                  \/ EndSession(req[t].s)
               /\ UNCHANGED <<newest, req>>
<1> DEFINE r == req[t]
<1>1. inflight[t] = "posted" /\ r \in Tokens /\ r.s \in Sessions /\ session[r.s] # "new"
  <2>1. inflight[t] = "posted"
    BY DEF ServeRefresh
  <2>2. r # NoToken /\ Issued(r) /\ r \in Tokens \cup {NoToken}
    BY <2>1 DEF UiInv, TokenInv, Underway, UiTypes
  <2> QED
    BY <2>1, <2>2, TokenFields DEF Issued
<1>2. r \in grace => r.n < MaxTokens
  BY DEF UiInv, TokenInv
<1>3. inflight' = [inflight EXCEPT ![t] = inflight'[t]]
  BY DEF ServeRefresh, UiInv, UiTypes
<1>4. CASE inflight' = [inflight EXCEPT ![t] = "answered"]
  <2>1. inflight'[t] = "answered"
    BY <1>4 DEF UiInv, UiTypes
  <2>2. \/ /\ Exchanged(r) /\ newest' = [newest EXCEPT ![r.s] = r.n + 1]
           /\ grace' = grace \cup {r} /\ UNCHANGED session
           /\ req' = [req EXCEPT ![t] = [r EXCEPT !.n = @ + 1]]
        \/ /\ session[r.s] = "live" /\ r \in grace
           /\ req' = [req EXCEPT ![t] = Announced(r)]
           /\ UNCHANGED <<session, newest, grace>>
    BY <1>4, <2>1 DEF ServeRefresh, UiInv, UiTypes
  <2> QED
    BY <1>1, <1>2, <1>3, <2>1, <2>2 DEF Exchanged
<1>5. CASE inflight' = [inflight EXCEPT ![t] = "refused"]
  <2>1. inflight'[t] = "refused"
    BY <1>5 DEF UiInv, UiTypes
  <2>2. /\ IF r.n = 0 THEN UNCHANGED <<session, grace>> ELSE EndSession(r.s)
        /\ UNCHANGED <<newest, req>>
    BY <1>5, <2>1 DEF ServeRefresh, UiInv, UiTypes
  <2> QED
    BY <1>1, <1>3, <2>1, <2>2
<1> QED
  BY <1>4, <1>5 DEF ServeRefresh

LEMMA UiInitInv == UiInit => UiInv
<1> SUFFICES ASSUME UiInit PROVE UiInv
  OBVIOUS
<1> USE DEF UiInit
<1>1. 1 \in Sessions /\ [s |-> 1, n |-> 1] \in Tokens /\ [s |-> 1, n |-> 1] # NoToken
  BY BoundsAssumption, SMT DEF Sessions, Tokens, NoToken
<1>2. UiTypes
  <2>1. newest \in [Sessions -> 0 .. MaxTokens] /\ faults \in 0 .. MaxFaults
    BY BoundsAssumption, SMT
  <2>2. locks \in BOOLEAN /\ rejected \in BOOLEAN
    OBVIOUS
  <2>3. /\ session \in [Sessions -> {"new", "live", "over"}]
        /\ grace \subseteq Tokens /\ stored \in Tokens \cup {NoToken}
    BY <1>1
  <2>4. /\ access \in [Tabs -> AccessTokens] /\ bearer \in [Tabs -> AccessTokens]
        /\ inflight \in [Tabs -> Flights] /\ req \in [Tabs -> Tokens \cup {NoToken}]
        /\ call \in [Tabs -> {"none", "token", "sent", "token2", "sent2"}]
        /\ since \in [Tabs -> Sessions \cup {0}]
    BY DEF AccessTokens, Flights
  <2>5. leaving \in [Tabs -> 0 .. Unrecorded]
    BY BoundsAssumption, SMT DEF Unrecorded
  <2> QED
    BY <2>1, <2>2, <2>3, <2>4, <2>5 DEF UiTypes
<1>3. LockInv
  BY SMT DEF LockInv, Once, In, Underway
<1>4. TokenInv
  <2>1. session[1] # "new"
    BY <1>1
  <2> QED
    BY <1>1, <2>1 DEF TokenInv, Issued, Underway
<1>5. CallInv
  BY DEF CallInv
<1> QED
  BY <1>2, <1>3, <1>4, <1>5 DEF UiInv

\* What happens to the calls of a tab when its refresh ends.
LEMMA Resumed ==
  ASSUME UiTypes, NEW t \in Tabs, NEW a \in AccessTokens, NEW threw \in BOOLEAN,
         EndRefresh(t, a, threw)
  PROVE  /\ call' \in [Tabs -> {"none", "token", "sent", "token2", "sent2"}]
         /\ bearer' \in [Tabs -> AccessTokens]
         /\ since' \in [Tabs -> Sessions \cup {0}]
         /\ req' = [req EXCEPT ![t] = NoToken]
         /\ inflight' = [inflight EXCEPT ![t] = "none"]
         /\ call'[t] # "token2"
         /\ CallInv => (call'[t] # "none" <=> since'[t] # 0)
         /\ \A u \in Tabs : u # t => call'[u] = call[u] /\ since'[u] = since[u]
<1> USE DEF UiTypes, EndRefresh, Resume, EndCall, calling, CallInv
<1>1. CASE call[t] \in {"token", "token2"} /\ threw
  <2>1. /\ call' = [call EXCEPT ![t] = "none"]
        /\ bearer' = [bearer EXCEPT ![t] = "none"]
        /\ since' = [since EXCEPT ![t] = 0]
        /\ req' = [req EXCEPT ![t] = NoToken]
        /\ inflight' = [inflight EXCEPT ![t] = "none"]
    BY <1>1
  <2>2. "none" \in AccessTokens
    BY DEF AccessTokens
  <2> QED
    BY <2>1, <2>2
<1>2. CASE call[t] \in {"token", "token2"} /\ ~threw
  BY <1>2
<1>3. CASE call[t] \notin {"token", "token2"}
  BY <1>3
<1> QED
  BY <1>1, <1>2, <1>3

\* The steps, by kind: each keeps the types, the tokens and the requests as UiInv says.
LEMMA RunStep ==
  ASSUME UiInv, NEW t \in Tabs, RunRefresh(t)
  PROVE  UiTypes' /\ TokenInv' /\ CallInv'
<1>1. /\ Holds(t) /\ access[t] \in AccessTokens /\ "none" \in AccessTokens
      /\ UNCHANGED <<session, newest, grace, locks, stored, access, leaving, faults, rejected>>
  BY DEF RunRefresh, UiInv, UiTypes, AccessTokens, server
<1>2. inflight' \in [Tabs -> Flights]
  BY LockStep DEF UiInv, UiTypes, UiNext, Progress
<1>3. CASE \E a \in AccessTokens : EndRefresh(t, a, FALSE)
  <2>1. PICK a \in AccessTokens : EndRefresh(t, a, FALSE)
    BY <1>3
  <2>2. /\ call' \in [Tabs -> {"none", "token", "sent", "token2", "sent2"}]
        /\ bearer' \in [Tabs -> AccessTokens]
        /\ since' \in [Tabs -> Sessions \cup {0}]
        /\ req' = [req EXCEPT ![t] = NoToken]
        /\ inflight' = [inflight EXCEPT ![t] = "none"]
        /\ call'[t] # "token2"
        /\ call'[t] # "none" <=> since'[t] # 0
        /\ \A u \in Tabs : u # t => call'[u] = call[u] /\ since'[u] = since[u]
    BY <2>1, Resumed DEF UiInv
  <2>3. UiTypes'
    BY <1>1, <1>2, <2>2 DEF UiTypes, UiInv
  <2>4. TokenInv'
    BY <1>1, <2>2 DEF TokenInv, Issued, Underway, UiTypes, UiInv
  <2>5. CallInv'
    BY <1>1, <2>2 DEF CallInv, UiInv
  <2> QED
    BY <2>3, <2>4, <2>5
<1>4. CASE /\ hasSession
           /\ inflight' = [inflight EXCEPT ![t] = "posted"]
           /\ req' = [req EXCEPT ![t] = stored]
           /\ UNCHANGED <<queue, calling>>
  BY <1>1, <1>2, <1>4
  DEF calling, hasSession, UiInv, UiTypes, TokenInv, CallInv, Issued, Underway
<1> QED
  BY <1>1, <1>3, <1>4 DEF RunRefresh

LEMMA ServeStep ==
  ASSUME UiInv, NEW t \in Tabs, ServeRefresh(t)
  PROVE  UiTypes' /\ TokenInv' /\ CallInv'
<1> DEFINE r == req[t]
<1>1. /\ UNCHANGED <<locks, stored, access, call, bearer, since, leaving, faults, rejected>>
      /\ inflight[t] = "posted"
  BY DEF ServeRefresh, calling
<1>2. inflight' \in [Tabs -> Flights]
  BY LockStep DEF UiInv, UiTypes, UiNext, Progress
<1>3. CallInv'
  BY <1>1 DEF CallInv, UiInv
<1>4. /\ r \in Tokens /\ r.s \in Sessions /\ session[r.s] # "new"
      /\ inflight' = [inflight EXCEPT ![t] = inflight'[t]]
  BY Served
<1>5. r.n \in Nat /\ newest[r.s] \in 0 .. MaxTokens
  BY <1>4, TokenFields DEF UiInv, UiTypes
<1>6. CASE inflight'[t] = "answered"
  <2>1. r.n < MaxTokens /\ UNCHANGED session
    BY <1>6, Served
  <2>2. PICK next \in Tokens :
          next.s = r.s /\ next # NoToken /\ req' = [req EXCEPT ![t] = next]
    <3>1. req' = [req EXCEPT ![t] = [r EXCEPT !.n = @ + 1]]
            \/ req' = [req EXCEPT ![t] = Announced(r)]
      BY <1>6, Served
    <3> QED
      BY <1>4, <2>1, <3>1, NextToken, AnnouncedToken
  <2>3. \/ /\ newest[r.s] = r.n /\ newest' = [newest EXCEPT ![r.s] = r.n + 1]
           /\ grace' = grace \cup {r}
        \/ UNCHANGED <<newest, grace>>
    BY <1>6, Served
  <2>4. newest' \in [Sessions -> 0 .. MaxTokens] /\ grace' \subseteq Tokens
    <3>1. r.n + 1 \in 0 .. MaxTokens
      BY <1>5, <2>1, BoundsAssumption, SMT
    <3> QED
      BY <1>4, <2>3, <3>1 DEF UiInv, UiTypes
  <2>5. UiTypes'
    BY <1>1, <1>2, <2>1, <2>2, <2>4 DEF UiTypes, UiInv
  <2>6. \A x \in grace' : session'[x.s] # "new" /\ x.n <= newest'[x.s] /\ x.n < MaxTokens
    <3> SUFFICES ASSUME NEW x \in grace'
                 PROVE  session'[x.s] # "new" /\ x.n <= newest'[x.s] /\ x.n < MaxTokens
      OBVIOUS
    <3>1. x.s \in Sessions /\ x.n \in Nat /\ newest[x.s] \in Nat
      <4>1. x \in Tokens
        BY <2>4
      <4> QED
        BY <4>1, TokenFields, BoundsAssumption, SMT DEF UiInv, UiTypes
    <3>2. x \in grace => session[x.s] # "new" /\ x.n <= newest[x.s] /\ x.n < MaxTokens
      BY DEF UiInv, TokenInv
    <3>3. CASE UNCHANGED <<newest, grace>>
      BY <2>1, <3>2, <3>3
    <3>4. CASE /\ newest[r.s] = r.n /\ newest' = [newest EXCEPT ![r.s] = r.n + 1]
               /\ grace' = grace \cup {r}
      <4>1. newest'[x.s] = IF x.s = r.s THEN r.n + 1 ELSE newest[x.s]
        BY <3>1, <3>4 DEF UiInv, UiTypes
      <4>2. CASE x \in grace
        BY <1>5, <2>1, <3>1, <3>2, <3>4, <4>1, <4>2, SMT
      <4>3. CASE x = r
        BY <1>4, <1>5, <2>1, <4>1, <4>3, SMT
      <4> QED
        BY <3>4, <4>2, <4>3
    <3> QED
      BY <2>3, <3>3, <3>4
  <2>7. TokenInv'
    BY <1>1, <1>4, <1>6, <2>1, <2>2, <2>6 DEF TokenInv, Issued, Underway, UiInv, UiTypes
  <2> QED
    BY <1>3, <2>5, <2>7
<1>7. CASE inflight'[t] = "refused"
  <2>1. UNCHANGED <<newest, req>> /\ ((r.n = 0 /\ UNCHANGED <<session, grace>>) \/ EndSession(r.s))
    BY <1>7, Served
  <2>2. /\ session' \in [Sessions -> {"new", "live", "over"}] /\ grace' \subseteq grace
        /\ \A x \in Sessions : /\ session[x] # "new" => session'[x] # "new"
                               /\ session[x] # "live" => session'[x] # "live"
        /\ session'[r.s] # "live" \/ r.n = 0
    <3>1. CASE UNCHANGED <<session, grace>> /\ r.n = 0
      BY <3>1 DEF UiInv, UiTypes
    <3>2. CASE EndSession(r.s)
      BY <1>4, <3>2, SessionEnds DEF UiInv
    <3> QED
      BY <2>1, <3>1, <3>2
  <2>3. \A x \in Tokens : x.s \in Sessions
    BY TokenFields
  <2>4. UiTypes'
    BY <1>1, <1>2, <2>1, <2>2 DEF UiTypes, UiInv
  <2>10. UNCHANGED <<newest, req, stored>>
    BY <1>1, <2>1
  <2>11. /\ \A x \in Tokens \cup {NoToken} : Issued(x) => (x # NoToken => session'[x.s] # "new")
         /\ \A x \in grace' : session'[x.s] # "new" /\ x.n <= newest'[x.s] /\ x.n < MaxTokens
    <3>1. UNCHANGED newest /\ grace' \subseteq grace
      BY <2>2, <2>10
    <3>2. \A y \in Sessions : session[y] # "new" => session'[y] # "new"
      BY <2>2
    <3> QED
      BY <3>1, <3>2, StillIssued DEF UiInv
  <2>5. Issued(stored)' /\ \A u \in Tabs : Issued(req[u])'
    <3>1. Issued(stored) /\ stored \in Tokens \cup {NoToken}
          /\ \A u \in Tabs : Issued(req[u]) /\ req[u] \in Tokens \cup {NoToken}
      BY DEF UiInv, TokenInv, UiTypes
    <3> QED
      BY <2>10, <2>11, <3>1 DEF Issued
  <2>6. \A u \in Tabs : Underway(u)' <=> req'[u] # NoToken
    BY <1>1, <1>4, <1>7, <2>1 DEF TokenInv, Underway, UiInv, UiTypes
  <2>7. \A x \in grace' : session'[x.s] # "new" /\ x.n <= newest'[x.s] /\ x.n < MaxTokens
    BY <2>11
  <2>8. ASSUME NEW u \in Tabs, inflight'[u] = "refused"
        PROVE  session'[req'[u].s] # "live" \/ req'[u].n = 0
    <3>1. CASE u = t
      BY <2>1, <2>2, <3>1
    <3>2. CASE u # t
      <4>1. inflight[u] = "refused"
        BY <1>4, <2>8, <3>2 DEF UiInv, UiTypes
      <4>2. req[u] \in Tokens /\ (session[req[u].s] # "live" \/ req[u].n = 0)
        BY <4>1 DEF UiInv, TokenInv, UiTypes, Underway
      <4> QED
        BY <2>1, <2>2, <2>3, <4>2
    <3> QED
      BY <3>1, <3>2
  <2>9. TokenInv'
    BY <2>5, <2>6, <2>7, <2>8 DEF TokenInv
  <2> QED
    BY <1>3, <2>4, <2>9
<1> QED
  BY <1>6, <1>7, Served

LEMMA FinishStep ==
  ASSUME UiInv, NEW t \in Tabs, FinishRefresh(t)
  PROVE  UiTypes' /\ TokenInv' /\ CallInv'
<1>1. UNCHANGED <<session, newest, grace, locks, leaving, faults, rejected>>
  BY DEF FinishRefresh, server
<1>2. inflight' \in [Tabs -> Flights]
  BY LockStep DEF UiInv, UiTypes, UiNext, Progress
<1>3. "none" \in AccessTokens /\ "good" \in AccessTokens /\ "outdated" \in AccessTokens
  BY DEF AccessTokens
<1>4. Underway(t)
  BY DEF FinishRefresh, Underway
<1>5. req[t] \in Tokens /\ Issued(req[t])
  BY <1>4 DEF UiInv, UiTypes, TokenInv
<1>6. /\ access' \in [Tabs -> AccessTokens]
      /\ stored' \in Tokens \cup {NoToken} /\ Issued(stored')
      /\ \A u \in Tabs : u # t => access'[u] = access[u]
  BY <1>3, <1>5 DEF FinishRefresh, UiInv, UiTypes, TokenInv, Issued
<1>7. \E a \in AccessTokens, threw \in BOOLEAN : EndRefresh(t, a, threw)
  BY <1>3 DEF FinishRefresh
<1>8. /\ call' \in [Tabs -> {"none", "token", "sent", "token2", "sent2"}]
      /\ bearer' \in [Tabs -> AccessTokens]
      /\ since' \in [Tabs -> Sessions \cup {0}]
      /\ req' = [req EXCEPT ![t] = NoToken]
      /\ inflight' = [inflight EXCEPT ![t] = "none"]
      /\ call'[t] # "token2"
      /\ call'[t] # "none" <=> since'[t] # 0
      /\ \A u \in Tabs : u # t => call'[u] = call[u] /\ since'[u] = since[u]
  BY <1>7, Resumed DEF UiInv
<1>9. UiTypes'
  BY <1>1, <1>2, <1>6, <1>8 DEF UiTypes, UiInv
<1>10. TokenInv'
  BY <1>1, <1>6, <1>8 DEF TokenInv, Issued, Underway, UiTypes, UiInv
<1>11. CallInv'
  BY <1>6, <1>8 DEF CallInv, UiInv
<1> QED
  BY <1>9, <1>10, <1>11

LEMMA RequestSteps ==
  ASSUME UiInv, NEW t \in Tabs,
         (t \in Viewers /\ BeginCall(t)) \/ WarmToken(t) \/ CallAnswered(t) \/ RetryCall(t)
           \/ GiveUp(t) \/ AccessAges(t) \/ LoseRefresh(t) \/ HalfRefresh(t)
  PROVE  UiTypes' /\ TokenInv' /\ CallInv'
<1>1. inflight' \in [Tabs -> Flights]
  BY LockStep DEF UiInv, UiTypes, UiNext, Progress
<1> USE DEF UiInv, UiTypes, TokenInv, CallInv, Issued, Underway, server, refreshing, calling,
            hasSession, AccessTokens
<1>2. CASE BeginCall(t)
  <2>1. stored.s \in Sessions /\ stored.s # 0
    BY <1>2, TokenFields, NoTokenIsNone DEF BeginCall
  <2>2. since' \in [Tabs -> Sessions \cup {0}] /\ since'[t] # 0
    BY <1>2, <2>1 DEF BeginCall
  <2>3. call[t] = "none" /\ call'[t] \in {"token", "sent"}
        /\ call' = [call EXCEPT ![t] = call'[t]]
    BY <1>2 DEF BeginCall, AwaitToken
  <2>4. bearer' \in [Tabs -> AccessTokens]
    BY <1>2 DEF BeginCall, AwaitToken
  <2>5. \A u \in Tabs : Underway(u)' <=> Underway(u)
    BY <1>2 DEF BeginCall, AwaitToken, StartRefresh
  <2>6. /\ UNCHANGED <<session, newest, grace, locks, stored, access, req, leaving, faults, rejected>>
        /\ since' = [since EXCEPT ![t] = stored.s]
        /\ \A u \in Tabs : inflight'[u] = "refused" => inflight[u] = "refused"
    BY <1>2 DEF BeginCall, AwaitToken, StartRefresh
  <2>7. UiTypes'
    BY <1>1, <2>2, <2>3, <2>4, <2>6
  <2>8. TokenInv'
    BY <2>5, <2>6
  <2>9. CallInv'
    BY <2>2, <2>3, <2>6
  <2> QED
    BY <2>7, <2>8, <2>9
<1>3. CASE WarmToken(t)
  BY <1>1, <1>3 DEF WarmToken, StartRefresh
<1>4. CASE CallAnswered(t)
  BY <1>1, <1>4, UiFaultBound DEF CallAnswered, EndCall
<1>5. CASE RetryCall(t)
  BY <1>1, <1>5 DEF RetryCall, TryAgain, StartRefresh
<1>6. CASE GiveUp(t)
  BY <1>1, <1>6 DEF GiveUp, EndCall
<1>7. CASE AccessAges(t)
  BY <1>1, <1>7 DEF AccessAges
<1>8. CASE LoseRefresh(t)
  BY <1>1, <1>8, UiFaultBound DEF LoseRefresh
<1>9. CASE HalfRefresh(t)
  <2>1. /\ UNCHANGED <<session, newest, locks, stored, access, req, call, bearer, since, leaving,
                       rejected>>
        /\ inflight[t] = "posted" /\ inflight' = [inflight EXCEPT ![t] = "failed"]
        /\ grace' = grace \cup {req[t]} /\ Exchanged(req[t])
    BY <1>9 DEF HalfRefresh
  <2>2. req[t] \in Tokens /\ newest[req[t].s] \in Nat
    <3>1. req[t] \in Tokens
      BY <2>1
    <3> QED
      BY <3>1, TokenFields, BoundsAssumption, SMT
  <2>3. faults' \in 0 .. MaxFaults
    BY <1>9, UiFaultBound DEF HalfRefresh
  <2>4. session[req[t].s] # "new" /\ req[t].n <= newest[req[t].s] /\ req[t].n < MaxTokens
    BY <2>1, <2>2, SMT DEF Exchanged
  <2>5. UiTypes'
    BY <1>1, <2>1, <2>2, <2>3
  <2>6. TokenInv'
    BY <2>1, <2>4
  <2>7. CallInv'
    BY <2>1
  <2> QED
    BY <2>5, <2>6, <2>7
<1> QED
  BY <1>2, <1>3, <1>4, <1>5, <1>6, <1>7, <1>8, <1>9

LEMMA SignInOutSteps ==
  ASSUME UiInv, NEW t \in Tabs, Logout(t) \/ LogoutDone(t) \/ Reload(t) \/ CompleteLogin(t)
  PROVE  UiTypes' /\ TokenInv' /\ CallInv'
<1>1. inflight' \in [Tabs -> Flights]
  BY LockStep DEF UiInv, UiTypes, UiNext, Progress
<1> USE DEF UiInv, UiTypes, TokenInv, CallInv, Issued, Underway, server, refreshing, calling,
            hasSession, AccessTokens
<1>2. CASE Logout(t)
  <2>1. stored.s \in 0 .. Unrecorded /\ Unrecorded \in 0 .. Unrecorded
    BY <1>2, TokenFields, BoundsAssumption, SMT DEF Logout, Sessions, Unrecorded
  <2> QED
    BY <1>1, <1>2, <2>1 DEF Logout
<1>3. \A x \in Tokens : x.s \in Sessions
  BY TokenFields
<1>4. CASE LogoutDone(t)
  <2>2. /\ session' \in [Sessions -> {"new", "live", "over"}] /\ grace' \subseteq grace
        /\ \A s \in Sessions : /\ session[s] # "new" => session'[s] # "new"
                               /\ session[s] # "live" => session'[s] # "live"
    BY <1>4, SignedOut
  <2>3. faults' \in 0 .. MaxFaults
    BY <1>4, UiFaultBound DEF LogoutDone
  <2>4. /\ UNCHANGED <<newest, locks, stored, rejected>> /\ NewPage(t)
        /\ leaving' \in [Tabs -> 0 .. Unrecorded]
    <3>1. 0 \in 0 .. Unrecorded
      BY BoundsAssumption, SMT DEF Unrecorded
    <3> QED
      BY <1>4, <3>1 DEF LogoutDone
  <2>5. UiTypes'
    BY <1>1, <2>2, <2>3, <2>4 DEF NewPage, EndCall
  <2>6. TokenInv'
    BY <1>3, <2>2, <2>4 DEF NewPage
  <2>7. CallInv'
    BY <2>4 DEF NewPage, EndCall
  <2> QED
    BY <2>5, <2>6, <2>7
<1>5. CASE Reload(t)
  <2>1. faults' \in 0 .. MaxFaults
    BY <1>5, UiFaultBound DEF Reload
  <2> QED
    BY <1>1, <1>5, <2>1 DEF Reload, NewPage, EndCall
<1>6. CASE CompleteLogin(t)
  <2>1. PICK s \in Sessions :
          /\ session[s] = "new"
          /\ session' = [session EXCEPT ![s] = "live"] /\ newest' = [newest EXCEPT ![s] = 1]
          /\ stored' = [s |-> s, n |-> 1]
    BY <1>6 DEF CompleteLogin
  <2>2. 1 \in 0 .. MaxTokens /\ stored' \in Tokens /\ stored'.s = s
    BY <2>1, BoundsAssumption, SMT DEF Tokens
  <2>3. \A x \in Sessions : x # s => session'[x] = session[x] /\ newest'[x] = newest[x]
    BY <2>1
  <2>4. session' \in [Sessions -> {"new", "live", "over"}] /\ session'[s] = "live"
        /\ newest' \in [Sessions -> 0 .. MaxTokens]
    BY <2>1, <2>2
  <2>5. /\ UNCHANGED <<grace, locks, queue, inflight, req, call, bearer, since, leaving, faults,
                       rejected>>
        /\ call[t] = "none" /\ access' = [access EXCEPT ![t] = "good"]
    BY <1>6 DEF CompleteLogin
  <2>6. UiTypes'
    BY <1>1, <2>2, <2>4, <2>5
  <2>7. Issued(stored)' /\ \A u \in Tabs : Issued(req[u])' /\ (Underway(u)' <=> req'[u] # NoToken)
    BY <1>3, <2>1, <2>2, <2>3, <2>4, <2>5
  <2>8. \A r \in grace' : session'[r.s] # "new" /\ r.n <= newest'[r.s] /\ r.n < MaxTokens
    BY <1>3, <2>1, <2>3, <2>5
  <2>9. ASSUME NEW u \in Tabs, inflight'[u] = "refused"
        PROVE  session'[req'[u].s] # "live" \/ req'[u].n = 0
    <3>1. /\ req[u] \in Tokens /\ session[req[u].s] # "new"
          /\ session[req[u].s] # "live" \/ req[u].n = 0
      BY <2>5, <2>9
    <3> QED
      BY <1>3, <2>1, <2>3, <2>5, <3>1
  <2>10. CallInv'
    BY <2>5
  <2> QED
    BY <2>6, <2>7, <2>8, <2>9, <2>10
<1> QED
  BY <1>2, <1>4, <1>5, <1>6

LEMMA ServerSideSteps ==
  ASSUME UiInv,
         \/ SecretChanges \/ UNCHANGED uiVars
         \/ \E r \in Tokens : GraceEnds(r)
         \/ \E s \in Sessions : SessionExpires(s)
  PROVE  UiTypes' /\ TokenInv' /\ CallInv'
<1>5. ASSUME NEW s \in Sessions, SessionExpires(s) PROVE UiTypes' /\ TokenInv' /\ CallInv'
  <2>1. UNCHANGED <<newest, locks, queue, stored, access, inflight, req, call, bearer, since,
                    leaving, faults, rejected>>
    BY <1>5 DEF SessionExpires, refreshing, calling
  <2>2. /\ session' \in [Sessions -> {"new", "live", "over"}] /\ grace' \subseteq grace
        /\ \A y \in Sessions : session[y] # "new" => session'[y] # "new"
        /\ \A y \in Sessions : session[y] # "live" => session'[y] # "live"
    BY <1>5, SessionEnds DEF SessionExpires, UiInv
  <2>3. UiTypes'
    BY <2>1, <2>2 DEF UiInv, UiTypes
  <2>4. /\ \A x \in Tokens \cup {NoToken} : Issued(x) => (x # NoToken => session'[x.s] # "new")
        /\ \A x \in grace' : session'[x.s] # "new" /\ x.n <= newest'[x.s] /\ x.n < MaxTokens
    BY <2>1, <2>2, StillIssued DEF UiInv
  <2>5. Issued(stored) /\ stored \in Tokens \cup {NoToken}
        /\ \A u \in Tabs : Issued(req[u]) /\ req[u] \in Tokens \cup {NoToken}
    BY DEF UiInv, TokenInv, UiTypes
  <2>6. Issued(stored)' /\ \A u \in Tabs : Issued(req[u])'
    BY <2>1, <2>4, <2>5 DEF Issued
  <2>7. \A u \in Tabs : inflight'[u] = "refused" => session'[req'[u].s] # "live" \/ req'[u].n = 0
    <3> SUFFICES ASSUME NEW u \in Tabs, inflight[u] = "refused"
                 PROVE  session'[req[u].s] # "live" \/ req[u].n = 0
      BY <2>1
    <3>1. session[req[u].s] # "live" \/ req[u].n = 0
      BY <2>5 DEF UiInv, TokenInv, Underway
    <3>2. req[u] \in Tokens
      BY <2>5 DEF UiInv, TokenInv, Underway
    <3> QED
      BY <2>2, <3>1, <3>2, TokenFields
  <2>8. TokenInv'
    BY <2>1, <2>4, <2>6, <2>7 DEF UiInv, TokenInv, Underway
  <2>9. CallInv'
    BY <2>1 DEF UiInv, CallInv
  <2> QED
    BY <2>3, <2>8, <2>9
<1> USE DEF UiInv, UiTypes, TokenInv, CallInv, Issued, Underway, server, refreshing, calling,
            AccessTokens, Flights
<1>1. CASE SecretChanges
  <2>1. faults' \in 0 .. MaxFaults
    BY <1>1, UiFaultBound DEF SecretChanges
  <2> QED
    BY <1>1, <2>1 DEF SecretChanges
<1>2. CASE \E r \in Tokens : GraceEnds(r)
  BY <1>2 DEF GraceEnds
<1>4. CASE UNCHANGED uiVars
  BY <1>4 DEF uiVars
<1> QED
  BY <1>1, <1>2, <1>4, <1>5

LEMMA UiStep == UiInv /\ [UiNext]_uiVars => UiInv'
<1>1. UiInv /\ [UiNext]_uiVars => LockInv'
  BY LockStep DEF UiInv, UiTypes
<1>2. UiInv /\ [UiNext]_uiVars => UiTypes' /\ TokenInv' /\ CallInv'
  BY RunStep, ServeStep, FinishStep, RequestSteps, SignInOutSteps, ServerSideSteps
  DEF UiNext, Progress
<1> QED
  BY <1>1, <1>2 DEF UiInv

LEMMA UiInductive == UiSpec => []UiInv
BY UiInitInv, UiStep, PTL DEF UiSpec

\* The tokens and requests of the tabs and the server's sessions keep their types; with Web
\* Locks only the tab at the head of the queue has a refresh under way, whatever the others
\* begin, lose or reload meanwhile.
THEOREM UiTypesHold == UiSpec => []UiTypeOK
<1>1. UiInv => UiTypeOK
  BY DEF UiInv, UiTypes, LockInv, Once, UiTypeOK, Flights
<1> QED
  BY UiInductive, <1>1, PTL

-----------------------------------------------------------------------------
(* The web UI: its refresh token is dropped only for a reason. *)

\* The stored token goes only by a sign-out, or when its session is over, or by a refusal of
\* a token of another session or of one the server announced and failed to record.  Lost
\* requests and answers, 503s that stored nothing, reloads, repeated refreshes and changes of
\* the secret do not sign out, whatever the tabs do at the same time (refreshNow).
THEOREM DroppedForAReason == UiSpec => DroppedWhenOver
<1>1. ASSUME UiInv, UiNext, hasSession, stored' = NoToken
      PROVE  \/ session[stored.s] # "live"
             \/ leaving' # leaving
             \/ \E t \in Tabs :
                  inflight[t] = "refused" /\ (req[t].s # stored.s \/ req[t].n = 0)
  <2> USE <1>1 DEF hasSession
  <2>1. stored \in Tokens /\ stored.s \in Sessions
    BY TokenFields DEF UiInv, UiTypes
  <2>2. ASSUME NEW t \in Tabs, FinishRefresh(t) PROVE inflight[t] = "refused"
    <3>1. inflight[t] \in {"answered", "outdated"} => req[t] \in Tokens /\ req[t] # NoToken
      BY DEF UiInv, UiTypes, TokenInv, Underway
    <3> QED
      BY <2>2, <3>1 DEF FinishRefresh
  <2>3. ASSUME NEW t \in Tabs, inflight[t] = "refused", req[t].s = stored.s, req[t].n # 0
        PROVE  session[stored.s] # "live"
    BY <2>3 DEF UiInv, TokenInv
  <2>4. ASSUME NEW t \in Tabs, Logout(t) PROVE leaving' # leaving
    <3>1. /\ leaving[t] = 0
          /\ leaving' = [leaving EXCEPT ![t] = IF stored.n = 0 THEN Unrecorded ELSE stored.s]
      BY <2>4 DEF Logout
    <3>2. Unrecorded # 0
      BY BoundsAssumption, SMT DEF Unrecorded
    <3> QED
      BY <2>1, <3>1, <3>2, NoTokenIsNone DEF UiInv, UiTypes
  <2>5. ASSUME NEW t \in Tabs, CompleteLogin(t) PROVE FALSE
    <3>1. PICK s \in Sessions : stored' = [s |-> s, n |-> 1]
      BY <2>5 DEF CompleteLogin
    <3>2. [s |-> s, n |-> 1] \in Tokens
      BY BoundsAssumption, SMT DEF Tokens
    <3> QED
      BY <3>1, <3>2, NoTokenIsNone
  <2>6. ASSUME NEW t \in Tabs,
               RunRefresh(t) \/ ServeRefresh(t) \/ LoseRefresh(t) \/ BeginCall(t) \/ WarmToken(t)
                 \/ CallAnswered(t) \/ RetryCall(t) \/ GiveUp(t) \/ LogoutDone(t) \/ Reload(t)
                 \/ AccessAges(t) \/ HalfRefresh(t)
        PROVE  UNCHANGED stored
    BY <2>6 DEF RunRefresh, ServeRefresh, LoseRefresh, BeginCall, WarmToken, CallAnswered,
                RetryCall, GiveUp, LogoutDone, Reload, AccessAges, HalfRefresh
  <2>7. (SecretChanges \/ (\E r \in Tokens : GraceEnds(r))
           \/ (\E s \in Sessions : SessionExpires(s))) => UNCHANGED stored
    BY DEF SecretChanges, GraceEnds, SessionExpires
  <2> QED
    BY <2>2, <2>3, <2>4, <2>5, <2>6, <2>7 DEF UiNext, Progress
<1>2. UiInv /\ [UiNext]_uiVars =>
        [hasSession /\ stored' = NoToken =>
           \/ session[stored.s] # "live"
           \/ leaving' # leaving
           \/ \E t \in Tabs :
                inflight[t] = "refused" /\ (req[t].s # stored.s \/ req[t].n = 0)]_uiVars
  BY <1>1
<1> QED
  BY UiInductive, <1>2, PTL DEF UiSpec, DroppedWhenOver

-----------------------------------------------------------------------------
(* The web UI: the second attempt of a request. *)

\* A request that was refused once goes out again only with a token the server accepts: it
\* never gets back the access token that was refused (invalidateAccessToken, then one single
\* flight).  Not so if the browser no longer has the session it began in, or if the request
\* joins a refresh that was answered before the server changed its secret.
THEOREM RetriesAreAccepted == UiSpec => RetryIsAccepted
<1>1. ASSUME UiInv, UiNext, NEW t \in Tabs, call[t] # "sent2", call'[t] = "sent2",
             inflight[t] # "outdated"
      PROVE  bearer'[t] = "good" \/ stored'.s # since[t]
  <2> USE <1>1
  <2>1. call[t] = "token2" => access[t] = "none" /\ since[t] # 0
    BY DEF UiInv, CallInv
  <2>2. ASSUME NEW u \in Tabs, NEW a \in AccessTokens, NEW threw \in BOOLEAN,
               EndRefresh(u, a, threw)
        PROVE  u = t /\ call[t] = "token2" /\ bearer'[t] = a
    <3>1. u = t
      <4>1. u # t => call'[t] = call[t]
        BY <2>2, Resumed DEF UiInv
      <4> QED
        BY <4>1
    <3>2. call[t] \in {"token", "token2"} /\ ~threw
      BY <2>2, <3>1 DEF EndRefresh, EndCall, Resume, calling, UiInv, UiTypes
    <3> QED
      BY <2>2, <3>1, <3>2 DEF EndRefresh, Resume, UiInv, UiTypes
  <2>3. ASSUME NEW u \in Tabs, RunRefresh(u) PROVE stored'.s # since[t]
    <3>1. CASE access[u] # "none" /\ EndRefresh(u, access[u], FALSE)
      <4>1. access[u] \in AccessTokens
        BY DEF UiInv, UiTypes
      <4> QED
        BY <2>1, <2>2, <3>1, <4>1
    <3>2. CASE ~hasSession /\ EndRefresh(u, "none", FALSE)
      <4>1. stored' = NoToken
        BY <2>3, <3>2 DEF RunRefresh, hasSession
      <4>2. "none" \in AccessTokens
        BY DEF AccessTokens
      <4> QED
        BY <2>1, <2>2, <3>2, <4>1, <4>2, NoTokenIsNone
    <3>3. CASE UNCHANGED calling
      BY <3>3 DEF calling
    <3> QED
      BY <2>3, <3>1, <3>2, <3>3 DEF RunRefresh
  <2>4. ASSUME NEW u \in Tabs, FinishRefresh(u)
        PROVE  bearer'[t] = "good" \/ stored'.s # since[t]
    <3> USE DEF AccessTokens
    <3>1. CASE /\ inflight[u] = "answered" /\ EndRefresh(u, "good", FALSE)
      BY <2>2, <3>1
    <3>2. CASE /\ inflight[u] = "outdated" /\ EndRefresh(u, "outdated", FALSE)
      BY <2>2, <3>2
    <3>3. CASE /\ stored' = NoToken /\ EndRefresh(u, "none", FALSE)
      BY <2>1, <2>2, <3>3, NoTokenIsNone
    <3>4. CASE EndRefresh(u, "none", TRUE)
      <4>1. u = t /\ call[t] = "token2"
        BY <2>2, <3>4
      <4> QED
        BY <3>4, <4>1 DEF EndRefresh, Resume, EndCall, UiInv, UiTypes
    <3> QED
      BY <2>4, <3>1, <3>2, <3>3, <3>4 DEF FinishRefresh
  <2>5. ASSUME NEW u \in Tabs, BeginCall(u) PROVE FALSE
    BY <2>5 DEF BeginCall, AwaitToken, UiInv, UiTypes
  <2>6. ASSUME NEW u \in Tabs, RetryCall(u) PROVE FALSE
    BY <2>6 DEF RetryCall, TryAgain, UiInv, UiTypes
  <2>7. ASSUME NEW u \in Tabs, CallAnswered(u) \/ GiveUp(u) \/ LogoutDone(u) \/ Reload(u)
        PROVE  FALSE
    BY <2>7 DEF CallAnswered, GiveUp, LogoutDone, Reload, NewPage, EndCall, UiInv, UiTypes
  <2>8. ASSUME NEW u \in Tabs,
               ServeRefresh(u) \/ LoseRefresh(u) \/ HalfRefresh(u) \/ WarmToken(u) \/ Logout(u)
                 \/ CompleteLogin(u) \/ AccessAges(u)
        PROVE  FALSE
    BY <2>8 DEF ServeRefresh, LoseRefresh, HalfRefresh, WarmToken, Logout, CompleteLogin, AccessAges, calling
  <2>9. SecretChanges \/ (\E r \in Tokens : GraceEnds(r))
          \/ (\E s \in Sessions : SessionExpires(s)) => FALSE
    BY DEF SecretChanges, GraceEnds, SessionExpires, calling
  <2> QED
    BY <2>3, <2>4, <2>5, <2>6, <2>7, <2>8, <2>9 DEF UiNext, Progress
<1>2. UiInv /\ [UiNext]_uiVars =>
        [\A t \in Tabs :
           call[t] # "sent2" /\ call'[t] = "sent2" /\ inflight[t] # "outdated" =>
             bearer'[t] = "good" \/ stored'.s # since[t]]_uiVars
  BY <1>1
<1> QED
  BY UiInductive, <1>2, PTL DEF UiSpec, RetryIsAccepted

-----------------------------------------------------------------------------
(* The web UI: which token a refresh presents. *)

Current(x) == session[x.s] = "live" => x.n = newest[x.s]

\* With Web Locks and no failed call: the tokens that are posted or just received are the
\* newest of their sessions, and so is the stored one, unless its successor has been
\* received and not saved yet.
FreshInv ==
  locks /\ faults = 0 =>
    /\ \A t \in Tabs : inflight[t] \notin {"outdated", "failed"}
    /\ \A t \in Tabs : inflight[t] \in {"posted", "answered"} => Current(req[t])
    /\ stored # NoToken =>
         \/ Current(stored)
         \/ \E t \in Tabs : inflight[t] = "answered" /\ req[t].s = stored.s

\* Failures are not undone, and Web Locks do not come and go.
LEMMA QuietBefore ==
  ASSUME UiInv, [UiNext]_uiVars, locks', faults' = 0
  PROVE  locks /\ faults = 0 /\ ~Fault
<1>1. locks
  BY FlightSteps DEF UiInv, UiTypes
<1>2. Fault => FALSE
  BY BoundsAssumption, SMT DEF Fault, UiInv, UiTypes
<1>3. ASSUME NEW t \in Tabs,
             Progress(t) \/ LoseRefresh(t) \/ HalfRefresh(t) \/ BeginCall(t) \/ WarmToken(t)
               \/ Logout(t) \/ Reload(t) \/ CompleteLogin(t) \/ AccessAges(t)
      PROVE  faults = 0
  BY <1>2, <1>3
  DEF Progress, RunRefresh, ServeRefresh, FinishRefresh, CallAnswered, RetryCall, GiveUp,
      LogoutDone, LoseRefresh, HalfRefresh, BeginCall, WarmToken, Logout, Reload, CompleteLogin, AccessAges
<1>4. SecretChanges \/ (\E r \in Tokens : GraceEnds(r))
        \/ (\E s \in Sessions : SessionExpires(s)) \/ UNCHANGED uiVars => faults = 0
  BY <1>2 DEF SecretChanges, GraceEnds, SessionExpires, uiVars
<1> QED
  BY <1>1, <1>2, <1>3, <1>4 DEF UiNext

\* As long as no call has failed, a token in its grace window has a recorded successor.
GraceInv == faults = 0 => \A r \in grace : r.n < newest[r.s]

LEMMA GraceStep ==
  ASSUME UiInv, GraceInv, [UiNext]_uiVars
  PROVE  GraceInv'
<1> SUFFICES ASSUME faults' = 0, NEW x \in grace' PROVE x.n < newest'[x.s]
  BY DEF GraceInv
<1>1. faults \in Nat /\ ~Fault
  BY BoundsAssumption, SMT DEF Fault, UiInv, UiTypes
<1>2. UiTypes /\ \A r \in grace : /\ r.s \in Sessions /\ r.n \in Nat
                                  /\ session[r.s] # "new" /\ newest[r.s] \in Nat
  BY TokenFields, BoundsAssumption, SMT DEF UiInv, UiTypes, TokenInv
<1>3. ASSUME faults = 0, x \in grace, UNCHANGED newest PROVE x.n < newest'[x.s]
  BY <1>3 DEF GraceInv
<1>4. ASSUME NEW t \in Tabs, ServeRefresh(t) PROVE x.n < newest'[x.s]
  <2> DEFINE r == req[t]
  <2>1. faults = 0 /\ r \in Tokens /\ r.s \in Sessions /\ r.n \in Nat
    BY <1>4, Served, TokenFields DEF ServeRefresh
  <2>2. CASE UNCHANGED newest /\ grace' \subseteq grace
    BY <1>3, <2>1, <2>2
  <2>3. CASE /\ newest[r.s] = r.n /\ newest' = [newest EXCEPT ![r.s] = r.n + 1]
             /\ grace' = grace \cup {r}
    <3>1. newest'[r.s] = r.n + 1
      BY <1>2, <2>1, <2>3 DEF UiTypes
    <3>2. CASE x = r
      BY <2>1, <3>1, <3>2, SMT
    <3>3. CASE x \in grace
      <4>1. x.n < newest[x.s]
        BY <2>1, <3>3 DEF GraceInv
      <4>2. CASE x.s = r.s
        BY <1>2, <2>1, <2>3, <3>1, <3>3, <4>1, <4>2, SMT
      <4>3. CASE x.s # r.s
        BY <1>2, <2>1, <2>3, <3>3, <4>1, <4>3 DEF UiTypes
      <4> QED
        BY <4>2, <4>3
    <3> QED
      BY <2>3, <3>2, <3>3
  <2> QED
    BY <1>2, <1>4, <2>2, <2>3, Served, SessionEnds
<1>5. ASSUME NEW t \in Tabs, CompleteLogin(t) PROVE x.n < newest'[x.s]
  <2>1. PICK s \in Sessions : session[s] = "new" /\ newest' = [newest EXCEPT ![s] = 1]
    BY <1>5 DEF CompleteLogin
  <2>2. x \in grace /\ faults = 0
    BY <1>5 DEF CompleteLogin
  <2>3. newest'[x.s] = newest[x.s]
    BY <1>2, <2>1, <2>2 DEF UiTypes
  <2> QED
    BY <2>2, <2>3 DEF GraceInv
<1>6. ASSUME NEW t \in Tabs, LogoutDone(t) PROVE x.n < newest'[x.s]
  <2>1. grace' \subseteq grace
    BY <1>2, <1>6, SignedOut
  <2>2. UNCHANGED newest /\ grace' \subseteq grace /\ faults = 0
    BY <1>1, <1>6, <2>1 DEF LogoutDone
  <2> QED
    BY <1>3, <2>2
<1>7. ASSUME NEW s \in Sessions, SessionExpires(s) PROVE x.n < newest'[x.s]
  BY <1>2, <1>3, <1>7, SessionEnds DEF SessionExpires
<1>8. ASSUME NEW r \in Tokens, GraceEnds(r) PROVE x.n < newest'[x.s]
  BY <1>3, <1>8 DEF GraceEnds
<1>9. ASSUME NEW t \in Tabs,
             RunRefresh(t) \/ FinishRefresh(t) \/ BeginCall(t) \/ WarmToken(t) \/ CallAnswered(t)
               \/ RetryCall(t) \/ GiveUp(t) \/ Logout(t) \/ Reload(t) \/ AccessAges(t)
      PROVE  x.n < newest'[x.s]
  <2>1. UNCHANGED <<newest, grace>> /\ faults = 0
    BY <1>1, <1>9 DEF RunRefresh, FinishRefresh, BeginCall, WarmToken, CallAnswered, RetryCall,
                      GiveUp, Logout, Reload, AccessAges, server
  <2> QED
    BY <1>3, <2>1
<1>10. ASSUME NEW t \in Tabs, LoseRefresh(t) \/ HalfRefresh(t) PROVE FALSE
  BY <1>1, <1>10 DEF LoseRefresh, HalfRefresh
<1>11. SecretChanges => FALSE
  BY <1>1 DEF SecretChanges
<1>12. CASE UNCHANGED uiVars
  BY <1>3, <1>12 DEF uiVars
<1> QED
  BY <1>4, <1>5, <1>6, <1>7, <1>8, <1>9, <1>10, <1>11, <1>12 DEF UiNext, Progress

LEMMA FreshStep ==
  ASSUME UiInv, GraceInv, FreshInv, [UiNext]_uiVars
  PROVE  FreshInv'
<1> SUFFICES ASSUME locks', faults' = 0
             PROVE  /\ \A t \in Tabs : inflight'[t] \notin {"outdated", "failed"}
                    /\ \A t \in Tabs : inflight'[t] \in {"posted", "answered"} => Current(req[t])'
                    /\ stored' # NoToken =>
                         \/ Current(stored)'
                         \/ \E t \in Tabs : inflight'[t] = "answered" /\ req'[t].s = stored'.s
  BY DEF FreshInv
<1> DEFINE Goal == /\ \A t \in Tabs : inflight'[t] \notin {"outdated", "failed"}
                   /\ \A t \in Tabs : inflight'[t] \in {"posted", "answered"} => Current(req[t])'
                   /\ stored' # NoToken =>
                        \/ Current(stored)'
                        \/ \E t \in Tabs : inflight'[t] = "answered" /\ req'[t].s = stored'.s
<1>1. locks /\ ~Fault
  BY QuietBefore
<1>2. /\ \A t \in Tabs : inflight[t] \notin {"outdated", "failed"}
      /\ \A t \in Tabs : inflight[t] \in {"posted", "answered"} => Current(req[t])
      /\ stored # NoToken =>
           \/ Current(stored)
           \/ \E t \in Tabs : inflight[t] = "answered" /\ req[t].s = stored.s
  BY QuietBefore DEF FreshInv
<1>3. UiTypes
  BY DEF UiInv
<1>4. /\ \A x \in Tokens : x.s \in Sessions /\ x.n \in Nat
      /\ \A s \in Sessions : newest[s] \in Nat
  BY <1>3, TokenFields, BoundsAssumption, SMT DEF UiTypes
<1>5. \A t \in Tabs : Underway(t) => req[t] \in Tokens /\ session[req[t].s] # "new"
  BY <1>3 DEF UiInv, UiTypes, TokenInv, Issued
\* Sessions may end, all else is as it was.
<1>6. ASSUME UNCHANGED <<stored, newest, inflight, req>>,
             session' \in [Sessions -> {"new", "live", "over"}],
             \A s \in Sessions : session'[s] = "live" => session[s] = "live"
      PROVE  Goal
  BY <1>2, <1>3, <1>4, <1>5, <1>6 DEF Current, UiTypes, Underway
\* A refresh begins.
<1>7. ASSUME NEW t \in Tabs, StartRefresh(t), UNCHANGED <<stored, newest, session>> PROVE Goal
  BY <1>2, <1>3, <1>7 DEF Current, UiTypes, StartRefresh
<1>8. ASSUME NEW t \in Tabs, RunRefresh(t) PROVE Goal
  <2>1. \A u \in Tabs : inflight[u] # "answered"
    <3>1. Holds(t) /\ ~Underway(t)
      BY <1>8 DEF RunRefresh, Holds, Underway
    <3>2. \A u \in Tabs : Underway(u) => u = t
      BY <1>1, <3>1, OneRuns DEF UiInv
    <3> QED
      BY <3>1, <3>2 DEF Underway
  <2>2. UNCHANGED <<stored, newest, session>>
    BY <1>8 DEF RunRefresh, server
  <2>3. \/ inflight' = [inflight EXCEPT ![t] = "none"] /\ req' = [req EXCEPT ![t] = NoToken]
        \/ /\ stored # NoToken
           /\ inflight' = [inflight EXCEPT ![t] = "posted"] /\ req' = [req EXCEPT ![t] = stored]
    BY <1>8 DEF RunRefresh, EndRefresh, hasSession
  <2> QED
    BY <1>2, <1>3, <2>1, <2>2, <2>3 DEF Current, UiTypes
<1>9. ASSUME NEW t \in Tabs, ServeRefresh(t) PROVE Goal
  <2> DEFINE r == req[t]
             next == [r EXCEPT !.n = @ + 1]
  <2>1. \A u \in Tabs : Underway(u) => u = t
    <3>1. Underway(t)
      BY <1>9 DEF ServeRefresh, Underway
    <3> QED
      BY <1>1, <3>1, OneRuns DEF UiInv
  <2>2. /\ inflight[t] = "posted" /\ r \in Tokens /\ r.s \in Sessions
        /\ inflight' = [inflight EXCEPT ![t] = inflight'[t]]
        /\ UNCHANGED stored
    BY <1>9, Served DEF ServeRefresh
  <2>3. \A u \in Tabs : u # t => inflight'[u] \in {"none", "waiting"}
    BY <1>3, <2>1, <2>2 DEF Underway, UiTypes
  <2>4. Current(r)
    BY <1>2, <2>2
  <2>5. CASE inflight'[t] = "answered"
    <3>5. r \notin grace
      <4>1. r \in grace => r.n < newest[r.s]
        BY QuietBefore DEF GraceInv
      <4>2. session[r.s] = "live"
        BY <1>9, <2>5, Served
      <4> QED
        BY <1>4, <2>2, <2>4, <4>1, <4>2, SMT DEF Current
    <3>1. /\ r.n < MaxTokens /\ req' = [req EXCEPT ![t] = next] /\ UNCHANGED session
          /\ newest' = [newest EXCEPT ![r.s] = r.n + 1]
      BY <1>9, <2>5, <3>5, Served
    <3>2. next \in Tokens /\ next.s = r.s /\ next.n = r.n + 1 /\ next # NoToken
      BY <2>2, <3>1, NextToken
    <3> HIDE DEF next
    <3>3. req'[t] = next
      BY <1>3, <3>1 DEF UiTypes
    <3>4. /\ newest'[r.s] = r.n + 1
          /\ \A s \in Sessions : s # r.s => newest'[s] = newest[s]
      BY <1>3, <2>2, <3>1 DEF UiTypes
    <3>6. Current(req[t])'
      BY <3>2, <3>3, <3>4 DEF Current
    <3>7. stored' # NoToken => Current(stored)' \/ req'[t].s = stored'.s
      <4> SUFFICES ASSUME stored # NoToken, stored.s # r.s PROVE Current(stored)'
        BY <2>2, <3>2, <3>3
      <4>1. \A u \in Tabs : inflight[u] # "answered"
        BY <2>1, <2>2 DEF Underway
      <4>2. Current(stored) /\ stored.s \in Sessions
        BY <1>2, <1>3, <1>4, <4>1 DEF UiTypes
      <4> QED
        BY <2>2, <3>1, <3>4, <4>2 DEF Current
    <3> QED
      BY <2>3, <2>5, <3>6, <3>7
  <2>6. CASE inflight'[t] = "refused"
    <3>1. UNCHANGED newest
      BY <1>9, <2>6, Served
    <3>2. \A s \in Sessions : session'[s] = "live" => session[s] = "live"
      BY <1>3, <1>9, <2>2, <2>6, Served, SessionEnds
    <3>4. \A u \in Tabs : inflight[u] # "answered"
      BY <2>1, <2>2 DEF Underway
    <3>5. stored # NoToken => Current(stored) /\ stored.s \in Sessions
      BY <1>2, <1>3, <1>4, <3>4 DEF UiTypes
    <3> QED
      BY <2>2, <2>3, <2>6, <3>1, <3>2, <3>5 DEF Current
  <2> QED
    BY <1>9, <2>5, <2>6, Served
<1>10. ASSUME NEW t \in Tabs, FinishRefresh(t) PROVE Goal
  <2>1. Underway(t)
    BY <1>10 DEF FinishRefresh, Underway
  <2>2. \A u \in Tabs : Underway(u) => u = t
    BY <1>1, <2>1, OneRuns DEF UiInv
  <2>3. /\ inflight' = [inflight EXCEPT ![t] = "none"]
        /\ UNCHANGED <<session, newest>>
        /\ \/ inflight[t] = "answered" /\ stored' = req[t]
           \/ stored' = NoToken
    BY <1>2, <1>10 DEF FinishRefresh, EndRefresh, server
  <2>4. \A u \in Tabs : inflight'[u] \in {"none", "waiting"}
    BY <1>3, <2>2, <2>3 DEF Underway, UiTypes
  <2> QED
    BY <1>2, <2>3, <2>4 DEF Current
<1>11. ASSUME NEW t \in Tabs, LoseRefresh(t) \/ HalfRefresh(t) PROVE FALSE
  BY <1>1, <1>11 DEF LoseRefresh, HalfRefresh
<1>12. ASSUME NEW t \in Tabs, BeginCall(t) \/ WarmToken(t) \/ RetryCall(t) PROVE Goal
  <2>1. UNCHANGED <<session, newest, stored>>
    BY <1>12 DEF BeginCall, WarmToken, RetryCall, server
  <2>2. StartRefresh(t) \/ UNCHANGED <<inflight, req>>
    BY <1>12 DEF BeginCall, AwaitToken, WarmToken, RetryCall, TryAgain, refreshing
  <2>3. session' \in [Sessions -> {"new", "live", "over"}]
    BY <1>3, <2>1 DEF UiTypes
  <2> QED
    BY <1>6, <1>7, <2>1, <2>2, <2>3
<1>13. ASSUME NEW t \in Tabs, CallAnswered(t) \/ GiveUp(t) \/ AccessAges(t) PROVE Goal
  <2>1. UNCHANGED <<session, newest, stored, inflight, req>>
    BY <1>13 DEF CallAnswered, GiveUp, AccessAges, server, refreshing
  <2> QED
    BY <1>3, <1>6, <2>1 DEF UiTypes
<1>14. ASSUME NEW t \in Tabs, Logout(t) PROVE Goal
  BY <1>2, <1>14 DEF Logout, server, refreshing, Current
<1>15. ASSUME NEW t \in Tabs, LogoutDone(t) \/ Reload(t) PROVE Goal
  <2>1. /\ UNCHANGED <<newest, stored>>
        /\ inflight' = [inflight EXCEPT ![t] = "none"] /\ req' = [req EXCEPT ![t] = NoToken]
    BY <1>15 DEF LogoutDone, Reload, NewPage, server
  <2>2. \A s \in Sessions : session'[s] = "live" => session[s] = "live"
    BY <1>3, <1>15, SignedOut DEF Reload, server
  <2>3. Underway(t) => session'[req[t].s] # "live"
    <3>1. Reload(t) => ~Underway(t)
      BY <1>1 DEF Reload
    <3>2. ASSUME LogoutDone(t), Underway(t) PROVE session'[req[t].s] # "live"
      <4>1. req[t].s \in Sessions /\ Unrecorded \notin Sessions
        BY <1>4, <1>5, <3>2, BoundsAssumption, SMT DEF Unrecorded, Sessions
      <4>2. req[t].s = leaving[t]
        BY <1>1, <3>2 DEF LogoutDone
      <4>3. EndSession(leaving[t])
        BY <1>1, <3>2, <4>1, <4>2 DEF LogoutDone
      <4> QED
        BY <1>3, <4>1, <4>2, <4>3, SessionEnds
    <3> QED
      BY <1>15, <3>1, <3>2
  <2>4. ASSUME stored # NoToken
        PROVE  Current(stored)' \/ \E u \in Tabs : inflight'[u] = "answered" /\ req'[u].s = stored'.s
    <3>3. stored.s \in Sessions
      BY <1>3, <1>4, <2>4 DEF UiTypes
    <3>1. CASE Current(stored)
      BY <2>1, <2>2, <3>1, <3>3 DEF Current
    <3>2. CASE \E u \in Tabs : inflight[u] = "answered" /\ req[u].s = stored.s
      <4>1. PICK u \in Tabs : inflight[u] = "answered" /\ req[u].s = stored.s
        BY <3>2
      <4>2. CASE u = t
        BY <2>1, <2>3, <4>1, <4>2 DEF Underway, Current
      <4>3. CASE u # t
        BY <1>3, <2>1, <4>1, <4>3 DEF UiTypes
      <4> QED
        BY <4>2, <4>3
    <3> QED
      BY <1>2, <2>4, <3>1, <3>2
  <2>5. \A u \in Tabs : inflight'[u] \in {"posted", "answered"} =>
          inflight[u] = inflight'[u] /\ req'[u] = req[u] /\ req[u].s \in Sessions
    BY <1>3, <1>4, <1>5, <2>1 DEF UiTypes, Underway
  <2>6. \A u \in Tabs : inflight'[u] \in {"posted", "answered"} => Current(req[u])'
    BY <1>2, <2>1, <2>2, <2>5 DEF Current
  <2>7. \A u \in Tabs : inflight'[u] \notin {"outdated", "failed"}
    BY <1>2, <1>3, <2>1 DEF UiTypes
  <2> QED
    BY <2>1, <2>4, <2>6, <2>7
<1>16. ASSUME NEW t \in Tabs, CompleteLogin(t) PROVE Goal
  <2>1. PICK s \in Sessions :
          /\ session[s] = "new"
          /\ session' = [session EXCEPT ![s] = "live"] /\ newest' = [newest EXCEPT ![s] = 1]
          /\ stored' = [s |-> s, n |-> 1]
    BY <1>16 DEF CompleteLogin
  <2>2. UNCHANGED <<inflight, req>>
    BY <1>16 DEF CompleteLogin, refreshing
  <2>3. stored'.s = s /\ stored'.n = 1 /\ newest'[s] = 1
    BY <1>3, <2>1 DEF UiTypes
  <2>4. \A u \in Tabs : Underway(u) => /\ session'[req[u].s] = session[req[u].s]
                                       /\ newest'[req[u].s] = newest[req[u].s]
    BY <1>3, <1>4, <1>5, <2>1 DEF UiTypes
  <2> QED
    BY <1>2, <2>2, <2>3, <2>4 DEF Current, Underway
<1>17. CASE SecretChanges
  BY <1>1, <1>17 DEF SecretChanges
<1>18. CASE \E r \in Tokens : GraceEnds(r)
  <2>1. UNCHANGED <<session, newest, stored, inflight, req>>
    BY <1>18 DEF GraceEnds, refreshing
  <2> QED
    BY <1>3, <1>6, <2>1 DEF UiTypes
<1>19. CASE \E s \in Sessions : SessionExpires(s)
  <2>1. PICK s \in Sessions : SessionExpires(s)
    BY <1>19
  <2>2. UNCHANGED <<newest, stored, inflight, req>>
    BY <2>1 DEF SessionExpires, refreshing
  <2>3. session' \in [Sessions -> {"new", "live", "over"}]
        /\ \A x \in Sessions : session'[x] = "live" => session[x] = "live"
    BY <1>3, <2>1, SessionEnds DEF SessionExpires
  <2> QED
    BY <1>6, <2>2, <2>3
<1>20. CASE UNCHANGED uiVars
  BY <1>3, <1>6, <1>20 DEF uiVars, UiTypes
<1> QED
  BY <1>8, <1>9, <1>10, <1>11, <1>12, <1>13, <1>14, <1>15, <1>16, <1>17, <1>18, <1>19, <1>20
  DEF UiNext, Progress

\* Where the browser has Web Locks, a refresh presents the newest token of its session, for
\* any number of tabs that refresh, sign in, sign out and reload: a tab that gets the lock
\* finds the token its predecessor has saved (refresh under "orc-refresh").
THEOREM LockedRefreshesPresentNewest == UiSpec => []PresentsNewest
<1>1. UiInit => FreshInv /\ GraceInv
  BY BoundsAssumption, SMT DEF UiInit, FreshInv, GraceInv, Current, Sessions
<1>2. FreshInv => PresentsNewest
  BY DEF FreshInv, Current, PresentsNewest
<1> QED
  BY UiInductive, <1>1, GraceStep, FreshStep, <1>2, PTL DEF UiSpec
=============================================================================
