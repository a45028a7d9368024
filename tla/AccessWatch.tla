----------------------------- MODULE AccessWatch -----------------------------
(***************************************************************************)
(* Who may use sessions, and for how long an answer is believed            *)
(* (api/src/authz.ts).                                                     *)
(*                                                                         *)
(* An operator's webhook decides whether a user has access.  Its answers   *)
(* are cached in Redis, for allowedTtl or deniedTtl seconds, under a key   *)
(* that holds the cache generation; evicting one user deletes the key,     *)
(* evicting everyone increments the generation.  A request is checked      *)
(* before it is proxied, and a stream that stays open (event stream,       *)
(* terminal) is checked again by a timer of period allowedTtl, together    *)
(* with the sign-in session it was opened under.                           *)
(*                                                                         *)
(* One user is modelled, with several connections.  Time is discrete; the  *)
(* Redis and webhook calls of a check interleave with everything else, and *)
(* a check lasts no more than MaxDelay time units.  Between a request's    *)
(* check and its answer lie the session's lookup, the guards and the call  *)
(* to the gateway, which may take any time.                                *)
(***************************************************************************)
EXTENDS Naturals

CONSTANTS
  Streams,     \* connections of the user
  AllowedTtl, DeniedTtl,
  MaxDelay,    \* bound: time units from the start of a check to its end
  MaxChanges,  \* bound: times the webhook changes its mind
  MaxGen,      \* bound: evictions of everyone
  MaxFaults,   \* bound: checks that fail because Redis does
  MaxAge       \* cap: ages beyond it are not told apart

ASSUME TtlAssumption == AllowedTtl \in Nat \ {0} /\ DeniedTtl \in Nat \ {0}
ASSUME DelayAssumption == MaxDelay \in Nat /\ MaxDelay < AllowedTtl
ASSUME BoundsAssumption ==
  MaxChanges \in Nat /\ MaxGen \in Nat /\ MaxFaults \in Nat /\ MaxAge \in Nat

Gens == 0 .. MaxGen
Decisions == {"allowed", "denied"}

VARIABLES
  policy,   \* what the webhook answers now
  age,      \* time since it began to deny
  changes,
  sess,     \* the user's sign-in session exists
  gen,      \* orc:v2:authz:gen
  cache,    \* generation -> decision and its time to live, 0 if none
  evicting, \* the generation a running evict(uid) has read, if one runs
  open,     \* streams that are open
  watching, \* streams whose running check is one of their watch
  timer,    \* stream -> time until its watch fires
  pc,       \* stream -> the call its check makes next
  g,        \* stream -> the generation its check has read
  ans,      \* stream -> the decision its check has reached
  left,     \* stream -> time its check may still take
  faults,
  \* History, read only by the properties:
  since,    \* stream -> time it has been open
  gone,     \* stream -> time it has been open since its session ended
  evicted,  \* everyone was evicted since policy last changed
  late      \* stream -> evicted held when its check began, and policy is the same

vars == <<policy, age, changes, sess, gen, cache, evicting, open, watching, timer, pc, g,
          ans, left, faults, since, gone, evicted, late>>
world == <<policy, age, changes, sess, evicted>>
store == <<gen, cache>>

Free == [val |-> "denied", ttl |-> 0]

TypeOK ==
  /\ policy \in Decisions /\ age \in 0 .. MaxAge /\ changes \in 0 .. MaxChanges
  /\ sess \in BOOLEAN
  /\ gen \in Gens
  /\ cache \in [Gens -> [val : Decisions, ttl : 0 .. AllowedTtl + DeniedTtl]]
  /\ \A x \in Gens : x > gen => cache[x] = Free
  /\ evicting \subseteq Gens
  /\ open \subseteq Streams /\ watching \subseteq Streams
  /\ \A s \in watching : pc[s] # "rest"
  /\ timer \in [Streams -> 0 .. AllowedTtl]
  /\ pc \in [Streams -> {"rest", "session", "gen", "cached", "ask", "set", "done", "opening"}]
  /\ g \in [Streams -> Gens] /\ ans \in [Streams -> Decisions]
  /\ left \in [Streams -> 0 .. MaxDelay]
  /\ faults \in 0 .. MaxFaults
  /\ since \in [Streams -> 0 .. MaxAge] /\ gone \in [Streams -> 0 .. MaxAge]
  /\ evicted \in BOOLEAN /\ late \in [Streams -> BOOLEAN]

Init ==
  /\ policy = "allowed" /\ age = 0 /\ changes = 0 /\ sess = TRUE
  /\ gen = 0 /\ cache = [x \in Gens |-> Free] /\ evicting = {}
  /\ open = {} /\ watching = {}
  /\ timer = [s \in Streams |-> 0] /\ pc = [s \in Streams |-> "rest"]
  /\ g = [s \in Streams |-> 0] /\ ans = [s \in Streams |-> "denied"]
  /\ left = [s \in Streams |-> 0]
  /\ faults = 0
  /\ since = [s \in Streams |-> 0] /\ gone = [s \in Streams |-> 0]
  /\ evicted = FALSE /\ late = [s \in Streams |-> FALSE]

-----------------------------------------------------------------------------
(* Authorizer.check. *)

At(s, from, to) == pc[s] = from /\ pc' = [pc EXCEPT ![s] = to]

Begin(s, to) ==
  /\ At(s, "rest", to)
  /\ left' = [left EXCEPT ![s] = MaxDelay]
  /\ late' = [late EXCEPT ![s] = evicted]

GetGen(s) ==
  /\ At(s, "gen", "cached")
  /\ g' = [g EXCEPT ![s] = gen]
  /\ UNCHANGED <<world, store, evicting, open, watching, timer, ans, left, faults, since, gone, late>>

\* Mutant of GetCached: a hit renews the entry's time to live.
GetCachedSliding(s) ==
  /\ LET e == cache[g[s]] IN
     \/ /\ e.ttl > 0 /\ At(s, "cached", "done") /\ ans' = [ans EXCEPT ![s] = e.val]
        /\ cache' = [cache EXCEPT ![g[s]].ttl = AllowedTtl]
     \/ e.ttl = 0 /\ At(s, "cached", "ask") /\ UNCHANGED <<ans, cache>>
  /\ UNCHANGED <<world, gen, evicting, open, watching, timer, g, left, faults, since, gone, late>>

GetCached(s) ==
  /\ LET e == cache[g[s]] IN
     \/ e.ttl > 0 /\ At(s, "cached", "done") /\ ans' = [ans EXCEPT ![s] = e.val]
     \/ e.ttl = 0 /\ At(s, "cached", "ask") /\ UNCHANGED ans
  /\ UNCHANGED <<world, store, evicting, open, watching, timer, g, left, faults, since, gone, late>>

\* The webhook answers, or fails: a failed call denies without caching.
Ask(s) ==
  /\ \/ At(s, "ask", "set") /\ ans' = [ans EXCEPT ![s] = policy]
     \/ At(s, "ask", "done") /\ ans' = [ans EXCEPT ![s] = "denied"]
  /\ UNCHANGED <<world, store, evicting, open, watching, timer, g, left, faults, since, gone, late>>

Ttl(d) == IF d = "allowed" THEN AllowedTtl ELSE DeniedTtl

\* Mutant of SetCached: the generation is read again.
SetCachedNewGen(s) ==
  /\ At(s, "set", "done")
  /\ cache' = [cache EXCEPT ![gen] = [val |-> ans[s], ttl |-> Ttl(ans[s])]]
  /\ UNCHANGED <<world, gen, evicting, open, watching, timer, g, ans, left, faults, since, gone, late>>

SetCached(s) ==
  /\ At(s, "set", "done")
  /\ cache' = [cache EXCEPT ![g[s]] = [val |-> ans[s], ttl |-> Ttl(ans[s])]]
  /\ UNCHANGED <<world, gen, evicting, open, watching, timer, g, ans, left, faults, since, gone, late>>

-----------------------------------------------------------------------------
(* Requests (requireAccess) and open streams (watch). *)

\* A request; its access token is valid, also after sign-out.
Request(s) ==
  /\ s \notin open
  /\ Begin(s, "gen")
  /\ UNCHANGED <<world, store, evicting, open, watching, timer, g, ans, faults, since, gone>>

\* The check ends, and what it had read is forgotten.
Finish(s, from) ==
  /\ At(s, from, "rest")
  /\ g' = [g EXCEPT ![s] = 0]
  /\ ans' = [ans EXCEPT ![s] = "denied"]
  /\ left' = [left EXCEPT ![s] = 0]
  /\ watching' = watching \ {s}
  /\ late' = [late EXCEPT ![s] = FALSE]

\* A denied request gets its 403; an allowed one goes on to the gateway.
Respond(s) ==
  /\ s \notin watching
  /\ \/ ans[s] = "denied" /\ Finish(s, "done")
     \/ /\ ans[s] = "allowed" /\ At(s, "done", "opening")
        /\ g' = [g EXCEPT ![s] = 0]
        /\ ans' = [ans EXCEPT ![s] = "denied"]
        /\ left' = [left EXCEPT ![s] = 0]
        /\ late' = [late EXCEPT ![s] = FALSE]
        /\ UNCHANGED watching
  /\ UNCHANGED <<world, store, evicting, open, timer, faults, since, gone>>

\* sessionAccess, the guards and the gateway have answered: with an ordinary response
\* or an error, or with a stream that stays open and is watched from now on.
Open(s) ==
  /\ At(s, "opening", "rest")
  /\ \/ UNCHANGED <<open, timer>>
     \/ /\ open' = open \cup {s}
        /\ timer' = [timer EXCEPT ![s] = AllowedTtl]
  /\ UNCHANGED <<world, store, evicting, watching, g, ans, left, faults, since, gone, late>>

CloseStream(s) ==
  /\ open' = open \ {s}
  /\ timer' = [timer EXCEPT ![s] = 0]
  /\ since' = [since EXCEPT ![s] = 0]
  /\ gone' = [gone EXCEPT ![s] = 0]

\* The watch's timer fires; while a check is still running (busy) it does nothing.
Fire(s) ==
  /\ s \in open /\ timer[s] = 0
  /\ timer' = [timer EXCEPT ![s] = AllowedTtl]
  /\ IF pc[s] = "rest"
     THEN Begin(s, "session") /\ watching' = watching \cup {s}
     ELSE UNCHANGED <<pc, watching, left, late>>
  /\ UNCHANGED <<world, store, evicting, open, g, ans, faults, since, gone>>

\* Mutant of CheckSession: a stream outlives its sign-in session.
CheckSessionSkipped(s) ==
  /\ At(s, "session", "gen")
  /\ UNCHANGED <<world, store, evicting, open, watching, timer, g, ans, left, faults, since, gone, late>>

\* Mutant of CheckSession: an active session is enough.
CheckSessionOnly(s) ==
  /\ At(s, "session", "done")
  /\ ans' = [ans EXCEPT ![s] = IF sess THEN "allowed" ELSE "denied"]
  /\ UNCHANGED <<world, store, evicting, open, watching, timer, g, left, faults, since, gone, late>>

\* sessionActive: the stream ends with its sign-in session.
CheckSession(s) ==
  /\ \/ sess /\ At(s, "session", "gen") /\ UNCHANGED ans
     \/ ~sess /\ At(s, "session", "done") /\ ans' = [ans EXCEPT ![s] = "denied"]
  /\ UNCHANGED <<world, store, evicting, open, watching, timer, g, left, faults, since, gone, late>>

\* The re-check's decision: unless the stream has ended meanwhile (stopped), a
\* denial stops the watch and onDenied closes the stream.
Decide(s) ==
  /\ s \in watching
  /\ Finish(s, "done")
  /\ IF ans[s] = "denied" THEN CloseStream(s) ELSE UNCHANGED <<open, timer, since, gone>>
  /\ UNCHANGED <<world, store, evicting, faults>>

\* A Redis call throws: a request gets 503, an open stream stays and is checked
\* again at its next tick.
CheckFails(s) ==
  /\ faults < MaxFaults /\ faults' = faults + 1
  /\ pc[s] \in {"session", "gen", "cached", "set"}
  /\ Finish(s, pc[s])
  /\ UNCHANGED <<world, store, evicting, open, timer, since, gone>>

\* The client or the gateway ends the stream: stop.
StreamEnds(s) ==
  /\ s \in open
  /\ CloseStream(s)
  /\ UNCHANGED <<world, store, evicting, watching, pc, g, ans, left, faults, late>>

-----------------------------------------------------------------------------
(* The operator, the user and time. *)

Change ==
  /\ changes < MaxChanges
  /\ changes' = changes + 1
  /\ policy' = IF policy = "allowed" THEN "denied" ELSE "allowed"
  /\ age' = 0
  /\ evicted' = FALSE /\ late' = [s \in Streams |-> FALSE]
  /\ UNCHANGED <<sess, store, evicting, open, watching, timer, pc, g, ans, left, faults, since, gone>>

\* DELETE /admin/authz/cache/:uid: read the generation, delete the key.
EvictGet ==
  /\ evicting = {} /\ evicting' = {gen}
  /\ UNCHANGED <<world, store, open, watching, timer, pc, g, ans, left, faults, since, gone, late>>

EvictDel ==
  /\ \E x \in evicting :
       /\ cache' = [cache EXCEPT ![x] = Free]
       /\ evicting' = evicting \ {x}
  /\ UNCHANGED <<world, gen, open, watching, timer, pc, g, ans, left, faults, since, gone, late>>

\* DELETE /admin/authz/cache.
EvictAll ==
  /\ gen < MaxGen
  /\ gen' = gen + 1
  /\ evicted' = TRUE
  /\ UNCHANGED <<policy, age, changes, sess, cache, evicting, open, watching, timer, pc, g,
                 ans, left, faults, since, gone, late>>

\* The user signs out, or the session expires.
SignOut ==
  /\ sess
  /\ sess' = FALSE
  /\ UNCHANGED <<policy, age, changes, store, evicting, open, watching, timer, pc, g, ans,
                 left, faults, since, gone, evicted, late>>

Older(n) == IF n < MaxAge THEN n + 1 ELSE n

\* A check of stream s is running.
Checking(s) == pc[s] \notin {"rest", "opening"}

\* Time passes: timers that are due fire first, and a check ends in time.
Tick ==
  /\ \A s \in open : timer[s] > 0
  /\ \A s \in Streams : Checking(s) => left[s] > 0
  /\ age' = IF policy = "denied" THEN Older(age) ELSE 0
  /\ since' = [s \in Streams |-> IF s \in open THEN Older(since[s]) ELSE 0]
  /\ gone' = [s \in Streams |-> IF s \in open /\ ~sess THEN Older(gone[s]) ELSE 0]
  /\ timer' = [s \in Streams |-> IF s \in open THEN timer[s] - 1 ELSE 0]
  /\ left' = [s \in Streams |-> IF Checking(s) THEN left[s] - 1 ELSE 0]
  /\ cache' = [x \in Gens |-> IF cache[x].ttl > 1
                 THEN [cache[x] EXCEPT !.ttl = @ - 1] ELSE Free]
  /\ UNCHANGED <<policy, changes, sess, gen, evicting, open, watching, pc, g, ans, faults,
                 evicted, late>>

-----------------------------------------------------------------------------

Check(s) == GetGen(s) \/ GetCached(s) \/ Ask(s) \/ SetCached(s)

Next ==
  \/ \E s \in Streams :
       \/ Request(s) \/ Respond(s) \/ Open(s) \/ Check(s)
       \/ Fire(s) \/ CheckSession(s) \/ Decide(s)
       \/ CheckFails(s) \/ StreamEnds(s)
  \/ Change \/ EvictGet \/ EvictDel \/ EvictAll \/ SignOut \/ Tick

Spec == Init /\ [][Next]_vars

-----------------------------------------------------------------------------
(* Properties. *)

Slack == faults * AllowedTtl

\* A cached answer is never served for long after the webhook changed its mind:
\* a decision to allow differs from the webhook's for less than allowedTtl and the
\* time of the two checks that wrote and read it, whichever checks, evictions
\* and generations interleave.
AllowedIsFresh ==
  \A s \in Streams :
    pc[s] = "done" /\ ans[s] = "allowed" /\ policy = "denied"
      => age < AllowedTtl + 2 * MaxDelay

\* An open stream of a user whose access was revoked ends in less than twice
\* allowedTtl and the duration of two checks: the watch may find the "allowed" that a
\* check asked for just before the change wrote just after it.  A stream that opened
\* late, because the gateway was slow to answer, ends at its first check.  Every check
\* that fails because of Redis adds a period.
RevokedStreamEnds ==
  \A s \in open :
    policy = "denied" =>
      \/ age < 2 * AllowedTtl + 2 * MaxDelay + Slack
      \/ since[s] <= AllowedTtl + MaxDelay + Slack

\* A revocation ends a stream that is open then within allowedTtl, and the duration of
\* a check, when Redis does not fail.
RevokedWithinTtl ==
  \A s \in open :
    policy = "denied" /\ since[s] >= age /\ faults = 0 => age <= AllowedTtl + MaxDelay

\* An open stream ends within allowedTtl and a check after its sign-in session
\* has ended, however its access decision is cached.
SignedOutStreamEnds ==
  \A s \in open : gone[s] <= AllowedTtl + MaxDelay + Slack

\* Evicting everyone applies a change of access at once: no check that begins
\* after it allows what the webhook denies, although a check that asked before
\* the change may write its answer afterwards.
EvictAllIsFinal ==
  \A s \in Streams : late[s] /\ pc[s] = "done" /\ policy = "denied" => ans[s] = "denied"
=============================================================================
