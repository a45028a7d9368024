----------------------------- MODULE TokenStore -----------------------------
(***************************************************************************)
(* Refresh-token rotation of one sign-in session (api/src/token-store.ts). *)
(*                                                                         *)
(* A session is a chain of refresh tokens under one chain key.  A refresh  *)
(* or sign-out request runs as a sequence of Redis calls, and the requests *)
(* of several tabs, retries and API replicas interleave between them; each *)
(* action below is one Redis call.  A request may die at any call (the     *)
(* process stops, Redis fails, the answer is lost), leaving what it wrote, *)
(* and a grace key expires 30 s after it was set, whatever runs.  Keys are *)
(* never created for another session, so one session is modelled.          *)
(***************************************************************************)
EXTENDS Naturals, FiniteSets

CONSTANTS
  Calls,      \* requests that may run at the same time
  MaxTokens,  \* bound: refresh tokens issued in the session
  MaxFaults   \* bound: requests that die before their answer arrives

ASSUME BoundsAssumption == MaxTokens \in Nat \ {0} /\ MaxFaults \in Nat

Tokens == 1 .. MaxTokens
Root == 1      \* issued by createChain
NoToken == 0

VARIABLES
  chain,    \* the chain key exists          orc:v2:chain:<id>
  rt,       \* tokens with a record          orc:v2:rt:<hash>
  used,     \* tokens marked used            orc:v2:rtused:<hash>
  grace,    \* token -> its successor, NoToken once expired  orc:v2:rtgrace:<hash>
  pc,       \* call -> the Redis call it makes next
  tok,      \* call -> the refresh token it presents
  next,     \* call -> the refresh token it is going to answer
  fresh,    \* the last token made by randomToken
  faults,
  \* History, read only by the properties:
  succ,     \* token -> the successors it was exchanged for
  granted,  \* tokens clients have received
  stalled,  \* a request has stalled for half of a grace window, see GraceExpires
  refused   \* call -> as it began, its session had ended, or its token was marked
            \* used and the token's grace was over

redis == <<chain, rt, used, grace>>
vars == <<chain, rt, used, grace, pc, tok, next, fresh, faults, succ, granted, stalled, refused>>

TypeOK ==
  /\ chain \in BOOLEAN
  /\ rt \subseteq Tokens /\ used \subseteq Tokens
  /\ grace \in [Tokens -> Tokens \cup {NoToken}]
  /\ pc \in [Calls -> {"idle", "getRt", "ttl", "getUsed", "graceUsed", "delChain", "claim",
                       "graceClaimed", "issue", "markUsed", "reply", "revokeGet", "revokeDel"}]
  /\ tok \in [Calls -> Tokens]
  /\ next \in [Calls -> Tokens \cup {NoToken}]
  /\ fresh \in Tokens
  /\ faults \in 0 .. MaxFaults
  /\ succ \in [Tokens -> SUBSET Tokens]
  /\ granted \subseteq Tokens
  /\ stalled \in BOOLEAN
  /\ refused \in [Calls -> BOOLEAN]
  /\ \A t \in rt \cup used \cup granted : t <= fresh

\* After createChain: the chain key and the first token's record are set.
Init ==
  /\ chain = TRUE /\ rt = {Root} /\ used = {}
  /\ grace = [t \in Tokens |-> NoToken]
  /\ pc = [c \in Calls |-> "idle"]
  /\ tok = [c \in Calls |-> Root]
  /\ next = [c \in Calls |-> NoToken]
  /\ fresh = Root /\ faults = 0
  /\ succ = [t \in Tokens |-> {}]
  /\ granted = {Root} /\ stalled = FALSE
  /\ refused = [c \in Calls |-> FALSE]

-----------------------------------------------------------------------------

\* Call c goes on with position to; At combines it with the guard.
At(c, from, to) == pc[c] = from /\ pc' = [pc EXCEPT ![c] = to]

Reset(c) == next' = [next EXCEPT ![c] = NoToken] /\ refused' = [refused EXCEPT ![c] = FALSE]

\* c ends without granting a token.
Refuse(c, from) == At(c, from, "idle") /\ Reset(c)

Answer(c, t) == next' = [next EXCEPT ![c] = t]

\* A client presents a token it has received; old ones included, as a retry or
\* from another tab.
Begin(c, t) ==
  /\ At(c, "idle", "getRt")
  /\ t \in granted
  /\ tok' = [tok EXCEPT ![c] = t]
  /\ refused' = [refused EXCEPT ![c] = ~chain \/ (t \in used /\ grace[t] = NoToken)]
  /\ UNCHANGED <<redis, next, fresh, faults, succ, granted, stalled>>

-----------------------------------------------------------------------------
(* TokenStore.rotate. *)

GetRt(c) ==
  /\ \/ tok[c] \in rt /\ At(c, "getRt", "ttl") /\ UNCHANGED <<next, refused>>
     \/ tok[c] \notin rt /\ Refuse(c, "getRt")
  /\ UNCHANGED <<redis, tok, fresh, faults, succ, granted, stalled>>

\* Mutant of Ttl: the chain key is not looked at.
TtlUnchecked(c) ==
  /\ At(c, "ttl", "getUsed")
  /\ UNCHANGED <<redis, tok, next, fresh, faults, succ, granted, refused, stalled>>

Ttl(c) ==
  /\ \/ chain /\ At(c, "ttl", "getUsed") /\ UNCHANGED <<next, refused>>
     \/ ~chain /\ Refuse(c, "ttl")
  /\ UNCHANGED <<redis, tok, fresh, faults, succ, granted, stalled>>

GetUsed(c) ==
  /\ At(c, "getUsed", IF tok[c] \in used THEN "graceUsed" ELSE "claim")
  /\ UNCHANGED <<redis, tok, next, fresh, faults, succ, granted, refused, stalled>>

\* Mutant of GetGraceUsed: reuse is refused, the chain lives on.
GetGraceUsedKeepsChain(c) ==
  /\ LET g == grace[tok[c]] IN
     \/ g # NoToken /\ At(c, "graceUsed", "reply") /\ Answer(c, g) /\ UNCHANGED refused
     \/ g = NoToken /\ Refuse(c, "graceUsed")
  /\ UNCHANGED <<redis, tok, fresh, faults, succ, granted, stalled>>

\* A used token: its successor while the grace key lives, else the chain goes.
GetGraceUsed(c) ==
  /\ LET g == grace[tok[c]] IN
     \/ g # NoToken /\ At(c, "graceUsed", "reply") /\ Answer(c, g)
     \/ g = NoToken /\ At(c, "graceUsed", "delChain") /\ UNCHANGED next
  /\ UNCHANGED <<redis, tok, fresh, faults, succ, granted, refused, stalled>>

DelChain(c) ==
  /\ Refuse(c, "delChain")
  /\ chain' = FALSE
  /\ UNCHANGED <<rt, used, grace, tok, fresh, faults, succ, granted, stalled>>

\* Mutant of Claim: SET without NX.
ClaimWithoutNX(c) ==
  LET t == tok[c]  n == fresh + 1 IN
  /\ n \in Tokens
  /\ At(c, "claim", "issue")
  /\ grace' = [grace EXCEPT ![t] = n]
  /\ succ' = [succ EXCEPT ![t] = @ \cup {n}]
  /\ fresh' = n
  /\ Answer(c, n)
  /\ UNCHANGED <<chain, rt, used, tok, faults, granted, refused, stalled>>

\* SET grace NX: one of the calls that found the token unused exchanges it.
Claim(c) ==
  LET t == tok[c]  n == fresh + 1 IN
  /\ \/ /\ grace[t] = NoToken /\ n \in Tokens
        /\ At(c, "claim", "issue")
        /\ grace' = [grace EXCEPT ![t] = n]
        /\ succ' = [succ EXCEPT ![t] = @ \cup {n}]
        /\ fresh' = n
        /\ Answer(c, n)
     \/ /\ grace[t] # NoToken
        /\ At(c, "claim", "graceClaimed")
        /\ UNCHANGED <<grace, succ, fresh, next>>
  /\ UNCHANGED <<chain, rt, used, tok, faults, granted, refused, stalled>>

GetGraceClaimed(c) ==
  /\ LET g == grace[tok[c]] IN
     \/ g # NoToken /\ At(c, "graceClaimed", "reply") /\ Answer(c, g) /\ UNCHANGED refused
     \/ g = NoToken /\ Refuse(c, "graceClaimed")
  /\ UNCHANGED <<redis, tok, fresh, faults, succ, granted, stalled>>

\* Mutant of Issue: the record is written under the presented token.
IssuePresented(c) ==
  /\ At(c, "issue", "markUsed")
  /\ rt' = rt \cup {tok[c]}
  /\ UNCHANGED <<chain, used, grace, tok, next, fresh, faults, succ, granted, refused, stalled>>

\* issueToken: the successor's record.
Issue(c) ==
  /\ At(c, "issue", "markUsed")
  /\ rt' = rt \cup {next[c]}
  /\ UNCHANGED <<chain, used, grace, tok, next, fresh, faults, succ, granted, refused, stalled>>

MarkUsed(c) ==
  /\ At(c, "markUsed", "reply")
  /\ used' = used \cup {tok[c]}
  /\ UNCHANGED <<chain, rt, grace, tok, next, fresh, faults, succ, granted, refused, stalled>>

\* The client receives the new token.
Reply(c) ==
  /\ At(c, "reply", "idle")
  /\ granted' = granted \cup {next[c]}
  /\ Reset(c)
  /\ UNCHANGED <<redis, tok, fresh, faults, succ, stalled>>

-----------------------------------------------------------------------------
(* TokenStore.revoke. *)

BeginRevoke(c, t) ==
  /\ At(c, "idle", "revokeGet")
  /\ t \in granted
  /\ tok' = [tok EXCEPT ![c] = t]
  /\ UNCHANGED <<redis, next, fresh, faults, succ, granted, refused, stalled>>

RevokeGet(c) ==
  /\ At(c, "revokeGet", IF tok[c] \in rt THEN "revokeDel" ELSE "idle")
  /\ UNCHANGED <<redis, tok, next, fresh, faults, succ, granted, refused, stalled>>

RevokeDel(c) ==
  /\ At(c, "revokeDel", "idle")
  /\ chain' = FALSE
  /\ UNCHANGED <<rt, used, grace, tok, next, fresh, faults, succ, granted, refused, stalled>>

-----------------------------------------------------------------------------

\* A Redis call throws, the API process stops, or the answer is lost.
Die(c) ==
  /\ faults < MaxFaults
  /\ faults' = faults + 1
  /\ pc[c] # "idle" /\ Refuse(c, pc[c])
  /\ UNCHANGED <<redis, tok, fresh, succ, granted, stalled>>

\* A request that presents t is past its look at the used mark, and has not set it.
Unmarked(t) == \E c \in Calls : tok[c] = t /\ pc[c] \in {"claim", "issue", "markUsed"}

\* A grace key's 30 s (REFRESH_GRACE_SECONDS) end, whatever request is in between its
\* calls.  If t is not marked used by then, the request that exchanged it has spent them
\* on two Redis calls.  If it is, and a request that saw t unmarked has yet to try the
\* grace key, the two have spent them between them, so one of them has spent half.
GraceExpires(t) ==
  /\ grace[t] # NoToken
  /\ grace' = [grace EXCEPT ![t] = NoToken]
  /\ stalled' = (stalled \/ Unmarked(t))
  /\ UNCHANGED <<chain, rt, used, pc, tok, next, fresh, faults, succ, granted, refused>>

\* The chain's absolute lifetime ends.  The records and used marks of its tokens
\* expire with it; without the chain they are never looked at.
ChainExpires ==
  /\ chain
  /\ chain' = FALSE
  /\ UNCHANGED <<rt, used, grace, pc, tok, next, fresh, faults, succ, granted, refused, stalled>>

Rotate(c) ==
  \/ GetRt(c) \/ Ttl(c) \/ GetUsed(c) \/ GetGraceUsed(c) \/ DelChain(c) \/ Claim(c)
  \/ GetGraceClaimed(c) \/ Issue(c) \/ MarkUsed(c) \/ Reply(c)

Revoke(c) == RevokeGet(c) \/ RevokeDel(c)

Next ==
  \/ \E c \in Calls :
       \/ \E t \in Tokens : Begin(c, t) \/ BeginRevoke(c, t)
       \/ Rotate(c) \/ Revoke(c) \/ Die(c)
  \/ \E t \in Tokens : GraceExpires(t)
  \/ ChainExpires

Spec == Init /\ [][Next]_vars

-----------------------------------------------------------------------------
(* Properties. *)

\* No request has died between its calls, or stalled.
Undisturbed == faults = 0 /\ ~stalled

\* A token is exchanged for one successor only, whichever tabs, retries and
\* replicas present it at the same time, and whenever its grace ends among their
\* calls: the session has one line of tokens, and every request that is answered
\* with a next one gets the same (SET NX in rotate).  Holds as long as no request
\* has died between its Redis calls or stalled.
SingleSuccessor == Undisturbed => \A t \in Tokens : Cardinality(succ[t]) <= 1

Stored(t) == t \in rt \/ \E c \in Calls : pc[c] = "issue" /\ next[c] = t

\* A token a client has received is known to the store, or the request that
\* exchanged its predecessor still runs and is about to store it.  The exception is
\* real: the grace key announces the token before its record is written, so another
\* tab that got it from there and presents it at once is refused.  After that request
\* no client holds a token the store does not know.  Holds as long as no request has
\* died or stalled.
GrantedIsStored == Undisturbed => \A t \in granted : Stored(t)

\* A request that begins after its session ended, or with a used token whose
\* grace is over, never gets a token, whatever the requests beside it do; unless one
\* has stalled.
RefusedIsNotGranted == ~stalled => \A c \in Calls : refused[c] => pc[c] # "reply"

\* Presenting a used token after its grace ends the session: when such a request
\* ends, unless it died, the chain is gone (reuse detection).
ReplayEndsSession ==
  [][\A c \in Calls :
       refused[c] /\ pc[c] # "idle" /\ pc'[c] = "idle" /\ faults' = faults /\ ~stalled
         => ~chain']_vars

\* The store implements the session's abstract rules until a request dies or stalls.
\* An answer that was decided in the window may be on its way when the window closes.
Session == INSTANCE RefreshSession WITH
  live <- chain,
  window <- {t \in Tokens : grace[t] # NoToken},
  owed <- {t \in Tokens : \E c \in Calls : tok[c] = t /\ pc[c] \in {"issue", "markUsed", "reply"}}

ImplementsSession == Session!Init /\ [][~Undisturbed' \/ Session!Next]_(Session!vars)
=============================================================================
