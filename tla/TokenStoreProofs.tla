-------------------------- MODULE TokenStoreProofs --------------------------
(***************************************************************************)
(* Proofs about TokenStore, for any number of requests, tokens and deaths: *)
(* its types, what refused requests and replays get, that a token has one  *)
(* stored successor while no request dies or stalls, and that the store    *)
(* then implements RefreshSession.                                         *)
(***************************************************************************)
EXTENDS TokenStore, FiniteSetTheorems, TLAPS

\* Tokens are positive, so NoToken is none of them, and Root is the least.
LEMMA TokenFacts ==
  /\ Root \in Tokens /\ NoToken \notin Tokens
  /\ \A t \in Tokens : t \in Nat /\ Root <= t
  BY BoundsAssumption DEF Tokens, Root, NoToken

\* Positions from which a request that does not die answers its successor.
Granting == {"issue", "markUsed", "reply"}

\* Who is linked to whom: a grace key names a successor, successors were made
\* after Root and are no newer than fresh, requests present granted tokens, and one
\* that is about to answer holds a successor of its token.
LinkInv ==
  /\ \A t \in Tokens : grace[t] # NoToken => grace[t] \in succ[t]
  /\ \A t \in Tokens : \A n \in succ[t] : Root < n /\ n <= fresh
  /\ \A c \in Calls : tok[c] \in granted
  /\ \A c \in Calls : pc[c] \in Granting => next[c] \in succ[tok[c]]

\* Every step keeps the types.
LEMMA TypeStep == TypeOK /\ LinkInv /\ [Next]_vars => TypeOK'
<1> SUFFICES ASSUME TypeOK, LinkInv, [Next]_vars PROVE TypeOK'
  OBVIOUS
<1> USE TokenFacts DEF TypeOK
<1>1. ASSUME NEW c \in Calls, NEW t \in Tokens, Begin(c, t) PROVE TypeOK'
  BY <1>1 DEF Begin, At, redis
<1>2. ASSUME NEW c \in Calls, NEW t \in Tokens, BeginRevoke(c, t) PROVE TypeOK'
  BY <1>2 DEF BeginRevoke, At, redis
<1>3. ASSUME NEW c \in Calls, GetRt(c) PROVE TypeOK'
  BY <1>3 DEF GetRt, At, Refuse, Reset, redis
<1>4. ASSUME NEW c \in Calls, Ttl(c) PROVE TypeOK'
  BY <1>4 DEF Ttl, At, Refuse, Reset, redis
<1>5. ASSUME NEW c \in Calls, GetUsed(c) PROVE TypeOK'
  BY <1>5 DEF GetUsed, At, redis
<1>6. ASSUME NEW c \in Calls, GetGraceUsed(c) PROVE TypeOK'
  BY <1>6 DEF GetGraceUsed, At, Answer, redis
<1>7. ASSUME NEW c \in Calls, DelChain(c) PROVE TypeOK'
  BY <1>7 DEF DelChain, At, Refuse, Reset
<1>8. ASSUME NEW c \in Calls, Claim(c) PROVE TypeOK'
  <2> DEFINE t == tok[c]  n == fresh + 1
  <2>1. t \in Tokens /\ fresh' \in Tokens /\ fresh <= fresh'
    BY <1>8 DEF Claim
  <2>2. /\ grace' \in [Tokens -> Tokens \cup {NoToken}]
        /\ succ' \in [Tokens -> SUBSET Tokens]
        /\ next' \in [Calls -> Tokens \cup {NoToken}]
    BY <1>8, <2>1 DEF Claim, Answer
  <2>3. \A x \in rt' \cup used' \cup granted' : x <= fresh'
    BY <1>8, <2>1 DEF Claim
  <2> QED
    BY <1>8, <2>1, <2>2, <2>3 DEF Claim, At
<1>9. ASSUME NEW c \in Calls, GetGraceClaimed(c) PROVE TypeOK'
  BY <1>9 DEF GetGraceClaimed, At, Answer, Refuse, Reset, redis
<1>10. ASSUME NEW c \in Calls, Issue(c) PROVE TypeOK'
  BY <1>10 DEF Issue, At, LinkInv, Granting
<1>11. ASSUME NEW c \in Calls, MarkUsed(c) PROVE TypeOK'
  BY <1>11 DEF MarkUsed, At, LinkInv, Granting
<1>12. ASSUME NEW c \in Calls, Reply(c) PROVE TypeOK'
  BY <1>12 DEF Reply, At, Reset, redis, LinkInv, Granting
<1>13. ASSUME NEW c \in Calls, RevokeGet(c) PROVE TypeOK'
  BY <1>13 DEF RevokeGet, At, redis
<1>14. ASSUME NEW c \in Calls, RevokeDel(c) PROVE TypeOK'
  BY <1>14 DEF RevokeDel, At
<1>15. ASSUME NEW c \in Calls, Die(c) PROVE TypeOK'
  BY <1>15, BoundsAssumption DEF Die, At, Refuse, Reset, redis
<1>16. ASSUME NEW t \in Tokens, GraceExpires(t) PROVE TypeOK'
  BY <1>16 DEF GraceExpires, Unmarked
<1>17. CASE ChainExpires
  BY <1>17 DEF ChainExpires
<1>18. CASE UNCHANGED vars
  BY <1>18 DEF vars
<1> QED
  BY <1>1, <1>2, <1>3, <1>4, <1>5, <1>6, <1>7, <1>8, <1>9, <1>10, <1>11,
     <1>12, <1>13, <1>14, <1>15, <1>16, <1>17, <1>18
     DEF Next, Rotate, Revoke

\* Every step keeps LinkInv.
LEMMA LinkStep == TypeOK /\ LinkInv /\ [Next]_vars => LinkInv'
<1> SUFFICES ASSUME TypeOK, LinkInv, [Next]_vars PROVE LinkInv'
  OBVIOUS
<1> USE TokenFacts DEF TypeOK, LinkInv, Granting
<1>1. ASSUME NEW c \in Calls, NEW t \in Tokens, Begin(c, t) PROVE LinkInv'
  BY <1>1 DEF Begin, At, redis
<1>2. ASSUME NEW c \in Calls, NEW t \in Tokens, BeginRevoke(c, t) PROVE LinkInv'
  BY <1>2 DEF BeginRevoke, At, redis
<1>3. ASSUME NEW c \in Calls, GetRt(c) PROVE LinkInv'
  BY <1>3 DEF GetRt, At, Refuse, Reset, redis
<1>4. ASSUME NEW c \in Calls, Ttl(c) PROVE LinkInv'
  BY <1>4 DEF Ttl, At, Refuse, Reset, redis
<1>5. ASSUME NEW c \in Calls, GetUsed(c) PROVE LinkInv'
  BY <1>5 DEF GetUsed, At, redis
<1>6. ASSUME NEW c \in Calls, GetGraceUsed(c) PROVE LinkInv'
  BY <1>6 DEF GetGraceUsed, At, Answer, redis
<1>7. ASSUME NEW c \in Calls, DelChain(c) PROVE LinkInv'
  BY <1>7 DEF DelChain, At, Refuse, Reset
<1>8. ASSUME NEW c \in Calls, Claim(c) PROVE LinkInv'
  BY <1>8 DEF Claim, At, Answer
<1>9. ASSUME NEW c \in Calls, GetGraceClaimed(c) PROVE LinkInv'
  BY <1>9 DEF GetGraceClaimed, At, Answer, Refuse, Reset, redis
<1>10. ASSUME NEW c \in Calls, Issue(c) PROVE LinkInv'
  BY <1>10 DEF Issue, At
<1>11. ASSUME NEW c \in Calls, MarkUsed(c) PROVE LinkInv'
  BY <1>11 DEF MarkUsed, At
<1>12. ASSUME NEW c \in Calls, Reply(c) PROVE LinkInv'
  BY <1>12 DEF Reply, At, Reset, redis
<1>13. ASSUME NEW c \in Calls, RevokeGet(c) PROVE LinkInv'
  BY <1>13 DEF RevokeGet, At, redis
<1>14. ASSUME NEW c \in Calls, RevokeDel(c) PROVE LinkInv'
  BY <1>14 DEF RevokeDel, At
<1>15. ASSUME NEW c \in Calls, Die(c) PROVE LinkInv'
  BY <1>15 DEF Die, At, Refuse, Reset, redis
<1>16. ASSUME NEW t \in Tokens, GraceExpires(t) PROVE LinkInv'
  BY <1>16 DEF GraceExpires, Unmarked
<1>17. CASE ChainExpires
  BY <1>17 DEF ChainExpires
<1>18. CASE UNCHANGED vars
  BY <1>18 DEF vars
<1> QED
  BY <1>1, <1>2, <1>3, <1>4, <1>5, <1>6, <1>7, <1>8, <1>9, <1>10, <1>11,
     <1>12, <1>13, <1>14, <1>15, <1>16, <1>17, <1>18
     DEF Next, Rotate, Revoke

\* The types hold in every reachable state, no token is stored, used or granted
\* that was not made, and the links between tokens are as LinkInv says.
THEOREM TypeCorrect == Spec => [](TypeOK /\ LinkInv)
<1>1. ASSUME Init PROVE TypeOK
  <2>1. faults \in 0 .. MaxFaults
    BY <1>1, BoundsAssumption DEF Init
  <2>2. grace \in [Tokens -> Tokens \cup {NoToken}] /\ next \in [Calls -> Tokens \cup {NoToken}]
    BY <1>1 DEF Init
  <2>3. /\ tok \in [Calls -> Tokens] /\ rt \cup used \cup granted = {Root}
        /\ rt \subseteq Tokens /\ used \subseteq Tokens /\ granted \subseteq Tokens /\ fresh = Root
    BY <1>1, TokenFacts DEF Init
  <2>4. \A t \in rt \cup used \cup granted : t <= fresh
    BY <2>3, TokenFacts
  <2> QED
    BY <1>1, <2>1, <2>2, <2>3, <2>4, TokenFacts DEF Init, TypeOK
<1>2. Init => LinkInv
  BY TokenFacts DEF Init, LinkInv, Granting
<1> QED
  BY <1>1, <1>2, TypeStep, LinkStep, PTL DEF Spec

-----------------------------------------------------------------------------
(* Ended sessions and replayed tokens. *)

\* Positions of a request whose token was found to have a record.
Known == {"ttl", "getUsed", "graceUsed", "delChain", "claim", "graceClaimed", "issue",
          "markUsed", "reply"}

\* A used token has a record, and so has one whose record a request has read; while
\* none has stalled, a token that is being exchanged has its grace key, and a request
\* that found its token unused, and is late, finds the key set.
KnownInv ==
  /\ used \subseteq rt
  /\ \A c \in Calls : pc[c] \in Known => tok[c] \in rt
  /\ ~stalled => \A c \in Calls :
       /\ pc[c] \in {"issue", "markUsed"} => grace[tok[c]] # NoToken
       /\ pc[c] = "claim" /\ tok[c] \in used => grace[tok[c]] # NoToken

\* A request refused as it began has not passed the check that refuses it, while none
\* has stalled.
RefusedInv == ~stalled =>
  \A c \in Calls : refused[c] =>
    \/ ~chain /\ pc[c] \in {"getRt", "ttl"}
    \/ /\ tok[c] \in used /\ grace[tok[c]] = NoToken
       /\ pc[c] \in {"getRt", "ttl", "getUsed", "graceUsed", "delChain"}

\* Every step keeps KnownInv.
LEMMA KnownStep == TypeOK /\ LinkInv /\ KnownInv /\ [Next]_vars => KnownInv'
<1> SUFFICES ASSUME TypeOK, LinkInv, KnownInv, [Next]_vars PROVE KnownInv'
  OBVIOUS
<1> USE TokenFacts DEF TypeOK, LinkInv, KnownInv, Granting, Known
<1>1. ASSUME NEW c \in Calls, NEW t \in Tokens, Begin(c, t) PROVE KnownInv'
  BY <1>1 DEF Begin, At, redis
<1>2. ASSUME NEW c \in Calls, NEW t \in Tokens, BeginRevoke(c, t) PROVE KnownInv'
  BY <1>2 DEF BeginRevoke, At, redis
<1>3. ASSUME NEW c \in Calls, GetRt(c) PROVE KnownInv'
  BY <1>3 DEF GetRt, At, Refuse, Reset, redis
<1>4. ASSUME NEW c \in Calls, Ttl(c) PROVE KnownInv'
  BY <1>4 DEF Ttl, At, Refuse, Reset, redis
<1>5. ASSUME NEW c \in Calls, GetUsed(c) PROVE KnownInv'
  BY <1>5 DEF GetUsed, At, redis
<1>6. ASSUME NEW c \in Calls, GetGraceUsed(c) PROVE KnownInv'
  BY <1>6 DEF GetGraceUsed, At, Answer, redis
<1>7. ASSUME NEW c \in Calls, DelChain(c) PROVE KnownInv'
  BY <1>7 DEF DelChain, At, Refuse, Reset
<1>8. ASSUME NEW c \in Calls, Claim(c) PROVE KnownInv'
  BY <1>8 DEF Claim, At, Answer
<1>9. ASSUME NEW c \in Calls, GetGraceClaimed(c) PROVE KnownInv'
  BY <1>9 DEF GetGraceClaimed, At, Answer, Refuse, Reset, redis
<1>10. ASSUME NEW c \in Calls, Issue(c) PROVE KnownInv'
  BY <1>10 DEF Issue, At
<1>11. ASSUME NEW c \in Calls, MarkUsed(c) PROVE KnownInv'
  BY <1>11 DEF MarkUsed, At
<1>12. ASSUME NEW c \in Calls, Reply(c) PROVE KnownInv'
  BY <1>12 DEF Reply, At, Reset, redis
<1>13. ASSUME NEW c \in Calls, RevokeGet(c) PROVE KnownInv'
  BY <1>13 DEF RevokeGet, At, redis
<1>14. ASSUME NEW c \in Calls, RevokeDel(c) PROVE KnownInv'
  BY <1>14 DEF RevokeDel, At
<1>15. ASSUME NEW c \in Calls, Die(c) PROVE KnownInv'
  BY <1>15 DEF Die, At, Refuse, Reset, redis
<1>16. ASSUME NEW t \in Tokens, GraceExpires(t) PROVE KnownInv'
  BY <1>16 DEF GraceExpires, Unmarked
<1>17. CASE ChainExpires
  BY <1>17 DEF ChainExpires
<1>18. CASE UNCHANGED vars
  BY <1>18 DEF vars
<1> QED
  BY <1>1, <1>2, <1>3, <1>4, <1>5, <1>6, <1>7, <1>8, <1>9, <1>10, <1>11,
     <1>12, <1>13, <1>14, <1>15, <1>16, <1>17, <1>18
     DEF Next, Rotate, Revoke

\* Every step keeps RefusedInv: nobody sets the grace key of a used token again.
LEMMA RefusedStep == TypeOK /\ KnownInv /\ RefusedInv /\ [Next]_vars => RefusedInv'
<1> SUFFICES ASSUME TypeOK, KnownInv, RefusedInv, [Next]_vars PROVE RefusedInv'
  OBVIOUS
<1> USE TokenFacts DEF TypeOK, KnownInv, RefusedInv
<1>1. ASSUME NEW c \in Calls, NEW t \in Tokens, Begin(c, t) PROVE RefusedInv'
  BY <1>1 DEF Begin, At, redis
<1>2. ASSUME NEW c \in Calls, NEW t \in Tokens, BeginRevoke(c, t) PROVE RefusedInv'
  BY <1>2 DEF BeginRevoke, At, redis
<1>3. ASSUME NEW c \in Calls, GetRt(c) PROVE RefusedInv'
  BY <1>3 DEF GetRt, At, Refuse, Reset, redis
<1>4. ASSUME NEW c \in Calls, Ttl(c) PROVE RefusedInv'
  BY <1>4 DEF Ttl, At, Refuse, Reset, redis
<1>5. ASSUME NEW c \in Calls, GetUsed(c) PROVE RefusedInv'
  BY <1>5 DEF GetUsed, At, redis
<1>6. ASSUME NEW c \in Calls, GetGraceUsed(c) PROVE RefusedInv'
  BY <1>6 DEF GetGraceUsed, At, Answer, redis
<1>7. ASSUME NEW c \in Calls, DelChain(c) PROVE RefusedInv'
  BY <1>7 DEF DelChain, At, Refuse, Reset
<1>8. ASSUME NEW c \in Calls, Claim(c) PROVE RefusedInv'
  BY <1>8 DEF Claim, At, Answer
<1>9. ASSUME NEW c \in Calls, GetGraceClaimed(c) PROVE RefusedInv'
  BY <1>9 DEF GetGraceClaimed, At, Answer, Refuse, Reset, redis
<1>10. ASSUME NEW c \in Calls, Issue(c) PROVE RefusedInv'
  BY <1>10 DEF Issue, At
<1>11. ASSUME NEW c \in Calls, MarkUsed(c) PROVE RefusedInv'
  BY <1>11 DEF MarkUsed, At
<1>12. ASSUME NEW c \in Calls, Reply(c) PROVE RefusedInv'
  BY <1>12 DEF Reply, At, Reset, redis
<1>13. ASSUME NEW c \in Calls, RevokeGet(c) PROVE RefusedInv'
  BY <1>13 DEF RevokeGet, At, redis
<1>14. ASSUME NEW c \in Calls, RevokeDel(c) PROVE RefusedInv'
  BY <1>14 DEF RevokeDel, At
<1>15. ASSUME NEW c \in Calls, Die(c) PROVE RefusedInv'
  BY <1>15 DEF Die, At, Refuse, Reset, redis
<1>16. ASSUME NEW t \in Tokens, GraceExpires(t) PROVE RefusedInv'
  BY <1>16 DEF GraceExpires, Unmarked
<1>17. CASE ChainExpires
  BY <1>17 DEF ChainExpires
<1>18. CASE UNCHANGED vars
  BY <1>18 DEF vars
<1> QED
  BY <1>1, <1>2, <1>3, <1>4, <1>5, <1>6, <1>7, <1>8, <1>9, <1>10, <1>11,
     <1>12, <1>13, <1>14, <1>15, <1>16, <1>17, <1>18
     DEF Next, Rotate, Revoke

\* KnownInv and RefusedInv hold in every reachable state.
LEMMA RefusedHold == Spec => [](KnownInv /\ RefusedInv)
<1>1. Init => KnownInv /\ RefusedInv
  BY DEF Init, KnownInv, RefusedInv, Known
<1> QED
  BY <1>1, KnownStep, RefusedStep, TypeCorrect, PTL DEF Spec

\* A request that begins after its session ended, or with a used token whose grace
\* is over, never gets a token.
THEOREM RefusedGetNothing == Spec => []RefusedIsNotGranted
<1>1. RefusedInv => RefusedIsNotGranted
  BY DEF RefusedInv, RefusedIsNotGranted
<1> QED
  BY <1>1, RefusedHold, PTL

\* When a request with a used token whose grace is over ends, and has not died, the
\* session has ended.
THEOREM ReplaysEndTheSession == Spec => ReplayEndsSession
<1> DEFINE Ends(c) == refused[c] /\ pc[c] # "idle" /\ pc'[c] = "idle" /\ faults' = faults /\ ~stalled
<1>1. ASSUME TypeOK, KnownInv, RefusedInv, [Next]_vars, NEW d \in Calls, Ends(d)
      PROVE  ~chain'
  <2> USE <1>1 DEF TypeOK, KnownInv, RefusedInv, Known
  <2>1. ASSUME NEW c \in Calls, NEW t \in Tokens, Begin(c, t) PROVE ~chain'
    BY <1>1, <2>1 DEF Begin, At, redis
  <2>2. ASSUME NEW c \in Calls, NEW t \in Tokens, BeginRevoke(c, t) PROVE ~chain'
    BY <1>1, <2>2 DEF BeginRevoke, At, redis
  <2>3. ASSUME NEW c \in Calls, GetRt(c) PROVE ~chain'
    BY <1>1, <2>3 DEF GetRt, At, Refuse, Reset, redis
  <2>4. ASSUME NEW c \in Calls, Ttl(c) PROVE ~chain'
    BY <1>1, <2>4 DEF Ttl, At, Refuse, Reset, redis
  <2>5. ASSUME NEW c \in Calls, GetUsed(c) PROVE ~chain'
    BY <1>1, <2>5 DEF GetUsed, At, redis
  <2>6. ASSUME NEW c \in Calls, GetGraceUsed(c) PROVE ~chain'
    BY <1>1, <2>6 DEF GetGraceUsed, At, Answer, redis
  <2>7. ASSUME NEW c \in Calls, DelChain(c) PROVE ~chain'
    BY <1>1, <2>7 DEF DelChain, At, Refuse, Reset
  <2>8. ASSUME NEW c \in Calls, Claim(c) PROVE ~chain'
    BY <1>1, <2>8 DEF Claim, At, Answer
  <2>9. ASSUME NEW c \in Calls, GetGraceClaimed(c) PROVE ~chain'
    BY <1>1, <2>9 DEF GetGraceClaimed, At, Answer, Refuse, Reset, redis
  <2>10. ASSUME NEW c \in Calls, Issue(c) PROVE ~chain'
    BY <1>1, <2>10 DEF Issue, At
  <2>11. ASSUME NEW c \in Calls, MarkUsed(c) PROVE ~chain'
    BY <1>1, <2>11 DEF MarkUsed, At
  <2>12. ASSUME NEW c \in Calls, Reply(c) PROVE ~chain'
    BY <1>1, <2>12 DEF Reply, At, Reset, redis
  <2>13. ASSUME NEW c \in Calls, RevokeGet(c) PROVE ~chain'
    BY <1>1, <2>13 DEF RevokeGet, At, redis
  <2>14. ASSUME NEW c \in Calls, RevokeDel(c) PROVE ~chain'
    BY <1>1, <2>14 DEF RevokeDel, At
  <2>15. ASSUME NEW c \in Calls, Die(c) PROVE ~chain'
    BY <1>1, <2>15 DEF Die, At, Refuse, Reset, redis
  <2>16. ASSUME NEW t \in Tokens, GraceExpires(t) PROVE ~chain'
    BY <1>1, <2>16 DEF GraceExpires, Unmarked
  <2>17. CASE ChainExpires
    BY <1>1, <2>17 DEF ChainExpires
  <2>18. CASE UNCHANGED vars
    BY <1>1, <2>18 DEF vars
  <2> QED
    BY <1>1, <2>1, <2>2, <2>3, <2>4, <2>5, <2>6, <2>7, <2>8, <2>9,
       <2>10, <2>11, <2>12, <2>13, <2>14, <2>15, <2>16, <2>17, <2>18
       DEF Next, Rotate, Revoke
<1>2. TypeOK /\ KnownInv /\ RefusedInv /\ [Next]_vars =>
        [\A c \in Calls :
           refused[c] /\ pc[c] # "idle" /\ pc'[c] = "idle" /\ faults' = faults /\ ~stalled
             => ~chain']_vars
  BY <1>1
<1> QED
  BY <1>2, RefusedHold, TypeCorrect, PTL DEF Spec, ReplayEndsSession

-----------------------------------------------------------------------------
(* One line of tokens, while no request has died or stalled. *)

Exchanging == {"issue", "markUsed"}

\* While no request has died or stalled: a token has one successor; an exchanged token that is
\* not marked used yet has its grace key and the request that is going to mark it;
\* successors and granted tokens are stored or about to be.
LineInv == Undisturbed =>
  /\ \A t \in Tokens : \A n, k \in succ[t] : n = k
  /\ \A t \in Tokens \ used : succ[t] # {} =>
       /\ grace[t] # NoToken
       /\ \E c \in Calls : tok[c] = t /\ pc[c] \in Exchanging
  /\ \A t \in Tokens : \A n \in succ[t] : Stored(n)
  /\ \A t \in granted : Stored(t)

\* Every step keeps LineInv.
LEMMA LineStep == TypeOK /\ LinkInv /\ KnownInv /\ LineInv /\ [Next]_vars => LineInv'
<1> SUFFICES ASSUME TypeOK, LinkInv, KnownInv, LineInv, [Next]_vars PROVE LineInv'
  OBVIOUS
<1> USE TokenFacts DEF TypeOK, LinkInv, KnownInv, LineInv, Granting, Exchanging, Stored, Undisturbed
<1>1. ASSUME NEW c \in Calls, NEW t \in Tokens, Begin(c, t) PROVE LineInv'
  BY <1>1 DEF Begin, At, redis
<1>2. ASSUME NEW c \in Calls, NEW t \in Tokens, BeginRevoke(c, t) PROVE LineInv'
  BY <1>2 DEF BeginRevoke, At, redis
<1>3. ASSUME NEW c \in Calls, GetRt(c) PROVE LineInv'
  BY <1>3 DEF GetRt, At, Refuse, Reset, redis
<1>4. ASSUME NEW c \in Calls, Ttl(c) PROVE LineInv'
  BY <1>4 DEF Ttl, At, Refuse, Reset, redis
<1>5. ASSUME NEW c \in Calls, GetUsed(c) PROVE LineInv'
  BY <1>5 DEF GetUsed, At, redis
<1>6. ASSUME NEW c \in Calls, GetGraceUsed(c) PROVE LineInv'
  BY <1>6 DEF GetGraceUsed, At, Answer, redis
<1>7. ASSUME NEW c \in Calls, DelChain(c) PROVE LineInv'
  BY <1>7 DEF DelChain, At, Refuse, Reset
<1>8. ASSUME NEW c \in Calls, Claim(c) PROVE LineInv'
  <2> DEFINE t == tok[c]
  <2>1. CASE ~Undisturbed
    BY <1>8, <2>1 DEF Claim
  <2>2. CASE grace[t] # NoToken
    BY <1>8, <2>2 DEF Claim, At
  <2>3. CASE Undisturbed /\ grace[t] = NoToken
    <3>1. succ[t] = {}
      BY <1>8, <2>3 DEF Claim, At
    <3>0. PICK n \in Tokens : n = fresh + 1
      BY <1>8, <2>3 DEF Claim
    <3>2. /\ succ' = [succ EXCEPT ![t] = {n}]
          /\ grace' = [grace EXCEPT ![t] = n] /\ next' = [next EXCEPT ![c] = n]
          /\ pc[c] = "claim" /\ pc' = [pc EXCEPT ![c] = "issue"]
          /\ UNCHANGED <<rt, used, tok, granted, faults>>
      BY <1>8, <2>3, <3>1, <3>0 DEF Claim, At, Answer
    <3>3. \A x \in Tokens : \A j, k \in succ'[x] : j = k
      BY <2>3, <3>2
    <3>4. \A x \in Tokens \ used' : succ'[x] # {} =>
            grace'[x] # NoToken /\ \E d \in Calls : tok'[d] = x /\ pc'[d] \in Exchanging
      <4> SUFFICES ASSUME NEW x \in Tokens \ used', succ'[x] # {}
                   PROVE  grace'[x] # NoToken /\ \E d \in Calls : tok'[d] = x /\ pc'[d] \in Exchanging
        OBVIOUS
      <4>1. CASE x = t
        BY <3>2, <4>1
      <4>2. CASE x # t
        BY <2>3, <3>2, <4>2
      <4> QED
        BY <4>1, <4>2
    <3>5. ASSUME NEW x \in Tokens, Stored(x) PROVE Stored(x)'
      BY <3>2, <3>5
    <3>6. Stored(n)'
      BY <3>2
    <3>7. \A x \in Tokens : \A k \in succ'[x] : Stored(k)'
      BY <2>3, <3>2, <3>5, <3>6
    <3>8. \A x \in granted' : Stored(x)'
      BY <2>3, <3>2, <3>5
    <3> QED
      BY <3>3, <3>4, <3>7, <3>8
  <2> QED
    BY <2>1, <2>2, <2>3
<1>9. ASSUME NEW c \in Calls, GetGraceClaimed(c) PROVE LineInv'
  BY <1>9 DEF GetGraceClaimed, At, Answer, Refuse, Reset, redis
<1>10. ASSUME NEW c \in Calls, Issue(c) PROVE LineInv'
  BY <1>10 DEF Issue, At
<1>11. ASSUME NEW c \in Calls, MarkUsed(c) PROVE LineInv'
  BY <1>11 DEF MarkUsed, At
<1>12. ASSUME NEW c \in Calls, Reply(c) PROVE LineInv'
  BY <1>12 DEF Reply, At, Reset, redis
<1>13. ASSUME NEW c \in Calls, RevokeGet(c) PROVE LineInv'
  BY <1>13 DEF RevokeGet, At, redis
<1>14. ASSUME NEW c \in Calls, RevokeDel(c) PROVE LineInv'
  BY <1>14 DEF RevokeDel, At
<1>15. ASSUME NEW c \in Calls, Die(c) PROVE LineInv'
  BY <1>15 DEF Die, At, Refuse, Reset, redis
<1>16. ASSUME NEW t \in Tokens, GraceExpires(t) PROVE LineInv'
  <2>1. SUFFICES ASSUME Undisturbed' PROVE LineInv'
    OBVIOUS
  <2>2. Undisturbed /\ ~Unmarked(t)
    BY <1>16, <2>1 DEF GraceExpires
  <2>3. t \in used \/ succ[t] = {}
    BY <2>2 DEF Unmarked
  <2>4. grace' = [grace EXCEPT ![t] = NoToken] /\ UNCHANGED <<rt, used, pc, tok, next, succ, granted>>
    BY <1>16 DEF GraceExpires
  <2>5. \A x \in Tokens \ used' : succ'[x] # {} =>
          grace'[x] # NoToken /\ \E d \in Calls : tok'[d] = x /\ pc'[d] \in Exchanging
    BY <2>2, <2>3, <2>4
  <2> QED
    BY <2>2, <2>4, <2>5
<1>17. CASE ChainExpires
  BY <1>17 DEF ChainExpires
<1>18. CASE UNCHANGED vars
  BY <1>18 DEF vars
<1> QED
  BY <1>1, <1>2, <1>3, <1>4, <1>5, <1>6, <1>7, <1>8, <1>9, <1>10, <1>11,
     <1>12, <1>13, <1>14, <1>15, <1>16, <1>17, <1>18
     DEF Next, Rotate, Revoke

\* LineInv holds in every reachable state.
LEMMA LineHolds == Spec => []LineInv
<1>1. Init => LineInv
  BY DEF Init, LineInv, Stored
<1> QED
  BY <1>1, LineStep, TypeCorrect, RefusedHold, PTL DEF Spec

\* Until a request dies or stalls, a token is exchanged for one successor only.
THEOREM OneSuccessor == Spec => []SingleSuccessor
<1>1. ASSUME TypeOK, LineInv, Undisturbed, NEW t \in Tokens PROVE Cardinality(succ[t]) <= 1
  <2>1. CASE succ[t] = {}
    BY <2>1, FS_EmptySet
  <2>2. CASE succ[t] # {}
    <3>1. PICK n \in succ[t] : TRUE
      BY <2>2
    <3>2. succ[t] = {n}
      BY <1>1, <3>1 DEF LineInv
    <3>3. Cardinality({n}) = 1
      BY FS_Singleton
    <3> QED
      BY <3>2, <3>3
  <2> QED
    BY <2>1, <2>2
<1>2. TypeOK /\ LineInv => SingleSuccessor
  BY <1>1 DEF SingleSuccessor
<1> QED
  BY <1>2, LineHolds, TypeCorrect, PTL

\* Until a request dies or stalls, every token a client has received is stored, or about
\* to be by the request that made it.
THEOREM GrantedTokensAreStored == Spec => []GrantedIsStored
<1>1. LineInv => GrantedIsStored
  BY DEF LineInv, GrantedIsStored
<1> QED
  BY <1>1, LineHolds, PTL

-----------------------------------------------------------------------------
(* The refinement. *)

\* RefreshSession's window and owed, as the instance substitutes them.
Window == {t \in Tokens : grace[t] # NoToken}
Owed == {t \in Tokens : \E c \in Calls : tok[c] = t /\ pc[c] \in {"issue", "markUsed", "reply"}}

\* A step is a step of the session or a stutter, until a request dies or stalls.
SessionStep == [~Undisturbed' \/ Session!Next]_(Session!vars)

\* A death or a stall is not forgotten.
LEMMA DisturbanceStays == TypeOK /\ [Next]_vars => (Undisturbed' => Undisturbed)
<1> SUFFICES ASSUME TypeOK, [Next]_vars PROVE Undisturbed' => Undisturbed
  OBVIOUS
<1>1. faults \in Nat
  BY BoundsAssumption DEF TypeOK
<1>2. /\ faults' = faults \/ faults' = faults + 1
      /\ UNCHANGED stalled \/ \E t \in Tokens : stalled' = (stalled \/ Unmarked(t))
  BY DEF Next, Rotate, Revoke, vars, Begin, BeginRevoke, GetRt, Ttl, GetUsed, GetGraceUsed, DelChain,
     Claim, GetGraceClaimed, Issue, MarkUsed, Reply, RevokeGet, RevokeDel, Die, GraceExpires,
     ChainExpires
<1>3. stalled => stalled'
  BY <1>2
<1>4. faults' = 0 => faults = 0
  BY <1>1, <1>2
<1> QED
  BY <1>3, <1>4 DEF Undisturbed

\* What is owed changes only with a request that comes to owe an answer, or gives it.
LEMMA OwedKept ==
  ASSUME NEW c \in Calls,
         \A d \in Calls \ {c} : tok'[d] = tok[d] /\ pc'[d] = pc[d],
         \/ pc[c] \notin Granting /\ pc'[c] \notin Granting
         \/ pc[c] \in Granting /\ pc'[c] \in Granting /\ tok'[c] = tok[c]
  PROVE  Owed' = Owed
  BY DEF Owed, Granting

\* A request that presents t comes to owe an answer.
LEMMA OwedAdded ==
  ASSUME TypeOK, NEW c \in Calls, tok' = tok, pc' = [pc EXCEPT ![c] = pc'[c]], pc[c] \notin Granting,
         pc'[c] \in Granting
  PROVE  Owed' = Owed \cup {tok[c]}
  BY DEF Owed, Granting, TypeOK

\* A request that presents t has answered; another may owe the same answer.
LEMMA OwedGiven ==
  ASSUME TypeOK, NEW c \in Calls, tok' = tok, pc' = [pc EXCEPT ![c] = "idle"]
  PROVE  Owed' \in {Owed, Owed \ {tok[c]}}
<1>1. \A x \in Tokens \ {tok[c]} : x \in Owed' <=> x \in Owed
  BY DEF Owed, TypeOK
<1>2. tok[c] \in Owed' => tok[c] \in Owed
  BY DEF Owed, TypeOK
<1>3. Owed' \subseteq Tokens /\ Owed \subseteq Tokens
  BY DEF Owed
<1> QED
  BY <1>1, <1>2, <1>3

\* A step that changes none of the session's variables is a stutter of it.
LEMMA Stutters ==
  ASSUME UNCHANGED <<chain, succ, grace, granted>>, Owed' = Owed
  PROVE  SessionStep
<1>1. UNCHANGED Session!vars
  BY DEF Session!vars, Owed
<1> QED
  BY <1>1 DEF SessionStep

\* A step that may end the chain and changes no other of its variables ends the session.
LEMMA EndsSession ==
  ASSUME chain \in BOOLEAN, chain' = FALSE, UNCHANGED <<succ, grace, granted>>, Owed' = Owed
  PROVE  SessionStep
<1>1. CASE chain
  <2>1. Session!End
    BY <1>1 DEF Session!End, Owed
  <2> QED
    BY <2>1 DEF Session!Next, SessionStep
<1>2. CASE ~chain
  BY <1>2, Stutters
<1> QED
  BY <1>1, <1>2

\* Every step is one: Claim exchanges, the grace key answers retries, Reply grants,
\* GraceExpires closes a window, the ends of the chain end the session, the rest
\* stutters.
LEMMA StepRefines ==
  TypeOK /\ LinkInv /\ KnownInv /\ LineInv /\ [Next]_vars => SessionStep
<1> SUFFICES ASSUME TypeOK, LinkInv, KnownInv, LineInv, [Next]_vars PROVE SessionStep
  OBVIOUS
<1>0. CASE ~Undisturbed'
  BY <1>0 DEF SessionStep
<1>t. pc \in [Calls -> {"idle", "getRt", "ttl", "getUsed", "graceUsed", "delChain", "claim",
                        "graceClaimed", "issue", "markUsed", "reply", "revokeGet", "revokeDel"}]
      /\ tok \in [Calls -> Tokens] /\ chain \in BOOLEAN
  BY DEF TypeOK
<1>retry. ASSUME NEW c \in Calls, grace[tok[c]] # NoToken, pc[c] \notin Granting,
                 pc' = [pc EXCEPT ![c] = "reply"], UNCHANGED <<redis, tok, succ, granted>>
          PROVE  SessionStep
  <2>1. Owed' = Owed \cup {tok[c]}
    BY <1>t, <1>retry, OwedAdded DEF Granting
  <2>2. tok[c] \in Tokens
    BY <1>t
  <2>0. PICK t \in Tokens : t = tok[c]
    BY <2>2
  <2>3. Session!Retry(t)
    BY <1>retry, <2>0, <2>1 DEF Session!Retry, redis, Owed
  <2> QED
    BY <2>3 DEF Session!Next, SessionStep
<1>1. ASSUME NEW c \in Calls, NEW t \in Tokens, Begin(c, t) PROVE SessionStep
  <2>1. Owed' = Owed
    BY <1>1, <1>t, OwedKept DEF Begin, At, Granting
  <2> QED
    BY <1>1, <2>1, Stutters DEF Begin, redis
<1>2. ASSUME NEW c \in Calls, NEW t \in Tokens, BeginRevoke(c, t) PROVE SessionStep
  <2>1. Owed' = Owed
    BY <1>2, <1>t, OwedKept DEF BeginRevoke, At, Granting
  <2> QED
    BY <1>2, <2>1, Stutters DEF BeginRevoke, redis
<1>3. ASSUME NEW c \in Calls, GetRt(c) PROVE SessionStep
  <2>1. Owed' = Owed
    BY <1>3, <1>t, OwedKept DEF GetRt, At, Refuse, Granting
  <2> QED
    BY <1>3, <2>1, Stutters DEF GetRt, redis
<1>4. ASSUME NEW c \in Calls, Ttl(c) PROVE SessionStep
  <2>1. Owed' = Owed
    BY <1>4, <1>t, OwedKept DEF Ttl, At, Refuse, Granting
  <2> QED
    BY <1>4, <2>1, Stutters DEF Ttl, redis
<1>5. ASSUME NEW c \in Calls, GetUsed(c) PROVE SessionStep
  <2>1. Owed' = Owed
    BY <1>5, <1>t, OwedKept DEF GetUsed, At, Granting
  <2> QED
    BY <1>5, <2>1, Stutters DEF GetUsed, redis
<1>6. ASSUME NEW c \in Calls, GetGraceUsed(c) PROVE SessionStep
  <2>1. CASE grace[tok[c]] # NoToken
    BY <1>6, <2>1, <1>retry DEF GetGraceUsed, At, Granting
  <2>2. CASE grace[tok[c]] = NoToken
    <3>1. Owed' = Owed
      BY <1>6, <2>2, <1>t, OwedKept DEF GetGraceUsed, At, Granting
    <3> QED
      BY <1>6, <3>1, Stutters DEF GetGraceUsed, redis
  <2> QED
    BY <2>1, <2>2
<1>7. ASSUME NEW c \in Calls, DelChain(c) PROVE SessionStep
  <2>1. Owed' = Owed
    BY <1>7, <1>t, OwedKept DEF DelChain, At, Refuse, Granting
  <2> QED
    BY <1>7, <1>t, <2>1, EndsSession DEF DelChain
<1>8. ASSUME NEW c \in Calls, Claim(c) PROVE SessionStep
  <2>0. PICK t \in Tokens : t = tok[c]
    BY <1>t
  <2>1. CASE grace[t] # NoToken
    <3>1. Owed' = Owed
      BY <1>8, <2>0, <2>1, <1>t, OwedKept DEF Claim, At, Granting
    <3> QED
      BY <1>8, <2>0, <2>1, <3>1, Stutters DEF Claim
  <2>2. CASE Undisturbed /\ grace[t] = NoToken
    <3>1. PICK n \in Tokens : n = fresh + 1
      BY <1>8, <2>0, <2>2 DEF Claim
    <3>2. t \in granted /\ succ[t] = {}
      BY <1>8, <2>0, <2>2, TokenFacts
         DEF Claim, At, TypeOK, LinkInv, KnownInv, LineInv, Exchanging, Undisturbed
    <3>3. n # Root /\ \A x \in Tokens : n \notin succ[x]
      BY <3>1, TokenFacts DEF TypeOK, LinkInv
    <3>4. succ' = [succ EXCEPT ![t] = {n}]
      BY <1>8, <2>0, <2>2, <3>1, <3>2 DEF Claim
    <3>grace. grace' = [grace EXCEPT ![t] = n] /\ n # NoToken
      BY <1>8, <2>0, <2>2, <3>1, TokenFacts DEF Claim
    <3>5. Window' = Window \cup {t}
      BY <3>grace DEF TypeOK, Window
    <3>owed. Owed' = Owed \cup {t}
      BY <1>8, <2>0, <2>2, <1>t, OwedAdded DEF Claim, At, Granting
    <3>6. Session!Exchange(t)
      BY <1>8, <2>0, <3>1, <3>2, <3>3, <3>4, <3>5, <3>owed DEF Claim, Session!Exchange, Window, Owed
    <3> QED
      BY <3>6 DEF Session!Next, SessionStep
  <2> QED
    BY <1>0, <2>1, <2>2, DisturbanceStays
<1>9. ASSUME NEW c \in Calls, GetGraceClaimed(c) PROVE SessionStep
  <2>1. CASE grace[tok[c]] # NoToken
    BY <1>9, <2>1, <1>retry DEF GetGraceClaimed, At, Refuse, Granting
  <2>2. CASE grace[tok[c]] = NoToken
    <3>1. Owed' = Owed
      BY <1>9, <2>2, <1>t, OwedKept DEF GetGraceClaimed, At, Refuse, Granting
    <3> QED
      BY <1>9, <3>1, Stutters DEF GetGraceClaimed, redis
  <2> QED
    BY <2>1, <2>2
<1>10. ASSUME NEW c \in Calls, Issue(c) PROVE SessionStep
  <2>1. Owed' = Owed
    BY <1>10, <1>t, OwedKept DEF Issue, At, Granting
  <2> QED
    BY <1>10, <2>1, Stutters DEF Issue
<1>11. ASSUME NEW c \in Calls, MarkUsed(c) PROVE SessionStep
  <2>1. Owed' = Owed
    BY <1>11, <1>t, OwedKept DEF MarkUsed, At, Granting
  <2> QED
    BY <1>11, <2>1, Stutters DEF MarkUsed
<1>12. ASSUME NEW c \in Calls, Reply(c) PROVE SessionStep
  <2>0. PICK t \in Tokens : t = tok[c]
    BY <1>t
  <2>1. t \in Owed /\ next[c] \in succ[t]
    BY <1>12, <2>0 DEF Reply, At, LinkInv, Granting, Owed
  <2>2. CASE Undisturbed
    <3>1. succ[t] = {next[c]}
      BY <2>1, <2>2 DEF LineInv
    <3>2. Owed' \in {Owed, Owed \ {t}}
      BY <1>12, <2>0, OwedGiven DEF Reply, At
    <3>3. Session!Grant(t)
      BY <1>12, <2>0, <2>1, <3>1, <3>2 DEF Reply, redis, Session!Grant, Owed
    <3> QED
      BY <3>3 DEF Session!Next, SessionStep
  <2> QED
    BY <1>0, <2>2, DisturbanceStays
<1>13. ASSUME NEW c \in Calls, RevokeGet(c) PROVE SessionStep
  <2>1. Owed' = Owed
    BY <1>13, <1>t, OwedKept DEF RevokeGet, At, Granting
  <2> QED
    BY <1>13, <2>1, Stutters DEF RevokeGet, redis
<1>14. ASSUME NEW c \in Calls, RevokeDel(c) PROVE SessionStep
  <2>1. Owed' = Owed
    BY <1>14, <1>t, OwedKept DEF RevokeDel, At, Granting
  <2> QED
    BY <1>14, <1>t, <2>1, EndsSession DEF RevokeDel
<1>15. ASSUME NEW c \in Calls, Die(c) PROVE SessionStep
  <2>1. faults \in Nat /\ faults' = faults + 1
    BY <1>15, BoundsAssumption DEF Die, TypeOK
  <2> QED
    BY <1>0, <2>1 DEF Undisturbed
<1>16. ASSUME NEW t \in Tokens, GraceExpires(t) PROVE SessionStep
  <2>1. t \in Window /\ Window' = Window \ {t}
    BY <1>16, TokenFacts DEF GraceExpires, TypeOK, Window
  <2>2. Session!CloseWindow(t)
    BY <1>16, <2>1 DEF GraceExpires, Session!CloseWindow, Window
  <2> QED
    BY <2>2 DEF Session!Next, SessionStep
<1>17. CASE ChainExpires
  <2>1. Owed' = Owed
    BY <1>17 DEF ChainExpires, Owed
  <2> QED
    BY <1>17, <1>t, <2>1, EndsSession DEF ChainExpires
<1>18. CASE UNCHANGED vars
  <2>1. Owed' = Owed
    BY <1>18 DEF vars, Owed
  <2> QED
    BY <1>18, <2>1, Stutters DEF vars
<1> QED
  BY <1>1, <1>2, <1>3, <1>4, <1>5, <1>6, <1>7, <1>8, <1>9, <1>10, <1>11, <1>12, <1>13,
     <1>14, <1>15, <1>16, <1>17, <1>18
     DEF Next, Rotate, Revoke

\* Until a request dies or stalls, the store implements the session's abstract rules,
\* whenever grace keys expire among its calls.
THEOREM StoreImplementsSession == Spec => ImplementsSession
<1>1. Init => Session!Init
  BY DEF Init, Session!Init
<1> QED
  BY <1>1, StepRefines, TypeCorrect, RefusedHold, LineHolds, PTL
     DEF Spec, ImplementsSession, SessionStep
=============================================================================
