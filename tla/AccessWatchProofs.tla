-------------------------- MODULE AccessWatchProofs --------------------------
(***************************************************************************)
(* Proofs about AccessWatch, for any connections, times to live, durations *)
(* of a check and numbers of changes, evictions and failures.              *)
(***************************************************************************)
EXTENDS AccessWatch, TLAPS

Places == {"rest", "session", "gen", "cached", "ask", "set", "done", "opening"}

\* The types of the variables that are not Boolean, as weak as the proofs allow.
Typed ==
  /\ policy \in Decisions /\ age \in Nat /\ faults \in Nat
  /\ gen \in Gens
  /\ cache \in [Gens -> [val : Decisions, ttl : Nat]]
  /\ \A x \in Gens : x > gen => cache[x] = Free
  /\ evicting \subseteq Gens
  /\ open \subseteq Streams /\ watching \subseteq Streams
  /\ timer \in [Streams -> 0 .. AllowedTtl]
  /\ pc \in [Streams -> Places]
  /\ g \in [Streams -> Gens] /\ ans \in [Streams -> Decisions]
  /\ \A s \in Streams : g[s] <= gen
  /\ left \in [Streams -> 0 .. MaxDelay]
  /\ since \in [Streams -> Nat] /\ gone \in [Streams -> Nat]

Constants ==
  /\ AllowedTtl \in Nat \ {0} /\ DeniedTtl \in Nat \ {0} /\ MaxDelay \in Nat
  /\ MaxDelay < AllowedTtl /\ MaxGen \in Nat /\ MaxAge \in Nat
  /\ 0 \in 0 .. AllowedTtl /\ AllowedTtl \in 0 .. AllowedTtl
  /\ 0 \in 0 .. MaxDelay /\ MaxDelay \in 0 .. MaxDelay

LEMMA ConstantTypes == Constants
BY TtlAssumption, DelayAssumption, BoundsAssumption DEF Constants

LEMMA FreeType == Free \in [val : Decisions, ttl : Nat]
BY DEF Free, Decisions

LEMMA Decrement ==
  ASSUME NEW e \in [val : Decisions, ttl : Nat], e.ttl > 1
  PROVE  /\ [e EXCEPT !.ttl = @ - 1] \in [val : Decisions, ttl : Nat]
         /\ [e EXCEPT !.ttl = @ - 1].val = e.val /\ [e EXCEPT !.ttl = @ - 1].ttl = e.ttl - 1
<1>1. e.ttl - 1 \in Nat
  OBVIOUS
<1> QED
  BY <1>1

LEMMA TypedStep ==
  ASSUME Typed, [Next]_vars
  PROVE  Typed'
<1>0. Constants /\ Free \in [val : Decisions, ttl : Nat]
  BY ConstantTypes, FreeType
<1> USE <1>0 DEF Typed, Places, Gens, world, store, At, Finish, Constants
<1>1. ASSUME NEW s \in Streams, Request(s) PROVE Typed'
  BY <1>1 DEF Request, Begin
<1>2. ASSUME NEW s \in Streams, Respond(s) PROVE Typed'
  <2>1. /\ pc' = [pc EXCEPT ![s] = "rest"] \/ pc' = [pc EXCEPT ![s] = "opening"]
        /\ g' = [g EXCEPT ![s] = 0] /\ ans' = [ans EXCEPT ![s] = "denied"]
        /\ left' = [left EXCEPT ![s] = 0] /\ watching' \subseteq watching
        /\ UNCHANGED <<world, store, evicting, open, timer, faults, since, gone>>
    BY <1>2 DEF Respond
  <2>2. pc' \in [Streams -> Places]
    BY <2>1
  <2>3. g' \in [Streams -> Gens] /\ \A r \in Streams : g'[r] <= gen
    BY <2>1
  <2>4. ans' \in [Streams -> Decisions] /\ left' \in [Streams -> 0 .. MaxDelay]
    BY <2>1 DEF Decisions
  <2> QED
    BY <2>1, <2>2, <2>3, <2>4
<1>19. ASSUME NEW s \in Streams, Open(s) PROVE Typed'
  BY <1>19 DEF Open
<1>3. ASSUME NEW s \in Streams, GetGen(s) PROVE Typed'
  <2>1. /\ pc' = [pc EXCEPT ![s] = "cached"] /\ g' = [g EXCEPT ![s] = gen]
        /\ UNCHANGED <<world, store, evicting, open, watching, timer, ans, left, faults, since, gone>>
    BY <1>3 DEF GetGen
  <2>2. pc' \in [Streams -> Places]
    BY <2>1
  <2>3. g' \in [Streams -> Gens] /\ \A r \in Streams : g'[r] <= gen
    BY <2>1
  <2> QED
    BY <2>1, <2>2, <2>3
<1>4. ASSUME NEW s \in Streams, GetCached(s) PROVE Typed'
  BY <1>4 DEF GetCached
<1>5. ASSUME NEW s \in Streams, Ask(s) PROVE Typed'
  BY <1>5 DEF Ask, Decisions
<1>6. ASSUME NEW s \in Streams, SetCached(s) PROVE Typed'
  <2> DEFINE e == [val |-> ans[s], ttl |-> Ttl(ans[s])]
  <2>1. e \in [val : Decisions, ttl : Nat]
    BY DEF Ttl
  <2>2. /\ cache' = [cache EXCEPT ![g[s]] = e] /\ pc' = [pc EXCEPT ![s] = "done"]
        /\ UNCHANGED <<world, gen, evicting, open, watching, timer, g, ans, left, faults, since, gone>>
    BY <1>6 DEF SetCached
  <2> HIDE DEF e
  <2>3. /\ cache' \in [Gens -> [val : Decisions, ttl : Nat]]
        /\ \A x \in Gens : x > gen => cache'[x] = Free
    BY <2>1, <2>2
  <2>4. pc' \in [Streams -> Places]
    BY <2>2
  <2> QED
    BY <2>2, <2>3, <2>4
<1>7. ASSUME NEW s \in Streams, Fire(s) PROVE Typed'
  <2>1. /\ timer' = [timer EXCEPT ![s] = AllowedTtl]
        /\ pc' = pc \/ pc' = [pc EXCEPT ![s] = "session"]
        /\ left' = left \/ left' = [left EXCEPT ![s] = MaxDelay]
        /\ watching' = watching \/ watching' = watching \cup {s}
        /\ UNCHANGED <<world, store, evicting, open, g, ans, faults, since, gone>>
    BY <1>7 DEF Fire, Begin
  <2>2. timer' \in [Streams -> 0 .. AllowedTtl]
    BY <2>1
  <2>4. left' \in [Streams -> 0 .. MaxDelay]
    BY <2>1
  <2>3. pc' \in [Streams -> Places] /\ watching' \subseteq Streams
    BY <2>1
  <2> QED
    BY <2>1, <2>2, <2>3, <2>4
<1>8. ASSUME NEW s \in Streams, CheckSession(s) PROVE Typed'
  BY <1>8 DEF CheckSession, Decisions
<1>9. ASSUME NEW s \in Streams, Decide(s) PROVE Typed'
  <2>1. /\ pc' \in [Streams -> Places] /\ g' \in [Streams -> Gens]
        /\ \A r \in Streams : g'[r] <= gen
    BY <1>9 DEF Decide
  <2>2. ans' \in [Streams -> Decisions] /\ left' \in [Streams -> 0 .. MaxDelay]
    BY <1>9 DEF Decide, Decisions
  <2>3. /\ open' = open \/ open' = open \ {s}
        /\ timer' = timer \/ timer' = [timer EXCEPT ![s] = 0]
        /\ since' = since \/ since' = [since EXCEPT ![s] = 0]
        /\ gone' = gone \/ gone' = [gone EXCEPT ![s] = 0]
        /\ watching' = watching \ {s}
    BY <1>9 DEF Decide, CloseStream
  <2>4. timer' \in [Streams -> 0 .. AllowedTtl]
    BY <2>3
  <2>5. since' \in [Streams -> Nat] /\ gone' \in [Streams -> Nat]
    <3>1. /\ since \in [Streams -> Nat] /\ [since EXCEPT ![s] = 0] \in [Streams -> Nat]
          /\ gone \in [Streams -> Nat] /\ [gone EXCEPT ![s] = 0] \in [Streams -> Nat]
      OBVIOUS
    <3> QED
      BY <2>3, <3>1
  <2> QED
    BY <1>9, <2>1, <2>2, <2>3, <2>4, <2>5 DEF Decide
<1>10. ASSUME NEW s \in Streams, CheckFails(s) PROVE Typed'
  <2>1. /\ pc' = [pc EXCEPT ![s] = "rest"]
        /\ g' = [g EXCEPT ![s] = 0] /\ ans' = [ans EXCEPT ![s] = "denied"]
        /\ left' = [left EXCEPT ![s] = 0] /\ watching' \subseteq watching
        /\ faults' = faults + 1
        /\ UNCHANGED <<world, store, evicting, open, timer, since, gone>>
    BY <1>10 DEF CheckFails
  <2>2. pc' \in [Streams -> Places]
    BY <2>1
  <2>3. g' \in [Streams -> Gens] /\ \A r \in Streams : g'[r] <= gen
    BY <2>1
  <2>4. ans' \in [Streams -> Decisions] /\ left' \in [Streams -> 0 .. MaxDelay]
    BY <2>1 DEF Decisions
  <2>5. faults' \in Nat /\ watching' \subseteq Streams
    BY <2>1
  <2>6. /\ cache' \in [Gens -> [val : Decisions, ttl : Nat]] /\ gen' \in Gens
        /\ \A x \in Gens : x > gen' => cache'[x] = Free
    BY <2>1
  <2> QED
    BY <2>1, <2>2, <2>3, <2>4, <2>5, <2>6
<1>11. ASSUME NEW s \in Streams, StreamEnds(s) PROVE Typed'
  BY <1>11 DEF StreamEnds, CloseStream
<1>12. CASE Change
  BY <1>12 DEF Change, Decisions
<1>13. CASE EvictGet
  BY <1>13 DEF EvictGet
<1>14. CASE EvictDel
  BY <1>14 DEF EvictDel
<1>15. CASE EvictAll
  BY <1>15 DEF EvictAll
<1>16. CASE SignOut
  BY <1>16 DEF SignOut
<1>17. CASE Tick
  <2>1. age' \in Nat /\ since' \in [Streams -> Nat] /\ gone' \in [Streams -> Nat]
    <3>1. \A n \in Nat : Older(n) \in Nat
      BY DEF Older
    <3>2. age' \in Nat
      BY <1>17, <3>1 DEF Tick
    <3>3. \A s \in Streams : since[s] \in Nat /\ gone[s] \in Nat
      OBVIOUS
    <3>4. since' \in [Streams -> Nat]
      BY <1>17, <3>1, <3>3 DEF Tick
    <3>5. gone' \in [Streams -> Nat]
      BY <1>17, <3>1, <3>3 DEF Tick
    <3> QED
      BY <3>2, <3>4, <3>5
  <2>2. timer' \in [Streams -> 0 .. AllowedTtl]
    BY <1>17 DEF Tick
  <2>3. left' \in [Streams -> 0 .. MaxDelay]
    <3>1. \A s \in Streams : (IF Checking(s) THEN left[s] - 1 ELSE 0) \in 0 .. MaxDelay
      BY <1>17 DEF Tick
    <3> QED
      BY <1>17, <3>1 DEF Tick
  <2>4. /\ cache' \in [Gens -> [val : Decisions, ttl : Nat]]
        /\ \A x \in Gens : x > gen => cache'[x] = Free
    <3>2. \A x \in Gens : cache'[x] \in [val : Decisions, ttl : Nat]
      BY <1>17, Decrement DEF Tick
    <3>3. \A x \in Gens : x > gen => cache'[x] = Free
      BY <1>17 DEF Tick, Free
    <3> QED
      BY <1>17, <3>2, <3>3 DEF Tick
  <2> QED
    BY <1>17, <2>1, <2>2, <2>3, <2>4 DEF Tick
<1>18. CASE UNCHANGED vars
  BY <1>18 DEF vars
<1> QED
  BY <1>1, <1>2, <1>3, <1>4, <1>5, <1>6, <1>7, <1>8, <1>9, <1>10, <1>11, <1>12, <1>13, <1>14,
     <1>15, <1>16, <1>17, <1>18, <1>19 DEF Next, Check

\* The start of every run.
LEMMA TypedInit == Init => Typed
<1>1. Constants /\ Free \in [val : Decisions, ttl : Nat] /\ 0 \in Gens
  BY ConstantTypes, FreeType DEF Gens, Constants
<1> QED
  BY <1>1 DEF Init, Typed, Constants, Decisions, Places

-----------------------------------------------------------------------------
(* Type correctness. *)

\* The bounds of the numbers, the Boolean variables, and that a watch's check runs.
Counted ==
  /\ age \in 0 .. MaxAge /\ faults \in 0 .. MaxFaults
  /\ since \in [Streams -> 0 .. MaxAge] /\ gone \in [Streams -> 0 .. MaxAge]
Flags == sess \in BOOLEAN /\ evicted \in BOOLEAN /\ late \in [Streams -> BOOLEAN]
Expiring == \A x \in Gens : cache[x].ttl <= AllowedTtl + DeniedTtl
Running == \A s \in watching : Checking(s)

LEMMA CountedStep ==
  ASSUME Typed, Counted, changes \in 0 .. MaxChanges, [Next]_vars
  PROVE  Counted' /\ changes' \in 0 .. MaxChanges
<1>0. MaxAge \in Nat /\ MaxFaults \in Nat /\ MaxChanges \in Nat
  BY BoundsAssumption
<1> USE <1>0 DEF world, store, At, Finish
<1>1. ASSUME NEW s \in Streams,
             Request(s) \/ Respond(s) \/ Open(s) \/ Check(s) \/ Fire(s) \/ CheckSession(s)
      PROVE  UNCHANGED <<age, faults, since, gone, changes>>
  BY <1>1 DEF Request, Respond, Open, Check, GetGen, GetCached, Ask, SetCached, Fire, CheckSession
<1>2. ASSUME NEW s \in Streams, Decide(s) \/ CheckFails(s) \/ StreamEnds(s)
      PROVE  Counted' /\ changes' = changes
  <2>0. /\ since' = since \/ since' = [since EXCEPT ![s] = 0]
        /\ gone' = gone \/ gone' = [gone EXCEPT ![s] = 0]
    BY <1>2 DEF Decide, CheckFails, StreamEnds, CloseStream
  <2>1. UNCHANGED <<age, changes>>
    BY <1>2 DEF Decide, CheckFails, StreamEnds
  <2>2. since' \in [Streams -> 0 .. MaxAge] /\ gone' \in [Streams -> 0 .. MaxAge]
    <3>1. /\ since \in [Streams -> 0 .. MaxAge] /\ gone \in [Streams -> 0 .. MaxAge]
          /\ 0 \in 0 .. MaxAge
      BY DEF Counted
    <3>2. /\ [since EXCEPT ![s] = 0] \in [Streams -> 0 .. MaxAge]
          /\ [gone EXCEPT ![s] = 0] \in [Streams -> 0 .. MaxAge]
      BY <3>1
    <3> QED
      BY <2>0, <3>1, <3>2
  <2>3. faults' \in 0 .. MaxFaults
    <3>1. CASE faults' = faults
      BY <3>1 DEF Counted
    <3>2. CASE faults < MaxFaults /\ faults' = faults + 1
      BY <3>2 DEF Counted
    <3>3. faults' = faults \/ CheckFails(s)
      BY <1>2 DEF Decide, StreamEnds
    <3> QED
      BY <3>1, <3>2, <3>3 DEF CheckFails
  <2> QED
    BY <2>1, <2>2, <2>3 DEF Counted
<1>3. CASE Change
  BY <1>3 DEF Change, Counted
<1>4. CASE EvictGet \/ EvictDel \/ EvictAll \/ SignOut \/ UNCHANGED vars
  BY <1>4 DEF EvictGet, EvictDel, EvictAll, SignOut, vars, Counted
<1>5. CASE Tick
  <2>1. \A n \in 0 .. MaxAge : Older(n) \in 0 .. MaxAge
    BY DEF Older
  <2>2. age' \in 0 .. MaxAge /\ UNCHANGED <<faults, changes>>
    BY <1>5, <2>1 DEF Tick, Counted
  <2>3. since' \in [Streams -> 0 .. MaxAge] /\ gone' \in [Streams -> 0 .. MaxAge]
    <3>1. \A s \in Streams :
            /\ (IF s \in open THEN Older(since[s]) ELSE 0) \in 0 .. MaxAge
            /\ (IF s \in open /\ ~sess THEN Older(gone[s]) ELSE 0) \in 0 .. MaxAge
      BY <2>1 DEF Counted
    <3> QED
      BY <1>5, <3>1 DEF Tick
  <2> QED
    BY <2>2, <2>3 DEF Counted
<1> QED
  BY <1>1, <1>2, <1>3, <1>4, <1>5 DEF Next, Counted

LEMMA FlagsStep ==
  ASSUME Flags, [Next]_vars
  PROVE  Flags'
<1> USE DEF world, store, Finish, Flags
<1>1. ASSUME NEW s \in Streams, Request(s) \/ Fire(s) PROVE Flags'
  BY <1>1 DEF Request, Fire, Begin
<1>2. ASSUME NEW s \in Streams, Respond(s) \/ Decide(s) \/ CheckFails(s) PROVE Flags'
  BY <1>2 DEF Respond, Decide, CheckFails
<1>3. ASSUME NEW s \in Streams, Open(s) \/ Check(s) \/ CheckSession(s) \/ StreamEnds(s)
      PROVE  Flags'
  BY <1>3 DEF Open, Check, GetGen, GetCached, Ask, SetCached, CheckSession, StreamEnds
<1>4. CASE Change \/ EvictAll \/ SignOut
  BY <1>4 DEF Change, EvictAll, SignOut
<1>5. CASE EvictGet \/ EvictDel \/ Tick \/ UNCHANGED vars
  BY <1>5 DEF EvictGet, EvictDel, Tick, vars
<1> QED
  BY <1>1, <1>2, <1>3, <1>4, <1>5 DEF Next

LEMMA ExpiringStep ==
  ASSUME Typed, Expiring, [Next]_vars
  PROVE  Expiring'
<1>0. AllowedTtl \in Nat /\ DeniedTtl \in Nat /\ Free.ttl = 0
  BY ConstantTypes DEF Constants, Free
<1> USE <1>0 DEF world, store
<1>1. ASSUME NEW s \in Streams, SetCached(s) PROVE Expiring'
  <2> DEFINE e == [val |-> ans[s], ttl |-> Ttl(ans[s])]
  <2>1. cache' = [cache EXCEPT ![g[s]] = e]
    BY <1>1 DEF SetCached
  <2>2. e.ttl <= AllowedTtl + DeniedTtl
    BY DEF Ttl
  <2> HIDE DEF e
  <2>3. \A x \in Gens : cache'[x] = e \/ cache'[x] = cache[x]
    BY <2>1 DEF Typed
  <2> QED
    BY <2>2, <2>3 DEF Expiring
<1>2. CASE EvictDel
  <2>1. \A x \in Gens : cache'[x] = Free \/ cache'[x] = cache[x]
    BY <1>2 DEF EvictDel, Typed
  <2> QED
    BY <2>1 DEF Expiring
<1>3. CASE Tick
  <2> SUFFICES ASSUME NEW x \in Gens PROVE cache'[x].ttl <= AllowedTtl + DeniedTtl
    BY DEF Expiring
  <2>1. cache'[x] = IF cache[x].ttl > 1 THEN [cache[x] EXCEPT !.ttl = @ - 1] ELSE Free
    BY <1>3 DEF Tick
  <2>2. cache[x] \in [val : Decisions, ttl : Nat] /\ cache[x].ttl \in Nat
    BY DEF Typed
  <2>3. CASE cache[x].ttl > 1
    <3>1. cache'[x].ttl = cache[x].ttl - 1
      BY <2>1, <2>2, <2>3, Decrement
    <3> QED
      BY <2>2, <3>1 DEF Expiring
  <2>4. CASE ~(cache[x].ttl > 1)
    BY <2>1, <2>4
  <2> QED
    BY <2>3, <2>4
<1>4. ASSUME NEW s \in Streams,
             \/ Request(s) \/ Respond(s) \/ Open(s) \/ GetGen(s) \/ GetCached(s) \/ Ask(s)
             \/ Fire(s) \/ CheckSession(s) \/ Decide(s) \/ CheckFails(s) \/ StreamEnds(s)
      PROVE  cache' = cache
  BY <1>4 DEF Request, Respond, Open, GetGen, GetCached, Ask, Fire, CheckSession, Decide,
              CheckFails, StreamEnds
<1>5. CASE Change \/ EvictGet \/ EvictAll \/ SignOut \/ UNCHANGED vars
  BY <1>5 DEF Change, EvictGet, EvictAll, SignOut, vars, Expiring
<1> QED
  BY <1>1, <1>2, <1>3, <1>4, <1>5 DEF Next, Check, Expiring

LEMMA RunningStep ==
  ASSUME Typed, Running, [Next]_vars
  PROVE  Running'
<1>0. pc \in [Streams -> Places] /\ watching \subseteq Streams
  BY DEF Typed
<1> USE <1>0 DEF world, At, Running, Checking
<1>1. ASSUME NEW s \in Streams, Request(s) \/ Check(s) \/ CheckSession(s) PROVE Running'
  BY <1>1 DEF Request, Begin, Check, GetGen, GetCached, Ask, SetCached, CheckSession
<1>2. ASSUME NEW s \in Streams, Respond(s) \/ Open(s) \/ Decide(s) \/ CheckFails(s)
      PROVE  Running'
  BY <1>2 DEF Respond, Open, Decide, CheckFails, Finish
<1>3. ASSUME NEW s \in Streams, Fire(s) PROVE Running'
  BY <1>3 DEF Fire, Begin
<1>4. ASSUME NEW s \in Streams, StreamEnds(s) PROVE Running'
  BY <1>4 DEF StreamEnds
<1>5. CASE Change \/ EvictGet \/ EvictDel \/ EvictAll \/ SignOut \/ Tick \/ UNCHANGED vars
  BY <1>5 DEF Change, EvictGet, EvictDel, EvictAll, SignOut, Tick, vars
<1> QED
  BY <1>1, <1>2, <1>3, <1>4, <1>5 DEF Next

\* Type correctness.
THEOREM TypeCorrect == Spec => []TypeOK
<1> DEFINE Inv == /\ Typed /\ Counted /\ Flags /\ Expiring /\ Running
                  /\ changes \in 0 .. MaxChanges
<1>1. Init => Inv
  <2>1. 0 \in 0 .. MaxAge /\ 0 \in 0 .. MaxFaults /\ 0 \in 0 .. MaxChanges
    BY BoundsAssumption
  <2>2. Init => Counted /\ changes \in 0 .. MaxChanges
    BY <2>1 DEF Init, Counted
  <2>3. Init => Flags /\ Running
    BY DEF Init, Flags, Running
  <2>4. Init => Expiring
    BY ConstantTypes DEF Init, Expiring, Free, Constants
  <2> QED
    BY <2>2, <2>3, <2>4, TypedInit
<1>2. Inv /\ [Next]_vars => Inv'
  BY TypedStep, CountedStep, FlagsStep, ExpiringStep, RunningStep
<1>3. Inv => TypeOK
  <2> SUFFICES ASSUME Inv PROVE TypeOK
    OBVIOUS
  <2>1. cache \in [Gens -> [val : Decisions, ttl : 0 .. AllowedTtl + DeniedTtl]]
    <3>1. \A x \in Gens : cache[x] \in [val : Decisions, ttl : 0 .. AllowedTtl + DeniedTtl]
      BY ConstantTypes DEF Typed, Expiring, Constants
    <3> QED
      BY <3>1 DEF Typed
  <2> QED
    BY <2>1 DEF Typed, Counted, Flags, Running, Checking, TypeOK, Places
<1> QED
  BY <1>1, <1>2, <1>3, PTL DEF Spec

-----------------------------------------------------------------------------
(* Evicting everyone. *)

\* No generation from x on holds or is about to get a decision to allow.
Denies(x) ==
  /\ \A y \in Gens : y >= x /\ cache[y].ttl > 0 => cache[y].val = "denied"
  /\ \A t \in Streams : pc[t] = "set" /\ g[t] >= x => ans[t] = "denied"

\* After an eviction of everyone the current generation denies what the webhook denies, and so
\* does the generation of every check that began after it.
FinalInv ==
  /\ evicted \in BOOLEAN /\ late \in [Streams -> BOOLEAN]
  /\ \A s \in Streams : late[s] => evicted
  /\ policy = "denied" =>
       /\ evicted => Denies(gen)
       /\ \A s \in Streams : late[s] /\ pc[s] \in {"cached", "ask", "set"} => Denies(g[s])
       /\ \A s \in Streams : late[s] /\ pc[s] = "done" => ans[s] = "denied"

\* The steps that write no decision into the cache.
LEMMA FinalFrame ==
  ASSUME Typed, FinalInv, UNCHANGED <<policy, evicted, gen>>, late' \in [Streams -> BOOLEAN],
         \A y \in Gens : cache'[y].ttl > 0 => cache[y].ttl > 0 /\ cache'[y].val = cache[y].val,
         \A t \in Streams : pc'[t] = "set" =>
           g'[t] = g[t] /\ (ans'[t] = policy \/ (pc[t] = "set" /\ ans'[t] = ans[t])),
         \A s \in Streams : late'[s] => late[s] \/ evicted,
         \A s \in Streams : late'[s] /\ pc'[s] \in {"cached", "ask", "set"} =>
           \/ g'[s] = gen
           \/ late[s] /\ pc[s] \in {"cached", "ask", "set"} /\ g'[s] = g[s],
         \A s \in Streams : late'[s] /\ pc'[s] = "done" /\ policy = "denied" => ans'[s] = "denied"
  PROVE  FinalInv'
<1>1. \A s \in Streams : late'[s] => evicted
  BY DEF FinalInv
<1>2. ASSUME NEW x \in Gens, policy = "denied", Denies(x) PROVE Denies(x)'
  <2>1. \A y \in Gens : y >= x /\ cache'[y].ttl > 0 => cache'[y].val = "denied"
    BY <1>2 DEF Denies
  <2>2. \A t \in Streams : pc'[t] = "set" /\ g'[t] >= x => ans'[t] = "denied"
    BY <1>2 DEF Denies
  <2> QED
    BY <2>1, <2>2 DEF Denies
<1>3. policy = "denied" => (evicted => Denies(gen)')
  BY <1>2 DEF FinalInv, Typed
<1>4. ASSUME policy = "denied", NEW s \in Streams, late'[s], pc'[s] \in {"cached", "ask", "set"}
      PROVE  Denies(g[s])' 
  <2>1. CASE g'[s] = gen
    <3>1. Denies(gen)'
      BY <1>1, <1>3, <1>4
    <3> QED
      BY <2>1, <3>1 DEF Denies
  <2>2. CASE late[s] /\ pc[s] \in {"cached", "ask", "set"} /\ g'[s] = g[s]
    <3>1. Denies(g[s]) /\ g[s] \in Gens
      BY <1>4, <2>2 DEF FinalInv, Typed
    <3> DEFINE x == g[s]
    <3>2. \A y \in Gens : y >= x /\ cache'[y].ttl > 0 => cache'[y].val = "denied"
      BY <1>4, <3>1 DEF Denies
    <3>3. \A t \in Streams : pc'[t] = "set" /\ g'[t] >= x => ans'[t] = "denied"
      BY <1>4, <3>1 DEF Denies
    <3> QED
      BY <2>2, <3>2, <3>3 DEF Denies
  <2> QED
    BY <1>4, <2>1, <2>2
<1>5. (policy = "denied" /\ evicted => Denies(gen))'
  <2>1. gen' = gen
    OBVIOUS
  <2> QED
    BY <1>3, <2>1 DEF Denies
<1> QED
  BY <1>1, <1>4, <1>5 DEF FinalInv

\* What FinalFrame asks of a step, where stream s moves from one call to the next.
LEMMA FinalMove ==
  ASSUME Typed, FinalInv, UNCHANGED <<policy, evicted, gen, cache>>,
         NEW s \in Streams,
         late' = late \/ late' = [late EXCEPT ![s] = evicted]
           \/ late' = [late EXCEPT ![s] = FALSE],
         \A t \in Streams \ {s} : pc'[t] = pc[t] /\ g'[t] = g[t] /\ ans'[t] = ans[t],
         \/ pc'[s] \in {"rest", "session", "gen", "opening"}
         \/ pc'[s] = "cached" /\ g'[s] = gen
         \/ pc'[s] = "ask" /\ pc[s] = "cached" /\ g'[s] = g[s] /\ late' = late
         \/ pc'[s] = "set" /\ pc[s] = "ask" /\ g'[s] = g[s] /\ ans'[s] = policy /\ late' = late
         \/ /\ pc'[s] = "done"
            /\ late'[s] /\ policy = "denied" => ans'[s] = "denied"
  PROVE  FinalInv'
<1>1. late' \in [Streams -> BOOLEAN] /\ \A t \in Streams \ {s} : late'[t] = late[t]
  BY DEF FinalInv
<1>2. \A t \in Streams : late'[t] => late[t] \/ evicted
  BY DEF FinalInv
<1>3. \A t \in Streams : pc'[t] = "set" =>
        g'[t] = g[t] /\ (ans'[t] = policy \/ (pc[t] = "set" /\ ans'[t] = ans[t]))
  OBVIOUS
<1>4. ASSUME NEW t \in Streams, late'[t], pc'[t] \in {"cached", "ask", "set"}
      PROVE  \/ g'[t] = gen
             \/ late[t] /\ pc[t] \in {"cached", "ask", "set"} /\ g'[t] = g[t]
  <2>1. CASE t = s
    BY <1>4, <2>1
  <2>2. CASE t # s
    BY <1>1, <1>4, <2>2
  <2> QED
    BY <2>1, <2>2
<1>5. ASSUME NEW t \in Streams, late'[t], pc'[t] = "done", policy = "denied"
      PROVE  ans'[t] = "denied"
  <2>1. CASE t = s
    BY <1>5, <2>1
  <2>2. CASE t # s
    BY <1>1, <1>5, <2>2 DEF FinalInv
  <2> QED
    BY <2>1, <2>2
<1>6. \A y \in Gens : cache'[y].ttl > 0 => cache[y].ttl > 0 /\ cache'[y].val = cache[y].val
  OBVIOUS
<1> QED
  BY <1>1, <1>2, <1>3, <1>4, <1>5, <1>6, FinalFrame

LEMMA FinalStep ==
  ASSUME Typed, FinalInv, [Next]_vars
  PROVE  FinalInv'
<1>0. Constants /\ Free.ttl = 0 /\ pc \in [Streams -> Places]
  BY ConstantTypes DEF Free, Typed
<1> USE <1>0 DEF world, store, At, Finish
<1>1. ASSUME NEW s \in Streams, Request(s) PROVE FinalInv'
  <2>1. /\ UNCHANGED <<policy, evicted, gen, cache, g, ans>> /\ pc' = [pc EXCEPT ![s] = "gen"]
        /\ late' = [late EXCEPT ![s] = evicted]
    BY <1>1 DEF Request, Begin
  <2> QED
    BY <2>1, FinalMove
<1>2. ASSUME NEW s \in Streams, Respond(s) \/ Decide(s) \/ CheckFails(s) PROVE FinalInv'
  <2>1. /\ UNCHANGED <<policy, evicted, gen, cache>>
        /\ pc' = [pc EXCEPT ![s] = "rest"] \/ pc' = [pc EXCEPT ![s] = "opening"]
        /\ late' = [late EXCEPT ![s] = FALSE] /\ g' = [g EXCEPT ![s] = 0]
        /\ ans' = [ans EXCEPT ![s] = "denied"]
    BY <1>2 DEF Respond, Decide, CheckFails
  <2>2. /\ pc'[s] \in {"rest", "opening"}
        /\ \A t \in Streams \ {s} : pc'[t] = pc[t] /\ g'[t] = g[t] /\ ans'[t] = ans[t]
    BY <2>1 DEF Typed
  <2> QED
    BY <2>1, <2>2, FinalMove
<1>17. ASSUME NEW s \in Streams, Open(s) PROVE FinalInv'
  <2>1. /\ UNCHANGED <<policy, evicted, gen, cache, late, g, ans>>
        /\ pc' = [pc EXCEPT ![s] = "rest"]
    BY <1>17 DEF Open
  <2> QED
    BY <2>1, FinalMove
<1>3. ASSUME NEW s \in Streams, GetGen(s) PROVE FinalInv'
  <2>1. /\ UNCHANGED <<policy, evicted, gen, cache, late, ans>>
        /\ pc' = [pc EXCEPT ![s] = "cached"] /\ g' = [g EXCEPT ![s] = gen]
    BY <1>3 DEF GetGen
  <2>2. /\ pc'[s] = "cached" /\ g'[s] = gen
        /\ \A t \in Streams \ {s} : pc'[t] = pc[t] /\ g'[t] = g[t] /\ ans'[t] = ans[t]
    BY <2>1 DEF Typed
  <2> QED
    BY <2>1, <2>2, FinalMove
<1>4. ASSUME NEW s \in Streams, GetCached(s) PROVE FinalInv'
  <2>1. UNCHANGED <<policy, evicted, gen, cache, late, g>> /\ pc[s] = "cached"
    BY <1>4 DEF GetCached
  <2>2. CASE cache[g[s]].ttl > 0
    <3>1. pc' = [pc EXCEPT ![s] = "done"] /\ ans' = [ans EXCEPT ![s] = cache[g[s]].val]
      BY <1>4, <2>2 DEF GetCached, Typed
    <3>2. g[s] \in Gens /\ g[s] \in Nat
      BY DEF Typed, Gens
    <3>3. late[s] /\ policy = "denied" => cache[g[s]].val = "denied"
      BY <2>1, <2>2, <3>2 DEF FinalInv, Denies
    <3>4. /\ pc'[s] = "done" /\ ans'[s] = cache[g[s]].val
          /\ \A t \in Streams \ {s} : pc'[t] = pc[t] /\ g'[t] = g[t] /\ ans'[t] = ans[t]
      BY <2>1, <3>1 DEF Typed
    <3> QED
      BY <2>1, <3>3, <3>4, FinalMove
  <2>3. CASE ~(cache[g[s]].ttl > 0)
    <3>1. pc' = [pc EXCEPT ![s] = "ask"] /\ ans' = ans
      BY <1>4, <2>3 DEF GetCached
    <3>2. /\ pc'[s] = "ask"
          /\ \A t \in Streams \ {s} : pc'[t] = pc[t] /\ g'[t] = g[t] /\ ans'[t] = ans[t]
      BY <2>1, <3>1
    <3> QED
      BY <2>1, <3>2, FinalMove
  <2> QED
    BY <2>2, <2>3
<1>5. ASSUME NEW s \in Streams, Ask(s) PROVE FinalInv'
  <2>1. UNCHANGED <<policy, evicted, gen, cache, late, g>> /\ pc[s] = "ask"
    BY <1>5 DEF Ask
  <2>2. \/ pc' = [pc EXCEPT ![s] = "set"] /\ ans' = [ans EXCEPT ![s] = policy]
        \/ pc' = [pc EXCEPT ![s] = "done"] /\ ans' = [ans EXCEPT ![s] = "denied"]
    BY <1>5 DEF Ask
  <2>3. /\ \/ pc'[s] = "set" /\ ans'[s] = policy
           \/ pc'[s] = "done" /\ ans'[s] = "denied"
        /\ \A t \in Streams \ {s} : pc'[t] = pc[t] /\ g'[t] = g[t] /\ ans'[t] = ans[t]
    BY <2>1, <2>2 DEF Typed
  <2> QED
    BY <2>1, <2>3, FinalMove
<1>6. ASSUME NEW s \in Streams, SetCached(s) PROVE FinalInv'
  <2> DEFINE e == [val |-> ans[s], ttl |-> Ttl(ans[s])]
  <2>1. /\ UNCHANGED <<policy, evicted, gen, late, g, ans>> /\ pc[s] = "set"
        /\ pc' = [pc EXCEPT ![s] = "done"] /\ cache' = [cache EXCEPT ![g[s]] = e]
    BY <1>6 DEF SetCached
  <2>2. e.val = ans[s]
    OBVIOUS
  <2> HIDE DEF e
  <2>3. \A t \in Streams : g[t] \in Nat /\ g[t] \in Gens
    BY DEF Typed, Gens
  <2>4. /\ pc'[s] = "done" /\ \A t \in Streams \ {s} : pc'[t] = pc[t]
        /\ cache'[g[s]] = e /\ \A y \in Gens \ {g[s]} : cache'[y] = cache[y]
    BY <2>1, <2>3 DEF Typed
  <2> DEFINE WillDeny(x) ==
        /\ \A y \in Gens : y >= x /\ cache'[y].ttl > 0 => cache'[y].val = "denied"
        /\ \A t \in Streams : pc'[t] = "set" /\ g'[t] >= x => ans'[t] = "denied"
  <2>5. ASSUME NEW x \in Gens, policy = "denied", Denies(x) PROVE WillDeny(x)
    <3>1. \A t \in Streams : pc'[t] = "set" /\ g'[t] >= x => ans'[t] = "denied"
      BY <2>1, <2>4, <2>5 DEF Denies
    <3>2. ASSUME NEW y \in Gens, y >= x, cache'[y].ttl > 0 PROVE cache'[y].val = "denied"
      <4>1. CASE y = g[s]
        BY <2>1, <2>2, <2>4, <2>5, <3>2, <4>1 DEF Denies
      <4>2. CASE y # g[s]
        BY <2>4, <2>5, <3>2, <4>2 DEF Denies
      <4> QED
        BY <4>1, <4>2
    <3> QED
      BY <3>1, <3>2
  <2>6. gen \in Gens
    BY DEF Typed
  <2>7. policy = "denied" /\ evicted => Denies(gen)'
    BY <2>1, <2>5, <2>6 DEF FinalInv, Denies
  <2>8. ASSUME policy = "denied", NEW t \in Streams, late[t], pc'[t] \in {"cached", "ask", "set"}
        PROVE  Denies(g[t])'
    <3>1. Denies(g[t]) /\ g[t] \in Gens
      BY <2>3, <2>4, <2>8 DEF FinalInv
    <3>2. WillDeny(g[t])
      BY <2>5, <2>8, <3>1
    <3> QED
      BY <2>1, <3>2 DEF Denies
  <2>9. ASSUME policy = "denied", NEW t \in Streams, late[t], pc'[t] = "done"
        PROVE  ans[t] = "denied"
    <3>1. CASE t = s
      <4>1. Denies(g[s])
        BY <2>1, <2>9, <3>1 DEF FinalInv
      <4> QED
        BY <2>1, <2>3, <3>1, <4>1 DEF Denies
    <3>2. CASE t # s
      BY <2>4, <2>9, <3>2 DEF FinalInv
    <3> QED
      BY <3>1, <3>2
  <2> QED
    BY <2>1, <2>7, <2>8, <2>9 DEF FinalInv, Denies
<1>7. ASSUME NEW s \in Streams, Fire(s) PROVE FinalInv'
  <2>1. /\ UNCHANGED <<policy, evicted, gen, cache, g, ans>>
        /\ \/ pc' = pc /\ late' = late
           \/ pc' = [pc EXCEPT ![s] = "session"] /\ late' = [late EXCEPT ![s] = evicted]
    BY <1>7 DEF Fire, Begin
  <2>2. CASE pc' = pc /\ late' = late
    BY <2>1, <2>2 DEF FinalInv, Denies
  <2>3. CASE pc' = [pc EXCEPT ![s] = "session"] /\ late' = [late EXCEPT ![s] = evicted]
    BY <2>1, <2>3, FinalMove
  <2> QED
    BY <2>1, <2>2, <2>3
<1>8. ASSUME NEW s \in Streams, CheckSession(s) PROVE FinalInv'
  <2>1. /\ UNCHANGED <<policy, evicted, gen, cache, g, late>>
        /\ \/ pc' = [pc EXCEPT ![s] = "gen"] /\ ans' = ans
           \/ pc' = [pc EXCEPT ![s] = "done"] /\ ans' = [ans EXCEPT ![s] = "denied"]
    BY <1>8 DEF CheckSession
  <2>2. /\ \/ pc'[s] = "gen"
           \/ pc'[s] = "done" /\ ans'[s] = "denied"
        /\ \A t \in Streams \ {s} : pc'[t] = pc[t] /\ g'[t] = g[t] /\ ans'[t] = ans[t]
    <3>1. ans \in [Streams -> Decisions]
      BY DEF Typed
    <3> QED
      BY <2>1, <3>1
  <2> QED
    BY <2>1, <2>2, FinalMove
<1>9. ASSUME NEW s \in Streams, StreamEnds(s) PROVE FinalInv'
  BY <1>9 DEF StreamEnds, CloseStream, FinalInv, Denies
<1>10. CASE Change
  <2>1. /\ UNCHANGED <<gen, cache, pc, g, ans>> /\ evicted' = FALSE
        /\ late' = [s \in Streams |-> FALSE]
    BY <1>10 DEF Change
  <2> QED
    BY <2>1 DEF FinalInv
<1>11. CASE EvictGet
  BY <1>11 DEF EvictGet, FinalInv, Denies
<1>12. CASE EvictDel
  <2>1. UNCHANGED <<policy, evicted, gen, pc, g, ans, late>>
    BY <1>12 DEF EvictDel
  <2>2. \A y \in Gens : cache'[y] = Free \/ cache'[y] = cache[y]
    BY <1>12 DEF EvictDel, Typed
  <2>3. \A y \in Gens : cache'[y].ttl > 0 => cache[y].ttl > 0 /\ cache'[y].val = cache[y].val
    BY <2>2
  <2>4. late' \in [Streams -> BOOLEAN]
    BY <2>1 DEF FinalInv
  <2>5. \A s \in Streams : late'[s] /\ pc'[s] = "done" /\ policy = "denied" => ans'[s] = "denied"
    BY <2>1 DEF FinalInv
  <2> QED
    BY <2>1, <2>3, <2>4, <2>5, FinalFrame
<1>13. CASE EvictAll
  <2>1. /\ UNCHANGED <<policy, cache, pc, g, ans, late>> /\ gen' = gen + 1 /\ evicted' = TRUE
    BY <1>13 DEF EvictAll
  <2>2. gen \in Nat /\ \A t \in Streams : g[t] \in Nat /\ g[t] <= gen
    BY DEF Typed, Gens
  <2>3. \A y \in Gens : y >= gen + 1 => cache[y].ttl = 0
    BY <2>2 DEF Typed, Gens
  <2>4. Denies(gen)'
    BY <2>1, <2>2, <2>3 DEF Denies
  <2>5. \A t \in Streams : Denies(g[t])' <=> Denies(g[t])
    BY <2>1 DEF Denies
  <2> QED
    BY <2>1, <2>4, <2>5 DEF FinalInv
<1>14. CASE SignOut
  BY <1>14 DEF SignOut, FinalInv, Denies
<1>15. CASE Tick
  <2>1. UNCHANGED <<policy, evicted, gen, pc, g, ans, late>>
    BY <1>15 DEF Tick
  <2>2. ASSUME NEW y \in Gens, cache'[y].ttl > 0
        PROVE  cache[y].ttl > 0 /\ cache'[y].val = cache[y].val
    <3>1. cache'[y] = IF cache[y].ttl > 1 THEN [cache[y] EXCEPT !.ttl = @ - 1] ELSE Free
      BY <1>15 DEF Tick
    <3>2. cache[y] \in [val : Decisions, ttl : Nat] /\ cache[y].ttl > 1
      BY <2>2, <3>1 DEF Typed
    <3> QED
      BY <3>1, <3>2, Decrement
  <2>4. late' \in [Streams -> BOOLEAN]
    BY <2>1 DEF FinalInv
  <2>5. \A s \in Streams : late'[s] /\ pc'[s] = "done" /\ policy = "denied" => ans'[s] = "denied"
    BY <2>1 DEF FinalInv
  <2> QED
    BY <2>1, <2>2, <2>4, <2>5, FinalFrame
<1>16. CASE UNCHANGED vars
  BY <1>16 DEF vars, FinalInv, Denies
<1> QED
  BY <1>1, <1>2, <1>3, <1>4, <1>5, <1>6, <1>7, <1>8, <1>9, <1>10, <1>11, <1>12, <1>13, <1>14,
     <1>15, <1>16, <1>17 DEF Next, Check

\* After everyone was evicted no check that begins allows what the webhook denies, although a
\* check that began before may still write its answer.
THEOREM NoStaleAnswerAfterEvictAll == Spec => []EvictAllIsFinal
<1>1. Init => Typed /\ FinalInv
  <2>1. Init => FinalInv
    BY DEF Init, FinalInv
  <2> QED
    BY <2>1, TypedInit
<1>2. Typed /\ FinalInv /\ [Next]_vars => (Typed /\ FinalInv)'
  BY TypedStep, FinalStep
<1>3. Typed /\ FinalInv => EvictAllIsFinal
  BY DEF FinalInv, EvictAllIsFinal
<1> QED
  BY <1>1, <1>2, <1>3, PTL DEF Spec

-----------------------------------------------------------------------------
(* The age of an answer. *)

\* An entry that allows was written by a check that asked before the change, so it is gone
\* allowedTtl and a check after the change at the latest.
FreshCache ==
  \A x \in Gens : cache[x].ttl > 0 /\ cache[x].val = "allowed" =>
    /\ cache[x].ttl <= AllowedTtl
    /\ policy = "denied" => age + cache[x].ttl <= AllowedTtl + MaxDelay

\* A check that allows has asked before the change, or has read such an entry.
FreshCheck(t) ==
  ans[t] = "allowed" /\ policy = "denied" =>
    /\ pc[t] = "set" => age + left[t] <= MaxDelay
    /\ pc[t] = "done" => age + left[t] < AllowedTtl + 2 * MaxDelay

FreshInv == FreshCache /\ \A t \in Streams : FreshCheck(t)

\* A step of one stream, or of none, that writes nothing into the cache.
LEMMA FreshFrame ==
  ASSUME Typed, FreshInv, UNCHANGED <<policy, age>>,
         \A y \in Gens : cache'[y] = cache[y] \/ cache'[y] = Free,
         \A t \in Streams : FreshCheck(t)' \/ UNCHANGED <<pc[t], ans[t], left[t]>>
  PROVE  FreshInv'
<1>1. FreshCache'
  BY DEF FreshInv, FreshCache, Free
<1>2. \A t \in Streams : FreshCheck(t)'
  BY DEF FreshInv, FreshCheck
<1> QED
  BY <1>1, <1>2 DEF FreshInv

LEMMA FreshStep ==
  ASSUME Typed, FreshInv, [Next]_vars
  PROVE  FreshInv'
<1>0. Constants /\ Free.ttl = 0
  BY ConstantTypes DEF Free
<1> USE <1>0 DEF world, store, At, Finish
<1>t. /\ age \in Nat /\ AllowedTtl \in Nat \ {0} /\ MaxDelay \in Nat
      /\ \A t \in Streams : left[t] \in 0 .. MaxDelay
      /\ pc \in [Streams -> Places] /\ ans \in [Streams -> Decisions]
      /\ left \in [Streams -> 0 .. MaxDelay] /\ g \in [Streams -> Gens]
      /\ policy \in Decisions
  BY DEF Typed, Constants
<1>1. ASSUME NEW s \in Streams, Request(s) PROVE FreshInv'
  <2>1. /\ UNCHANGED <<policy, age, cache, ans>> /\ pc' = [pc EXCEPT ![s] = "gen"]
        /\ left' = [left EXCEPT ![s] = MaxDelay]
    BY <1>1 DEF Request, Begin
  <2>2. FreshCheck(s)'
    BY <1>t, <2>1 DEF FreshCheck
  <2>3. \A t \in Streams \ {s} : UNCHANGED <<pc[t], ans[t], left[t]>>
    BY <2>1, <1>t
  <2> QED
    BY <2>1, <2>2, <2>3, FreshFrame
<1>2. ASSUME NEW s \in Streams, Respond(s) \/ Decide(s) \/ CheckFails(s) PROVE FreshInv'
  <2>1. /\ UNCHANGED <<policy, age, cache>>
        /\ pc' = [pc EXCEPT ![s] = "rest"] \/ pc' = [pc EXCEPT ![s] = "opening"]
        /\ ans' = [ans EXCEPT ![s] = "denied"] /\ left' = [left EXCEPT ![s] = 0]
    BY <1>2 DEF Respond, Decide, CheckFails
  <2>2. FreshCheck(s)'
    BY <1>t, <2>1 DEF FreshCheck
  <2>3. \A t \in Streams \ {s} : UNCHANGED <<pc[t], ans[t], left[t]>>
    BY <2>1, <1>t
  <2> QED
    BY <2>1, <2>2, <2>3, FreshFrame
<1>15. ASSUME NEW s \in Streams, Open(s) PROVE FreshInv'
  <2>1. /\ UNCHANGED <<policy, age, cache, ans, left>> /\ pc' = [pc EXCEPT ![s] = "rest"]
    BY <1>15 DEF Open
  <2>2. FreshCheck(s)'
    BY <1>t, <2>1 DEF FreshCheck
  <2>3. \A t \in Streams \ {s} : UNCHANGED <<pc[t], ans[t], left[t]>>
    BY <2>1, <1>t
  <2> QED
    BY <2>1, <2>2, <2>3, FreshFrame
<1>3. ASSUME NEW s \in Streams, GetGen(s) PROVE FreshInv'
  <2>1. UNCHANGED <<policy, age, cache, ans, left>> /\ pc' = [pc EXCEPT ![s] = "cached"]
    BY <1>3 DEF GetGen
  <2>2. FreshCheck(s)'
    BY <1>t, <2>1 DEF FreshCheck
  <2>3. \A t \in Streams \ {s} : UNCHANGED <<pc[t], ans[t], left[t]>>
    BY <2>1, <1>t
  <2> QED
    BY <2>1, <2>2, <2>3, FreshFrame
<1>4. ASSUME NEW s \in Streams, GetCached(s) PROVE FreshInv'
  <2>1. UNCHANGED <<policy, age, cache, left>>
    BY <1>4 DEF GetCached
  <2>2. CASE cache[g[s]].ttl > 0
    <3>1. pc' = [pc EXCEPT ![s] = "done"] /\ ans' = [ans EXCEPT ![s] = cache[g[s]].val]
      BY <1>4, <2>2 DEF GetCached, Typed
    <3>2. cache[g[s]].ttl \in Nat
      BY <1>t DEF Typed
    <3>3. g[s] \in Gens
      BY <1>t
    <3>4. cache[g[s]].val = "allowed" /\ policy = "denied" =>
            age + cache[g[s]].ttl <= AllowedTtl + MaxDelay
      BY <2>2, <3>3 DEF FreshInv, FreshCache
    <3>5. cache[g[s]].val = "allowed" /\ policy = "denied" =>
            age + left[s] < AllowedTtl + 2 * MaxDelay
      BY <1>t, <2>2, <3>2, <3>4
    <3>6. pc'[s] = "done" /\ ans'[s] = cache[g[s]].val
      BY <1>t, <3>1
    <3>7. FreshCheck(s)'
      BY <2>1, <3>5, <3>6 DEF FreshCheck
    <3>8. \A t \in Streams \ {s} : UNCHANGED <<pc[t], ans[t], left[t]>>
      BY <1>t, <2>1, <3>1
    <3> QED
      BY <2>1, <3>7, <3>8, FreshFrame
  <2>3. CASE ~(cache[g[s]].ttl > 0)
    <3>1. pc' = [pc EXCEPT ![s] = "ask"] /\ ans' = ans
      BY <1>4, <2>3 DEF GetCached
    <3>2. FreshCheck(s)'
      BY <1>t, <3>1 DEF FreshCheck
    <3>3. \A t \in Streams \ {s} : UNCHANGED <<pc[t], ans[t], left[t]>>
      BY <1>t, <2>1, <3>1
    <3> QED
      BY <2>1, <3>2, <3>3, FreshFrame
  <2> QED
    BY <2>2, <2>3
<1>5. ASSUME NEW s \in Streams, Ask(s) PROVE FreshInv'
  <2>1. /\ UNCHANGED <<policy, age, cache, left>>
        /\ \/ pc' = [pc EXCEPT ![s] = "set"] /\ ans' = [ans EXCEPT ![s] = policy]
           \/ pc' = [pc EXCEPT ![s] = "done"] /\ ans' = [ans EXCEPT ![s] = "denied"]
    BY <1>5 DEF Ask
  <2>2. FreshCheck(s)'
    BY <1>t, <2>1 DEF FreshCheck
  <2>3. \A t \in Streams \ {s} : UNCHANGED <<pc[t], ans[t], left[t]>>
    BY <1>t, <2>1
  <2> QED
    BY <2>1, <2>2, <2>3, FreshFrame
<1>6. ASSUME NEW s \in Streams, SetCached(s) PROVE FreshInv'
  <2> DEFINE e == [val |-> ans[s], ttl |-> Ttl(ans[s])]
  <2>1. /\ UNCHANGED <<policy, age, ans, left>> /\ pc[s] = "set"
        /\ pc' = [pc EXCEPT ![s] = "done"] /\ cache' = [cache EXCEPT ![g[s]] = e]
    BY <1>6 DEF SetCached
  <2>2. e.val = ans[s] /\ (ans[s] = "allowed" => e.ttl = AllowedTtl)
    BY DEF Ttl
  <2> HIDE DEF e
  <2>3. cache'[g[s]] = e /\ \A y \in Gens \ {g[s]} : cache'[y] = cache[y]
    BY <1>t, <2>1 DEF Typed
  <2>4. ans[s] = "allowed" /\ policy = "denied" => age + left[s] <= MaxDelay
    BY <2>1 DEF FreshInv, FreshCheck
  <2>5. FreshCache'
    <3>1. ASSUME NEW y \in Gens, cache'[y].ttl > 0, cache'[y].val = "allowed"
          PROVE  /\ cache'[y].ttl <= AllowedTtl
                 /\ policy = "denied" => age + cache'[y].ttl <= AllowedTtl + MaxDelay
      <4>1. CASE y = g[s]
        <5>1. ans[s] = "allowed" /\ cache'[y].ttl = AllowedTtl
          BY <2>2, <2>3, <3>1, <4>1
        <5> QED
          BY <1>t, <2>4, <5>1
      <4>2. CASE y # g[s]
        BY <2>3, <3>1, <4>2 DEF FreshInv, FreshCache
      <4> QED
        BY <4>1, <4>2
    <3> QED
      BY <2>1, <3>1 DEF FreshCache
  <2>6. FreshCheck(s)'
    BY <1>t, <2>1, <2>4 DEF FreshCheck
  <2>7. \A t \in Streams \ {s} : UNCHANGED <<pc[t], ans[t], left[t]>>
    BY <1>t, <2>1
  <2>8. \A t \in Streams : FreshCheck(t)'
    BY <2>1, <2>6, <2>7 DEF FreshInv, FreshCheck
  <2> QED
    BY <2>5, <2>8 DEF FreshInv
<1>7. ASSUME NEW s \in Streams, Fire(s) PROVE FreshInv'
  <2>1. /\ UNCHANGED <<policy, age, cache, ans>>
        /\ \/ pc' = pc /\ left' = left
           \/ pc' = [pc EXCEPT ![s] = "session"] /\ left' = [left EXCEPT ![s] = MaxDelay]
    BY <1>7 DEF Fire, Begin
  <2>2. FreshCheck(s)' \/ UNCHANGED <<pc[s], ans[s], left[s]>>
    BY <1>t, <2>1 DEF FreshCheck
  <2>3. \A t \in Streams \ {s} : UNCHANGED <<pc[t], ans[t], left[t]>>
    BY <1>t, <2>1
  <2> QED
    BY <2>1, <2>2, <2>3, FreshFrame
<1>8. ASSUME NEW s \in Streams, CheckSession(s) PROVE FreshInv'
  <2>1. /\ UNCHANGED <<policy, age, cache, left>>
        /\ \/ pc' = [pc EXCEPT ![s] = "gen"] /\ ans' = ans
           \/ pc' = [pc EXCEPT ![s] = "done"] /\ ans' = [ans EXCEPT ![s] = "denied"]
    BY <1>8 DEF CheckSession
  <2>2. FreshCheck(s)'
    BY <1>t, <2>1 DEF FreshCheck
  <2>3. \A t \in Streams \ {s} : UNCHANGED <<pc[t], ans[t], left[t]>>
    BY <1>t, <2>1
  <2> QED
    BY <2>1, <2>2, <2>3, FreshFrame
<1>9. ASSUME NEW s \in Streams, StreamEnds(s) PROVE FreshInv'
  <2>1. UNCHANGED <<policy, age, cache, pc, ans, left>>
    BY <1>9 DEF StreamEnds
  <2> QED
    BY <2>1, FreshFrame
<1>10. CASE Change
  <2>1. UNCHANGED <<cache, pc, ans, left>> /\ age' = 0
    BY <1>10 DEF Change
  <2>2. FreshCache'
    <3>1. \A x \in Gens : cache[x].ttl \in Nat
      BY DEF Typed
    <3> QED
      BY <1>t, <2>1, <3>1 DEF FreshInv, FreshCache
  <2>3. \A t \in Streams : FreshCheck(t)'
    BY <1>t, <2>1 DEF FreshCheck
  <2> QED
    BY <2>2, <2>3 DEF FreshInv
<1>11. CASE EvictGet \/ EvictAll \/ SignOut
  <2>1. UNCHANGED <<policy, age, cache, pc, ans, left>>
    BY <1>11 DEF EvictGet, EvictAll, SignOut
  <2> QED
    BY <2>1, FreshFrame
<1>12. CASE EvictDel
  <2>1. UNCHANGED <<policy, age, pc, ans, left>>
    BY <1>12 DEF EvictDel
  <2>2. \A y \in Gens : cache'[y] = Free \/ cache'[y] = cache[y]
    BY <1>12 DEF EvictDel, Typed
  <2> QED
    BY <2>1, <2>2, FreshFrame
<1>13. CASE Tick
  <2>1. /\ UNCHANGED <<policy, pc, ans>>
        /\ policy = "denied" => age' \in Nat /\ age' <= age + 1
        /\ \A t \in Streams : Checking(t) => left[t] > 0 /\ left'[t] = left[t] - 1
    BY <1>13, <1>t DEF Tick, Older
  <2>2. FreshCache'
    <3>1. ASSUME NEW y \in Gens, cache'[y].ttl > 0, cache'[y].val = "allowed"
          PROVE  /\ cache'[y].ttl <= AllowedTtl
                 /\ policy = "denied" => age' + cache'[y].ttl <= AllowedTtl + MaxDelay
      <4>1. cache'[y] = IF cache[y].ttl > 1 THEN [cache[y] EXCEPT !.ttl = @ - 1] ELSE Free
        BY <1>13 DEF Tick
      <4>2. cache[y] \in [val : Decisions, ttl : Nat] /\ cache[y].ttl > 1 /\ cache[y].ttl \in Nat
        BY <3>1, <4>1 DEF Typed
      <4>3. cache'[y].val = cache[y].val /\ cache'[y].ttl = cache[y].ttl - 1
        BY <4>1, <4>2, Decrement
      <4>4. /\ cache[y].ttl <= AllowedTtl
            /\ policy = "denied" => age + cache[y].ttl <= AllowedTtl + MaxDelay
        BY <3>1, <4>2, <4>3 DEF FreshInv, FreshCache
      <4> QED
        BY <1>t, <2>1, <4>2, <4>3, <4>4
    <3> QED
      BY <2>1, <3>1 DEF FreshCache
  <2>3. ASSUME NEW t \in Streams PROVE FreshCheck(t)'
    <3>1. FreshCheck(t) /\ left[t] \in Nat
      BY <1>t DEF FreshInv
    <3> QED
      BY <1>t, <2>1, <3>1 DEF FreshCheck, Checking
  <2> QED
    BY <2>2, <2>3 DEF FreshInv
<1>14. CASE UNCHANGED vars
  <2>1. UNCHANGED <<policy, age, cache, pc, ans, left>>
    BY <1>14 DEF vars
  <2> QED
    BY <2>1, FreshFrame
<1> QED
  BY <1>1, <1>2, <1>3, <1>4, <1>5, <1>6, <1>7, <1>8, <1>9, <1>10, <1>11, <1>12, <1>13, <1>14,
     <1>15 DEF Next, Check

\* A decision to allow that a check has reached differs from the webhook's for less than
\* allowedTtl and two checks.
THEOREM AnswersGoStaleInTime == Spec => []AllowedIsFresh
<1>1. Init => Typed /\ FreshInv
  <2>1. Init => FreshInv
    BY DEF Init, FreshInv, FreshCache, FreshCheck, Free
  <2> QED
    BY <2>1, TypedInit
<1>2. Typed /\ FreshInv /\ [Next]_vars => (Typed /\ FreshInv)'
  BY TypedStep, FreshStep
<1>3. Typed /\ FreshInv => AllowedIsFresh
  <2>1. Typed => age \in Nat /\ \A t \in Streams : left[t] \in 0 .. MaxDelay
    BY DEF Typed
  <2> QED
    BY <2>1, ConstantTypes DEF FreshInv, FreshCheck, AllowedIsFresh, Constants
<1> QED
  BY <1>1, <1>2, <1>3, PTL DEF Spec

-----------------------------------------------------------------------------
(* The life of an open stream. *)

\* A check of an open stream is its watch's, and its time left follows the timer.
Watched(s) ==
  s \in open =>
    /\ pc[s] # "opening"
    /\ pc[s] # "rest" => s \in watching /\ timer[s] = left[s] + AllowedTtl - MaxDelay

\* After a change each period may pass once: until the check that still allows, then until the
\* check that denies.  A stream that opened late is in its first period, or a failed check
\* has prolonged it.
RevokedInTime(s) ==
  s \in open /\ policy = "denied" =>
    \/ /\ pc[s] = "rest" => age + timer[s] < 2 * AllowedTtl + MaxDelay + Slack
       /\ pc[s] # "rest" => age + left[s] < 2 * AllowedTtl + 2 * MaxDelay + Slack
    \/ /\ pc[s] = "rest" => since[s] + timer[s] <= AllowedTtl + Slack
       /\ pc[s] # "rest" => since[s] + left[s] <= AllowedTtl + MaxDelay + Slack

\* Time, also since the session's end, is counted for open streams only.
GoneCounts(s) ==
  /\ s \notin open => since[s] = 0
  /\ sess \/ s \notin open => gone[s] = 0

\* Unless its session is being looked at or its check is about to deny, a stream is still in the
\* period in which the session ended.
SignedOutInTime(s) ==
  s \in open =>
    /\ pc[s] # "session" /\ ~(pc[s] = "done" /\ ans[s] = "denied") =>
         gone[s] + timer[s] <= AllowedTtl + Slack
    /\ pc[s] # "rest" => gone[s] + left[s] <= AllowedTtl + MaxDelay + Slack

LifeInv(s) == Watched(s) /\ RevokedInTime(s) /\ GoneCounts(s) /\ SignedOutInTime(s)

\* A failed check adds a period.
LEMMA SlackStep ==
  ASSUME Typed
  PROVE  /\ Slack \in Nat
         /\ faults' = faults => Slack' = Slack
         /\ faults' = faults + 1 => Slack' = Slack + AllowedTtl
<1>1. faults \in Nat /\ AllowedTtl \in Nat
  BY ConstantTypes DEF Typed, Constants
<1> DEFINE f == faults
           T == AllowedTtl
<1>2. f * T \in Nat /\ (f + 1) * T = f * T + T
  <2>1. f \in Nat /\ T \in Nat
    BY <1>1
  <2> HIDE DEF f, T
  <2> QED
    BY <2>1
<1> QED
  BY <1>1, <1>2 DEF Slack

\* What the arithmetic below needs to know.
LEMMA LifeTypes ==
  ASSUME Typed, NEW s \in Streams
  PROVE  /\ age \in Nat /\ AllowedTtl \in Nat \ {0} /\ MaxDelay \in Nat /\ MaxDelay < AllowedTtl
         /\ Slack \in Nat /\ since[s] \in Nat /\ gone[s] \in Nat
         /\ timer[s] \in Nat /\ timer[s] <= AllowedTtl
         /\ left[s] \in Nat /\ left[s] <= MaxDelay
BY ConstantTypes, SlackStep DEF Typed, Constants

\* The streams a step leaves alone.
LEMMA LifeFrame ==
  ASSUME Typed, NEW t \in Streams, LifeInv(t), UNCHANGED <<policy, age, sess>>,
         faults' = faults \/ faults' = faults + 1,
         UNCHANGED <<pc[t], timer[t], left[t], ans[t], since[t], gone[t]>>,
         t \in open' <=> t \in open, t \in watching => t \in watching'
  PROVE  LifeInv(t)'
<1>1. Slack' \in Nat /\ Slack <= Slack'
  BY SlackStep, LifeTypes
<1>2. Watched(t)'
  BY DEF LifeInv, Watched
<1>3. RevokedInTime(t)'
  <2>1. RevokedInTime(t)
    BY DEF LifeInv
  <2> QED
    BY <1>1, <2>1, LifeTypes DEF RevokedInTime
<1>4. GoneCounts(t)'
  BY DEF LifeInv, GoneCounts
<1>5. SignedOutInTime(t)'
  <2>1. SignedOutInTime(t)
    BY DEF LifeInv
  <2> QED
    BY <1>1, <2>1, LifeTypes DEF SignedOutInTime
<1> QED
  BY <1>2, <1>3, <1>4, <1>5 DEF LifeInv

LEMMA LifeStep ==
  ASSUME Typed, FreshInv, \A t \in Streams : LifeInv(t), [Next]_vars
  PROVE  \A t \in Streams : LifeInv(t)'
<1> USE DEF world, store, At, Finish
<1>t. /\ pc \in [Streams -> Places] /\ ans \in [Streams -> Decisions]
      /\ left \in [Streams -> 0 .. MaxDelay] /\ timer \in [Streams -> 0 .. AllowedTtl]
      /\ since \in [Streams -> Nat] /\ gone \in [Streams -> Nat] /\ policy \in Decisions
  BY DEF Typed
<1>k. faults' = faults => Slack' = Slack
  BY SlackStep
\* A request, or a step of a request's check: the stream is not open.
<1>1. ASSUME NEW s \in Streams, Request(s) PROVE \A t \in Streams : LifeInv(t)'
  <2>1. /\ UNCHANGED <<policy, age, sess, faults, open, watching, timer, ans, since, gone>>
        /\ s \notin open /\ pc' = [pc EXCEPT ![s] = "gen"] /\ left' = [left EXCEPT ![s] = MaxDelay]
    BY <1>1 DEF Request, Begin
  <2>2. LifeInv(s)'
    BY <2>1 DEF LifeInv, Watched, RevokedInTime, GoneCounts, SignedOutInTime
  <2>3. \A t \in Streams \ {s} : UNCHANGED <<pc[t], timer[t], left[t], ans[t], since[t], gone[t]>>
    BY <1>t, <2>1
  <2> QED
    BY <2>1, <2>2, <2>3, LifeFrame
<1>2. ASSUME NEW s \in Streams, Respond(s) PROVE \A t \in Streams : LifeInv(t)'
  <2>1. /\ UNCHANGED <<policy, age, sess, faults, open, timer, since, gone>>
        /\ s \notin watching /\ pc[s] = "done"
        /\ pc' = [pc EXCEPT ![s] = "rest"] \/ pc' = [pc EXCEPT ![s] = "opening"]
        /\ watching' = watching \ {s} \/ watching' = watching
        /\ ans' = [ans EXCEPT ![s] = "denied"] /\ left' = [left EXCEPT ![s] = 0]
    BY <1>2 DEF Respond
  <2>2. s \notin open
    BY <2>1 DEF LifeInv, Watched
  <2>3. LifeInv(s)'
    BY <2>1, <2>2 DEF LifeInv, Watched, RevokedInTime, GoneCounts, SignedOutInTime
  <2>4. \A t \in Streams \ {s} : /\ UNCHANGED <<pc[t], timer[t], left[t], ans[t], since[t], gone[t]>>
                                 /\ t \in watching => t \in watching'
    BY <1>t, <2>1
  <2> QED
    BY <2>1, <2>3, <2>4, LifeFrame
\* A stream starts its first period.
<1>13. ASSUME NEW s \in Streams, Open(s) PROVE \A t \in Streams : LifeInv(t)'
  <2>1. /\ UNCHANGED <<policy, age, sess, faults, watching, ans, left, since, gone>>
        /\ pc[s] = "opening" /\ pc' = [pc EXCEPT ![s] = "rest"]
        /\ \/ UNCHANGED <<open, timer>>
           \/ open' = open \cup {s} /\ timer' = [timer EXCEPT ![s] = AllowedTtl]
    BY <1>13 DEF Open
  <2>2. s \notin open /\ since[s] = 0 /\ gone[s] = 0
    BY <2>1 DEF LifeInv, Watched, GoneCounts
  <2>3. pc'[s] = "rest" /\ (s \in open' => timer'[s] = AllowedTtl)
    BY <1>t, <2>1, <2>2
  <2>4. RevokedInTime(s)' /\ SignedOutInTime(s)'
    BY <1>k, <2>1, <2>2, <2>3, LifeTypes DEF RevokedInTime, SignedOutInTime
  <2>5. Watched(s)' /\ GoneCounts(s)'
    BY <2>1, <2>2, <2>3 DEF Watched, GoneCounts
  <2>6. \A t \in Streams \ {s} : /\ UNCHANGED <<pc[t], timer[t], left[t], ans[t], since[t], gone[t]>>
                                 /\ t \in open' <=> t \in open
    BY <1>t, <2>1
  <2> QED
    BY <2>1, <2>4, <2>5, <2>6, LifeFrame DEF LifeInv
\* The calls of a check.
<1>3. ASSUME NEW s \in Streams, Check(s) PROVE \A t \in Streams : LifeInv(t)'
  <2>1. /\ UNCHANGED <<policy, age, sess, faults, open, watching, timer, left, since, gone>>
        /\ pc[s] \in {"gen", "cached", "ask", "set"} 
        /\ \A t \in Streams \ {s} : UNCHANGED <<pc[t], ans[t]>>
        /\ pc'[s] \in {"cached", "ask", "set", "done"}
    <3>1. CASE GetGen(s)
      BY <1>t, <3>1 DEF GetGen
    <3>2. CASE GetCached(s)
      <4>1. /\ UNCHANGED <<policy, age, sess, faults, open, watching, timer, left, since, gone>>
            /\ pc[s] = "cached"
            /\ pc' = [pc EXCEPT ![s] = "done"] \/ pc' = [pc EXCEPT ![s] = "ask"]
            /\ ans' = ans \/ ans' = [ans EXCEPT ![s] = cache[g[s]].val]
        BY <3>2 DEF GetCached
      <4> QED
        BY <1>t, <4>1
    <3>3. CASE Ask(s)
      BY <1>t, <3>3 DEF Ask
    <3>4. CASE SetCached(s)
      BY <1>t, <3>4 DEF SetCached
    <3> QED
      BY <1>3, <3>1, <3>2, <3>3, <3>4 DEF Check
  <2>2. Watched(s)' /\ GoneCounts(s)'
    BY <2>1 DEF LifeInv, Watched, GoneCounts
  <2>3. RevokedInTime(s)'
    BY <1>k, <2>1 DEF LifeInv, RevokedInTime
  <2>4. SignedOutInTime(s)'
    BY <1>k, <2>1 DEF LifeInv, SignedOutInTime
  <2> QED
    BY <2>1, <2>2, <2>3, <2>4, LifeFrame DEF LifeInv
<1>4. ASSUME NEW s \in Streams, Fire(s) PROVE \A t \in Streams : LifeInv(t)'
  <2>1. /\ UNCHANGED <<policy, age, sess, faults, open, since, gone, ans>> /\ s \in open /\ timer[s] = 0
        /\ timer' = [timer EXCEPT ![s] = AllowedTtl]
    BY <1>4 DEF Fire
  <2>2. pc[s] = "rest"
    BY <2>1, LifeTypes DEF LifeInv, Watched
  <2>3. /\ pc' = [pc EXCEPT ![s] = "session"] /\ left' = [left EXCEPT ![s] = MaxDelay]
        /\ watching' = watching \cup {s}
    BY <1>4, <2>2 DEF Fire, Begin
  <2>4. timer'[s] = AllowedTtl /\ pc'[s] = "session" /\ left'[s] = MaxDelay
    BY <1>t, <2>1, <2>3
  <2>5. Watched(s)'
    BY <2>3, <2>4, LifeTypes DEF Watched
  <2>6. RevokedInTime(s)'
    <3>1. RevokedInTime(s)
      BY DEF LifeInv
    <3> QED
      BY <1>k, <2>1, <2>2, <2>4, <3>1, LifeTypes DEF RevokedInTime
  <2>7. SignedOutInTime(s)'
    <3>1. SignedOutInTime(s)
      BY DEF LifeInv
    <3> QED
      BY <1>k, <2>1, <2>2, <2>4, <3>1, LifeTypes DEF SignedOutInTime
  <2>8. GoneCounts(s)'
    BY <2>1 DEF LifeInv, GoneCounts
  <2>9. \A t \in Streams \ {s} : /\ UNCHANGED <<pc[t], timer[t], left[t], ans[t], since[t], gone[t]>>
                                 /\ t \in watching => t \in watching'
    BY <1>t, <2>1, <2>3
  <2>10. LifeInv(s)'
    BY <2>5, <2>6, <2>7, <2>8 DEF LifeInv
  <2>11. ASSUME NEW t \in Streams \ {s} PROVE LifeInv(t)'
    <3>1. t \in open' <=> t \in open
      BY <2>1
    <3> QED
      BY <2>1, <2>9, <3>1, LifeFrame
  <2> QED
    BY <2>10, <2>11
<1>5. ASSUME NEW s \in Streams, CheckSession(s) PROVE \A t \in Streams : LifeInv(t)'
  <2>1. /\ UNCHANGED <<policy, age, sess, faults, open, watching, timer, left, since, gone>>
        /\ pc[s] = "session"
        /\ \A t \in Streams \ {s} : UNCHANGED <<pc[t], ans[t]>>
        /\ \/ sess /\ pc'[s] = "gen"
           \/ pc'[s] = "done" /\ ans'[s] = "denied"
    <3>1. /\ UNCHANGED <<policy, age, sess, faults, open, watching, timer, left, since, gone>>
          /\ pc[s] = "session"
          /\ \/ sess /\ pc' = [pc EXCEPT ![s] = "gen"] /\ ans' = ans
             \/ pc' = [pc EXCEPT ![s] = "done"] /\ ans' = [ans EXCEPT ![s] = "denied"]
      BY <1>5 DEF CheckSession
    <3> QED
      BY <1>t, <3>1
  <2>2. Watched(s)' /\ GoneCounts(s)'
    BY <2>1 DEF LifeInv, Watched, GoneCounts
  <2>3. RevokedInTime(s)'
    BY <1>k, <2>1 DEF LifeInv, RevokedInTime
  <2>4. sess => gone[s] = 0
    BY DEF LifeInv, GoneCounts
  <2>5. SignedOutInTime(s)'
    <3>1. SignedOutInTime(s)
      BY DEF LifeInv
    <3>2. sess => gone[s] + timer[s] <= AllowedTtl + Slack
      BY <2>4, LifeTypes
    <3> QED
      BY <1>k, <2>1, <3>1, <3>2 DEF SignedOutInTime
  <2> QED
    BY <2>1, <2>2, <2>3, <2>5, LifeFrame DEF LifeInv
<1>6. ASSUME NEW s \in Streams, Decide(s) PROVE \A t \in Streams : LifeInv(t)'
  <2>1. /\ UNCHANGED <<policy, age, sess, faults>> /\ pc[s] = "done"
        /\ pc' = [pc EXCEPT ![s] = "rest"] /\ watching' = watching \ {s}
        /\ ans' = [ans EXCEPT ![s] = "denied"] /\ left' = [left EXCEPT ![s] = 0]
    BY <1>6 DEF Decide
  <2>2. \A t \in Streams \ {s} : /\ UNCHANGED <<pc[t], left[t], ans[t]>>
                                 /\ t \in watching => t \in watching'
    BY <1>t, <2>1
  <2>3. CASE ans[s] = "denied"
    <3>1. /\ open' = open \ {s} /\ timer' = [timer EXCEPT ![s] = 0]
          /\ since' = [since EXCEPT ![s] = 0] /\ gone' = [gone EXCEPT ![s] = 0]
      BY <1>6, <2>3 DEF Decide, CloseStream
    <3>2. LifeInv(s)'
      BY <1>t, <3>1 DEF LifeInv, Watched, RevokedInTime, GoneCounts, SignedOutInTime
    <3>3. \A t \in Streams \ {s} : UNCHANGED <<timer[t], since[t], gone[t]>> /\ (t \in open' <=> t \in open)
      BY <1>t, <3>1
    <3> QED
      BY <2>1, <2>2, <3>2, <3>3, LifeFrame
  <2>4. CASE ans[s] # "denied"
    <3>1. UNCHANGED <<open, timer, since, gone>> /\ ans[s] = "allowed"
      BY <1>t, <1>6, <2>4 DEF Decide, Decisions
    <3>2. pc'[s] = "rest"
      BY <1>t, <2>1
    <3>3. RevokedInTime(s)'
      <4>1. Watched(s) /\ FreshCheck(s)
        BY DEF LifeInv, FreshInv
      <4> QED
        BY <1>k, <2>1, <3>1, <3>2, <4>1, LifeTypes DEF RevokedInTime, Watched, FreshCheck
    <3>4. SignedOutInTime(s)'
      BY <1>k, <2>1, <3>1, <3>2 DEF LifeInv, SignedOutInTime
    <3>5. Watched(s)' /\ GoneCounts(s)'
      BY <2>1, <3>1, <3>2 DEF LifeInv, Watched, GoneCounts
    <3> QED
      BY <2>1, <2>2, <3>1, <3>3, <3>4, <3>5, LifeFrame DEF LifeInv
  <2> QED
    BY <2>3, <2>4
<1>7. ASSUME NEW s \in Streams, CheckFails(s) PROVE \A t \in Streams : LifeInv(t)'
  <2>1. /\ UNCHANGED <<policy, age, sess, open, timer, since, gone>> /\ faults' = faults + 1
        /\ pc[s] # "rest"
        /\ pc' = [pc EXCEPT ![s] = "rest"] /\ watching' = watching \ {s}
        /\ ans' = [ans EXCEPT ![s] = "denied"] /\ left' = [left EXCEPT ![s] = 0]
    BY <1>7 DEF CheckFails
  <2>2. \A t \in Streams \ {s} : /\ UNCHANGED <<pc[t], left[t], ans[t]>>
                                 /\ t \in watching => t \in watching'
    BY <1>t, <2>1
  <2>3. pc'[s] = "rest" /\ Slack' = Slack + AllowedTtl
    BY <1>t, <2>1, SlackStep
  <2>4. Watched(s) /\ RevokedInTime(s) /\ SignedOutInTime(s) /\ GoneCounts(s)
    BY DEF LifeInv
  <2>5. RevokedInTime(s)'
    BY <2>1, <2>3, <2>4, LifeTypes DEF RevokedInTime, Watched
  <2>6. SignedOutInTime(s)'
    BY <2>1, <2>3, <2>4, LifeTypes DEF SignedOutInTime, Watched
  <2>7. Watched(s)' /\ GoneCounts(s)'
    BY <2>1, <2>3, <2>4 DEF Watched, GoneCounts
  <2> QED
    BY <2>1, <2>2, <2>5, <2>6, <2>7, LifeFrame DEF LifeInv
<1>8. ASSUME NEW s \in Streams, StreamEnds(s) PROVE \A t \in Streams : LifeInv(t)'
  <2>1. /\ UNCHANGED <<policy, age, sess, faults, watching, pc, ans, left>>
        /\ open' = open \ {s} /\ timer' = [timer EXCEPT ![s] = 0]
        /\ since' = [since EXCEPT ![s] = 0] /\ gone' = [gone EXCEPT ![s] = 0]
    BY <1>8 DEF StreamEnds, CloseStream
  <2>2. LifeInv(s)'
    BY <1>t, <2>1 DEF LifeInv, Watched, RevokedInTime, GoneCounts, SignedOutInTime
  <2>3. \A t \in Streams \ {s} : UNCHANGED <<timer[t], since[t], gone[t]>> /\ (t \in open' <=> t \in open)
    BY <1>t, <2>1
  <2> QED
    BY <2>1, <2>2, <2>3, LifeFrame
<1>9. CASE Change
  <2>1. UNCHANGED <<sess, faults, open, watching, timer, pc, ans, left, since, gone>> /\ age' = 0
    BY <1>9 DEF Change
  <2>2. ASSUME NEW t \in Streams PROVE LifeInv(t)'
    <3>1. Watched(t)' /\ GoneCounts(t)'
      BY <2>1 DEF LifeInv, Watched, GoneCounts
    <3>2. RevokedInTime(t)'
      BY <1>k, <2>1, LifeTypes DEF RevokedInTime
    <3>3. SignedOutInTime(t)'
      BY <1>k, <2>1 DEF LifeInv, SignedOutInTime
    <3> QED
      BY <3>1, <3>2, <3>3 DEF LifeInv
  <2> QED
    BY <2>2
<1>10. CASE EvictGet \/ EvictDel \/ EvictAll \/ UNCHANGED vars
  <2>1. UNCHANGED <<policy, age, sess, faults, open, watching, timer, pc, ans, left, since, gone>>
    BY <1>10 DEF EvictGet, EvictDel, EvictAll, vars
  <2> QED
    BY <2>1, LifeFrame
<1>11. CASE SignOut
  <2>1. /\ UNCHANGED <<policy, age, faults, open, watching, timer, pc, ans, left, since, gone>>
        /\ sess /\ ~sess'
    BY <1>11 DEF SignOut
  <2>2. ASSUME NEW t \in Streams PROVE LifeInv(t)'
    <3>1. Watched(t)' /\ GoneCounts(t)'
      BY <2>1 DEF LifeInv, Watched, GoneCounts
    <3>2. RevokedInTime(t)'
      BY <1>k, <2>1 DEF LifeInv, RevokedInTime
    <3>3. SignedOutInTime(t)'
      BY <1>k, <2>1 DEF LifeInv, SignedOutInTime
    <3> QED
      BY <3>1, <3>2, <3>3 DEF LifeInv
  <2> QED
    BY <2>2
<1>12. CASE Tick
  <2>1. /\ UNCHANGED <<policy, faults, open, watching, pc, ans>>
        /\ policy = "denied" => age' \in Nat /\ age' <= age + 1
    BY <1>12, LifeTypes, ConstantTypes DEF Tick, Older, Typed
  <2>2. sess' <=> sess
    BY <1>12 DEF Tick
  <2>3. ASSUME NEW t \in Streams PROVE LifeInv(t)'
    <3>1. /\ t \in open => timer[t] > 0 /\ timer'[t] = timer[t] - 1
          /\ Checking(t) => left[t] > 0 /\ left'[t] = left[t] - 1
      BY <1>12 DEF Tick
    <3>2. /\ gone'[t] \in Nat /\ gone'[t] <= gone[t] + 1
          /\ since'[t] \in Nat /\ since'[t] <= since[t] + 1
      BY <1>12, LifeTypes, ConstantTypes DEF Tick, Older, Constants
    <3>7. t \in open => pc[t] # "opening"
      BY DEF LifeInv, Watched
    <3>3. Watched(t)'
      <4>1. Watched(t)
        BY DEF LifeInv
      <4> QED
        BY <2>1, <3>1, <4>1, LifeTypes DEF Watched, Checking
    <3>4. RevokedInTime(t)'
      <4>1. RevokedInTime(t)
        BY DEF LifeInv
      <4> QED
        BY <1>k, <2>1, <3>1, <3>2, <3>7, <4>1, LifeTypes DEF RevokedInTime, Checking
    <3>5. GoneCounts(t)'
      BY <1>12 DEF Tick, GoneCounts
    <3>6. SignedOutInTime(t)'
      <4>1. SignedOutInTime(t)
        BY DEF LifeInv
      <4> QED
        BY <1>k, <2>1, <3>1, <3>2, <3>7, <4>1, LifeTypes DEF SignedOutInTime, Checking
    <3> QED
      BY <3>3, <3>4, <3>5, <3>6 DEF LifeInv
  <2> QED
    BY <2>3
<1> QED
  BY <1>1, <1>2, <1>3, <1>4, <1>5, <1>6, <1>7, <1>8, <1>9, <1>10, <1>11, <1>12,
     <1>13 DEF Next

\* What every reachable state satisfies of streams and of the decisions that open them.
LEMMA StreamsLive == Spec => [](Typed /\ FreshInv /\ \A s \in Streams : LifeInv(s))
<1> DEFINE Inv == Typed /\ FreshInv /\ \A s \in Streams : LifeInv(s)
<1>1. Init => Inv
  <2>1. Init => FreshInv
    BY DEF Init, FreshInv, FreshCache, FreshCheck, Free
  <2>2. Init => \A s \in Streams : LifeInv(s)
    BY DEF Init, LifeInv, Watched, RevokedInTime, GoneCounts, SignedOutInTime
  <2> QED
    BY <2>1, <2>2, TypedInit
<1>2. Inv /\ [Next]_vars => Inv'
  <2>1. (\A s \in Streams : LifeInv(s))' <=> \A s \in Streams : LifeInv(s)'
    OBVIOUS
  <2> QED
    BY <2>1, TypedStep, FreshStep, LifeStep
<1> QED
  BY <1>1, <1>2, PTL DEF Spec

\* A stream of a user whose access was revoked ends within two periods and two checks, one that
\* opened late at its first check, and a period later for every check that fails.
THEOREM RevokedStreamsEnd == Spec => []RevokedStreamEnds
<1>1. Typed /\ (\A s \in Streams : LifeInv(s)) => RevokedStreamEnds
  <2> SUFFICES ASSUME Typed, \A s \in Streams : LifeInv(s), NEW s \in open, policy = "denied"
               PROVE  \/ age < 2 * AllowedTtl + 2 * MaxDelay + Slack
                      \/ since[s] <= AllowedTtl + MaxDelay + Slack
    BY DEF RevokedStreamEnds
  <2>1. s \in Streams /\ RevokedInTime(s)
    BY DEF Typed, LifeInv
  <2> QED
    BY <2>1, LifeTypes DEF RevokedInTime
<1> QED
  BY <1>1, StreamsLive, PTL

\* A stream ends within a period and a check after its sign-in session.
THEOREM SignedOutStreamsEnd == Spec => []SignedOutStreamEnds
<1>1. Typed /\ (\A s \in Streams : LifeInv(s)) => SignedOutStreamEnds
  <2> SUFFICES ASSUME Typed, \A s \in Streams : LifeInv(s), NEW s \in open
               PROVE  gone[s] <= AllowedTtl + MaxDelay + Slack
    BY DEF SignedOutStreamEnds
  <2>1. s \in Streams /\ SignedOutInTime(s)
    BY DEF Typed, LifeInv
  <2> QED
    BY <2>1, LifeTypes DEF SignedOutInTime
<1> QED
  BY <1>1, StreamsLive, PTL
=============================================================================
