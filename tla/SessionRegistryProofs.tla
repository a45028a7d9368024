------------------------ MODULE SessionRegistryProofs ------------------------
(***************************************************************************)
(* Safety of SessionRegistry for any number of tunnels, users, sessions,   *)
(* pods, Redis failures and pod stops.  Each invariant is strengthened to  *)
(* an inductive one; every proof has one step per action.                  *)
(***************************************************************************)
EXTENDS SessionRegistry, TLAPS

\* The failure budget is kept by a call that fails and by one that does not.
LEMMA FaultBound ==
  ASSUME TypeOK, Fault \/ UNCHANGED faults
  PROVE  faults' \in 0 .. MaxFaults
  BY BoundsAssumption DEF TypeOK, Fault

\* A handler moves between the positions TypeOK lists.
LEMMA GotoType ==
  ASSUME TypeOK, NEW t \in Tunnels,
         NEW to \in Position,
         Goto(t, to)
  PROVE  pc' \in [Tunnels -> Position]
  BY DEF TypeOK, Goto

\* A record put in Redis is one of its tunnel, under its session and its user.
LEMMA PutType ==
  ASSUME TypeOK, NEW m \in Tunnels, Put(m)
  PROVE  /\ rec' \in [Sessions -> TunnelOrNone]
         /\ index' \in [Users -> SUBSET Sessions]
  BY AttributesAssumption DEF TypeOK, Put, TunnelOrNone

\* A map slot holds a tunnel or nothing.
LEMMA SlotType ==
  ASSUME TypeOK, NEW t \in Tunnels, NEW v \in TunnelOrNone, SetSlot(t, v)
  PROVE  tunnels' \in [Pods -> [Sessions -> TunnelOrNone]]
<1>1. tunnels[PodOf[t]] \in [Sessions -> TunnelOrNone]
  BY AttributesAssumption DEF TypeOK
<1>2. [tunnels[PodOf[t]] EXCEPT ![SessionOf[t]] = v] \in [Sessions -> TunnelOrNone]
  BY <1>1
<1> QED
  BY <1>2 DEF TypeOK, SetSlot

\* Every step keeps the types.
LEMMA TypeStep == TypeOK /\ [Next]_vars => TypeOK'
<1> USE NoTunnelAssumption, AttributesAssumption
    DEF TunnelOrNone, Position, Registering, Deregistering, Ended, history
<1> SUFFICES ASSUME TypeOK, [Next]_vars PROVE TypeOK'
  OBVIOUS
<1>0. CASE UNCHANGED vars
  BY <1>0 DEF TypeOK, LoopOK, vars
<1>1. ASSUME NEW t \in Tunnels, Connect(t) PROVE TypeOK'
  <2>1. pc' \in [Tunnels -> Position] /\ open' \in [Tunnels -> BOOLEAN]
    BY <1>1, GotoType DEF TypeOK, Connect
  <2>2. LoopOK'
    BY <1>1 DEF TypeOK, LoopOK, Connect, Goto
  <2>3. crossed' \subseteq Tunnels /\ sole' \subseteq Tunnels
    BY <1>1 DEF TypeOK, Connect, Crossing, Rivals
  <2>4. \A x \in Tunnels : ended'[x] => ~open'[x] /\ pc'[x] # "new"
    BY <1>1 DEF TypeOK, Connect, Goto
  <2> QED
    BY <1>1, <2>1, <2>2, <2>3, <2>4 DEF TypeOK, Connect
<1>2. ASSUME NEW t \in Tunnels, CheckOwner(t) PROVE TypeOK'
  <2>1. pc' \in [Tunnels -> Position] /\ open' \in [Tunnels -> BOOLEAN]
    BY <1>2, GotoType DEF TypeOK, CheckOwner
  <2>2. LoopOK'
    BY <1>2 DEF TypeOK, LoopOK, CheckOwner, Goto
  <2>3. faults' \in 0 .. MaxFaults
    BY <1>2, FaultBound DEF CheckOwner
  <2>e. \A x \in Tunnels : ended'[x] => ~open'[x] /\ pc'[x] # "new"
    BY <1>2 DEF TypeOK, CheckOwner, Goto
  <2> QED
    BY <1>2, <2>1, <2>2, <2>3, <2>e DEF TypeOK, CheckOwner
<1>3. ASSUME NEW t \in Tunnels, CloseOld(t) PROVE TypeOK'
  <2>1. pc' \in [Tunnels -> Position] /\ open' \in [Tunnels -> BOOLEAN]
    BY <1>3, GotoType DEF TypeOK, CloseOld
  <2>2. LoopOK'
    BY <1>3 DEF TypeOK, LoopOK, CloseOld, Goto
  <2>e. \A x \in Tunnels : ended'[x] => ~open'[x] /\ pc'[x] # "new"
    BY <1>3 DEF TypeOK, CloseOld, Goto
  <2> QED
    BY <1>3, <2>1, <2>2, <2>e DEF TypeOK, CloseOld
<1>4. ASSUME NEW t \in Tunnels, PutRecord(t) PROVE TypeOK'
  <2>1. pc' \in [Tunnels -> Position]
    BY <1>4, GotoType DEF PutRecord
  <2>2. rec' \in [Sessions -> TunnelOrNone] /\ index' \in [Users -> SUBSET Sessions]
    BY <1>4, PutType DEF TypeOK, PutRecord, redis
  <2>3. faults' \in 0 .. MaxFaults
    BY <1>4, FaultBound DEF PutRecord
  <2>4. LoopOK'
    BY <1>4 DEF TypeOK, LoopOK, PutRecord, Goto
  <2>e. \A x \in Tunnels : ended'[x] => ~open'[x] /\ pc'[x] # "new"
    BY <1>4 DEF TypeOK, PutRecord, Goto
  <2> QED
    BY <1>4, <2>1, <2>2, <2>3, <2>4, <2>e DEF TypeOK, PutRecord
<1>5. ASSUME NEW t \in Tunnels, StoreTunnel(t) PROVE TypeOK'
  <2>1. pc' \in [Tunnels -> Position] /\ loop' \in [Tunnels -> {"off", "idle", "got"}]
    BY <1>5, GotoType DEF TypeOK, StoreTunnel
  <2>2. tunnels' \in [Pods -> [Sessions -> TunnelOrNone]]
    BY <1>5, SlotType DEF TypeOK, StoreTunnel
  <2>3. LoopOK'
    BY <1>5 DEF TypeOK, LoopOK, StoreTunnel, Goto
  <2>e. \A x \in Tunnels : ended'[x] => ~open'[x] /\ pc'[x] # "new"
    BY <1>5 DEF TypeOK, StoreTunnel, Goto
  <2> QED
    BY <1>5, <2>1, <2>2, <2>3, <2>e DEF TypeOK, StoreTunnel
<1>6. ASSUME NEW t \in Tunnels, Deregister(t) PROVE TypeOK'
  <2>1. pc' \in [Tunnels -> Position] /\ loop' \in [Tunnels -> {"off", "idle", "got"}]
    BY <1>6, GotoType DEF TypeOK, Deregister
  <2>2. tunnels' \in [Pods -> [Sessions -> TunnelOrNone]]
    <3>1. CASE Slot(t) = t
      BY <1>6, <3>1, SlotType DEF Deregister
    <3>2. CASE Slot(t) # t
      BY <1>6, <3>2 DEF TypeOK, Deregister
    <3> QED
      BY <3>1, <3>2
  <2>3. LoopOK'
    BY <1>6 DEF TypeOK, LoopOK, Deregister, Goto
  <2>e. \A x \in Tunnels : ended'[x] => ~open'[x] /\ pc'[x] # "new"
    BY <1>6 DEF TypeOK, Deregister, Goto
  <2> QED
    BY <1>6, <2>1, <2>2, <2>3, <2>e DEF TypeOK, Deregister
<1>7. ASSUME NEW t \in Tunnels, DeleteGet(t) PROVE TypeOK'
  <2>1. pc' \in [Tunnels -> Position] /\ found' \in [Tunnels -> TunnelOrNone]
    BY <1>7, GotoType DEF TypeOK, DeleteGet
  <2>2. faults' \in 0 .. MaxFaults
    BY <1>7, FaultBound DEF DeleteGet
  <2>3. LoopOK'
    BY <1>7 DEF TypeOK, LoopOK, DeleteGet, Goto
  <2>e. \A x \in Tunnels : ended'[x] => ~open'[x] /\ pc'[x] # "new"
    BY <1>7 DEF TypeOK, DeleteGet, Goto
  <2> QED
    BY <1>7, <2>1, <2>2, <2>3, <2>e DEF TypeOK, DeleteGet
<1>8. ASSUME NEW t \in Tunnels, DeleteExec(t) PROVE TypeOK'
  <2>1. pc' \in [Tunnels -> Position] /\ found' \in [Tunnels -> TunnelOrNone]
    BY <1>8, GotoType DEF TypeOK, DeleteExec
  <2>2. rec' \in [Sessions -> TunnelOrNone]
    BY <1>8 DEF TypeOK, DeleteExec, redis
  <2>3. index' \in [Users -> SUBSET Sessions]
    <3>1. index \in [Users -> SUBSET Sessions]
      BY DEF TypeOK
    <3>2. CASE UNCHANGED redis
      BY <3>1, <3>2 DEF redis
    <3>3. CASE index' = [u \in Users |->
                IF found[t] # NoTunnel /\ OwnerOf[found[t]] = u
                THEN index[u] \ {SessionOf[t]} ELSE index[u]]
      <4>1. \A u \in Users : index[u] \ {SessionOf[t]} \in SUBSET Sessions
        BY <3>1
      <4> QED
        BY <3>1, <3>3, <4>1
    <3> QED
      BY <1>8, <3>2, <3>3 DEF DeleteExec
  <2>4. faults' \in 0 .. MaxFaults
    BY <1>8, FaultBound DEF DeleteExec
  <2>5. LoopOK'
    BY <1>8 DEF TypeOK, LoopOK, DeleteExec, Goto
  <2>e. \A x \in Tunnels : ended'[x] => ~open'[x] /\ pc'[x] # "new"
    BY <1>8 DEF TypeOK, DeleteExec, Goto
  <2> QED
    BY <1>8, <2>1, <2>2, <2>3, <2>4, <2>5, <2>e DEF TypeOK, DeleteExec
<1>9. ASSUME NEW t \in Tunnels, RefreshGet(t) PROVE TypeOK'
  <2>1. loop' \in [Tunnels -> {"off", "idle", "got"}] /\ meta' \in [Tunnels -> TunnelOrNone]
    BY <1>9 DEF TypeOK, RefreshGet
  <2>2. faults' \in 0 .. MaxFaults
    BY <1>9, FaultBound DEF RefreshGet
  <2>3. LoopOK'
    BY <1>9 DEF TypeOK, LoopOK, RefreshGet
  <2> QED
    BY <1>9, <2>1, <2>2, <2>3 DEF TypeOK, RefreshGet
<1>10. ASSUME NEW t \in Tunnels, RefreshPut(t) PROVE TypeOK'
  <2>1. loop' \in [Tunnels -> {"off", "idle", "got"}] /\ meta' \in [Tunnels -> TunnelOrNone]
    BY <1>10 DEF TypeOK, RefreshPut
  <2>2. rec' \in [Sessions -> TunnelOrNone] /\ index' \in [Users -> SUBSET Sessions]
    <3>1. meta[t] \in Tunnels
      BY <1>10 DEF TypeOK, LoopOK, RefreshPut
    <3> QED
      BY <1>10, <3>1, PutType DEF TypeOK, RefreshPut, redis
  <2>3. faults' \in 0 .. MaxFaults
    BY <1>10, FaultBound DEF RefreshPut
  <2>4. LoopOK'
    BY <1>10 DEF TypeOK, LoopOK, RefreshPut
  <2> QED
    BY <1>10, <2>1, <2>2, <2>3, <2>4 DEF TypeOK, RefreshPut
<1>11. ASSUME NEW t \in Tunnels, TunnelDown(t) \/ PumpEnds(t) PROVE TypeOK'
  <2>1. CASE TunnelDown(t)
    BY <2>1 DEF TypeOK, LoopOK, TunnelDown
  <2>2. CASE PumpEnds(t)
    BY <2>2 DEF TypeOK, LoopOK, PumpEnds
  <2> QED
    BY <1>11, <2>1, <2>2
<1>12. ASSUME NEW u \in Users, ListStep(u) PROVE TypeOK'
  <2>1. ASSUME NEW phase \in {"idle", "members", "srem"}, NEW ids \in SUBSET Sessions,
               SetLister(u, phase, ids)
        PROVE  lister' \in [Users -> [phase : {"idle", "members", "srem"}, ids : SUBSET Sessions]]
    BY <2>1 DEF TypeOK, SetLister
  <2>2. index[u] \in SUBSET Sessions /\ lister[u].ids \in SUBSET Sessions
    BY DEF TypeOK
  <2>3. CASE ListMembers(u)
    BY <2>1, <2>2, <2>3 DEF TypeOK, LoopOK, ListMembers
  <2>4. CASE ListGet(u)
    <3> DEFINE stale == {s \in lister[u].ids : rec[s] = NoTunnel}
    <3>1. stale \in SUBSET Sessions /\ {} \in SUBSET Sessions
      BY <2>2
    <3>2. SetLister(u, "idle", {}) \/ SetLister(u, "srem", stale)
      BY <2>4 DEF ListGet
    <3> QED
      BY <2>1, <2>4, <3>1, <3>2 DEF TypeOK, LoopOK, ListGet
  <2>5. CASE ListSRem(u)
    BY <2>1, <2>5 DEF TypeOK, LoopOK, ListSRem
  <2> QED
    BY <1>12, <2>3, <2>4, <2>5 DEF ListStep
<1>13. ASSUME NEW p \in Pods, Stop(p) PROVE TypeOK'
  <2>1. pc' \in [Tunnels -> Position] /\ open' \in [Tunnels -> BOOLEAN]
    BY <1>13 DEF TypeOK, Stop
  <2>2. /\ found' \in [Tunnels -> TunnelOrNone] /\ meta' \in [Tunnels -> TunnelOrNone]
        /\ loop' \in [Tunnels -> {"off", "idle", "got"}]
    BY <1>13 DEF TypeOK, Stop
  <2>3. tunnels' \in [Pods -> [Sessions -> TunnelOrNone]] /\ stops' \in 0 .. MaxStops
    BY <1>13, BoundsAssumption DEF TypeOK, Stop
  <2>4. LoopOK'
    BY <1>13 DEF TypeOK, LoopOK, Stop
  <2>e. \A x \in Tunnels : ended'[x] => ~open'[x] /\ pc'[x] # "new"
    BY <1>13 DEF TypeOK, Stop
  <2>5. ended' \in [Tunnels -> BOOLEAN]
    BY <1>13 DEF TypeOK, Stop
  <2> QED
    BY <1>13, <2>1, <2>2, <2>3, <2>4, <2>5, <2>e DEF TypeOK, Stop
<1>14. ASSUME NEW s \in Sessions, Expire(s) PROVE TypeOK'
  <2>1. faults' \in 0 .. MaxFaults
    BY <1>14, FaultBound DEF Expire
  <2> QED
    BY <1>14, <2>1 DEF TypeOK, LoopOK, Expire
<1>15. CASE Next
  BY <1>15, <1>1, <1>2, <1>3, <1>4, <1>5, <1>6, <1>7, <1>8, <1>9, <1>10, <1>11, <1>12,
     <1>13, <1>14, ListersAssumption DEF Next, TunnelStep, HandlerStep, LoopStep
<1> QED
  BY <1>0, <1>15

\* The types hold in every reachable state, and a refresh loop never writes a
\* record it did not read.
THEOREM TypeCorrect == Spec => []TypeOK
<1>1. Init => TypeOK
  BY NoTunnelAssumption, BoundsAssumption
     DEF Init, TypeOK, LoopOK, TunnelOrNone, Position
<1> QED
  BY <1>1, TypeStep, PTL DEF Spec

-----------------------------------------------------------------------------
(* The tunnel map. *)

\* What SetSlot changes: the slot of t and no other.
LEMMA SetSlotOnly ==
  ASSUME TypeOK, NEW t \in Tunnels, NEW v, SetSlot(t, v),
         NEW p \in Pods, NEW s \in Sessions
  PROVE  tunnels'[p][s] = IF p = PodOf[t] /\ s = SessionOf[t] THEN v ELSE tunnels[p][s]
  BY AttributesAssumption DEF TypeOK, SetSlot

\* Every step keeps EntryHasHandler: a slot is filled by the handler that will
\* serve from it, and that handler empties it before it moves on.
LEMMA EntryStep == TypeOK /\ EntryHasHandler /\ [Next]_vars => EntryHasHandler'
<1> USE NoTunnelAssumption, AttributesAssumption
<1> SUFFICES ASSUME TypeOK, EntryHasHandler, [Next]_vars,
                    NEW p \in Pods, NEW s \in Sessions, tunnels'[p][s] # NoTunnel
             PROVE  /\ pc'[tunnels'[p][s]] = "serving"
                    /\ PodOf[tunnels'[p][s]] = p
                    /\ SessionOf[tunnels'[p][s]] = s
  BY DEF EntryHasHandler
<1> DEFINE x == tunnels[p][s]
<1>x. x # NoTunnel => x \in Tunnels /\ pc[x] = "serving" /\ PodOf[x] = p /\ SessionOf[x] = s
  BY DEF EntryHasHandler, TypeOK, TunnelOrNone
\* Most steps leave the map alone and move a handler that was not serving.
<1>q. ASSUME UNCHANGED tunnels,
             \A y \in Tunnels : pc[y] = "serving" => pc'[y] = "serving"
      PROVE  /\ pc'[tunnels'[p][s]] = "serving"
             /\ PodOf[tunnels'[p][s]] = p
             /\ SessionOf[tunnels'[p][s]] = s
  BY <1>q, <1>x
<1>0. CASE UNCHANGED vars
  BY <1>0, <1>q DEF vars
<1>1. ASSUME NEW t \in Tunnels,
             \/ Connect(t) \/ CheckOwner(t) \/ CloseOld(t) \/ PutRecord(t)
             \/ DeleteGet(t) \/ DeleteExec(t)
      PROVE  UNCHANGED tunnels /\ \A y \in Tunnels : pc[y] = "serving" => pc'[y] = "serving"
  BY <1>1 DEF TypeOK, Connect, CheckOwner, CloseOld, PutRecord, DeleteGet, DeleteExec, Goto
<1>2. ASSUME NEW t \in Tunnels, RefreshGet(t) \/ RefreshPut(t) \/ TunnelDown(t) \/ PumpEnds(t)
      PROVE  UNCHANGED <<tunnels, pc>>
  BY <1>2 DEF RefreshGet, RefreshPut, TunnelDown, PumpEnds
<1>3. ASSUME NEW u \in Users, ListStep(u) PROVE UNCHANGED <<tunnels, pc>>
  BY <1>3 DEF ListStep, ListMembers, ListGet, ListSRem
<1>4. ASSUME NEW e \in Sessions, Expire(e) PROVE UNCHANGED <<tunnels, pc>>
  BY <1>4 DEF Expire
<1>5. ASSUME NEW t \in Tunnels, StoreTunnel(t)
      PROVE  /\ pc'[tunnels'[p][s]] = "serving"
             /\ PodOf[tunnels'[p][s]] = p
             /\ SessionOf[tunnels'[p][s]] = s
  <2>1. pc' = [pc EXCEPT ![t] = "serving"]
    BY <1>5 DEF StoreTunnel, Goto
  <2>2. tunnels'[p][s] = IF p = PodOf[t] /\ s = SessionOf[t] THEN t ELSE x
    BY <1>5, SetSlotOnly DEF StoreTunnel
  <2> QED
    BY <1>x, <2>1, <2>2 DEF TypeOK
<1>6. ASSUME NEW t \in Tunnels, Deregister(t)
      PROVE  /\ pc'[tunnels'[p][s]] = "serving"
             /\ PodOf[tunnels'[p][s]] = p
             /\ SessionOf[tunnels'[p][s]] = s
  <2>1. \A y \in Tunnels : y # t => pc'[y] = pc[y]
    BY <1>6 DEF Deregister, Goto, TypeOK
  <2>2. CASE Slot(t) = t
    <3>1. tunnels'[p][s] = IF p = PodOf[t] /\ s = SessionOf[t] THEN NoTunnel ELSE x
      BY <1>6, <2>2, SetSlotOnly DEF Deregister, TunnelOrNone
    <3> QED
      BY <1>x, <2>1, <3>1
  <2>3. CASE Slot(t) # t
    <3>1. tunnels'[p][s] = x
      BY <1>6, <2>3 DEF Deregister
    <3>2. x # t
      BY <1>x, <2>3 DEF Slot
    <3> QED
      BY <1>x, <2>1, <3>1, <3>2
  <2> QED
    BY <2>2, <2>3
<1>7. ASSUME NEW q \in Pods, Stop(q)
      PROVE  /\ pc'[tunnels'[p][s]] = "serving"
             /\ PodOf[tunnels'[p][s]] = p
             /\ SessionOf[tunnels'[p][s]] = s
  <2>1. p # q /\ tunnels'[p][s] = x
    BY <1>7 DEF Stop, TypeOK
  <2>2. x \in Tunnels /\ PodOf[x] # q
    BY <1>x, <2>1
  <2> QED
    BY <1>7, <1>x, <2>1, <2>2 DEF Stop
<1> QED
  BY <1>0, <1>1, <1>2, <1>3, <1>4, <1>5, <1>6, <1>7, <1>q, ListersAssumption
     DEF Next, TunnelStep, HandlerStep, LoopStep

\* Every entry of a pod's map has a handler that is going to remove it.
THEOREM EntriesHaveHandlers == Spec => []EntryHasHandler
<1>1. Init => EntryHasHandler
  BY DEF Init, EntryHasHandler
<1> QED
  BY <1>1, EntryStep, TypeCorrect, PTL DEF Spec

\* A map entry disappears only once the tunnel it names has ended.
THEOREM RoutesOutliveTunnels == Spec => RemovedOnlyWhenClosed
<1>1. TypeOK /\ EntryHasHandler /\ [Next]_vars =>
        [\A p \in Pods, s \in Sessions :
           tunnels[p][s] # NoTunnel /\ tunnels'[p][s] = NoTunnel
             => ended'[tunnels[p][s]]]_vars
  <2> SUFFICES ASSUME TypeOK, EntryHasHandler, Next,
                      NEW p \in Pods, NEW s \in Sessions,
                      tunnels[p][s] # NoTunnel, tunnels'[p][s] = NoTunnel
               PROVE  ended'[tunnels[p][s]]
    OBVIOUS
  <2> USE NoTunnelAssumption, AttributesAssumption
  <2> DEFINE x == tunnels[p][s]
  <2>1. x \in Tunnels /\ PodOf[x] = p /\ SessionOf[x] = s
    BY DEF EntryHasHandler, TypeOK, TunnelOrNone
  <2>2. tunnels' # tunnels
    OBVIOUS
  <2>3. ASSUME NEW t \in Tunnels, StoreTunnel(t) PROVE FALSE
    <3>1. tunnels'[p][s] \in {t, x}
      BY <2>3, SetSlotOnly DEF StoreTunnel
    <3> QED
      BY <2>1, <3>1
  <2>4. ASSUME NEW t \in Tunnels, Deregister(t) PROVE ended'[x]
    <3>1. Slot(t) = t /\ SetSlot(t, NoTunnel)
      BY <2>2, <2>4 DEF Deregister
    <3>2. p = PodOf[t] /\ s = SessionOf[t]
      BY <3>1, SetSlotOnly
    <3> QED
      BY <2>4, <3>1, <3>2 DEF Deregister, Slot
  <2>5. ASSUME NEW q \in Pods, Stop(q) PROVE ended'[x]
    <3>1. p = q
      BY <2>5 DEF Stop, TypeOK
    <3> QED
      BY <2>1, <2>5, <3>1 DEF Stop, EntryHasHandler
  <2> QED
    BY <2>2, <2>3, <2>4, <2>5 DEF Next, TunnelStep, HandlerStep, LoopStep,
       Connect, CheckOwner, CloseOld, PutRecord, DeleteGet, DeleteExec, RefreshGet,
       RefreshPut, TunnelDown, PumpEnds, ListStep, ListMembers, ListGet, ListSRem, Expire
<1> QED
  BY <1>1, TypeCorrect, EntriesHaveHandlers, PTL DEF Spec, RemovedOnlyWhenClosed

-----------------------------------------------------------------------------
(* Reachability of a connected CLI whose Register crossed no other. *)

SameSlot(x, y) == PodOf[x] = PodOf[y] /\ SessionOf[x] = SessionOf[y]

\* Tunnels that register for a slot at the same time have crossed; once a tunnel has
\* closed the one it found in its slot, no open tunnel that did not cross another is
\* in the slot it is about to take.
SlotInv ==
  /\ \A x, y \in Tunnels :
       x # y /\ SameSlot(x, y) /\ pc[x] \in Registering /\ pc[y] \in Registering
         => x \in crossed
  /\ \A x, y \in Tunnels :
       SameSlot(x, y) /\ pc[x] \in {"put", "store"} /\ pc[y] = "serving" /\ y \notin crossed
         => ~open[y]
  /\ OpenTunnelIsRouted

\* Every step keeps SlotInv.
LEMMA SlotStep ==
  TypeOK /\ EntryHasHandler /\ SlotInv /\ [Next]_vars => SlotInv'
<1> USE NoTunnelAssumption, AttributesAssumption DEF SameSlot, Registering
<1> SUFFICES ASSUME TypeOK, EntryHasHandler, SlotInv, [Next]_vars PROVE SlotInv'
  OBVIOUS
\* Steps that leave the map alone, open no tunnel and start no registration.
<1>q. ASSUME UNCHANGED <<tunnels, crossed>>,
             \A y \in Tunnels : open'[y] => open[y],
             \A y \in Tunnels : \/ pc'[y] = pc[y]
                                \/ pc'[y] \notin Registering \cup {"serving"}
      PROVE  SlotInv'
  BY <1>q DEF SlotInv, OpenTunnelIsRouted, Slot
<1>0. CASE UNCHANGED vars
  BY <1>0, <1>q DEF vars
<1>1. ASSUME NEW t \in Tunnels, Connect(t) PROVE SlotInv'
  <2>1. \A y \in Tunnels : y # t => pc'[y] = pc[y] /\ open'[y] = open[y]
    BY <1>1 DEF TypeOK, Connect, Goto
  <2>2. pc'[t] = "check" /\ UNCHANGED tunnels
    BY <1>1 DEF TypeOK, Connect, Goto
  <2>3. crossed \subseteq crossed'
    BY <1>1 DEF Connect
  <2>4. \A y \in Tunnels : y # t /\ SameSlot(t, y) /\ pc[y] \in Registering =>
          y \in crossed' /\ t \in crossed'
    BY <1>1 DEF Connect, Crossing, Rivals
  <2> QED
    BY <2>1, <2>2, <2>3, <2>4 DEF SlotInv, OpenTunnelIsRouted, Slot
<1>2. ASSUME NEW t \in Tunnels, CheckOwner(t) PROVE SlotInv'
  <2>1. \A y \in Tunnels : (y # t => pc'[y] = pc[y]) /\ (open'[y] => open[y])
    BY <1>2 DEF TypeOK, CheckOwner, Goto
  <2>2. pc[t] = "check" /\ pc'[t] \in {"close", "rejected"} /\ UNCHANGED <<tunnels, crossed>>
    BY <1>2 DEF TypeOK, CheckOwner, Goto, history
  <2> QED
    BY <2>1, <2>2 DEF SlotInv, OpenTunnelIsRouted, Slot
<1>3. ASSUME NEW t \in Tunnels, CloseOld(t) PROVE SlotInv'
  <2>1. \A y \in Tunnels : (y # t => pc'[y] = pc[y])
    BY <1>3 DEF TypeOK, CloseOld, Goto
  <2>2. pc[t] = "close" /\ pc'[t] = "put" /\ UNCHANGED <<tunnels, crossed>>
    BY <1>3 DEF TypeOK, CloseOld, Goto, history
  <2>3. \A y \in Tunnels : open'[y] <=> open[y] /\ y # Slot(t)
    BY <1>3 DEF CloseOld
  <2>4. \A y \in Tunnels : SameSlot(t, y) /\ pc[y] = "serving" /\ y \notin crossed => ~open'[y]
    BY <2>3 DEF SlotInv, OpenTunnelIsRouted, Slot
  <2> QED
    BY <2>1, <2>2, <2>3, <2>4 DEF SlotInv, OpenTunnelIsRouted, Slot
<1>4. ASSUME NEW t \in Tunnels, PutRecord(t) PROVE SlotInv'
  <2>1. \A y \in Tunnels : (y # t => pc'[y] = pc[y])
    BY <1>4 DEF TypeOK, PutRecord, Goto
  <2>2. pc[t] = "put" /\ pc'[t] = "store" /\ UNCHANGED <<tunnels, open, crossed>>
    BY <1>4 DEF TypeOK, PutRecord, Goto, history
  <2> QED
    BY <2>1, <2>2 DEF SlotInv, OpenTunnelIsRouted, Slot
<1>5. ASSUME NEW t \in Tunnels, StoreTunnel(t) PROVE SlotInv'
  <2>1. \A y \in Tunnels : (y # t => pc'[y] = pc[y])
    BY <1>5 DEF TypeOK, StoreTunnel, Goto
  <2>2. pc[t] = "store" /\ pc'[t] = "serving" /\ UNCHANGED <<open, crossed>>
    BY <1>5 DEF TypeOK, StoreTunnel, Goto, history
  <2>3. \A y \in Tunnels : Slot(y)' = IF SameSlot(t, y) THEN t ELSE Slot(y)
    BY <1>5, SetSlotOnly DEF StoreTunnel, Slot
  <2>4. \A y \in Tunnels : y # t /\ SameSlot(t, y) /\ pc[y] = "serving" /\ y \notin crossed
                             => ~open[y]
    BY <2>2 DEF SlotInv
  <2>5. \A y \in Tunnels : y # t /\ SameSlot(t, y) /\ pc[y] \in Registering => t \in crossed
    BY <2>2 DEF SlotInv
  <2> QED
    BY <2>1, <2>2, <2>3, <2>4, <2>5 DEF SlotInv, OpenTunnelIsRouted
<1>6. ASSUME NEW t \in Tunnels, Deregister(t) PROVE SlotInv'
  <2>1. \A y \in Tunnels : (y # t => pc'[y] = pc[y])
    BY <1>6 DEF TypeOK, Deregister, Goto
  <2>2. ~open[t] /\ pc'[t] \notin Registering \cup {"serving"} /\ UNCHANGED <<open, crossed>>
    BY <1>6 DEF TypeOK, Deregister, Goto, history
  <2>3. \A y \in Tunnels : Slot(y)' = Slot(y) \/ Slot(y) = t
    <3>1. CASE Slot(t) = t
      BY <1>6, <3>1, SetSlotOnly DEF Deregister, Slot
    <3>2. CASE Slot(t) # t
      BY <1>6, <3>2 DEF Deregister, Slot
    <3> QED
      BY <3>1, <3>2
  <2> QED
    BY <2>1, <2>2, <2>3 DEF SlotInv, OpenTunnelIsRouted
<1>7. ASSUME NEW t \in Tunnels, DeleteGet(t) \/ DeleteExec(t) PROVE SlotInv'
  <2>1. UNCHANGED <<tunnels, open, crossed>>
    BY <1>7 DEF DeleteGet, DeleteExec, history
  <2>2. \A y \in Tunnels : pc'[y] = pc[y] \/ pc'[y] \notin Registering \cup {"serving"}
    BY <1>7 DEF DeleteGet, DeleteExec, Goto, TypeOK
  <2> QED
    BY <1>q, <2>1, <2>2
<1>8. ASSUME NEW t \in Tunnels, RefreshGet(t) \/ RefreshPut(t) PROVE SlotInv'
  BY <1>8, <1>q DEF RefreshGet, RefreshPut, history
<1>9. ASSUME NEW t \in Tunnels, TunnelDown(t) \/ PumpEnds(t) PROVE SlotInv'
  BY <1>9, <1>q DEF TunnelDown, PumpEnds, TypeOK, history
<1>10. ASSUME NEW u \in Users, ListStep(u) PROVE SlotInv'
  BY <1>10, <1>q DEF ListStep, ListMembers, ListGet, ListSRem, history
<1>11. ASSUME NEW e \in Sessions, Expire(e) PROVE SlotInv'
  BY <1>11, <1>q DEF Expire, history
<1>12. ASSUME NEW p \in Pods, Stop(p) PROVE SlotInv'
  <2>1. \A y \in Tunnels : /\ open'[y] => open[y] /\ PodOf[y] # p
                           /\ pc'[y] = pc[y] \/ pc'[y] = "dead"
    BY <1>12 DEF Stop
  <2>2. \A y \in Tunnels : PodOf[y] # p => Slot(y)' = Slot(y)
    BY <1>12 DEF Stop, Slot, TypeOK
  <2>3. UNCHANGED crossed
    BY <1>12 DEF Stop, history
  <2> QED
    BY <2>1, <2>2, <2>3 DEF SlotInv, OpenTunnelIsRouted
<1> QED
  BY <1>0, <1>1, <1>2, <1>3, <1>4, <1>5, <1>6, <1>7, <1>8, <1>9, <1>10, <1>11, <1>12,
     ListersAssumption DEF Next, TunnelStep, HandlerStep, LoopStep

\* A connected CLI whose Register crossed no other for its session in its pod is the
\* one its pod routes the session to.
THEOREM OpenTunnelsAreRouted == Spec => []OpenTunnelIsRouted
<1>1. Init => SlotInv
  BY DEF Init, SlotInv, OpenTunnelIsRouted, Registering
<1>2. SlotInv => OpenTunnelIsRouted
  BY DEF SlotInv, OpenTunnelIsRouted
<1> QED
  BY <1>1, <1>2, SlotStep, TypeCorrect, EntriesHaveHandlers, PTL DEF Spec

-----------------------------------------------------------------------------
(* The record of a served session that took over cleanly. *)

\* While Redis has not failed, a sole tunnel is the only active one of its session;
\* from its Put on the record is its own, its loop writes that record back, and runs
\* while it serves.
RecordInv ==
  faults = 0 =>
    \A x \in sole :
      /\ \A y \in Rivals(x) : ~Active(y)
      /\ pc[x] # "new"
      /\ pc[x] \in {"store", "serving"} => rec[SessionOf[x]] = x
      /\ pc[x] = "serving" => loop[x] # "off"
      /\ loop[x] = "got" => meta[x] = x

\* A record, under its key or read by a loop, is one of the key's own session.
KeyInv ==
  /\ \A e \in Sessions : rec[e] # NoTunnel => SessionOf[rec[e]] = e
  /\ \A t \in Tunnels : meta[t] # NoTunnel => SessionOf[meta[t]] = SessionOf[t]

\* Every step keeps KeyInv.
LEMMA KeyStep == TypeOK /\ KeyInv /\ [Next]_vars => KeyInv'
<1> USE NoTunnelAssumption, AttributesAssumption DEF KeyInv
<1> SUFFICES ASSUME TypeOK, KeyInv, [Next]_vars PROVE KeyInv'
  OBVIOUS
<1>p. ASSUME NEW m \in Tunnels, Put(m)
      PROVE  \A e \in Sessions : rec'[e] # NoTunnel => SessionOf[rec'[e]] = e
  BY <1>p DEF Put, TypeOK
<1>1. ASSUME NEW t \in Tunnels, PutRecord(t) PROVE KeyInv'
  BY <1>1, <1>p DEF PutRecord, redis
<1>2. ASSUME NEW t \in Tunnels, DeleteExec(t) PROVE KeyInv'
  BY <1>2 DEF DeleteExec, redis, TypeOK
<1>3. ASSUME NEW t \in Tunnels, RefreshGet(t) PROVE KeyInv'
  BY <1>3 DEF RefreshGet, TypeOK
<1>4. ASSUME NEW t \in Tunnels, RefreshPut(t) PROVE KeyInv'
  <2>1. meta[t] \in Tunnels
    BY <1>4 DEF RefreshPut, TypeOK, LoopOK, TunnelOrNone
  <2>2. \A e \in Sessions : rec'[e] # NoTunnel => SessionOf[rec'[e]] = e
    BY <1>4, <1>p, <2>1 DEF RefreshPut, redis
  <2> QED
    BY <1>4, <2>2 DEF RefreshPut, TypeOK
<1>5. ASSUME NEW p \in Pods, Stop(p) PROVE KeyInv'
  BY <1>5 DEF Stop
<1>6. ASSUME NEW e \in Sessions, Expire(e) PROVE KeyInv'
  BY <1>6 DEF Expire, TypeOK
<1>7. CASE UNCHANGED <<rec, meta>>
  BY <1>7
<1>8. ASSUME NEW t \in Tunnels,
             \/ Connect(t) \/ CheckOwner(t) \/ CloseOld(t) \/ StoreTunnel(t)
             \/ Deregister(t) \/ DeleteGet(t) \/ TunnelDown(t) \/ PumpEnds(t)
      PROVE  UNCHANGED <<rec, meta>>
  BY <1>8 DEF Connect, CheckOwner, CloseOld, StoreTunnel, Deregister, DeleteGet, TunnelDown,
     PumpEnds
<1>9. ASSUME NEW u \in Users, ListStep(u) PROVE UNCHANGED <<rec, meta>>
  BY <1>9 DEF ListStep, ListMembers, ListGet, ListSRem
<1>10. CASE UNCHANGED vars
  BY <1>10, <1>7 DEF vars
<1> QED
  BY <1>1, <1>2, <1>3, <1>4, <1>5, <1>6, <1>7, <1>8, <1>9, <1>10, ListersAssumption
     DEF Next, TunnelStep, HandlerStep, LoopStep

\* Every step keeps RecordInv.
LEMMA RecordStep == TypeOK /\ KeyInv /\ RecordInv /\ [Next]_vars => RecordInv'
<1> USE NoTunnelAssumption, AttributesAssumption
    DEF Active, Registering, Deregistering, Ended, Rivals
<1> SUFFICES ASSUME TypeOK, KeyInv, RecordInv, [Next]_vars, faults' = 0 PROVE RecordInv'
  BY DEF RecordInv
<1>n. faults \in Nat
  BY BoundsAssumption DEF TypeOK
<1>f. ~Fault
  BY <1>n DEF Fault
<1>z. faults = 0
  BY <1>n, <1>f DEF Next, TunnelStep, HandlerStep, LoopStep, vars, Connect, CheckOwner, CloseOld,
     PutRecord, StoreTunnel, Deregister, DeleteGet, DeleteExec, RefreshGet, RefreshPut,
     TunnelDown, PumpEnds, ListStep, ListMembers, ListGet, ListSRem, Stop, Expire
<1>s. sole \subseteq Tunnels
  BY DEF TypeOK
<1>0. CASE UNCHANGED vars
  BY <1>0 DEF RecordInv, vars
<1>1. ASSUME NEW t \in Tunnels, Connect(t) PROVE RecordInv'
  <2>1. \A y \in Tunnels : y # t => pc'[y] = pc[y]
    BY <1>1 DEF TypeOK, Connect, Goto
  <2>2. pc[t] = "new" /\ pc'[t] = "check" /\ UNCHANGED <<rec, loop, meta>>
    BY <1>1 DEF TypeOK, Connect, Goto
  <2>3. \A x \in sole' : \/ x \in sole /\ x \notin Rivals(t) /\ x # t
                         \/ x = t /\ \A y \in Rivals(t) : ~Active(y)
    BY <1>1, <1>z, <2>2 DEF Connect, RecordInv
  <2>4. loop[t] = "off"
    BY <2>2 DEF TypeOK, LoopOK
  <2>5. ASSUME NEW x \in sole, x \notin Rivals(t), x # t
        PROVE  /\ \A y \in Rivals(x) : ~Active(y)'
               /\ pc'[x] # "new"
               /\ pc'[x] \in {"store", "serving"} => rec'[SessionOf[x]] = x
               /\ pc'[x] = "serving" => loop'[x] # "off"
               /\ loop'[x] = "got" => meta'[x] = x
    BY <1>s, <1>z, <2>1, <2>2, <2>5 DEF RecordInv
  <2>6. \A y \in Rivals(t) : ~Active(y) => ~Active(y)'
    BY <2>1, <2>2
  <2> QED
    BY <1>s, <2>2, <2>3, <2>4, <2>5, <2>6 DEF RecordInv
<1>2. ASSUME NEW t \in Tunnels, CheckOwner(t) \/ CloseOld(t) \/ DeleteGet(t) PROVE RecordInv'
  <2>1. UNCHANGED <<rec, loop, meta, sole>> /\ Active(t)
    BY <1>2 DEF CheckOwner, CloseOld, DeleteGet, history
  <2>2. \A y \in Tunnels : y # t => pc'[y] = pc[y]
    BY <1>2 DEF TypeOK, CheckOwner, CloseOld, DeleteGet, Goto
  <2>3. pc'[t] \notin {"new", "store", "serving"}
    BY <1>2 DEF TypeOK, CheckOwner, CloseOld, DeleteGet, Goto
  <2> QED
    BY <1>s, <1>z, <2>1, <2>2, <2>3 DEF RecordInv
<1>3. ASSUME NEW t \in Tunnels, PutRecord(t) PROVE RecordInv'
  <2>1. UNCHANGED <<loop, meta, sole>> /\ Active(t) /\ pc[t] = "put" /\ pc'[t] = "store"
    BY <1>3 DEF PutRecord, Goto, TypeOK, history
  <2>2. \A y \in Tunnels : y # t => pc'[y] = pc[y]
    BY <1>3 DEF TypeOK, PutRecord, Goto
  <2>3. rec' = [rec EXCEPT ![SessionOf[t]] = t]
    BY <1>3, <1>f DEF PutRecord, Put
  <2>4. \A e \in Sessions : rec'[e] = IF e = SessionOf[t] THEN t ELSE rec[e]
    BY <2>3 DEF TypeOK
  <2> QED
    BY <1>s, <1>z, <2>1, <2>2, <2>4 DEF RecordInv
<1>4. ASSUME NEW t \in Tunnels, StoreTunnel(t) PROVE RecordInv'
  <2>1. UNCHANGED <<rec, meta, sole>> /\ Active(t) /\ pc[t] = "store" /\ loop'[t] = "idle"
    BY <1>4 DEF StoreTunnel, TypeOK, history
  <2>2. \A y \in Tunnels : y # t => pc'[y] = pc[y] /\ loop'[y] = loop[y]
    BY <1>4 DEF TypeOK, StoreTunnel, Goto
  <2>3. pc'[t] = "serving"
    BY <1>4 DEF TypeOK, StoreTunnel, Goto
  <2> QED
    BY <1>s, <1>z, <2>1, <2>2, <2>3 DEF RecordInv
<1>5. ASSUME NEW t \in Tunnels, Deregister(t) PROVE RecordInv'
  <2>1. UNCHANGED <<rec, meta, sole>> /\ Active(t) /\ pc'[t] \in {"delete", "done"}
    BY <1>5 DEF Deregister, Goto, TypeOK, history
  <2>2. \A y \in Tunnels : y # t => pc'[y] = pc[y] /\ loop'[y] = loop[y]
    BY <1>5 DEF TypeOK, Deregister, Goto
  <2>3. loop'[t] = "got" => loop[t] = "got"
    BY <1>5 DEF TypeOK, Deregister
  <2> QED
    BY <1>s, <1>z, <2>1, <2>2, <2>3 DEF RecordInv
<1>6. ASSUME NEW t \in Tunnels, DeleteExec(t) PROVE RecordInv'
  <2>1. UNCHANGED <<loop, meta, sole>> /\ Active(t) /\ pc[t] = "del" /\ pc'[t] = "done"
    BY <1>6 DEF DeleteExec, Goto, TypeOK, history
  <2>2. \A y \in Tunnels : y # t => pc'[y] = pc[y]
    BY <1>6 DEF TypeOK, DeleteExec, Goto
  <2>3. \A e \in Sessions : e # SessionOf[t] => rec'[e] = rec[e]
    BY <1>6, <1>f DEF TypeOK, DeleteExec
  <2> QED
    BY <1>s, <1>z, <2>1, <2>2, <2>3 DEF RecordInv
<1>7. ASSUME NEW t \in Tunnels, RefreshGet(t) PROVE RecordInv'
  <2>1. UNCHANGED <<pc, rec, sole>> /\ loop[t] = "idle" /\ pc[t] = "serving" /\ Active(t)
    BY <1>7 DEF RefreshGet, TypeOK, LoopOK, history
  <2>2. \A y \in Tunnels : y # t => loop'[y] = loop[y] /\ meta'[y] = meta[y]
    BY <1>7 DEF TypeOK, RefreshGet
  <2>3. t \in sole => loop'[t] = "got" /\ meta'[t] = t
    <3>1. t \in sole => rec[SessionOf[t]] = t
      BY <1>z, <2>1 DEF RecordInv
    <3> QED
      BY <1>7, <1>f, <3>1 DEF RefreshGet, TypeOK
  <2> QED
    BY <1>s, <1>z, <2>1, <2>2, <2>3 DEF RecordInv
<1>8. ASSUME NEW t \in Tunnels, RefreshPut(t) PROVE RecordInv'
  <2>1. UNCHANGED <<pc, sole>> /\ Active(t) /\ loop[t] = "got"
    BY <1>8 DEF RefreshPut, history
  <2>2. \A y \in Tunnels : y # t => loop'[y] = loop[y] /\ meta'[y] = meta[y]
    BY <1>8 DEF TypeOK, RefreshPut
  <2>3. loop'[t] = IF pc[t] = "serving" THEN "idle" ELSE "off"
    BY <1>8 DEF TypeOK, RefreshPut
  <2>5. SessionOf[meta[t]] = SessionOf[t]
    BY <1>8 DEF RefreshPut, KeyInv, TypeOK, LoopOK
  <2>6. t \in sole => meta[t] = t
    BY <1>z, <2>1 DEF RecordInv
  <2>7. rec' = rec \/ (rec' = [rec EXCEPT ![SessionOf[t]] = meta[t]])
    BY <1>8, <1>f, <2>5 DEF RefreshPut, Put
  <2>8. ASSUME NEW x \in sole PROVE pc'[x] \in {"store", "serving"} => rec'[SessionOf[x]] = x
    <3>1. CASE x = t
      BY <1>s, <1>z, <2>1, <2>6, <2>7, <3>1 DEF RecordInv, TypeOK
    <3>2. CASE x # t
      <4>1. SessionOf[x] # SessionOf[t]
        BY <1>s, <1>z, <2>1, <3>2 DEF RecordInv
      <4> QED
        BY <1>s, <1>z, <2>1, <2>7, <4>1 DEF RecordInv, TypeOK
    <3> QED
      BY <3>1, <3>2
  <2> QED
    BY <1>s, <1>z, <2>1, <2>2, <2>3, <2>8 DEF RecordInv
<1>9. ASSUME NEW t \in Tunnels, TunnelDown(t) \/ PumpEnds(t) PROVE RecordInv'
  BY <1>9, <1>z DEF TunnelDown, PumpEnds, RecordInv, history
<1>10. ASSUME NEW u \in Users, ListStep(u) PROVE RecordInv'
  BY <1>10, <1>z DEF ListStep, ListMembers, ListGet, ListSRem, RecordInv, history
<1>11. ASSUME NEW e \in Sessions, Expire(e) PROVE RecordInv'
  <2>1. \A y \in sole : SessionOf[y] = e => pc[y] \notin {"store", "serving"}
    BY <1>11, <1>f, <1>s, <1>z DEF Expire, RecordInv
  <2>2. UNCHANGED <<pc, loop, meta, sole>> /\ \A d \in Sessions : d # e => rec'[d] = rec[d]
    BY <1>11 DEF Expire, TypeOK, history
  <2> QED
    BY <1>s, <1>z, <2>1, <2>2 DEF RecordInv
<1>12. ASSUME NEW p \in Pods, Stop(p) PROVE RecordInv'
  <2>1. \A y \in Tunnels : /\ pc'[y] = pc[y] \/ pc'[y] = "dead"
                           /\ PodOf[y] = p => loop'[y] = "off" /\ pc'[y] # "serving"
                           /\ PodOf[y] # p => loop'[y] = loop[y] /\ meta'[y] = meta[y]
    BY <1>12 DEF Stop
  <2>2. UNCHANGED <<rec, sole>>
    BY <1>12 DEF Stop, history
  <2> QED
    BY <1>s, <1>z, <2>1, <2>2 DEF RecordInv
<1> QED
  BY <1>0, <1>1, <1>2, <1>3, <1>4, <1>5, <1>6, <1>7, <1>8, <1>9, <1>10, <1>11, <1>12,
     ListersAssumption DEF Next, TunnelStep, HandlerStep, LoopStep

\* A connected session that took over cleanly has its own record for as long as it is
\* served, no later tunnel connects and Redis does not fail.
THEOREM ServedSessionsKeepTheirRecord == Spec => []OwnRecordWhileServing
<1>1. Init => KeyInv /\ RecordInv
  BY DEF Init, KeyInv, RecordInv
<1>2. RecordInv => OwnRecordWhileServing
  BY DEF RecordInv, OwnRecordWhileServing
<1> QED
  BY <1>1, <1>2, KeyStep, RecordStep, TypeCorrect, PTL DEF Spec
=============================================================================
