--------------------------- MODULE SessionRegistry ---------------------------
(***************************************************************************)
(* The gateway's session registry: which CLI tunnel serves which session.  *)
(*                                                                         *)
(* Every gateway pod keeps an in-memory map from a session to the tunnel   *)
(* that serves it (registry.go, sync.Map); all pods and the API share the  *)
(* session records and the per-user index in Redis (store.go).  One        *)
(* handler goroutine runs per tunnel (tunnel.go): it registers the tunnel, *)
(* starts a refresh loop that keeps the record's TTL alive, waits for the  *)
(* tunnel to end and deregisters it.  None of these steps is atomic with   *)
(* another: each action below is one access to the map, or one Redis call. *)
(*                                                                         *)
(* A tunnel ends when its readPump does: the WebSocket has gone, by the    *)
(* network or by muxConn.close(), and readPump has read up to that.  A     *)
(* readPump that waits at a stalled stream's full queue never gets there   *)
(* (module GatewayMux), so nothing promises that a cut tunnel ends.        *)
(*                                                                         *)
(* A session record (SessionMeta) is written once per tunnel, so a record  *)
(* is named by the tunnel whose registration made it.                      *)
(***************************************************************************)
EXTENDS FiniteSets, Naturals

CONSTANTS
  Tunnels,    \* tunnel connections (muxConn), each used once
  Users,      \* owners, as the token's user claim names them
  Sessions,   \* session IDs
  Pods,       \* gateway pods
  NoTunnel,   \* no tunnel in a map slot, no record under a key
  OwnerOf,    \* Tunnels -> Users: the authenticated user
  SessionOf,  \* Tunnels -> Sessions: the sessionId query parameter
  PodOf,      \* Tunnels -> Pods: the pod the CLI reached
  Listers,    \* the users whose sessions are being listed
  MaxConnects, \* bound: tunnels that connect
  MaxFaults,  \* bound: Redis calls that fail
  MaxStops    \* bound: gateway pods stopped and replaced

ASSUME NoTunnelAssumption == NoTunnel \notin Tunnels
ASSUME AttributesAssumption ==
  /\ OwnerOf \in [Tunnels -> Users]
  /\ SessionOf \in [Tunnels -> Sessions]
  /\ PodOf \in [Tunnels -> Pods]
ASSUME ListersAssumption == Listers \subseteq Users
ASSUME BoundsAssumption == MaxConnects \in Nat /\ MaxFaults \in Nat /\ MaxStops \in Nat

VARIABLES
  pc,       \* tunnel -> where its handler is
  open,     \* tunnel -> its WebSocket is up
  ended,    \* tunnel -> its readPump has returned (muxConn.closed is closed)
  tunnels,  \* pod -> session -> tunnel, or NoTunnel   (TunnelRegistry.tunnels)
  rec,      \* session -> record in Redis, or NoTunnel (orc:v2:session:*)
  index,    \* user -> sessions                (orc:v2:user-sessions:*)
  found,    \* tunnel -> record read by its store.Delete
  loop,     \* tunnel -> state of its RefreshLoop
  meta,     \* tunnel -> record read by its RefreshLoop
  lister,   \* user -> state of a session listing for that user
  faults, stops,
  \* History, read only by the properties:
  crossed,  \* tunnels whose Register ran beside another for their session and pod
  sole      \* tunnels that found no trace of an earlier tunnel of their session as
            \* they connected, and no later one has connected since

vars == <<pc, open, ended, tunnels, rec, index, found, loop, meta, lister, faults, stops,
          crossed, sole>>
redis == <<rec, index>>
history == <<crossed, sole>>

\* Handler positions: inside Register, inside Deregister, and at rest.
Registering == {"check", "close", "put", "store"}
Deregistering == {"delete", "del"}
Ended == {"rejected", "done", "dead"}

TunnelOrNone == Tunnels \cup {NoTunnel}

Position == {"new", "serving"} \cup Registering \cup Deregistering \cup Ended

\* A refresh loop lives no longer than its handler, apart from a Put already
\* sent, and a loop about to write holds the record it read.
LoopOK ==
  \A t \in Tunnels :
    /\ loop[t] = "got" <=> meta[t] # NoTunnel
    /\ loop[t] = "idle" => pc[t] = "serving"
    /\ loop[t] = "got" => pc[t] \in {"serving", "done"} \cup Deregistering

\* The types, and LoopOK.
TypeOK ==
  /\ pc \in [Tunnels -> Position]
  /\ open \in [Tunnels -> BOOLEAN]
  /\ ended \in [Tunnels -> BOOLEAN]
  /\ \A t \in Tunnels : ended[t] => ~open[t] /\ pc[t] # "new"
  /\ tunnels \in [Pods -> [Sessions -> TunnelOrNone]]
  /\ rec \in [Sessions -> TunnelOrNone]
  /\ index \in [Users -> SUBSET Sessions]
  /\ found \in [Tunnels -> TunnelOrNone]
  /\ loop \in [Tunnels -> {"off", "idle", "got"}]
  /\ meta \in [Tunnels -> TunnelOrNone]
  /\ lister \in [Users -> [phase : {"idle", "members", "srem"}, ids : SUBSET Sessions]]
  /\ faults \in 0 .. MaxFaults
  /\ stops \in 0 .. MaxStops
  /\ crossed \subseteq Tunnels /\ sole \subseteq Tunnels
  /\ LoopOK

Init ==
  /\ pc = [t \in Tunnels |-> "new"]
  /\ open = [t \in Tunnels |-> FALSE]
  /\ ended = [t \in Tunnels |-> FALSE]
  /\ tunnels = [p \in Pods |-> [s \in Sessions |-> NoTunnel]]
  /\ rec = [s \in Sessions |-> NoTunnel]
  /\ index = [u \in Users |-> {}]
  /\ found = [t \in Tunnels |-> NoTunnel]
  /\ loop = [t \in Tunnels |-> "off"]
  /\ meta = [t \in Tunnels |-> NoTunnel]
  /\ lister = [u \in Users |-> [phase |-> "idle", ids |-> {}]]
  /\ faults = 0
  /\ stops = 0
  /\ crossed = {} /\ sole = {}

-----------------------------------------------------------------------------
(* Redis calls. *)

\* Mutant of Put: a write that only renews the TTL does not add to the index.
PutNoReindex(m) ==
  /\ rec' = [rec EXCEPT ![SessionOf[m]] = m]
  /\ index' = IF rec[SessionOf[m]] = m THEN index
              ELSE [index EXCEPT ![OwnerOf[m]] = @ \cup {SessionOf[m]}]

\* redisStore.Put: SET the record, SADD it to its user's index.
Put(m) ==
  /\ rec' = [rec EXCEPT ![SessionOf[m]] = m]
  /\ index' = [index EXCEPT ![OwnerOf[m]] = @ \cup {SessionOf[m]}]

\* A Redis call that fails: nothing is read or written.
Fault ==
  /\ faults < MaxFaults
  /\ faults' = faults + 1

Slot(t) == tunnels[PodOf[t]][SessionOf[t]]

SetSlot(t, v) == tunnels' = [tunnels EXCEPT ![PodOf[t]][SessionOf[t]] = v]

Goto(t, to) == pc' = [pc EXCEPT ![t] = to]

-----------------------------------------------------------------------------
(* The tunnel handler. *)

Rivals(t) == {x \in Tunnels \ {t} : SessionOf[x] = SessionOf[t]}

\* The rivals of t that run Register in its pod.
Crossing(t) == {x \in Rivals(t) : PodOf[x] = PodOf[t] /\ pc[x] \in Registering}

\* t has a handler that has not ended, or a refresh loop.
Active(t) == pc[t] \notin {"new"} \cup Ended \/ loop[t] # "off"

\* TunnelHandler up to registry.Register: the upgrade succeeded, readPump runs.
Connect(t) ==
  /\ pc[t] = "new"
  /\ Cardinality({x \in Tunnels : pc[x] # "new"}) < MaxConnects
  /\ Goto(t, "check")
  /\ open' = [open EXCEPT ![t] = TRUE]
  /\ crossed' = IF Crossing(t) = {} THEN crossed ELSE crossed \cup Crossing(t) \cup {t}
  /\ sole' = (sole \ Rivals(t)) \cup
               {x \in {t} : \A y \in Rivals(t) : ~Active(y)}
  /\ UNCHANGED <<ended, tunnels, rec, index, found, loop, meta, lister, faults, stops>>

\* Register: reject a session whose record belongs to another user.  A failed
\* Get is ignored, as if there were no record.
CheckOwner(t) ==
  /\ pc[t] = "check"
  /\ \/ /\ LET m == rec[SessionOf[t]] IN
           IF m # NoTunnel /\ OwnerOf[m] # OwnerOf[t]
           THEN Goto(t, "rejected") /\ open' = [open EXCEPT ![t] = FALSE]
           ELSE Goto(t, "close") /\ UNCHANGED open
        /\ UNCHANGED faults
     \/ Fault /\ Goto(t, "close") /\ UNCHANGED open
  /\ UNCHANGED <<ended, tunnels, rec, index, found, loop, meta, lister, stops, history>>

\* Mutant of CloseOld: the old tunnel is left open.
CloseOldKeepsOpen(t) ==
  /\ pc[t] = "close"
  /\ Goto(t, "put")
  /\ UNCHANGED <<open, ended, tunnels, rec, index, found, loop, meta, lister, faults, stops, history>>

\* Register: close the WebSocket of the tunnel that serves the session in this
\* pod, if any; that tunnel's readPump sees it in its own time.
CloseOld(t) ==
  /\ pc[t] = "close"
  /\ Goto(t, "put")
  /\ open' = [x \in Tunnels |-> open[x] /\ x # Slot(t)]
  /\ UNCHANGED <<ended, tunnels, rec, index, found, loop, meta, lister, faults, stops, history>>

\* Register: write the record; a failure is only logged.
PutRecord(t) ==
  /\ pc[t] = "put"
  /\ Goto(t, "store")
  /\ \/ Put(t) /\ UNCHANGED faults
     \/ Fault /\ UNCHANGED redis
  /\ UNCHANGED <<open, ended, tunnels, found, loop, meta, lister, stops, history>>

\* Mutant of StoreTunnel: no refresh loop is started.
StoreTunnelNoLoop(t) ==
  /\ pc[t] = "store"
  /\ SetSlot(t, t)
  /\ Goto(t, "serving")
  /\ UNCHANGED <<open, ended, rec, index, found, loop, meta, lister, faults, stops, history>>

\* Register: tunnels.Store; then the handler starts RefreshLoop and waits.
StoreTunnel(t) ==
  /\ pc[t] = "store"
  /\ SetSlot(t, t)
  /\ loop' = [loop EXCEPT ![t] = "idle"]
  /\ Goto(t, "serving")
  /\ UNCHANGED <<open, ended, rec, index, found, meta, lister, faults, stops, history>>

\* Mutant of Deregister: Delete instead of CompareAndDelete.
DeregisterAnyTunnel(t) ==
  /\ pc[t] = "serving"
  /\ ended[t]
  /\ loop' = [loop EXCEPT ![t] = IF @ = "got" THEN "got" ELSE "off"]
  /\ SetSlot(t, NoTunnel) /\ Goto(t, "delete")
  /\ UNCHANGED <<open, ended, rec, index, found, meta, lister, faults, stops, history>>

\* Mutant of Deregister: the map entry is forgotten.
DeregisterKeepsEntry(t) ==
  /\ pc[t] = "serving"
  /\ ended[t]
  /\ loop' = [loop EXCEPT ![t] = IF @ = "got" THEN "got" ELSE "off"]
  /\ Goto(t, "delete")
  /\ UNCHANGED <<open, ended, tunnels, rec, index, found, meta, lister, faults, stops, history>>

\* <-mux.closed fires: cancelRefresh, then Deregister's CompareAndDelete.  A Put
\* the loop has already sent is not recalled.
Deregister(t) ==
  /\ pc[t] = "serving"
  /\ ended[t]
  /\ loop' = [loop EXCEPT ![t] = IF @ = "got" THEN "got" ELSE "off"]
  /\ IF Slot(t) = t
     THEN SetSlot(t, NoTunnel) /\ Goto(t, "delete")
     ELSE Goto(t, "done") /\ UNCHANGED tunnels
  /\ UNCHANGED <<open, ended, rec, index, found, meta, lister, faults, stops, history>>

\* store.Delete, first call: read the record to learn whose index to clean.
DeleteGet(t) ==
  /\ pc[t] = "delete"
  /\ \/ /\ found' = [found EXCEPT ![t] = rec[SessionOf[t]]]
        /\ Goto(t, "del")
        /\ UNCHANGED faults
     \/ Fault /\ Goto(t, "done") /\ UNCHANGED found
  /\ UNCHANGED <<open, ended, tunnels, rec, index, loop, meta, lister, stops, history>>

\* store.Delete, second call: DEL the key whatever it holds now, SREM the index
\* of the owner read before.  A failure is only logged.
DeleteExec(t) ==
  /\ pc[t] = "del"
  /\ Goto(t, "done")
  /\ found' = [found EXCEPT ![t] = NoTunnel]
  /\ \/ /\ rec' = [rec EXCEPT ![SessionOf[t]] = NoTunnel]
        /\ index' = [u \in Users |->
              IF found[t] # NoTunnel /\ OwnerOf[found[t]] = u
              THEN index[u] \ {SessionOf[t]} ELSE index[u]]
        /\ UNCHANGED faults
     \/ Fault /\ UNCHANGED redis
  /\ UNCHANGED <<open, ended, tunnels, loop, meta, lister, stops, history>>

-----------------------------------------------------------------------------
(* RefreshLoop: every five minutes read the record and write it back. *)

RefreshGet(t) ==
  /\ loop[t] = "idle"
  /\ LET m == rec[SessionOf[t]] IN
     \/ /\ m # NoTunnel
        /\ loop' = [loop EXCEPT ![t] = "got"]
        /\ meta' = [meta EXCEPT ![t] = m]
        /\ UNCHANGED faults
     \/ /\ \/ m = NoTunnel /\ UNCHANGED faults
           \/ Fault
        /\ loop' = [loop EXCEPT ![t] = "off"]    \* !ok or err: the loop returns
        /\ UNCHANGED meta
  /\ UNCHANGED <<pc, open, ended, tunnels, rec, index, found, lister, stops, history>>

\* Mutant of RefreshPut: the loop does not watch its context.
RefreshPutUncancelled(t) ==
  /\ loop[t] = "got"
  /\ Put(meta[t])
  /\ loop' = [loop EXCEPT ![t] = "idle"]
  /\ meta' = [meta EXCEPT ![t] = NoTunnel]
  /\ UNCHANGED <<pc, open, ended, tunnels, found, lister, faults, stops, history>>

\* A Put that fails is logged and the loop goes on; a cancelled one may or may
\* not have been sent.
RefreshPut(t) ==
  /\ loop[t] = "got"
  /\ \/ Put(meta[t]) /\ UNCHANGED faults
     \/ Fault /\ UNCHANGED redis
     \/ pc[t] # "serving" /\ UNCHANGED <<rec, index, faults>>
  /\ loop' = [loop EXCEPT ![t] = IF pc[t] = "serving" THEN "idle" ELSE "off"]
  /\ meta' = [meta EXCEPT ![t] = NoTunnel]
  /\ UNCHANGED <<pc, open, ended, tunnels, found, lister, stops, history>>

-----------------------------------------------------------------------------
(* The API's session list (SessionStore.list): SMEMBERS, MGET, SREM. *)

SetLister(u, phase, ids) == lister' = [lister EXCEPT ![u] = [phase |-> phase, ids |-> ids]]

ListMembers(u) ==
  /\ lister[u].phase = "idle"
  /\ index[u] # {}
  /\ SetLister(u, "members", index[u])
  /\ UNCHANGED <<pc, open, ended, tunnels, rec, index, found, loop, meta, faults, stops, history>>

ListGet(u) ==
  /\ lister[u].phase = "members"
  /\ LET stale == {s \in lister[u].ids : rec[s] = NoTunnel} IN
     IF stale = {} THEN SetLister(u, "idle", {}) ELSE SetLister(u, "srem", stale)
  /\ UNCHANGED <<pc, open, ended, tunnels, rec, index, found, loop, meta, faults, stops, history>>

ListSRem(u) ==
  /\ lister[u].phase = "srem"
  /\ index' = [index EXCEPT ![u] = @ \ lister[u].ids]
  /\ SetLister(u, "idle", {})
  /\ UNCHANGED <<pc, open, ended, tunnels, rec, found, loop, meta, faults, stops, history>>

-----------------------------------------------------------------------------
(* The environment. *)

\* A tunnel's connection ends: the CLI closes it, or the network does.
TunnelDown(t) ==
  /\ open[t]
  /\ open' = [open EXCEPT ![t] = FALSE]
  /\ UNCHANGED <<pc, ended, tunnels, rec, index, found, loop, meta, lister, faults, stops, history>>

\* readPump's next read fails and it closes m.closed.
PumpEnds(t) ==
  /\ pc[t] # "new" /\ ~open[t] /\ ~ended[t]
  /\ ended' = [ended EXCEPT ![t] = TRUE]
  /\ UNCHANGED <<pc, open, tunnels, rec, index, found, loop, meta, lister, faults, stops, history>>

\* A pod stops (a crash, or a rollout: Server.Shutdown does not wait for
\* hijacked connections) and a fresh one takes its place.  Its handlers never
\* reach Deregister.
Stop(p) ==
  LET gone == {t \in Tunnels : PodOf[t] = p /\ pc[t] \notin {"new"} \cup Ended} IN
  /\ stops < MaxStops
  /\ stops' = stops + 1
  /\ pc' = [t \in Tunnels |-> IF t \in gone THEN "dead" ELSE pc[t]]
  /\ open' = [t \in Tunnels |-> open[t] /\ PodOf[t] # p]
  /\ ended' = [t \in Tunnels |-> ended[t] \/ (PodOf[t] = p /\ pc[t] # "new")]
  /\ tunnels' = [tunnels EXCEPT ![p] = [s \in Sessions |-> NoTunnel]]
  /\ found' = [t \in Tunnels |-> IF PodOf[t] = p THEN NoTunnel ELSE found[t]]
  /\ loop' = [t \in Tunnels |-> IF PodOf[t] = p THEN "off" ELSE loop[t]]
  /\ meta' = [t \in Tunnels |-> IF PodOf[t] = p THEN NoTunnel ELSE meta[t]]
  /\ UNCHANGED <<rec, index, lister, faults, history>>

\* The record's one-hour TTL, given by every Put, runs out.  A running loop puts
\* the record back twelve times an hour, so while one runs, or a tunnel is between
\* its Put and the start of its loop, it takes an hour of failing Puts.
Expire(s) ==
  /\ rec[s] # NoTunnel
  /\ \/ /\ \A t \in Tunnels : SessionOf[t] = s => loop[t] = "off" /\ pc[t] # "store"
        /\ UNCHANGED faults
     \/ Fault
  /\ rec' = [rec EXCEPT ![s] = NoTunnel]
  /\ UNCHANGED <<pc, open, ended, tunnels, index, found, loop, meta, lister, stops, history>>

-----------------------------------------------------------------------------

HandlerStep(t) ==
  \/ CheckOwner(t) \/ CloseOld(t) \/ PutRecord(t) \/ StoreTunnel(t)
  \/ Deregister(t) \/ DeleteGet(t) \/ DeleteExec(t)

LoopStep(t) == RefreshGet(t) \/ RefreshPut(t)

ListStep(u) == ListMembers(u) \/ ListGet(u) \/ ListSRem(u)

TunnelStep(t) == Connect(t) \/ HandlerStep(t) \/ LoopStep(t) \/ TunnelDown(t) \/ PumpEnds(t)

Next ==
  \/ \E t \in Tunnels : TunnelStep(t)
  \/ \E u \in Listers : ListStep(u)
  \/ \E p \in Pods : Stop(p)
  \/ \E s \in Sessions : Expire(s)

Spec == Init /\ [][Next]_vars

\* Goroutines run, tickers fire and Redis answers or fails.  Nothing is assumed
\* of CLIs, connections, TTLs and listings, nor of readPump: it may wait for ever
\* at a full stream queue (mux.go:151-156).
Fairness ==
  \A t \in Tunnels : WF_vars(HandlerStep(t)) /\ WF_vars(LoopStep(t))

FairSpec == Spec /\ Fairness

-----------------------------------------------------------------------------
(* Properties. *)

\* Every entry of a pod's tunnel map has a handler that is still going to take
\* it out, and sits under its own session in its own pod: no entry is leaked,
\* whatever Register and Deregister calls overlap (registry.go Register,
\* Deregister).
EntryHasHandler ==
  \A p \in Pods, s \in Sessions :
    LET t == tunnels[p][s] IN
    t # NoTunnel => pc[t] = "serving" /\ PodOf[t] = p /\ SessionOf[t] = s

\* A map entry disappears only once the tunnel it names has ended: a closing old
\* tunnel never unroutes a newer one (CompareAndDelete in Deregister).
RemovedOnlyWhenClosed ==
  [][\A p \in Pods, s \in Sessions :
       tunnels[p][s] # NoTunnel /\ tunnels'[p][s] = NoTunnel
         => ended'[tunnels[p][s]]]_vars

\* A connected CLI whose tunnel was registered while no other Register of its
\* session ran in its pod is reachable: the pod's map routes the session to it,
\* not to nothing and not to another tunnel, although earlier tunnels deregister
\* at any time and later ones register (Register closes the old tunnel before it
\* stores the new one).
OpenTunnelIsRouted ==
  \A t \in Tunnels \ crossed : pc[t] = "serving" /\ open[t] => Slot(t) = t

\* The record of a connected session that took over cleanly is its own for as
\* long as it is served, until a later tunnel connects or Redis fails: the refresh
\* loop, the TTL, earlier tunnels' Deregister and listings never lose or replace it.
OwnRecordWhileServing ==
  faults = 0 => \A t \in sole : pc[t] = "serving" /\ open[t] => rec[SessionOf[t]] = t

\* Such a session that a racing listing dropped from its user's index comes back
\* (the refresh loop adds it again).
ListedAgain ==
  \A t \in Tunnels :
    pc[t] = "serving" /\ open[t] /\ t \in sole /\ faults = 0 ~>
      SessionOf[t] \in index[OwnerOf[t]] \/ ~open[t] \/ t \notin sole \/ faults > 0

\* A tunnel that has ended, wherever its handler was by then, is in the end gone for
\* good: out of the map, its refresh loop stopped, so that it keeps no abandoned
\* record alive (<-mux.closed, cancelRefresh, Deregister).  One whose WebSocket is
\* closed but whose readPump is stuck keeps both.
EndedLeavesNothing ==
  \A t \in Tunnels : ended[t] ~> [](Slot(t) # t /\ loop[t] = "off")

\* registry.go:47-48: "Deregister removes a session only if the given tunnel
\* still owns it.  This prevents a closing old tunnel from deleting a newer
\* registration."  Asked here of tunnels whose Register calls did not overlap.
NewerRegistrationKept ==
  [][crossed = {} =>
       \A t \in Tunnels :
         pc[t] = "del" /\ rec'[SessionOf[t]] = NoTunnel /\ pc'[t] = "done"
           => rec[SessionOf[t]] \in {t, NoTunnel}]_vars
=============================================================================
