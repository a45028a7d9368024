SPECIFICATION FairSpec
CONSTANTS
  t1 = t1
  t2 = t2
  t3 = t3
  u1 = u1
  u2 = u2
  s1 = s1
  p1 = p1
  p2 = p2
  NoTunnel = NoTunnel
  Tunnels = {t1, t2, t3}
  Users = {u1, u2}
  Sessions = {s1}
  Pods = {p1, p2}
  OwnerOf <- Owner
  SessionOf <- Session
  PodOf <- Pod
  Listers = {u1}
  MaxConnects = 2
  MaxFaults = 1
  MaxStops = 1
INVARIANTS EntryHasHandler OpenTunnelIsRouted OwnRecordWhileServing
PROPERTIES RemovedOnlyWhenClosed ListedAgain EndedLeavesNothing
CHECK_DEADLOCK FALSE
