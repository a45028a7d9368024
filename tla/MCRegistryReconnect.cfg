SPECIFICATION Spec
CONSTANTS
  t1 = t1
  t2 = t2
  t3 = t3
  u1 = u1
  u2 = u2
  s1 = s1
  p1 = p1
  p2 = p2
  NoTunnel = NoTunnel
  Tunnels = {t1, t2, t3}
  Users = {u1, u2}
  Sessions = {s1}
  Pods = {p1, p2}
  OwnerOf <- Owner
  SessionOf <- Session
  PodOf <- Pod
  Listers = {}
  MaxConnects = 2
  MaxFaults = 0
  MaxStops = 0
PROPERTIES NewerRegistrationKept
CHECK_DEADLOCK FALSE
