---------------------------- MODULE VersionPolicy ----------------------------
(***************************************************************************)
(* Which versions may work together: the opencode version a CLI reports    *)
(* against the gateway's policy (gateway/versions.go), and the tunnel      *)
(* protocol numbers of the two ends (gateway/protocol.go,                  *)
(* cli/src/protocol.ts).  A version is <<major, minor, patch>>.            *)
(***************************************************************************)
EXTENDS Naturals

CONSTANT None  \* no range, or a version not reported

Versions == Nat \X Nat \X Nat
Ranges == [min : Versions, max : Versions]

ASSUME NoneAssumption == None \notin Versions /\ None \notin Ranges

\* Version.Less
Less(v, o) ==
  \/ v[1] < o[1]
  \/ v[1] = o[1] /\ v[2] < o[2]
  \/ v[1] = o[1] /\ v[2] = o[2] /\ v[3] < o[3]

\* VersionRange.Contains
Contains(r, v) == ~Less(v, r.min) /\ Less(v, r.max)

\* VersionPolicy.Check
Supported(v2, v) ==
  \/ v = None
  \/ v # None /\ v[1] = 1
  \/ v # None /\ v[1] = 2 /\ v2 # None /\ Contains(v2, v)

\* NarrowVersionPolicy: the default 2.x range cut down to the deployment's.
Narrow(def, dep) ==
  IF dep = None THEN def
  ELSE IF def = None THEN None
  ELSE LET out == [min |-> IF Less(def.min, dep.min) THEN dep.min ELSE def.min,
                   max |-> IF Less(dep.max, def.max) THEN dep.max ELSE def.max]
       IN  IF Less(out.min, out.max) THEN out ELSE None

\* classifyOpencodeVersion: 1.x and 2.x are reported; what is no release is not,
\* and runs as 1.x; a later major is refused by the CLI itself.
Reported(v) == IF v = None \/ v[1] = 0 THEN None ELSE v
Refused(v) == v # None /\ v[1] > 2
=============================================================================
