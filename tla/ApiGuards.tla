------------------------------ MODULE ApiGuards ------------------------------
(***************************************************************************)
(* What the API refuses to pass on to a session's opencode server, by its  *)
(* version and by the features a deployment has switched off               *)
(* (api/src/*-guard.ts, feature-guards.ts, v1-routes.ts, v1-never.ts,      *)
(* permission-rules.ts, v2-guard.ts, v2-routes.ts).                        *)
(*                                                                         *)
(* A route stands for the methods and path templates the guards treat      *)
(* alike; a fact is something in a JSON body that a rule looks for.  A     *)
(* guard is a sequence of checks, and a check refuses the request, or      *)
(* reads the body and refuses some facts, or lets it pass.  HEAD counts as *)
(* GET throughout.                                                         *)
(***************************************************************************)
EXTENDS Naturals, Sequences

Routes == {
  "message", "command", "apiPrompt", "session", "project", "config", "credential", "part",
  "worktree", "share", "shell", "addMcp", "mcp", "fsWrite", "never",    \* writes
  "pty", "contents", "providers", "events", "export", "pairing", "other"}       \* reads
Reads == {"pty", "contents", "providers", "events", "export", "pairing", "other"}
Writes == Routes \ Reads

Facts == {"upload", "file", "runs", "permission", "sharing", "commands", "wellknown", "directory",
          "elsewhere"}

\* FEATURES, and the two that 2.x does not have.
Features == {"uploads", "downloads", "terminal", "shell", "export", "share", "config", "mcp"}
FeatureOrder == <<"uploads", "downloads", "terminal", "shell", "export", "share", "config", "mcp">>

-----------------------------------------------------------------------------
(* opencode 1.x: a guard per feature, active while the feature is disabled. *)

Guard(blocked, rules) == [blocked |-> blocked, rules |-> rules]

\* Rules that let a request widen what opencode may do unasked.
PermissionRules == {"config", "session", "message"} \X {"permission"}

UploadGuard == Guard({"part"}, {"message", "command", "apiPrompt", "project"} \X {"upload"})
DownloadGuard ==
  Guard({"part", "contents"},
        {"message", "command", "apiPrompt", "config"} \X {"file"} \cup PermissionRules)
TerminalGuard == Guard({"pty"}, {})
ShellGuard ==
  Guard({"shell", "addMcp"},
        {"command", "worktree", "project", "config"} \X {"runs"} \cup PermissionRules)
ShareGuard == Guard({"share"}, {<<"config", "sharing">>})
ConfigGuard ==
  Guard({"config", "addMcp"}, {<<"project", "commands">>, <<"credential", "wellknown">>})
McpGuard == Guard({"mcp"}, {})

FeatureGuard ==
  [f \in Features |->
    CASE f = "uploads" -> UploadGuard [] f = "downloads" -> DownloadGuard
      [] f = "terminal" -> TerminalGuard [] f = "shell" -> ShellGuard
      [] f = "share" -> ShareGuard [] f = "config" -> ConfigGuard
      [] f = "mcp" -> McpGuard [] f = "export" -> Guard({}, {})]

-----------------------------------------------------------------------------
(* Checks. *)

Pass == [stop |-> FALSE, reads |-> FALSE, objects |-> FALSE, denies |-> {}]
Stop(refused) == [Pass EXCEPT !.stop = refused]
\* A 1.x rule leaves a body that is not an object to opencode; 2.x refuses it.
Body(denied) == [Pass EXCEPT !.reads = TRUE, !.denies = denied]
Object(denied) == [Body(denied) EXCEPT !.objects = TRUE]

\* The facts a set of rules looks for in requests of a route.
Sought(rules, r) == {x \in Facts : <<r, x>> \in rules}

\* Writes must have a path that every hop reads alike.
PlainPath(req) == Stop(req.route \in Writes /\ req.path # "plain")

\* Routes that 1.x lacks, that only 2.x has outside /api, or that nothing may use;
\* a path that cannot be decoded is refused too.
V1ApiGuard(req) == Stop(req.path = "undecodable" \/ req.route \in {"fsWrite", "export", "pairing"})
V1NeverGuard(req) == Stop(req.path = "undecodable" \/ req.route = "never")

\* bodyRuleGuard: blocked routes first, then the body if a rule matches the route.
BodyRuleGuard(guard, req) ==
  LET denied == Sought(guard.rules, req.route) IN
  IF req.route \in guard.blocked THEN Stop(TRUE)
  ELSE IF denied = {} THEN Pass
  ELSE Body(denied)

When(condition, check) == IF condition THEN check ELSE Pass

\* The guard of a feature that is on, which the code leaves out, lets everything pass.
V1Guards(disabled, req) ==
  <<PlainPath(req), V1ApiGuard(req), V1NeverGuard(req)>>
    \o [i \in 1 .. 8 |-> LET f == FeatureOrder[i] IN
          When(f \in disabled, BodyRuleGuard(FeatureGuard[f], req))]

-----------------------------------------------------------------------------
(* opencode 2.x: one table of routes and one guard. *)

\* The feature a route belongs to; "never" also stands for routes not in the table.
V2Rule ==
  [r \in Routes |->
    CASE r \in {"apiPrompt", "command", "session", "project", "worktree"} -> "allow"
      [] r \in {"providers", "events", "other"} -> "allow"
      [] r = "contents" -> "downloads" [] r = "pty" -> "terminal"
      [] r = "shell" -> "shell" [] r = "mcp" -> "mcp"
      [] r = "fsWrite" -> "uploads" [] r = "export" -> "export"
      [] OTHER -> "never"]

V2Route(disabled, req) ==
  Stop(req.path = "undecodable" \/ V2Rule[req.route] \in disabled \cup {"never"})

\* The upload must be within the uploads folder the server names.
CheckFsWrite(req) == Stop(req.route = "fsWrite" /\ "elsewhere" \in req.facts)

\* checkRequest, one check for each body it reads.
CheckRequest(disabled, req) ==
  LET off(f) == f \in disabled
      files == (IF off("uploads") THEN {"upload"} ELSE {})
                 \cup (IF off("downloads") THEN {"file"} ELSE {})
  IN
  << CheckFsWrite(req),
     When(req.route = "worktree", Object({"directory"})),
     When(req.route = "project",
          Object({"commands"} \cup (files \ {"file"}))),
     When((off("downloads") \/ off("shell")) /\ req.route = "session", Object({"permission"})),
     When(off("shell") /\ req.route = "command", Object({"runs"})),
     When(files # {} /\ req.route \in {"apiPrompt", "command"}, Object(files)) >>

V2Guards(disabled, req) ==
  <<PlainPath(req), V2Route(disabled, req)>> \o CheckRequest(disabled, req)

\* The guard set follows from the version in the session's record.
VersionedGuards(version, disabled, req) ==
  IF version = 1 THEN V1Guards(disabled, req) ELSE V2Guards(disabled, req)

-----------------------------------------------------------------------------
(* Reference: what must not get through, from what opencode does with it. *)

\* The features a request makes use of.
Uses(req) ==
  {f \in Features :
     \/ f = "uploads" /\ (req.route \in {"part", "fsWrite"} \/ "upload" \in req.facts)
     \/ f = "downloads" /\ (\/ req.route \in {"part", "contents"}
                           \/ {"file", "permission"} \cap req.facts # {})
     \/ f = "terminal" /\ req.route = "pty"
     \/ f = "shell" /\ (\/ req.route \in {"shell", "addMcp"}
                       \/ {"runs", "permission"} \cap req.facts # {})
     \/ f = "export" /\ req.route = "export"
     \/ f = "share" /\ (req.route = "share" \/ "sharing" \in req.facts)
     \/ f = "config" /\ (\/ req.route \in {"config", "addMcp"}
                        \/ {"wellknown", "commands"} \cap req.facts # {})
     \/ f = "mcp" /\ req.route = "mcp"}

\* Requests that no deployment lets through.
Forbidden(version, req) ==
  \/ req.route \in {"never", "pairing"} \/ req.path = "undecodable"
  \/ req.route \in Writes /\ req.path = "odd"
  \/ version = 1 /\ req.route \in {"fsWrite", "export"}
  \/ /\ version = 2
     /\ \/ {"commands", "directory", "elsewhere"} \cap req.facts # {}
        \/ req.route \in {"config", "credential", "addMcp", "part", "message", "share"}

=============================================================================
