---------------------------- MODULE ApiProxyProofs ----------------------------
(***************************************************************************)
(* Proofs about ApiProxy, for any set of deployments and number of frames. *)
(***************************************************************************)
EXTENDS ApiProxy, TLAPS

-----------------------------------------------------------------------------
\* A check refuses a request whose body it finds as it was sent.
RefusesSent(check, q) ==
  \/ check.stop
  \/ /\ check.reads
     /\ \/ q.kind \in {"huge", "garbage"}
        \/ q.kind = "array" /\ check.objects
        \/ q.kind = "object" /\ q.facts \cap check.denies # {}

Check == [stop : BOOLEAN, reads : BOOLEAN, objects : BOOLEAN, denies : SUBSET Facts]

LEMMA Checks ==
  /\ Pass \in Check
  /\ \A b \in BOOLEAN : Stop(b) \in Check
  /\ \A s \in SUBSET Facts : Body(s) \in Check /\ Object(s) \in Check
BY DEF Pass, Stop, Body, Object, Check

LEMMA StopRefuses ==
  ASSUME NEW q, NEW b \in BOOLEAN, b
  PROVE  RefusesSent(Stop(b), q)
BY DEF RefusesSent, Stop, Pass

LEMMA BodyRefuses ==
  ASSUME NEW q, q.kind = "object", NEW s, NEW x \in q.facts, x \in s
  PROVE  RefusesSent(Body(s), q) /\ RefusesSent(Object(s), q)
BY DEF RefusesSent, Body, Object, Pass

LEMMA RequestFacts ==
  ASSUME NEW v \in {1, 2}, NEW q \in Requests(v)
  PROVE  /\ q.route \in Routes /\ q.facts \in SUBSET Facts /\ q.path \in Paths
         /\ q.facts \subseteq FactsOf(v, q.route)
         /\ q.facts # {} => q.kind = "object"
         /\ q.route = "project" /\ "runs" \in q.facts => "commands" \in q.facts
BY DEF Requests

-----------------------------------------------------------------------------
(* What the guards let through: 1.x. *)

LEMMA FeatureGuards ==
  /\ FeatureGuard["uploads"] = UploadGuard /\ FeatureGuard["downloads"] = DownloadGuard
  /\ FeatureGuard["terminal"] = TerminalGuard /\ FeatureGuard["shell"] = ShellGuard
  /\ FeatureGuard["share"] = ShareGuard /\ FeatureGuard["config"] = ConfigGuard
  /\ FeatureGuard["mcp"] = McpGuard /\ FeatureGuard["export"] = Guard({}, {})
BY DEF FeatureGuard, Features

\* The rules of each guard name facts of its own.
LEMMA RuleFacts ==
  ASSUME NEW f \in Features, NEW r, NEW x, <<r, x>> \in FeatureGuard[f].rules
  PROVE  /\ x = "upload" => f = "uploads"
         /\ x = "file" => f = "downloads"
         /\ x = "permission" => f \in {"downloads", "shell"} /\ <<r, x>> \in PermissionRules
         /\ x = "runs" => f = "shell"
         /\ x = "sharing" => f = "share"
         /\ x \in {"commands", "wellknown"} => f = "config"
BY FeatureGuards DEF Features, Guard, UploadGuard, DownloadGuard, TerminalGuard, ShellGuard,
     ShareGuard, ConfigGuard, McpGuard, PermissionRules

LEMMA V1Feature ==
  ASSUME NEW f \in Features, NEW q \in Requests(1),
         \/ q.route \in FeatureGuard[f].blocked
         \/ \E x \in q.facts : <<q.route, x>> \in FeatureGuard[f].rules
  PROVE  RefusesSent(BodyRuleGuard(FeatureGuard[f], q), q)
<1>1. CASE q.route \in FeatureGuard[f].blocked
  BY <1>1, StopRefuses DEF BodyRuleGuard
<1>2. CASE q.route \notin FeatureGuard[f].blocked
  <2>1. PICK x \in q.facts : <<q.route, x>> \in FeatureGuard[f].rules
    BY <1>2
  <2>2. x \in Facts /\ q.kind = "object" /\ x \in Sought(FeatureGuard[f].rules, q.route)
    BY <2>1, RequestFacts DEF Sought
  <2>3. BodyRuleGuard(FeatureGuard[f], q) = Body(Sought(FeatureGuard[f].rules, q.route))
    BY <1>2, <2>2 DEF BodyRuleGuard
  <2> QED
    BY <2>2, <2>3, BodyRefuses
<1> QED
  BY <1>1, <1>2

\* A request that uses a feature meets the feature's guard, or is refused anyway.
LEMMA V1Uses ==
  ASSUME NEW q \in Requests(1), NEW f \in Uses(q)
  PROVE  \/ q.route \in {"fsWrite", "export"}
         \/ q.route \in FeatureGuard[f].blocked
         \/ \E x \in q.facts : <<q.route, x>> \in FeatureGuard[f].rules
<1>1. \A x \in q.facts : \E g \in Features : <<q.route, x>> \in FeatureGuard[g].rules
  BY RequestFacts DEF FactsOf
<1>2. f \in Features
  BY DEF Uses
<1>3. ASSUME f = "uploads" /\ "upload" \in q.facts
      PROVE  <<q.route, "upload">> \in FeatureGuard[f].rules
  BY <1>1, <1>3, RuleFacts
<1>4. ASSUME f = "downloads" /\ "file" \in q.facts
      PROVE  <<q.route, "file">> \in FeatureGuard[f].rules
  BY <1>1, <1>4, RuleFacts
<1>5. ASSUME f \in {"downloads", "shell"} /\ "permission" \in q.facts
      PROVE  <<q.route, "permission">> \in FeatureGuard[f].rules
  <2>1. <<q.route, "permission">> \in PermissionRules
    BY <1>1, <1>5, RuleFacts
  <2> QED
    BY <1>5, <2>1, FeatureGuards DEF Guard, DownloadGuard, ShellGuard
<1>6. ASSUME f = "shell" /\ "runs" \in q.facts
      PROVE  <<q.route, "runs">> \in FeatureGuard[f].rules
  BY <1>1, <1>6, RuleFacts
<1>7. ASSUME f = "share" /\ "sharing" \in q.facts
      PROVE  <<q.route, "sharing">> \in FeatureGuard[f].rules
  BY <1>1, <1>7, RuleFacts
<1>8. ASSUME NEW x \in {"commands", "wellknown"}, f = "config" /\ x \in q.facts
      PROVE  <<q.route, x>> \in FeatureGuard[f].rules
  BY <1>1, <1>8, RuleFacts
<1>9. \/ f = "uploads" /\ (q.route \in {"part", "fsWrite"} \/ "upload" \in q.facts)
      \/ f = "downloads" /\ (\/ q.route \in {"part", "contents"}
                            \/ "file" \in q.facts \/ "permission" \in q.facts)
      \/ f = "terminal" /\ q.route = "pty"
      \/ f = "shell" /\ (\/ q.route \in {"shell", "addMcp"}
                        \/ "runs" \in q.facts \/ "permission" \in q.facts)
      \/ f = "export" /\ q.route = "export"
      \/ f = "share" /\ (q.route = "share" \/ "sharing" \in q.facts)
      \/ f = "config" /\ (\/ q.route \in {"config", "addMcp"}
                         \/ "wellknown" \in q.facts \/ "commands" \in q.facts)
      \/ f = "mcp" /\ q.route = "mcp"
  BY DEF Uses
<1>10. /\ UploadGuard.blocked = {"part"} /\ DownloadGuard.blocked = {"part", "contents"}
       /\ TerminalGuard.blocked = {"pty"} /\ ShellGuard.blocked = {"shell", "addMcp"}
       /\ ShareGuard.blocked = {"share"} /\ ConfigGuard.blocked = {"config", "addMcp"}
       /\ McpGuard.blocked = {"mcp"}
  BY DEF Guard, UploadGuard, DownloadGuard, TerminalGuard, ShellGuard, ShareGuard, ConfigGuard,
         McpGuard
<1> QED
  BY <1>3, <1>4, <1>5, <1>6, <1>7, <1>8, <1>9, <1>10, FeatureGuards

LEMMA Concatenated ==
  ASSUME NEW S, NEW s \in Seq(S), NEW t \in Seq(S)
  PROVE  /\ Len(s \o t) = Len(s) + Len(t)
         /\ \A i \in 1 .. Len(s) : (s \o t)[i] = s[i]
         /\ \A i \in 1 .. Len(t) : (s \o t)[Len(s) + i] = t[i]
OBVIOUS

LEMMA V1At ==
  ASSUME NEW d, NEW q
  PROVE  /\ Len(V1Guards(d, q)) = 11
         /\ V1Guards(d, q)[1] = PlainPath(q) /\ V1Guards(d, q)[2] = V1ApiGuard(q)
         /\ V1Guards(d, q)[3] = V1NeverGuard(q)
         /\ \A i \in 1 .. 8 : V1Guards(d, q)[3 + i] =
              When(FeatureOrder[i] \in d, BodyRuleGuard(FeatureGuard[FeatureOrder[i]], q))
<1> DEFINE heads == <<PlainPath(q), V1ApiGuard(q), V1NeverGuard(q)>>
           guards == [i \in 1 .. 8 |->
              When(FeatureOrder[i] \in d, BodyRuleGuard(FeatureGuard[FeatureOrder[i]], q))]
<1>1. V1Guards(d, q) = heads \o guards
  BY DEF V1Guards
<1>2. /\ Len(heads) = 3 /\ heads[1] = PlainPath(q) /\ heads[2] = V1ApiGuard(q)
      /\ heads[3] = V1NeverGuard(q)
  OBVIOUS
<1>3. Len(guards) = 8 /\ \A i \in 1 .. 8 : guards[i] =
        When(FeatureOrder[i] \in d, BodyRuleGuard(FeatureGuard[FeatureOrder[i]], q))
  OBVIOUS
<1> DEFINE S == {heads[1], heads[2], heads[3]} \cup {guards[i] : i \in 1 .. 8}
<1>4. heads \in Seq(S) /\ guards \in Seq(S)
  OBVIOUS
<1> HIDE DEF heads, guards, S
<1>5. /\ Len(heads \o guards) = 11
      /\ \A i \in 1 .. 3 : (heads \o guards)[i] = heads[i]
      /\ \A i \in 1 .. 8 : (heads \o guards)[3 + i] = guards[i]
  <2>1. /\ Len(heads \o guards) = Len(heads) + Len(guards)
        /\ \A i \in 1 .. Len(heads) : (heads \o guards)[i] = heads[i]
        /\ \A i \in 1 .. Len(guards) : (heads \o guards)[Len(heads) + i] = guards[i]
    BY <1>4, Concatenated
  <2> QED
    BY <1>2, <1>3, <2>1
<1>6. /\ (heads \o guards)[1] = heads[1] /\ (heads \o guards)[2] = heads[2]
      /\ (heads \o guards)[3] = heads[3]
  BY <1>5
<1> QED
  BY <1>1, <1>2, <1>3, <1>5, <1>6

\* What is kept out of a session.
KeptOut(v, d, q) == Uses(q) \cap d # {} \/ Forbidden(v, q)

LEMMA V1Refuses ==
  ASSUME NEW d \in SUBSET Features, NEW q \in Requests(1), KeptOut(1, d, q)
  PROVE  \E k \in 1 .. Len(V1Guards(d, q)) : RefusesSent(V1Guards(d, q)[k], q)
<1>1. CASE q.route \in Writes /\ q.path = "odd"
  <2>1. RefusesSent(PlainPath(q), q)
    BY <1>1 DEF RefusesSent, PlainPath, Stop, Pass
  <2> QED
    BY <2>1, V1At
<1>2. CASE q.path = "undecodable" \/ q.route \in {"fsWrite", "export", "pairing"}
  <2>1. RefusesSent(V1ApiGuard(q), q)
    BY <1>2 DEF RefusesSent, V1ApiGuard, Stop, Pass
  <2> QED
    BY <2>1, V1At
<1>3. CASE q.route = "never"
  <2>1. RefusesSent(V1NeverGuard(q), q)
    BY <1>3 DEF RefusesSent, V1NeverGuard, Stop, Pass
  <2> QED
    BY <2>1, V1At
<1>4. CASE Uses(q) \cap d # {} /\ q.route \notin {"fsWrite", "export"}
  <2>1. PICK f \in Uses(q) : f \in d
    BY <1>4
  <2>2. f \in Features
    BY DEF Uses
  <2>3. RefusesSent(BodyRuleGuard(FeatureGuard[f], q), q)
    BY <1>4, <2>2, V1Uses, V1Feature
  <2>4. PICK i \in 1 .. 8 : FeatureOrder[i] = f
    BY <2>2 DEF Features, FeatureOrder
  <2>5. V1Guards(d, q)[3 + i] = BodyRuleGuard(FeatureGuard[f], q)
    BY <2>1, <2>4, V1At DEF When
  <2>6. 3 + i \in 1 .. Len(V1Guards(d, q))
    <3>1. Len(V1Guards(d, q)) = 11
      BY V1At
    <3> QED
      BY <3>1
  <2> QED
    BY <2>3, <2>5, <2>6
<1> QED
  BY <1>1, <1>2, <1>3, <1>4 DEF KeptOut, Forbidden

-----------------------------------------------------------------------------
(* 2.x. *)

LEMMA V2At ==
  ASSUME NEW d, NEW q
  PROVE  /\ Len(V2Guards(d, q)) = 8
         /\ V2Guards(d, q)[1] = PlainPath(q) /\ V2Guards(d, q)[2] = V2Route(d, q)
         /\ \A i \in 1 .. 6 : V2Guards(d, q)[2 + i] = CheckRequest(d, q)[i]
<1>1. Len(CheckRequest(d, q)) = 6
  BY DEF CheckRequest
<1> DEFINE heads == <<PlainPath(q), V2Route(d, q)>>
           checks == CheckRequest(d, q)
           S == {heads[1], heads[2]} \cup {checks[i] : i \in 1 .. 6}
<1>2. heads \in Seq(S) /\ Len(heads) = 2 /\ heads[1] = PlainPath(q) /\ heads[2] = V2Route(d, q)
  OBVIOUS
<1>3. checks \in Seq(S)
  BY DEF CheckRequest
<1>4. V2Guards(d, q) = heads \o checks
  BY DEF V2Guards
<1> HIDE DEF heads, checks, S
<1>5. /\ Len(heads \o checks) = 8
      /\ \A i \in 1 .. 2 : (heads \o checks)[i] = heads[i]
      /\ \A i \in 1 .. 6 : (heads \o checks)[2 + i] = checks[i]
  <2>1. /\ Len(heads \o checks) = Len(heads) + Len(checks)
        /\ \A i \in 1 .. Len(heads) : (heads \o checks)[i] = heads[i]
        /\ \A i \in 1 .. Len(checks) : (heads \o checks)[Len(heads) + i] = checks[i]
    BY <1>2, <1>3, Concatenated
  <2>2. Len(checks) = 6
    BY <1>1 DEF checks
  <2> QED
    BY <1>2, <2>1, <2>2
<1>6. (heads \o checks)[1] = heads[1] /\ (heads \o checks)[2] = heads[2]
  BY <1>5
<1> QED
  BY <1>2, <1>4, <1>5, <1>6 DEF checks

LEMMA V2Checks ==
  ASSUME NEW d, NEW q, NEW i \in 1 .. 6, RefusesSent(CheckRequest(d, q)[i], q)
  PROVE  \E k \in 1 .. Len(V2Guards(d, q)) : RefusesSent(V2Guards(d, q)[k], q)
BY V2At

LEMMA V2Refuses ==
  ASSUME NEW d \in SUBSET Features, NEW q \in Requests(2), KeptOut(2, d, q)
  PROVE  \E k \in 1 .. Len(V2Guards(d, q)) : RefusesSent(V2Guards(d, q)[k], q)
<1> DEFINE checks == CheckRequest(d, q)
           off(f) == f \in d
           files == (IF off("uploads") THEN {"upload"} ELSE {})
                      \cup (IF off("downloads") THEN {"file"} ELSE {})
<1>1. /\ checks[1] = CheckFsWrite(q)
      /\ checks[2] = When(q.route = "worktree", Object({"directory"}))
      /\ checks[3] = When(q.route = "project", Object({"commands"} \cup (files \ {"file"})))
      /\ checks[4] = When((off("downloads") \/ off("shell")) /\ q.route = "session",
                          Object({"permission"}))
      /\ checks[5] = When(off("shell") /\ q.route = "command", Object({"runs"}))
      /\ checks[6] = When(files # {} /\ q.route \in {"apiPrompt", "command"}, Object(files))
  BY DEF CheckRequest
<1>2. ASSUME NEW x \in q.facts
      PROVE  /\ q.kind = "object" /\ q.route \in Routes /\ x \in Facts
             /\ x = "directory" => q.route = "worktree"
             /\ x = "elsewhere" => q.route = "fsWrite"
             /\ x = "permission" => q.route = "session"
             /\ x = "commands" => q.route = "project"
             /\ x = "runs" => q.route = "command"
             /\ x = "upload" => q.route \in {"project", "apiPrompt", "command"}
             /\ x = "file" => q.route \in {"apiPrompt", "command"}
             /\ x \notin {"sharing", "wellknown"}
  <2>1. /\ q.kind = "object" /\ q.route \in Routes /\ x \in Facts
        /\ <<q.route, x>> \in
             {<<"worktree", "directory">>, <<"fsWrite", "elsewhere">>, <<"session", "permission">>,
              <<"project", "commands">>, <<"project", "upload">>, <<"command", "runs">>}
               \cup {"apiPrompt", "command"} \X {"upload", "file"}
    BY RequestFacts DEF FactsOf
  <2> QED
    BY <2>1
<1>3. CASE q.route \in Writes /\ q.path = "odd"
  <2>1. RefusesSent(PlainPath(q), q)
    BY <1>3 DEF RefusesSent, PlainPath, Stop, Pass
  <2> QED
    BY <2>1, V2At
<1>4. CASE q.path = "undecodable" \/ V2Rule[q.route] \in d \cup {"never"}
  <2>1. RefusesSent(V2Route(d, q), q)
    BY <1>4 DEF RefusesSent, V2Route, Stop, Pass
  <2> QED
    BY <2>1, V2At
<1>5. CASE "elsewhere" \in q.facts
  <2>1. RefusesSent(checks[1], q)
    BY <1>1, <1>2, <1>5 DEF RefusesSent, CheckFsWrite, Stop, Pass
  <2> QED
    BY <2>1, V2Checks
<1>6. CASE "directory" \in q.facts
  <2>1. RefusesSent(checks[2], q)
    <3>1. q.route = "worktree" /\ q.kind = "object"
      BY <1>2, <1>6
    <3>2. "directory" \in {"directory"}
      BY <1>6
    <3>3. RefusesSent(Object({"directory"}), q)
      BY <1>6, <3>1, <3>2, BodyRefuses
    <3> QED
      BY <1>1, <1>6, <3>1, <3>2, <3>3 DEF When
  <2> QED
    BY <2>1, V2Checks
<1>7. CASE "commands" \in q.facts
  <2>1. RefusesSent(checks[3], q)
    <3>1. q.route = "project" /\ q.kind = "object"
      BY <1>2, <1>7
    <3>2. "commands" \in {"commands"} \cup (files \ {"file"})
      BY <1>7
    <3>3. RefusesSent(Object({"commands"} \cup (files \ {"file"})), q)
      BY <1>7, <3>1, <3>2, BodyRefuses
    <3> QED
      BY <1>1, <1>7, <3>1, <3>2, <3>3 DEF When
  <2> QED
    BY <2>1, V2Checks
<1>8. CASE "upload" \in q.facts /\ "uploads" \in d
  <2>1. RefusesSent(checks[3], q) \/ RefusesSent(checks[6], q)
    <3>1. q.route \in {"project", "apiPrompt", "command"} /\ q.kind = "object"
      BY <1>2, <1>8
    <3>2. "upload" \in files /\ "upload" \in {"commands"} \cup (files \ {"file"}) /\ files # {}
      BY <1>8
    <3>3. RefusesSent(Object(files), q) /\ RefusesSent(Object({"commands"} \cup (files \ {"file"})), q)
      BY <1>8, <3>1, <3>2, BodyRefuses
    <3> QED
      BY <1>1, <3>1, <3>2, <3>3 DEF When
  <2> QED
    BY <2>1, V2Checks
<1>9. CASE "file" \in q.facts /\ "downloads" \in d
  <2>1. RefusesSent(checks[6], q)
    <3>1. q.route \in {"apiPrompt", "command"} /\ q.kind = "object"
      BY <1>2, <1>9
    <3>2. "file" \in files /\ files # {}
      BY <1>9
    <3>3. RefusesSent(Object(files), q)
      BY <1>9, <3>1, <3>2, BodyRefuses
    <3> QED
      BY <1>1, <1>9, <3>1, <3>2, <3>3 DEF When
  <2> QED
    BY <2>1, V2Checks
<1>10. CASE "permission" \in q.facts /\ ("downloads" \in d \/ "shell" \in d)
  <2>1. RefusesSent(checks[4], q)
    <3>1. q.route = "session" /\ q.kind = "object"
      BY <1>2, <1>10
    <3>2. "permission" \in {"permission"}
      BY <1>10
    <3>3. RefusesSent(Object({"permission"}), q)
      BY <1>10, <3>1, <3>2, BodyRefuses
    <3> QED
      BY <1>1, <1>10, <3>1, <3>2, <3>3 DEF When
  <2> QED
    BY <2>1, V2Checks
<1>11. CASE "runs" \in q.facts /\ "shell" \in d
  <2>1. RefusesSent(checks[5], q)
    <3>1. q.route = "command" /\ q.kind = "object"
      BY <1>2, <1>11
    <3>2. "runs" \in {"runs"}
      BY <1>11
    <3>3. RefusesSent(Object({"runs"}), q)
      BY <1>11, <3>1, <3>2, BodyRefuses
    <3> QED
      BY <1>1, <1>11, <3>1, <3>2, <3>3 DEF When
  <2> QED
    BY <2>1, V2Checks
<1>12. /\ V2Rule["contents"] = "downloads" /\ V2Rule["pty"] = "terminal"
       /\ V2Rule["shell"] = "shell" /\ V2Rule["mcp"] = "mcp"
       /\ V2Rule["fsWrite"] = "uploads" /\ V2Rule["export"] = "export"
       /\ V2Rule["never"] = "never" /\ V2Rule["pairing"] = "never" /\ V2Rule["part"] = "never"
       /\ V2Rule["config"] = "never" /\ V2Rule["credential"] = "never"
       /\ V2Rule["addMcp"] = "never" /\ V2Rule["message"] = "never" /\ V2Rule["share"] = "never"
  BY DEF V2Rule, Routes, Reads
<1>13. ASSUME NEW f \in Uses(q), f \in d
       PROVE \/ V2Rule[q.route] \in d \cup {"never"} \/ "commands" \in q.facts
             \/ "upload" \in q.facts /\ "uploads" \in d
             \/ "file" \in q.facts /\ "downloads" \in d
             \/ "permission" \in q.facts /\ ("downloads" \in d \/ "shell" \in d)
             \/ "runs" \in q.facts /\ "shell" \in d
  <2>1. "sharing" \notin q.facts /\ "wellknown" \notin q.facts
    BY <1>2
  <2> QED
    BY <1>12, <1>13, <2>1 DEF Uses
<1>14. CASE Forbidden(2, q)
  <2>1. \/ q.path = "undecodable" \/ V2Rule[q.route] = "never"
        \/ q.route \in Writes /\ q.path = "odd"
        \/ "commands" \in q.facts \/ "directory" \in q.facts \/ "elsewhere" \in q.facts
    BY <1>12, <1>14 DEF Forbidden
  <2> QED
    BY <1>3, <1>4, <1>5, <1>6, <1>7, <2>1
<1>15. CASE Uses(q) \cap d # {}
  BY <1>4, <1>7, <1>8, <1>9, <1>10, <1>11, <1>13, <1>15
<1> QED
  BY <1>14, <1>15 DEF KeptOut

\* The guards of either version refuse what is to be kept out.
LEMMA GuardsRefuse ==
  ASSUME NEW v \in {1, 2}, NEW d \in SUBSET Features, NEW q \in Requests(v), KeptOut(v, d, q)
  PROVE  \E k \in 1 .. Len(VersionedGuards(v, d, q)) : RefusesSent(VersionedGuards(v, d, q)[k], q)
BY V1Refuses, V2Refuses DEF VersionedGuards

-----------------------------------------------------------------------------
(* The frames of a WebSocket. *)

\* The frames 1 .. n, in order.
UpTo(n) == [i \in 1 .. n |-> i]

\* Frames wait only on a WebSocket, and only until the gateway's socket has opened.
FramesInv ==
  /\ sent \in Nat /\ got \in Seq(Nat) /\ pending \in Seq(Nat)
  /\ got \o pending = UpTo(sent)
  /\ at # "socket" \/ up = "open" => pending = <<>>

LEMMA Count ==
  ASSUME NEW n \in Nat
  PROVE  UpTo(n) \in Seq(Nat) /\ Append(UpTo(n), n + 1) = UpTo(n + 1)
BY DEF UpTo

LEMMA QueuedBehind ==
  ASSUME NEW s \in Seq(Nat), NEW t \in Seq(Nat), NEW x \in Nat
  PROVE  s \o Append(t, x) = Append(s \o t, x)
<1> DEFINE l == s \o Append(t, x)
           r == Append(s \o t, x)
<1>1. Len(l) = Len(s) + Len(t) + 1 /\ Len(r) = Len(s) + Len(t) + 1
  OBVIOUS
<1>2. ASSUME NEW i \in 1 .. Len(s) + Len(t) + 1 PROVE l[i] = r[i]
  OBVIOUS
<1>3. l \in Seq(Nat) /\ r \in Seq(Nat)
  OBVIOUS
<1> HIDE DEF l, r
<1>4. l = r
  BY <1>1, <1>2, <1>3
<1> QED
  BY <1>4 DEF l, r

LEMMA Joined ==
  ASSUME NEW s \in Seq(Nat), NEW t \in Seq(Nat)
  PROVE  s \o t \in Seq(Nat) /\ (s \o t) \o <<>> = s \o t /\ s \o <<>> = s
OBVIOUS

\* The steps that touch no frame and open no socket.
LEMMA QuietStep ==
  ASSUME FramesInv, UNCHANGED <<pending, got, sent>>,
         at = "socket" => at' = "socket",
         up' = "open" => up = "open" \/ at # "socket"
  PROVE  FramesInv'
BY DEF FramesInv

LEMMA FramesStep == FramesInv /\ [Next]_vars => FramesInv'
<1> SUFFICES ASSUME FramesInv, [Next]_vars PROVE FramesInv'
  OBVIOUS
<1> USE DEF stream, NoFrames
<1>1. CASE Authenticate \/ CheckAccess \/ SessionAccess \/ RunCheck
  <2>1. /\ UNCHANGED <<pending, got, sent, up>>
        /\ at # "socket" /\ at' # "socket"
    BY <1>1 DEF Authenticate, CheckAccess, SessionAccess, RunCheck, Go
  <2> QED
    BY <2>1, QuietStep
<1>2. CASE OnOpen
  BY <1>2 DEF OnOpen, Go, FramesInv
<1>3. CASE Forward \/ Respond
  <2>1. UNCHANGED <<pending, got, sent, up>> /\ at # "socket" /\ at' # "socket"
    BY <1>3 DEF Forward, Respond, Go
  <2> QED
    BY <2>1, QuietStep
<1>4. CASE RespondStream
  BY <1>4 DEF RespondStream, Go, FramesInv
<1>5. CASE Pull \/ ReadSettles \/ PullEnds \/ GatewayEnds \/ EndStream
  <2>1. UNCHANGED <<pending, got, sent>> /\ at = "events" /\ at' = at
    BY <1>5 DEF Pull, ReadSettles, PullEnds, GatewayEnds, EndStream, Quiet
  <2> QED
    BY <2>1, QuietStep
<1>6. CASE UpOpen
  <2>1. /\ at = "socket" /\ at' = at /\ sent' = sent
        /\ got' = got \o pending /\ pending' = <<>>
    BY <1>6 DEF UpOpen, Socket, Quiet
  <2>2. got' \in Seq(Nat) /\ got' \o pending' = got'
    BY <2>1, Joined DEF FramesInv
  <2> QED
    BY <2>1, <2>2 DEF FramesInv
<1>7. CASE OnMessage
  <2>1. at = "socket" /\ at' = at /\ up' = up /\ sent' = sent + 1
    BY <1>7 DEF OnMessage, Socket, Quiet
  <2>2. sent \in Nat /\ sent' \in Nat /\ Append(UpTo(sent), sent + 1) = UpTo(sent')
    <3>1. sent \in Nat
      BY DEF FramesInv
    <3>2. Append(UpTo(sent), sent + 1) = UpTo(sent + 1)
      BY <3>1, Count
    <3>3. sent' \in Nat
      BY <2>1, <3>1
    <3> QED
      BY <2>1, <3>1, <3>2, <3>3
  <2>3. CASE up = "open"
    <3>1. got' = Append(got, sent + 1) /\ pending' = pending
      BY <1>7, <2>1, <2>3 DEF OnMessage
    <3>2. pending = <<>> /\ got = UpTo(sent)
      BY <2>3 DEF FramesInv
    <3>3. got' = UpTo(sent') /\ got' \in Seq(Nat) /\ got' \o pending' = got'
      BY <2>2, <3>1, <3>2 DEF FramesInv
    <3> QED
      BY <2>1, <2>2, <3>1, <3>2, <3>3 DEF FramesInv
  <2>4. CASE up # "open"
    <3>1. pending' = Append(pending, sent + 1) /\ got' = got
      BY <1>7, <2>1, <2>4 DEF OnMessage
    <3>2. got' \o pending' = UpTo(sent')
      <4>1. got \in Seq(Nat) /\ pending \in Seq(Nat) /\ sent + 1 \in Nat
            /\ got \o pending = UpTo(sent)
        BY <2>2 DEF FramesInv
      <4>2. got \o Append(pending, sent + 1) = Append(got \o pending, sent + 1)
        BY <4>1, QueuedBehind
      <4> QED
        BY <2>2, <3>1, <4>1, <4>2
    <3>3. pending' \in Seq(Nat) /\ got' \in Seq(Nat)
      BY <2>2, <3>1 DEF FramesInv
    <3> QED
      BY <2>1, <2>2, <2>4, <3>2, <3>3 DEF FramesInv
  <2> QED
    BY <2>3, <2>4
<1>8. CASE UpErrors \/ UpCloses \/ DownCloses \/ Deny
  <2>1. UNCHANGED <<pending, got, sent>> /\ at = "socket" /\ at' = at
    BY <1>8 DEF UpErrors, UpCloses, DownCloses, Deny, Socket, Quiet
  <2>2. up' = "open" => up = "open"
    BY <1>8 DEF UpErrors, UpCloses, DownCloses, Deny, Closing
  <2> QED
    BY <2>1, <2>2, QuietStep
<1>9. CASE UNCHANGED vars
  BY <1>9, QuietStep DEF vars
<1> QED
  BY <1>1, <1>2, <1>3, <1>4, <1>5, <1>6, <1>7, <1>8, <1>9 DEF Next

\* A WebSocket's frames reach the gateway in order, none twice and none lost, however
\* many come before the gateway's socket opens (ws-relay.ts, relayEvents).
THEOREM FramesKeepTheirOrder == Spec => []FramesInOrder
<1>1. Init => FramesInv
  BY DEF Init, FramesInv, UpTo
<1>2. FramesInv => FramesInOrder
  BY DEF FramesInv, FramesInOrder, UpTo
<1> QED
  BY <1>1, <1>2, FramesStep, PTL DEF Spec

-----------------------------------------------------------------------------
(* What the guards keep out stays out. *)

LEMMA GuardsAreChecks ==
  ASSUME NEW v \in {1, 2}, NEW d \in SUBSET Features, NEW q
  PROVE  VersionedGuards(v, d, q) \in Seq(Check)
<1>1. /\ \A b \in BOOLEAN : Stop(b) \in Check
      /\ Pass \in Check
      /\ \A c, check : check \in Check => When(c, check) \in Check
  BY Checks DEF When
<1>2. CASE v = 1
  <2>1. PlainPath(q) \in Check /\ V1ApiGuard(q) \in Check /\ V1NeverGuard(q) \in Check
    BY <1>1 DEF PlainPath, V1ApiGuard, V1NeverGuard
  <2>2. \A guard : BodyRuleGuard(guard, q) \in Check
    BY <1>1, Checks DEF BodyRuleGuard, Sought
  <2>3. [i \in 1 .. 8 |-> LET f == FeatureOrder[i] IN
           When(f \in d, BodyRuleGuard(FeatureGuard[f], q))] \in Seq(Check)
    BY <1>1, <2>2
  <2>4. <<PlainPath(q), V1ApiGuard(q), V1NeverGuard(q)>> \in Seq(Check)
    BY <2>1
  <2> QED
    BY <1>2, <2>3, <2>4 DEF VersionedGuards, V1Guards
<1>3. CASE v = 2
  <2>1. PlainPath(q) \in Check /\ V2Route(d, q) \in Check /\ CheckFsWrite(q) \in Check
    BY <1>1 DEF PlainPath, V2Route, CheckFsWrite
  <2>2. <<PlainPath(q), V2Route(d, q)>> \in Seq(Check)
    BY <2>1
  <2>3. CheckRequest(d, q) \in Seq(Check)
    <3> DEFINE off(f) == f \in d
               files == (IF off("uploads") THEN {"upload"} ELSE {})
                          \cup (IF off("downloads") THEN {"file"} ELSE {})
    <3>1. /\ Object({"directory"}) \in Check /\ Object({"commands"} \cup (files \ {"file"})) \in Check
          /\ Object({"permission"}) \in Check /\ Object({"runs"}) \in Check
          /\ Object(files) \in Check
      BY Checks DEF Facts
    <3> QED
      BY <1>1, <2>1, <3>1 DEF CheckRequest
  <2> QED
    BY <1>3, <2>2, <2>3 DEF VersionedGuards, V2Guards
<1> QED
  BY <1>2, <1>3

\* Some check that has not run yet refuses the request as it was sent.
WillRefuse == \E k \in 1 .. Len(todo) : RefusesSent(todo[k], req)
Kept == KeptOut(version, disabled, req)

\* Until it is answered, a request that is to be kept out has a check before it that refuses
\* it; every check finds the body as it was sent; and nothing has been relayed.
GuardInv ==
  /\ version \in {1, 2} /\ disabled \in SUBSET Features /\ req \in Requests(version)
  /\ todo \in Seq(Check)
  /\ kept \/ unread \/ at = "done"
  /\ at = "guards" /\ Kept => WillRefuse
  /\ relayed # "no" => relayed = "whole" /\ ~Kept

LEMMA Stutter ==
  ASSUME UNCHANGED vars
  PROVE  /\ UNCHANGED <<version, disabled, req, todo, kept, unread, relayed, at>>
         /\ UNCHANGED <<answer, down, up, hand>>
BY DEF vars, request, body, stream

LEMMA GuardStep == GuardInv /\ [Next]_vars => GuardInv'
<1> SUFFICES ASSUME GuardInv, [Next]_vars PROVE GuardInv'
  OBVIOUS
<1> USE DEF request, body, stream, Quiet, NoFrames, Go
<1>1. CASE UNCHANGED <<request, todo, body, relayed>> /\ (at' = at \/ (at' # "guards" /\ at # "done"))
  <2>1. /\ UNCHANGED <<version, disabled, req, todo, kept, unread, relayed>>
        /\ Kept' <=> Kept
        /\ WillRefuse' <=> WillRefuse
    BY <1>1 DEF Kept, WillRefuse
  <2> QED
    BY <1>1, <2>1 DEF GuardInv
<1>2. CASE Authenticate \/ CheckAccess \/ Respond \/ RespondStream
  BY <1>1, <1>2 DEF Authenticate, CheckAccess, Respond, RespondStream
<1>3. CASE SessionAccess
  <2>1. /\ UNCHANGED <<version, disabled, req, kept, unread, relayed>> /\ at = "lookup"
        /\ \/ at' = "guards" /\ todo' = VersionedGuards(version, disabled, req)
           \/ at' = "done" /\ todo' = todo
    BY <1>3 DEF SessionAccess
  <2>2. Kept' <=> Kept
    BY <2>1 DEF Kept
  <2>3. CASE at' = "done" /\ todo' = todo
    BY <2>1, <2>2, <2>3 DEF GuardInv
  <2>4. CASE at' = "guards" /\ todo' = VersionedGuards(version, disabled, req)
    <3>1. todo' \in Seq(Check)
      BY <2>4, GuardsAreChecks DEF GuardInv
    <3>2. Kept => WillRefuse'
      BY <2>1, <2>4, GuardsRefuse DEF GuardInv, Kept, WillRefuse
    <3> QED
      BY <2>1, <2>2, <2>4, <3>1, <3>2 DEF GuardInv
  <2> QED
    BY <2>1, <2>3, <2>4
<1>4. CASE RunCheck
  <2>1. /\ UNCHANGED <<version, disabled, req, relayed>> /\ at = "guards" /\ todo # <<>>
        /\ todo' = Tail(todo)
        /\ at' = IF Refuses(Head(todo)) THEN "done" ELSE "guards"
    BY <1>4 DEF RunCheck
  <2>2. /\ Len(todo) \in Nat \ {0} /\ Head(todo) = todo[1] /\ todo' \in Seq(Check)
        /\ Len(todo') = Len(todo) - 1 /\ \A k \in 1 .. Len(todo') : todo'[k] = todo[k + 1]
    BY <2>1 DEF GuardInv
  <2>3. Found = req
    BY <2>1 DEF GuardInv, Found
  <2>4. Refuses(Head(todo)) <=> RefusesSent(todo[1], req)
    BY <2>2, <2>3 DEF Refuses, RefusesSent
  <2>5. kept' \/ unread' \/ at' = "done"
    <3>1. CASE Head(todo).reads
      <4>1. kept' = (req.kind # "huge")
        BY <1>4, <2>3, <3>1 DEF RunCheck, JsonBody
      <4>2. req.kind = "huge" => RefusesSent(todo[1], req)
        BY <2>2, <3>1 DEF RefusesSent
      <4> QED
        BY <2>1, <2>4, <4>1, <4>2
    <3>2. CASE ~Head(todo).reads
      BY <1>4, <2>1, <3>2 DEF RunCheck, GuardInv
    <3> QED
      BY <3>1, <3>2
  <2>6. at' = "guards" /\ WillRefuse => WillRefuse'
    <3> SUFFICES ASSUME at' = "guards", WillRefuse PROVE WillRefuse'
      OBVIOUS
    <3>1. PICK k \in 1 .. Len(todo) : RefusesSent(todo[k], req)
      BY DEF WillRefuse
    <3>2. k # 1
      BY <2>1, <2>4, <3>1
    <3>3. k - 1 \in 1 .. Len(todo') /\ todo'[k - 1] = todo[k]
      BY <2>2, <3>2
    <3> QED
      BY <2>1, <3>1, <3>3 DEF WillRefuse
  <2>7. Kept' <=> Kept
    BY <2>1 DEF Kept
  <2> QED
    BY <2>1, <2>2, <2>5, <2>6, <2>7 DEF GuardInv
<1>5. CASE OnOpen \/ Forward
  <2>1. /\ UNCHANGED <<version, disabled, req, todo, kept, unread>>
        /\ at = "guards" /\ at' \in {"socket", "fetched"} /\ todo = <<>>
    BY <1>5 DEF OnOpen, Forward
  <2>2. ~WillRefuse
    BY <2>1 DEF WillRefuse
  <2>3. relayed' = "whole"
    BY <1>5, <2>1 DEF OnOpen, Forward, GuardInv
  <2>4. ~Kept /\ (Kept' <=> Kept)
    BY <2>1, <2>2 DEF GuardInv, Kept
  <2> QED
    BY <2>1, <2>3, <2>4 DEF GuardInv
<1>6. CASE Pull \/ ReadSettles \/ PullEnds \/ GatewayEnds \/ EndStream
  BY <1>1, <1>6 DEF Pull, ReadSettles, PullEnds, GatewayEnds, EndStream
<1>7. CASE UpOpen \/ OnMessage \/ UpErrors \/ UpCloses \/ DownCloses \/ Deny
  BY <1>1, <1>7 DEF UpOpen, OnMessage, UpErrors, UpCloses, DownCloses, Deny, Socket
<1>8. CASE UNCHANGED vars
  <2>1. /\ UNCHANGED <<version, disabled, req, todo, kept, unread, relayed, at>>
        /\ Kept' <=> Kept
        /\ WillRefuse' <=> WillRefuse
    BY <1>8, Stutter DEF Kept, WillRefuse
  <2> QED
    BY <2>1 DEF GuardInv
<1> QED
  BY <1>2, <1>3, <1>4, <1>5, <1>6, <1>7, <1>8 DEF Next

\* For every deployment and both opencode versions: what reaches opencode is the whole body
\* that was checked, uses no disabled feature and is nothing that is always refused
\* (v1Guards, v2Guards, jsonBody and proxyHttp together).
THEOREM NothingDisabledPasses == Spec => []DisabledStaysOut
<1>1. Init => GuardInv
  BY DeploymentsAssumption DEF Init, GuardInv
<1>2. GuardInv => DisabledStaysOut
  BY DEF GuardInv, DisabledStaysOut, Kept, KeptOut
<1> QED
  BY <1>1, <1>2, GuardStep, PTL DEF Spec

-----------------------------------------------------------------------------
(* Type correctness. *)

Modes ==
  /\ disabled \in Deployments
  /\ at \in {"auth", "access", "lookup", "guards", "forward", "fetched", "events", "socket", "done"}
  /\ relayed \in {"no", "whole", "lost"} /\ answer \in {"none", "as is", "clean", "502", "error"}
  /\ down \in {"none", "open", "closing", "closed"}
  /\ up \in {"none", "connecting", "open", "closing", "closed", "failed"}
  /\ hand \in {"idle", "reading", "chunk", "done", "error"}
Flags == unread \in BOOLEAN /\ kept \in BOOLEAN /\ watch \in BOOLEAN
Numbered ==
  pending \in Seq(1 .. MaxFrames) /\ got \in Seq(1 .. MaxFrames) /\ sent \in 0 .. MaxFrames

LEMMA ModesStep == Modes /\ [Next]_vars => Modes'
<1> SUFFICES ASSUME Modes, [Next]_vars PROVE Modes'
  OBVIOUS
<1> USE DEF Modes, request, body, stream, Go, Quiet, NoFrames, CloseDown, Closing
<1>1. CASE Authenticate \/ CheckAccess \/ SessionAccess
  BY <1>1 DEF Authenticate, CheckAccess, SessionAccess
<1>2. CASE RunCheck
  BY <1>2 DEF RunCheck
<1>3. CASE OnOpen \/ Forward \/ Respond \/ RespondStream
  BY <1>3 DEF OnOpen, Forward, Respond, RespondStream
<1>4. CASE Pull \/ ReadSettles \/ PullEnds \/ GatewayEnds \/ EndStream
  BY <1>4 DEF Pull, ReadSettles, PullEnds, GatewayEnds, EndStream
<1>5. CASE UpOpen \/ OnMessage \/ UpErrors \/ UpCloses \/ DownCloses \/ Deny
  BY <1>5 DEF UpOpen, OnMessage, UpErrors, UpCloses, DownCloses, Deny, Socket
<1>6. CASE UNCHANGED vars
  BY <1>6, Stutter
<1> QED
  BY <1>1, <1>2, <1>3, <1>4, <1>5, <1>6 DEF Next

LEMMA FlagsStep == Flags /\ [Next]_vars => Flags'
<1> SUFFICES ASSUME Flags, [Next]_vars PROVE Flags'
  OBVIOUS
<1> USE DEF Flags, body, stream, Quiet, CloseDown
<1>1. CASE Authenticate \/ CheckAccess \/ SessionAccess
  BY <1>1 DEF Authenticate, CheckAccess, SessionAccess
<1>2. CASE RunCheck
  BY <1>2 DEF RunCheck, JsonBody
<1>3. CASE OnOpen \/ Forward \/ Respond \/ RespondStream
  BY <1>3 DEF OnOpen, Forward, Respond, RespondStream
<1>4. CASE Pull \/ ReadSettles \/ PullEnds \/ GatewayEnds \/ EndStream
  BY <1>4 DEF Pull, ReadSettles, PullEnds, GatewayEnds, EndStream
<1>5. CASE UpOpen \/ OnMessage \/ UpErrors \/ UpCloses \/ DownCloses \/ Deny
  BY <1>5 DEF UpOpen, OnMessage, UpErrors, UpCloses, DownCloses, Deny, Socket
<1>6. CASE UNCHANGED vars
  BY <1>6 DEF vars
<1> QED
  BY <1>1, <1>2, <1>3, <1>4, <1>5, <1>6 DEF Next

LEMMA NumberedStep == Numbered /\ [Next]_vars => Numbered'
<1> SUFFICES ASSUME Numbered, [Next]_vars PROVE Numbered'
  OBVIOUS
<1> DEFINE Numbers == 1 .. MaxFrames
<1>0. MaxFrames \in Nat
  BY BoundsAssumption
<1>1. CASE UpOpen
  <2>1. got' = got \o pending /\ pending' = <<>> /\ sent' = sent
    BY <1>1 DEF UpOpen
  <2>2. got \o pending \in Seq(Numbers) /\ <<>> \in Seq(Numbers)
    BY Concatenated DEF Numbered
  <2> QED
    BY <2>1, <2>2 DEF Numbered
<1>2. CASE OnMessage
  <2>1. sent' \in Numbers /\ sent' \in 0 .. MaxFrames
    BY <1>0, <1>2 DEF OnMessage, Numbered
  <2>2. /\ got' = got \/ got' = Append(got, sent')
        /\ pending' = pending \/ pending' = Append(pending, sent')
    BY <1>2 DEF OnMessage
  <2>3. Append(got, sent') \in Seq(Numbers) /\ Append(pending, sent') \in Seq(Numbers)
    BY <2>1 DEF Numbered
  <2> QED
    BY <2>1, <2>2, <2>3 DEF Numbered
<1>3. CASE \/ Authenticate \/ CheckAccess \/ SessionAccess \/ RunCheck
           \/ OnOpen \/ Forward \/ Respond \/ RespondStream
  BY <1>3 DEF Authenticate, CheckAccess, SessionAccess, RunCheck, OnOpen, Forward, Respond,
              RespondStream, stream, Numbered
<1>4. CASE Pull \/ ReadSettles \/ PullEnds \/ GatewayEnds \/ EndStream
  BY <1>4 DEF Pull, ReadSettles, PullEnds, GatewayEnds, EndStream, NoFrames, Numbered
<1>5. CASE UpErrors \/ UpCloses \/ DownCloses \/ Deny
  BY <1>5 DEF UpErrors, UpCloses, DownCloses, Deny, NoFrames, Numbered
<1>6. CASE UNCHANGED vars
  BY <1>6 DEF vars, stream, Numbered
<1> QED
  BY <1>1, <1>2, <1>3, <1>4, <1>5, <1>6 DEF Next

\* Type correctness.
THEOREM TypeCorrect == Spec => []TypeOK
<1> DEFINE Inv == GuardInv /\ Modes /\ Flags /\ Numbered
<1>1. Init => Inv
  <2>1. Init => GuardInv
    BY DeploymentsAssumption DEF Init, GuardInv
  <2>2. Init => Modes /\ Flags
    BY DEF Init, Modes, Flags
  <2>3. Init => Numbered
    BY BoundsAssumption DEF Init, Numbered
  <2> QED
    BY <2>1, <2>2, <2>3
<1>2. Inv /\ [Next]_vars => Inv'
  BY GuardStep, ModesStep, FlagsStep, NumberedStep
<1>3. Inv => TypeOK
  BY DEF GuardInv, Modes, Flags, Numbered, TypeOK, Check
<1> QED
  BY <1>1, <1>2, <1>3, PTL DEF Spec
=============================================================================
