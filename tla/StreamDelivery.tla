---------------------------- MODULE StreamDelivery ----------------------------
(***************************************************************************)
(* What the tunnel promises one browser request: the browser receives what *)
(* the CLI sent for its stream, in order and without a gap, until the CLI's *)
(* end of the stream, the end of the tunnel or the browser's own.          *)
(***************************************************************************)
EXTENDS Naturals, Sequences

CONSTANTS Ids, Chunks

VARIABLES
  sent,   \* stream -> chunks the CLI sent
  ended,  \* streams the CLI has ended
  got,    \* stream -> chunks the browser received
  how,    \* stream -> how its delivery came to an end
  broken, \* the tunnel has closed
  gone    \* streams whose browser has left

vars == <<sent, ended, got, how, broken, gone>>

Init ==
  /\ sent = [i \in Ids |-> <<>>] /\ got = sent
  /\ ended = {} /\ gone = {} /\ broken = FALSE
  /\ how = [i \in Ids |-> "open"]

\* One event of the CLI sends some chunks, and may end the stream.
Send(i) ==
  /\ i \notin ended
  /\ \E s \in {<<>>} \cup {<<c>> : c \in Chunks} : sent' = [sent EXCEPT ![i] = @ \o s]
  /\ ended' \in {ended, ended \cup {i}}
  /\ UNCHANGED <<got, how, broken, gone>>

Deliver(i) ==
  /\ how[i] = "open" /\ Len(got[i]) < Len(sent[i])
  /\ got' = [got EXCEPT ![i] = Append(@, sent[i][Len(@) + 1])]
  /\ UNCHANGED <<sent, ended, how, broken, gone>>

Whole(i) == i \in ended /\ got[i] = sent[i]

\* The delivery ends: whole, or cut off by the tunnel's end or the browser's.
Finish(i) ==
  /\ how[i] = "open"
  /\ \E r \in {"whole", "cut", "left"} :
       /\ r = "whole" => Whole(i)
       /\ r = "cut" => broken
       /\ r = "left" => i \in gone
       /\ how' = [how EXCEPT ![i] = r]
  /\ UNCHANGED <<sent, ended, got, broken, gone>>

Break == broken' = TRUE /\ UNCHANGED <<sent, ended, got, how, gone>>
Leave == \E i \in Ids : gone' = gone \cup {i} /\ UNCHANGED <<sent, ended, got, how, broken>>

Next == Break \/ Leave \/ \E i \in Ids : Send(i) \/ Deliver(i) \/ Finish(i)

Spec == Init /\ [][Next]_vars
=============================================================================
