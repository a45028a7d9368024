--------------------------- MODULE RefreshSession ---------------------------
(***************************************************************************)
(* What refresh-token rotation promises about one sign-in session          *)
(* (docs/superpowers/specs/2026-09-24-bearer-token-auth-design.md,         *)
(* "Rotation and reuse"), without the Redis calls that implement it:       *)
(*   - a refresh token is exchanged for one successor, once;               *)
(*   - the exchange opens a grace window in which a retry is answered with *)
(*     the same successor; a window that has closed never opens again, and *)
(*     no answer is decided once it has, though one may still arrive;      *)
(*   - a session that has ended stays ended.                               *)
(***************************************************************************)
CONSTANTS Tokens, Root

VARIABLES
  live,     \* the session exists
  succ,     \* token -> set of the successors it was exchanged for
  window,   \* tokens in their grace window
  owed,     \* tokens whose presenters are owed an answer with the successor
  granted   \* tokens handed out in an answer

vars == <<live, succ, window, owed, granted>>

Init ==
  /\ live = TRUE
  /\ succ = [t \in Tokens |-> {}]
  /\ window = {} /\ owed = {}
  /\ granted = {Root}

\* The first use of a token that was handed out.
Exchange(t) ==
  /\ t \in granted /\ succ[t] = {}
  /\ \E n \in Tokens :
       /\ n # Root /\ \A x \in Tokens : n \notin succ[x]
       /\ succ' = [succ EXCEPT ![t] = {n}]
  /\ window' = window \cup {t} /\ owed' = owed \cup {t}
  /\ UNCHANGED <<live, granted>>

\* A retry in the window will get what the exchange got.
Retry(t) ==
  /\ t \in window
  /\ owed' = owed \cup {t}
  /\ UNCHANGED <<live, succ, window, granted>>

\* An answer arrives; others may still be owed.
Grant(t) ==
  /\ t \in owed
  /\ granted' = granted \cup succ[t]
  /\ owed' \in {owed, owed \ {t}}
  /\ UNCHANGED <<live, succ, window>>

CloseWindow(t) ==
  /\ t \in window
  /\ window' = window \ {t}
  /\ UNCHANGED <<live, succ, owed, granted>>

\* Sign-out, expiry, or the reuse of a token whose window has closed.
End ==
  /\ live
  /\ live' = FALSE
  /\ UNCHANGED <<succ, window, owed, granted>>

Next == End \/ \E t \in Tokens : Exchange(t) \/ Retry(t) \/ Grant(t) \/ CloseWindow(t)

Spec == Init /\ [][Next]_vars
=============================================================================
