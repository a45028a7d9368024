----------------------------- MODULE SignInProofs -----------------------------
(***************************************************************************)
(* Proofs about SignIn, for any tabs, sign-ins and faults.                 *)
(***************************************************************************)
EXTENDS SignIn, TLAPS

\* Numbers of attempts are positive, None is not one of them.
LEMMA NoneIsNoAttempt == None \notin Attempts
BY SMT DEF None, Attempts

-----------------------------------------------------------------------------
(* Types. *)

\* A tab that has left the page is in a sign-in.
Link == \A t \in Tabs : at[t] # "page" => attempt[t] \in Attempts

TypeInv == TypeOK /\ Link

LEMMA InitTypes == Init => TypeInv
<1> SUFFICES ASSUME Init PROVE TypeInv
  OBVIOUS
<1> USE DEF Init
<1>1. at \in [Tabs -> Places] /\ visited \in [Tabs -> SUBSET Attempts] /\ Link
  BY DEF Places, Link
<1>2. \A f \in {attempt, verifier, carried, posted, user} : f \in [Tabs -> Attempts \cup {None}]
  OBVIOUS
<1>3. /\ cookies \in Attempts \cup {None}
      /\ spent \subseteq Attempts
      /\ challenge \in [Attempts -> Attempts \cup {None}]
      /\ strayed \in BOOLEAN
  OBVIOUS
<1>4. /\ sessions \in [Attempts -> Nat]
      /\ started \in 0 .. MaxAttempts /\ faults \in 0 .. MaxFaults
  BY BoundsAssumption, SMT
<1> QED
  BY <1>1, <1>2, <1>3, <1>4 DEF TypeInv, TypeOK

LEMMA OneMoreFault == Fault /\ TypeOK => faults' \in 0 .. MaxFaults
BY BoundsAssumption, SMT DEF Fault, TypeOK

LEMMA TabTypes ==
  ASSUME TypeInv, NEW t \in Tabs,
         Login(t) \/ Start(t) \/ Authenticate(t) \/ OpenApp(t) \/ Leave(t)
           \/ \E a \in Attempts : GoBack(t, a)
  PROVE  TypeInv'
<1> USE DEF TypeInv, TypeOK, Link, Places, Go, Carry, browser, api
<1>1. CASE Login(t)
  <2>1. started + 1 \in Attempts /\ started' \in 0 .. MaxAttempts
    BY <1>1, BoundsAssumption, SMT DEF Login, Attempts
  <2> QED
    BY <1>1, <2>1 DEF Login
<1>2. CASE Start(t)
  <2>1. attempt[t] \in Attempts
    BY <1>2 DEF Start
  <2> QED
    BY <1>2, <2>1 DEF Start
<1>3. CASE Authenticate(t)
  BY <1>3 DEF Authenticate
<1>4. CASE OpenApp(t)
  BY <1>4 DEF OpenApp
<1>5. CASE Leave(t)
  BY <1>5 DEF Leave
<1>6. CASE \E a \in Attempts : GoBack(t, a)
  BY <1>6 DEF GoBack
<1> QED
  BY <1>1, <1>2, <1>3, <1>4, <1>5, <1>6

LEMMA CodeTypes ==
  ASSUME TypeInv, NEW t \in Tabs,
         Exchange(t) \/ CallbackAnswered(t) \/ CompleteLogin(t) \/ Token(t) \/ TokenAnswered(t)
  PROVE  TypeInv'
<1> USE OneMoreFault DEF TypeInv, TypeOK, Link, Places, Go, browser, api
<1>1. CASE Exchange(t)
  <2>1. attempt[t] \in Attempts
    BY <1>1 DEF Exchange
  <2>2. spent' \subseteq Attempts /\ faults' \in 0 .. MaxFaults
    BY <1>1, <2>1 DEF Exchange
  <2>3. challenge' \in [Attempts -> Attempts \cup {None}]
    BY <1>1, <2>1 DEF Exchange
  <2> QED
    BY <1>1, <2>1, <2>2, <2>3 DEF Exchange
<1>2. CASE CallbackAnswered(t)
  BY <1>2 DEF CallbackAnswered
<1>3. CASE CompleteLogin(t)
  BY <1>3 DEF CompleteLogin
<1>4. CASE Token(t)
  <2>1. attempt[t] \in Attempts
    BY <1>4 DEF Token
  <2>2. sessions' \in [Attempts -> Nat]
    BY <1>4, <2>1, SMT DEF Token
  <2>3. challenge' \in [Attempts -> Attempts \cup {None}]
    BY <1>4, <2>1 DEF Token
  <2> QED
    BY <1>4, <2>1, <2>2, <2>3 DEF Token
<1>5. CASE TokenAnswered(t)
  BY <1>5 DEF TokenAnswered
<1> QED
  BY <1>1, <1>2, <1>3, <1>4, <1>5

LEMMA TypesInductive == Spec => []TypeInv
<1>1. TypeInv /\ UNCHANGED vars => TypeInv'
  BY DEF TypeInv, TypeOK, Link, vars, browser, api
<1>2. ASSUME TypeInv, NEW a \in Attempts, CodeExpires(a) PROVE TypeInv'
  BY <1>2, OneMoreFault DEF CodeExpires, TypeInv, TypeOK, Link, browser
<1>3. TypeInv /\ Next => TypeInv'
  BY TabTypes, CodeTypes, <1>2 DEF Next
<1> QED
  BY InitTypes, <1>1, <1>3, PTL DEF Spec

\* The state of the tabs, the API and the login codes keeps its types.
THEOREM TypeCorrect == Spec => []TypeOK
<1>1. TypeInv => TypeOK
  BY DEF TypeInv
<1> QED
  BY TypesInductive, <1>1, PTL

-----------------------------------------------------------------------------
(* Login codes. *)

\* A code that has not been stored has made no session; one that is stored has made
\* none yet.
CodeInv ==
  \A a \in Attempts :
    /\ sessions[a] <= 1
    /\ a \notin spent => challenge[a] = None /\ sessions[a] = 0
    /\ challenge[a] # None => sessions[a] = 0

LEMMA CodeStep ==
  ASSUME TypeInv, CodeInv, [Next]_vars
  PROVE  CodeInv'
<1>1. CASE UNCHANGED api
  BY <1>1 DEF CodeInv, api
<1>2. ASSUME NEW t \in Tabs, Exchange(t) PROVE CodeInv'
  BY <1>2, SMT DEF Exchange, CodeInv, TypeInv, TypeOK, Link, Go
<1>3. ASSUME NEW t \in Tabs, Token(t) PROVE CodeInv'
  BY <1>3, SMT DEF Token, CodeInv, TypeInv, TypeOK, Link, Go, browser
<1>4. ASSUME NEW a \in Attempts, CodeExpires(a) PROVE CodeInv'
  BY <1>4, SMT DEF CodeExpires, CodeInv, TypeInv, TypeOK, Link, Go, browser
<1>5. ASSUME NEW t \in Tabs,
             Login(t) \/ Start(t) \/ Authenticate(t) \/ CallbackAnswered(t) \/ CompleteLogin(t)
               \/ TokenAnswered(t) \/ OpenApp(t) \/ Leave(t) \/ \E a \in Attempts : GoBack(t, a)
      PROVE  UNCHANGED api
  BY <1>5 DEF Login, Start, Authenticate, Carry, CallbackAnswered, CompleteLogin, TokenAnswered,
              OpenApp, Leave, GoBack, api
<1>6. CASE UNCHANGED vars
  BY <1>1, <1>6 DEF vars
<1> QED
  BY <1>1, <1>2, <1>3, <1>4, <1>5, <1>6 DEF Next

\* A login code makes at most one session, however often the exchange is repeated by
\* browsers, reloads or lost answers: createCode stores it once, consumeCode takes it.
THEOREM CodesMakeOneSession == Spec => []OneSessionPerCode
<1>1. Init => CodeInv
  BY SMT DEF Init, CodeInv
<1>2. CodeInv => OneSessionPerCode
  BY DEF CodeInv, OneSessionPerCode
<1> QED
  BY TypesInductive, <1>1, CodeStep, <1>2, PTL DEF Spec

-----------------------------------------------------------------------------
(* Whose session it is. *)

\* A code carries the challenge of the sign-in it came from, because the callback is
\* let through only with that sign-in's cookies; and a tab that is granted a session
\* has shown the verifier of the sign-in it is in.
BindInv ==
  /\ \A a \in Attempts : challenge[a] \in {None, a}
  /\ \A t \in Tabs :
       /\ at[t] = "exchange" => carried[t] = attempt[t]
       /\ at[t] = "granted" => posted[t] = attempt[t]
       /\ user[t] # None => at[t] = "in" /\ user[t] = posted[t]

LEMMA BindStep ==
  ASSUME TypeInv, BindInv, [Next]_vars
  PROVE  BindInv'
<1> USE DEF TypeInv, TypeOK, Link, BindInv, Go, browser, api
<1>1. ASSUME NEW t \in Tabs, Login(t) \/ Start(t) \/ Authenticate(t) PROVE BindInv'
  BY <1>1 DEF Login, Start, Authenticate, Carry
<1>2. ASSUME NEW t \in Tabs, Exchange(t) PROVE BindInv'
  BY <1>2 DEF Exchange
<1>3. ASSUME NEW t \in Tabs, CallbackAnswered(t) \/ CompleteLogin(t) PROVE BindInv'
  BY <1>3 DEF CallbackAnswered, CompleteLogin
<1>4. ASSUME NEW t \in Tabs, Token(t) PROVE BindInv'
  <2>1. attempt[t] \in Attempts
    BY <1>4 DEF Token
  <2> QED
    BY <1>4, <2>1 DEF Token
<1>5. ASSUME NEW t \in Tabs, TokenAnswered(t) PROVE BindInv'
  BY <1>5 DEF TokenAnswered
<1>6. ASSUME NEW t \in Tabs, OpenApp(t) \/ Leave(t) \/ \E a \in Attempts : GoBack(t, a)
      PROVE  BindInv'
  BY <1>6 DEF OpenApp, Leave, GoBack
<1>7. ASSUME NEW a \in Attempts, CodeExpires(a) PROVE BindInv'
  BY <1>7 DEF CodeExpires
<1>8. CASE UNCHANGED vars
  BY <1>8 DEF vars
<1> QED
  BY <1>1, <1>2, <1>3, <1>4, <1>5, <1>6, <1>7, <1>8 DEF Next

\* A tab is signed in only as the user who authenticated in the sign-in whose verifier
\* it has shown, for any number of tabs and sign-ins that share the cookies, and
\* wherever their users go back to (the state check of /auth/callback, the challenge
\* check of /auth/token).
THEOREM TabsKeepTheirUser == Spec => []OwnUser
<1>1. Init => BindInv
  BY DEF Init, BindInv
<1>2. BindInv => OwnUser
  BY DEF BindInv, OwnUser
<1> QED
  BY TypesInductive, <1>1, BindStep, <1>2, PTL DEF Spec

-----------------------------------------------------------------------------
(* Someone signs in. *)

\* No call has failed and no user has strayed.
Calm == faults = 0 /\ ~strayed

\* Every sign-in has its number from the tab that started it, and no other tab is in it.
Known ==
  /\ \A a \in spent : a <= started
  /\ \A t \in Tabs : attempt[t] <= started
  /\ \A t, u \in Tabs : t # u /\ attempt[t] # None => attempt[t] # attempt[u]

\* What a tab on its way needs to get through each step that is left: a provider's code
\* nobody has exchanged, its verifier, a login code bound to its challenge.
OnTheWay ==
  \A t \in Tabs :
    /\ at[t] \in {"start", "idp", "exchange"} => attempt[t] \notin spent
    /\ at[t] \in {"start", "idp", "exchange", "answered", "landing"} => verifier[t] = attempt[t]
    /\ at[t] \in {"answered", "landing", "posting"} => challenge[attempt[t]] = attempt[t]
    /\ at[t] = "posting" => posted[t] = attempt[t]

\* The tabs that no other tab can stop: at the identity provider only the one whose
\* cookies are there.
Sure(t) ==
  \/ at[t] \notin {"page", "failed", "idp"}
  \/ at[t] = "idp" /\ attempt[t] = cookies

CalmInv == Calm => Known /\ OnTheWay /\ (started > 0 => \E t \in Tabs : Sure(t))

\* Faults and straying are not undone.
LEMMA CalmBefore ==
  ASSUME TypeOK, [Next]_vars, Calm'
  PROVE  Calm
<1> USE DEF Calm
<1>1. Fault => FALSE
  BY SMT DEF Fault, TypeOK
<1>2. ASSUME NEW t \in Tabs,
             Login(t) \/ Start(t) \/ Authenticate(t) \/ Exchange(t) \/ CallbackAnswered(t)
               \/ CompleteLogin(t) \/ Token(t) \/ TokenAnswered(t) \/ OpenApp(t)
      PROVE  Calm
  BY <1>1, <1>2 DEF Login, Start, Authenticate, Carry, Exchange, CallbackAnswered,
                    CompleteLogin, Token, TokenAnswered, OpenApp
<1>3. ASSUME NEW t \in Tabs, Leave(t) \/ \E a \in Attempts : GoBack(t, a) PROVE Calm
  BY <1>3 DEF Leave, GoBack
<1>4. ASSUME NEW a \in Attempts, CodeExpires(a) PROVE Calm
  BY <1>1, <1>4 DEF CodeExpires
<1>5. CASE UNCHANGED vars
  BY <1>5 DEF vars
<1> QED
  BY <1>2, <1>3, <1>4, <1>5 DEF Next

\* Sign-ins keep their numbers.
LEMMA KnownStep ==
  ASSUME TypeInv, Known, [Next]_vars, Calm'
  PROVE  Known'
<1> USE DEF TypeInv, TypeOK, Link, Known, Go, browser, api
<1>1. Fault => FALSE
  BY SMT DEF Fault, Calm
<1>2. ASSUME NEW t \in Tabs, Login(t) PROVE Known'
  <2>1. started \in Nat /\ started + 1 \in Attempts
    BY <1>2, BoundsAssumption, SMT DEF Login, Attempts
  <2>2. \A u \in Tabs : attempt[u] \in Nat
    BY BoundsAssumption, SMT DEF Attempts, None
  <2>3. \A a \in spent : a \in Nat
    BY BoundsAssumption, SMT DEF Attempts
  <2> QED
    BY <1>2, <2>1, <2>2, <2>3, SMT DEF Login
<1>3. ASSUME NEW t \in Tabs, Exchange(t) PROVE Known'
  BY <1>1, <1>3 DEF Exchange
<1>4. ASSUME NEW t \in Tabs,
             Start(t) \/ Authenticate(t) \/ CallbackAnswered(t) \/ CompleteLogin(t) \/ Token(t)
               \/ TokenAnswered(t) \/ OpenApp(t)
      PROVE  Known'
  BY <1>1, <1>4 DEF Start, Authenticate, Carry, CallbackAnswered, CompleteLogin, Token,
                    TokenAnswered, OpenApp
<1>5. ASSUME NEW t \in Tabs, Leave(t) \/ \E a \in Attempts : GoBack(t, a) PROVE FALSE
  BY <1>5 DEF Leave, GoBack, Calm
<1>6. ASSUME NEW a \in Attempts, CodeExpires(a) PROVE FALSE
  BY <1>1, <1>6 DEF CodeExpires
<1>7. CASE UNCHANGED vars
  BY <1>7 DEF vars
<1> QED
  BY <1>2, <1>3, <1>4, <1>5, <1>6, <1>7 DEF Next

\* A tab keeps what it needs: only its own steps take its code, its verifier and its
\* login code.
LEMMA OnTheWayStep ==
  ASSUME TypeInv, BindInv, Known, OnTheWay, [Next]_vars, Calm'
  PROVE  OnTheWay'
<1> USE DEF TypeInv, TypeOK, Link, Known, OnTheWay, Go, browser, api
<1>1. Fault => FALSE
  BY SMT DEF Fault, Calm
<1>2. ASSUME NEW t \in Tabs, Login(t) PROVE OnTheWay'
  <2>1. started + 1 \notin spent
    BY BoundsAssumption, SMT
  <2> QED
    BY <1>2, <2>1 DEF Login
<1>3. ASSUME NEW t \in Tabs, Start(t) \/ Authenticate(t) PROVE OnTheWay'
  BY <1>3 DEF Start, Authenticate, Carry
<1>4. ASSUME NEW t \in Tabs, Exchange(t) PROVE OnTheWay'
  <2>1. /\ attempt[t] \in Attempts /\ attempt[t] # None
        /\ carried[t] = attempt[t] /\ attempt[t] \notin spent
    BY <1>4, NoneIsNoAttempt DEF Exchange, BindInv
  <2>2. at' = [at EXCEPT ![t] = "answered"] /\ spent' = spent \cup {attempt[t]}
        /\ challenge' = [challenge EXCEPT ![attempt[t]] = attempt[t]]
    BY <1>1, <1>4, <2>1 DEF Exchange
  <2> QED
    BY <1>4, <2>1, <2>2, NoneIsNoAttempt DEF Exchange
<1>5. ASSUME NEW t \in Tabs, CallbackAnswered(t) PROVE OnTheWay'
  BY <1>1, <1>5 DEF CallbackAnswered
<1>6. ASSUME NEW t \in Tabs, CompleteLogin(t) PROVE OnTheWay'
  BY <1>6 DEF CompleteLogin
<1>7. ASSUME NEW t \in Tabs, Token(t) PROVE OnTheWay'
  BY <1>7, NoneIsNoAttempt DEF Token
<1>8. ASSUME NEW t \in Tabs, TokenAnswered(t) PROVE OnTheWay'
  BY <1>1, <1>8 DEF TokenAnswered
<1>9. ASSUME NEW t \in Tabs, OpenApp(t) PROVE OnTheWay'
  BY <1>9 DEF OpenApp
<1>10. ASSUME NEW t \in Tabs, Leave(t) \/ \E a \in Attempts : GoBack(t, a) PROVE FALSE
  BY <1>10 DEF Leave, GoBack, Calm
<1>11. ASSUME NEW a \in Attempts, CodeExpires(a) PROVE FALSE
  BY <1>1, <1>11 DEF CodeExpires
<1>12. CASE UNCHANGED vars
  BY <1>12 DEF vars
<1> QED
  BY <1>2, <1>3, <1>4, <1>5, <1>6, <1>7, <1>8, <1>9, <1>10, <1>11, <1>12 DEF Next

\* There is always a tab that nobody can stop: one that replaces or deletes the cookies
\* of another is such a tab itself.
LEMMA SureStep ==
  ASSUME TypeInv, OnTheWay, started > 0 => \E t \in Tabs : Sure(t), [Next]_vars, Calm',
         started' > 0
  PROVE  \E t \in Tabs : Sure(t)'
<1> USE DEF TypeInv, TypeOK, Link, OnTheWay, Sure, Go, browser, api
<1>1. Fault => FALSE
  BY SMT DEF Fault, Calm
<1>2. ASSUME NEW t \in Tabs, Login(t) \/ Start(t) PROVE Sure(t)'
  BY <1>2 DEF Login, Start
<1>3. ASSUME NEW t \in Tabs, Authenticate(t) PROVE \E u \in Tabs : Sure(u)'
  BY <1>3 DEF Authenticate, Carry
<1>4. ASSUME NEW t \in Tabs, Exchange(t) \/ CallbackAnswered(t) PROVE Sure(t)'
  BY <1>1, <1>4 DEF Exchange, CallbackAnswered
<1>5. ASSUME NEW t \in Tabs, CompleteLogin(t) PROVE Sure(t)'
  BY <1>5, NoneIsNoAttempt DEF CompleteLogin
<1>6. ASSUME NEW t \in Tabs, Token(t) \/ TokenAnswered(t) PROVE Sure(t)'
  BY <1>1, <1>6 DEF Token, TokenAnswered
<1>7. ASSUME NEW t \in Tabs, OpenApp(t) PROVE \E u \in Tabs : Sure(u)'
  BY <1>7 DEF OpenApp
<1>8. ASSUME NEW t \in Tabs, Leave(t) \/ \E a \in Attempts : GoBack(t, a) PROVE FALSE
  BY <1>8 DEF Leave, GoBack, Calm
<1>9. ASSUME NEW a \in Attempts, CodeExpires(a) PROVE FALSE
  BY <1>1, <1>9 DEF CodeExpires
<1>10. CASE UNCHANGED vars
  BY <1>10 DEF vars
<1> QED
  BY <1>2, <1>3, <1>4, <1>5, <1>6, <1>7, <1>8, <1>9, <1>10 DEF Next

LEMMA CalmStep ==
  ASSUME TypeInv, BindInv, CalmInv, [Next]_vars
  PROVE  CalmInv'
<1> SUFFICES ASSUME Calm' PROVE (Known /\ OnTheWay /\ (started > 0 => \E t \in Tabs : Sure(t)))'
  BY DEF CalmInv
<1>1. Known /\ OnTheWay /\ (started > 0 => \E t \in Tabs : Sure(t))
  BY CalmBefore DEF CalmInv, TypeInv
<1>2. Known'
  BY <1>1, KnownStep
<1>3. OnTheWay'
  BY <1>1, OnTheWayStep
<1>4. started' > 0 => \E t \in Tabs : Sure(t)'
  BY <1>1, SureStep
<1> QED
  BY <1>2, <1>3, <1>4

\* Tabs that sign in at the same time do not all fail, however many there are and however
\* their redirects interleave: the tab whose cookies are set, or one that is past the
\* callback, always gets through (the shared cookies of /auth/start and /auth/callback).
THEOREM NotAllFail == Spec => []SomeoneSignsIn
<1>1. Init => CalmInv
  BY NoneIsNoAttempt, SMT DEF Init, CalmInv, Calm, Known, OnTheWay, None
<1>2. CalmInv => SomeoneSignsIn
  BY DEF CalmInv, Calm, Sure, SomeoneSignsIn
<1>3. Init => BindInv
  BY DEF Init, BindInv
<1> QED
  BY TypesInductive, <1>1, <1>3, BindStep, CalmStep, <1>2, PTL DEF Spec
=============================================================================
