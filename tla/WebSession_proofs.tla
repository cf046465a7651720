-------------------------- MODULE WebSession_proofs --------------------------
(***************************************************************************)
(* WebSession: how long cookies last, what ends a session, what it was     *)
(* earned by and that the API is used as SignIn has it, for any number of  *)
(* clients, requests and links and any lifetimes.                          *)
(***************************************************************************)
EXTENDS WebSession, TLAPS

USE SessionAssumption

\* No cookie is not a cookie.
LEMMA NoCookieIsNone == NoCookie \notin Cookie
  BY DEF Cookie

\* What IInv says does not depend on the API's state, but for its clock.
ApiOnly == clock' = clock /\ get' = get /\ cookie' = cookie /\ leaving' = leaving /\ signOuts' = signOuts

\* A step of the API alone keeps IInv.
LEMMA ApiOnlyIInv == ASSUME IInv, ApiOnly PROVE IInv'
  BY DEF IInv, TypeOK, ApiOnly, AnswerOK, CookieOK, Signs

\* A request that is over keeps its shape and claims nothing.
LEMMA OverGet ==
    ASSUME IInv, NEW v \in Gets, NEW s \in States \ {"redirect"}
    PROVE  /\ Over(v, s) \in [Gets -> Get]
           /\ Over(v, s)[v].state = s
           /\ \A w \in Gets \ {v} : Over(v, s)[w] = get[w]
  BY DEF IInv, TypeOK, Over, Get

\* The initial state satisfies IInv.
LEMMA InitIInv == Init => IInv
<1> SUFFICES ASSUME Init PROVE IInv
  OBVIOUS
<1>1. clock = 0 /\ TypeOK
  BY DEF Init, Api!SignInInit, TypeOK, Get, States
<1>2. \A v \in Gets : AnswerOK(v)
  BY DEF Init, AnswerOK
<1>3. \A c \in Clients : CookieOK(c)
  BY DEF Init, CookieOK, Signs
<1> QED
  BY <1>1, <1>2, <1>3 DEF IInv

\* A step that changes one request, to a state other than a redirect, and
\* nothing else but the API, keeps IInv.
LEMMA GetIInv ==
    ASSUME IInv, NEW v \in Gets,
           get' \in [Gets -> Get], get'[v].state # "redirect",
           \A w \in Gets \ {v} : get'[w] = get[w],
           clock' = clock, cookie' = cookie, leaving' = leaving, signOuts' = signOuts
    PROVE  IInv'
<1>1. TypeOK'
  BY DEF IInv, TypeOK
<1>2. ASSUME NEW w \in Gets PROVE AnswerOK(w)'
  BY DEF IInv, AnswerOK
<1>3. ASSUME NEW c \in Clients PROVE CookieOK(c)'
  BY DEF IInv, CookieOK, Signs
<1> QED
  BY <1>1, <1>2, <1>3 DEF IInv

\* A step of Answer keeps IInv: the redirect's maxAge is what is left.
LEMMA AnswerIInv == ASSUME IInv, NEW v \in Gets, Answer(v) PROVE IInv'
<1>1. clock \in Nat /\ get \in [Gets -> Get] /\ get[v].exp \in Nat
  BY DEF IInv, TypeOK, Get
<1>2. ExpirySeconds(get[v].exp) \in Nat
  BY <1>1 DEF ExpirySeconds
<1>3. get' \in [Gets -> Get]
  BY <1>1, <1>2 DEF Answer, Get, States
<1>4. /\ get'[v].sent = clock /\ get'[v].exp = get[v].exp
      /\ get'[v].maxAge = ExpirySeconds(get[v].exp)
  BY <1>1 DEF Answer, Get
<1>5. \A w \in Gets \ {v} : get'[w] = get[w]
  BY <1>1 DEF Answer
<1>6. TypeOK'
  BY <1>3 DEF IInv, TypeOK, Answer
<1>7. AnswerOK(v)'
  BY <1>1, <1>4 DEF AnswerOK, Answer, ExpirySeconds
<1>8. ASSUME NEW w \in Gets \ {v} PROVE AnswerOK(w)'
  BY <1>5 DEF IInv, AnswerOK, Answer
<1>9. ASSUME NEW c \in Clients PROVE CookieOK(c)'
  BY DEF IInv, CookieOK, Signs, Answer
<1> QED
  BY <1>6, <1>7, <1>8, <1>9 DEF IInv

\* A step of Welcome keeps IInv: the cookie it stores dies as late as it is.
LEMMA WelcomeIInv == ASSUME IInv, NEW v \in Gets, Welcome(v) PROVE IInv'
<1>1. /\ clock \in Nat /\ get[v].sent \in Nat /\ get[v].maxAge \in Nat /\ get[v].exp \in Nat
      /\ get[v].sent <= clock
      /\ get[v].maxAge > 0 => get[v].sent + get[v].maxAge = get[v].exp
  BY DEF IInv, TypeOK, Get, AnswerOK, Welcome
<1>2. Stored(v) # NoCookie =>
        /\ Stored(v) \in Cookie
        /\ Stored(v).dies = Stored(v).exp + Stored(v).late
        /\ clock < Stored(v).dies
  BY <1>1 DEF Stored, Cookie
<1>3. cookie \in [Clients -> Cookie \cup {NoCookie}]
  BY DEF IInv, TypeOK
<1>4. cookie' = [cookie EXCEPT ![get[v].client] = Stored(v)] /\ clock' = clock
  BY DEF Welcome
<1>5. cookie' \in [Clients -> Cookie \cup {NoCookie}]
  BY <1>2, <1>3, <1>4
<1>6. ASSUME NEW c \in Clients PROVE CookieOK(c)'
  <2>1. CASE c = get[v].client
    BY <1>2, <1>3, <1>4, <2>1 DEF CookieOK, Signs
  <2>2. CASE c # get[v].client
    BY <1>3, <1>4, <2>2 DEF IInv, CookieOK, Signs
  <2> QED
    BY <2>1, <2>2
<1>7. /\ get' \in [Gets -> Get] /\ get'[v].state = "welcomed"
      /\ \A w \in Gets \ {v} : get'[w] = get[w]
  BY OverGet DEF Welcome, States
<1>8. TypeOK'
  BY <1>5, <1>7 DEF IInv, TypeOK, Welcome
<1>9. ASSUME NEW w \in Gets PROVE AnswerOK(w)'
  BY <1>4, <1>7 DEF IInv, AnswerOK
<1> QED
  BY <1>6, <1>8, <1>9 DEF IInv

\* A step of SignedOut keeps IInv.
LEMMA SignedOutIInv == ASSUME IInv, NEW c \in Clients, SignedOut(c) PROVE IInv'
<1>1. TypeOK'
  BY DEF IInv, TypeOK, SignedOut
<1>2. ASSUME NEW w \in Gets PROVE AnswerOK(w)'
  BY DEF IInv, AnswerOK, SignedOut
<1>3. ASSUME NEW d \in Clients PROVE CookieOK(d)'
  BY DEF IInv, TypeOK, CookieOK, Signs, SignedOut
<1> QED
  BY <1>1, <1>2, <1>3 DEF IInv

\* A step of Tick keeps IInv: it drops the cookies whose time is over.
LEMMA TickIInv == ASSUME IInv, Tick PROVE IInv'
<1>1. clock \in Nat /\ clock' = clock + 1 /\ get' = get /\ leaving' = leaving /\ signOuts' = signOuts
  BY DEF IInv, TypeOK, Tick, Api!PassTime
<1>2. ASSUME NEW c \in Clients
      PROVE  cookie'[c] = IF Signs(c) /\ cookie[c].dies <= clock + 1 THEN NoCookie ELSE cookie[c]
  BY DEF Tick
<1>3. cookie' \in [Clients -> Cookie \cup {NoCookie}]
  BY DEF IInv, TypeOK, Tick
<1>4. TypeOK'
  BY <1>1, <1>3 DEF IInv, TypeOK
<1>5. ASSUME NEW w \in Gets PROVE AnswerOK(w)'
  BY <1>1 DEF IInv, TypeOK, Get, AnswerOK
<1>6. ASSUME NEW c \in Clients, Signs(c)' PROVE CookieOK(c)'
  <2>1. Signs(c) /\ cookie'[c] = cookie[c] /\ ~(cookie[c].dies <= clock + 1)
    BY <1>2, <1>6 DEF Signs
  <2>2. cookie[c] \in Cookie
    BY <2>1 DEF IInv, TypeOK, Signs
  <2>3. cookie[c].dies \in Nat
    BY <2>2 DEF Cookie
  <2> QED
    BY <1>1, <2>1, <2>3 DEF IInv, CookieOK
<1>7. ASSUME NEW c \in Clients PROVE CookieOK(c)'
  BY <1>6 DEF CookieOK
<1> QED
  BY <1>4, <1>5, <1>7 DEF IInv

\* IInv is inductive.
LEMMA NextIInv == IInv /\ [Next]_vars => IInv'
<1> SUFFICES ASSUME IInv, [Next]_vars PROVE IInv'
  OBVIOUS
<1>1. ASSUME NEW v \in Gets, NEW c \in Clients, NEW l \in Links \cup {NoLink}, Open(v, c, l)
      PROVE  IInv'
  <2>1. [get[v] EXCEPT !.state = "sent", !.client = c, !.link = l] \in Get
    BY <1>1 DEF IInv, TypeOK, Get, States
  <2>2. get' \in [Gets -> Get] /\ get'[v].state = "sent"
    BY <1>1, <2>1 DEF IInv, TypeOK, Open, Get
  <2> QED
    BY <1>1, <2>2, GetIInv DEF IInv, TypeOK, Open
<1>2. ASSUME NEW v \in Gets, Admit(v) PROVE IInv'
  BY <1>2, ApiOnlyIInv DEF Admit, Api!Admit, ApiOnly
<1>3. ASSUME NEW v \in Gets, Redeem(v) PROVE IInv'
  BY <1>3, ApiOnlyIInv DEF Redeem, Api!Redeem, ApiOnly
<1>4. ASSUME NEW v \in Gets, Grant(v) PROVE IInv'
  <2>1. get \in [Gets -> Get] /\ clock + JwtLifetime \in Nat
    BY DEF IInv, TypeOK
  <2>2. [get[v] EXCEPT !.state = "granted", !.exp = clock + JwtLifetime] \in Get
    BY <2>1 DEF Get, States
  <2>3. get' \in [Gets -> Get] /\ get'[v].state = "granted"
    BY <1>4, <2>1, <2>2 DEF Grant, Get
  <2> QED
    BY <1>4, <2>3, GetIInv DEF IInv, TypeOK, Grant, Api!Grant
<1>5. ASSUME NEW v \in Gets, Refuse(v) PROVE IInv'
  <2>1. [get[v] EXCEPT !.state = "refused"] \in Get
    BY DEF IInv, TypeOK, Get, States
  <2>2. get' \in [Gets -> Get] /\ get'[v].state = "refused"
    BY <1>5, <2>1 DEF IInv, TypeOK, Refuse, Get
  <2> QED
    BY <1>5, <2>2, GetIInv DEF IInv, TypeOK, Refuse, Api!TurnAway
<1>11. ASSUME NEW v \in Gets, FailApi(v) PROVE IInv'
  <2>1. [get[v] EXCEPT !.state = "refused", !.excused = TRUE] \in Get
    BY DEF IInv, TypeOK, Get, States
  <2>2. get' \in [Gets -> Get] /\ get'[v].state = "refused"
    BY <1>11, <2>1 DEF IInv, TypeOK, FailApi, Get
  <2> QED
    BY <1>11, <2>2, GetIInv DEF IInv, TypeOK, FailApi, Api!TurnAway
<1>6. ASSUME NEW v \in Gets, Lose(v) PROVE IInv'
  <2>1. Over(v, "lost")[v] \in Get /\ Over(v, "lost")[v].state = "lost"
    BY <1>6, OverGet DEF States
  <2>2. get' \in [Gets -> Get] /\ get'[v].state = "lost"
    BY <1>6, <2>1 DEF IInv, TypeOK, Lose, Get
  <2> QED
    BY <1>6, <2>2, GetIInv DEF IInv, TypeOK, Lose
<1>7. ASSUME NEW v \in Gets, TellError(v) PROVE IInv'
  BY <1>7, OverGet, GetIInv DEF TellError, CookieAfterError, States
<1>8. ASSUME NEW c \in Clients, SignOut(c) PROVE IInv'
  BY <1>8 DEF IInv, TypeOK, AnswerOK, CookieOK, Signs, SignOut
<1>9. ASSUME NEW l \in Links, IssueLink(l) PROVE IInv'
  BY <1>9, ApiOnlyIInv DEF IssueLink, Api!Issue, ApiOnly
<1>10. CASE UNCHANGED vars
  BY <1>10, ApiOnlyIInv DEF vars, ApiOnly
<1> QED
  BY <1>1, <1>2, <1>3, <1>4, <1>5, <1>6, <1>7, <1>8, <1>9, <1>10, <1>11,
     AnswerIInv, WelcomeIInv, SignedOutIInv, TickIInv DEF Next, Handle

\* Requests and cookies agree on how long a session lasts, for any number of
\* clients, requests and links and any lifetimes.
THEOREM Invariant == Spec => []IInv
  BY InitIInv, NextIInv, PTL DEF Spec

\* A cookie lasts as long as its token: no less, and no longer than it was late.
THEOREM SessionLasts == Spec => CookieLastsAsToken
<1>1. ASSUME IInv, [Next]_vars, NEW c \in Clients, Signs(c), clock' # clock
      PROVE  /\ ~Signs(c)' => clock' >= cookie[c].exp
             /\ Signs(c)' => clock' < cookie[c].exp + cookie[c].late
  <2>1. Tick
    BY <1>1 DEF Next, vars, Handle, Open, Admit, Redeem, Grant, Refuse, FailApi, Answer, Lose,
         Welcome, TellError, SignOut, SignedOut, IssueLink, Api!Admit, Api!Redeem, Api!Grant,
         Api!TurnAway, Api!Issue
  <2>2. cookie[c] \in Cookie /\ clock \in Nat /\ clock' = clock + 1
    BY <1>1, <2>1 DEF IInv, TypeOK, Signs, Tick, Api!PassTime
  <2>3. cookie[c].dies = cookie[c].exp + cookie[c].late
    BY <1>1 DEF IInv, CookieOK
  <2>4. cookie'[c] = IF cookie[c].dies <= clock + 1 THEN NoCookie ELSE cookie[c]
    BY <1>1, <2>1 DEF Tick
  <2>5. cookie[c].dies \in Nat /\ cookie[c].exp \in Nat /\ cookie[c].late \in Nat
    BY <2>2 DEF Cookie
  <2>6. CASE cookie[c].dies <= clock + 1
    BY <2>2, <2>3, <2>4, <2>5, <2>6 DEF Signs
  <2>7. CASE ~(cookie[c].dies <= clock + 1)
    BY <1>1, <2>2, <2>3, <2>4, <2>5, <2>7 DEF Signs
  <2> QED
    BY <2>6, <2>7
<1>2. IInv /\ [Next]_vars =>
        [\A c \in Clients : Signs(c) /\ clock' # clock =>
          /\ ~Signs(c)' => clock' >= cookie[c].exp
          /\ Signs(c)' => clock' < cookie[c].exp + cookie[c].late]_vars
  BY <1>1
<1> QED
  BY <1>2, Invariant, PTL DEF Spec, CookieLastsAsToken

\* Only time, signing out and signing in again end a session.
THEOREM SessionKept == Spec => RefusalKeepsSession
<1>1. ASSUME IInv, [Next]_vars, NEW c \in Clients, Signs(c), cookie'[c] # cookie[c]
      PROVE  \/ clock' # clock
             \/ c \in leaving /\ c \notin leaving'
             \/ \E v \in Gets : /\ get[v].client = c
                                /\ get[v].state = "redirect" /\ get'[v].state = "welcomed"
  <2>1. \/ Tick
        \/ \E d \in Clients : SignedOut(d)
        \/ \E v \in Gets : Welcome(v)
    BY <1>1 DEF Next, vars, Handle, Open, Admit, Redeem, Grant, Refuse, FailApi, Answer, Lose,
         TellError, CookieAfterError, SignOut, IssueLink
  <2>2. CASE Tick
    BY <1>1, <2>2 DEF IInv, TypeOK, Tick, Api!PassTime
  <2>3. ASSUME NEW d \in Clients, SignedOut(d) PROVE c \in leaving /\ c \notin leaving'
    BY <1>1, <2>3 DEF IInv, TypeOK, SignedOut
  <2>4. ASSUME NEW v \in Gets, Welcome(v)
        PROVE  get[v].client = c /\ get[v].state = "redirect" /\ get'[v].state = "welcomed"
    <3>1. get'[v].state = "welcomed"
      BY <1>1, <2>4, OverGet DEF Welcome, States
    <3> QED
      BY <1>1, <2>4, <3>1 DEF IInv, TypeOK, Welcome
  <2> QED
    BY <2>1, <2>2, <2>3, <2>4
<1>2. IInv /\ [Next]_vars =>
        [\A c \in Clients : Signs(c) /\ cookie'[c] # cookie[c] =>
          \/ clock' # clock
          \/ c \in leaving /\ c \notin leaving'
          \/ \E v \in Gets : /\ get[v].client = c
                             /\ get[v].state = "redirect" /\ get'[v].state = "welcomed"]_vars
  BY <1>1
<1> QED
  BY <1>2, Invariant, PTL DEF Spec, RefusalKeepsSession

----------------------------------------------------------------------------
(* What the API does for the browser, and what a session is owed to. *)

\* The browser, its requests and its cookies use the API as SignIn has it,
\* which is what MagicLinkAuth implements.
THEOREM UsesSignIn == Spec => Api!SignInSpec
<1>1. Init => Api!SignInInit
  BY DEF Init
<1>2. IInv /\ [Next]_vars => [Api!SignInNext]_(Api!signInVars)
  <2> SUFFICES ASSUME IInv, [Next]_vars PROVE [Api!SignInNext]_(Api!signInVars)
    OBVIOUS
  <2>1. ASSUME NEW v \in Gets, NEW c \in Clients, NEW l \in Links \cup {NoLink}, Open(v, c, l)
        PROVE  UNCHANGED Api!signInVars
    BY <2>1 DEF Open, Api!signInVars
  <2>2. ASSUME NEW v \in Gets, Handle(v) \/ FailApi(v) \/ Lose(v)
        PROVE  \/ UNCHANGED Api!signInVars
               \/ \E l \in Links : Api!Admit(v, l)
               \/ Api!Redeem(v) \/ Api!Grant(v) \/ Api!TurnAway(v)
    <3>1. CASE Admit(v)
      <4>1. get[v].link \in Links
        BY <3>1 DEF IInv, TypeOK, Get, Admit
      <4> QED
        BY <3>1, <4>1 DEF Admit
    <3>2. CASE Redeem(v) \/ Grant(v) \/ Refuse(v) \/ FailApi(v)
      BY <3>2 DEF Redeem, Grant, Refuse, FailApi
    <3>3. CASE Answer(v) \/ Welcome(v) \/ TellError(v) \/ Lose(v)
      BY <3>3 DEF Answer, Welcome, TellError, Lose, Api!signInVars
    <3> QED
      BY <2>2, <3>1, <3>2, <3>3 DEF Handle
  <2>3. ASSUME NEW c \in Clients, SignOut(c) \/ SignedOut(c)
        PROVE  UNCHANGED Api!signInVars
    BY <2>3 DEF SignOut, SignedOut, Api!signInVars
  <2>4. ASSUME NEW l \in Links, IssueLink(l) PROVE Api!Issue(l)
    BY <2>4 DEF IssueLink
  <2>5. Tick => Api!PassTime
    BY DEF Tick
  <2>6. UNCHANGED vars => UNCHANGED Api!signInVars
    BY DEF vars, Api!signInVars
  <2> QED
    BY <2>1, <2>2, <2>3, <2>4, <2>5, <2>6 DEF Next, Api!SignInNext
<1> QED
  BY <1>1, <1>2, Invariant, PTL DEF Spec, Api!SignInSpec

\* A session stays earned as long as no cookie comes, and what welcomed
\* requests, their visits and used links are is kept.
LEMMA EarnedKept ==
    ASSUME SessionEarned, \A c \in Clients : Signs(c)' => Signs(c),
           \A v \in Gets : get[v].state = "welcomed" =>
               get'[v] = get[v] /\ visits'[v] = visits[v],
           \A l \in Links : ledger[l].state = "used" => ledger'[l].state = "used"
    PROVE  SessionEarned'
<1> SUFFICES ASSUME NEW c \in Clients, Signs(c)'
             PROVE  \E v \in Gets :
                      /\ get'[v].client = c /\ get'[v].state = "welcomed"
                      /\ visits'[v].state = "signed_in" /\ visits'[v].link = get'[v].link
                      /\ get'[v].link \in Links /\ ledger'[get'[v].link].state = "used"
  BY DEF SessionEarned
<1>1. PICK v \in Gets :
        /\ get[v].client = c /\ get[v].state = "welcomed"
        /\ visits[v].state = "signed_in" /\ visits[v].link = get[v].link
        /\ get[v].link \in Links /\ ledger[get[v].link].state = "used"
  BY DEF SessionEarned
<1>2. get'[v] = get[v] /\ visits'[v] = visits[v]
  BY <1>1
<1>3. ledger'[get[v].link].state = "used"
  BY <1>1
<1> QED
  BY <1>1, <1>2, <1>3

\* The initial state: nobody is signed in, and every visit is outside.
LEMMA InitEarned == Init => EarnedOK
<1> SUFFICES ASSUME Init PROVE EarnedOK
  OBVIOUS
<1> USE DEF Init, Api!SignInInit
<1>1. ApiOK
  BY DEF ApiOK, Api!Fresh, Api!Outside
<1>2. ASSUME NEW v \in Gets PROVE VisitOK(v)
  BY DEF VisitOK, Api!Outside
<1>3. SessionEarned
  BY DEF SessionEarned, Signs
<1> QED
  BY <1>1, <1>2, <1>3 DEF EarnedOK

\* A step of the API on the visit of one request keeps EarnedOK.
LEMMA ApiStepEarned ==
    ASSUME IInv, EarnedOK, NEW v \in Gets, Admit(v) \/ Redeem(v)
    PROVE  EarnedOK'
<1>1. /\ get \in [Gets -> Get] /\ get' = get /\ cookie' = cookie
      /\ ApiOK /\ \A w \in Gets : VisitOK(w)
  BY DEF IInv, TypeOK, EarnedOK, Admit, Redeem
<1>2. CASE Admit(v)
  <2> DEFINE a == [state |-> "admitted", link |-> get[v].link]
  <2>1. visits' = [visits EXCEPT ![v] = a] /\ ledger' = ledger /\ get[v].link \in Links
    BY <1>1, <1>2 DEF Admit, Api!Admit, Get
  <2>2. visits[v] = Api!Outside /\ get[v].state = "sent"
    BY <1>2 DEF Admit, Api!Admit
  <2>3. ApiOK'
    BY <1>1, <2>1 DEF ApiOK
  <2>4. ASSUME NEW w \in Gets PROVE VisitOK(w)'
    <3>1. CASE w = v
      BY <1>1, <2>1, <2>2, <3>1 DEF VisitOK, ApiOK
    <3>2. CASE w # v
      BY <1>1, <2>1, <3>2 DEF VisitOK, ApiOK
    <3> QED
      BY <3>1, <3>2
  <2>5. SessionEarned'
    <3>1. \A w \in Gets : get[w].state = "welcomed" => get'[w] = get[w] /\ visits'[w] = visits[w]
      BY <1>1, <2>1, <2>2 DEF ApiOK
    <3> QED
      BY <1>1, <2>1, <3>1, EarnedKept DEF EarnedOK, Signs
  <2> QED
    BY <2>3, <2>4, <2>5 DEF EarnedOK
<1>3. CASE Redeem(v)
  <2> DEFINE l == get[v].link
  <2>1. visits[v].state = "admitted" /\ visits[v].link = l /\ l \in Links
    BY <1>1, <1>3 DEF Redeem, Api!Redeem, VisitOK
  <2>2. /\ visits' = [visits EXCEPT ![v].state = "redeemed"]
        /\ ledger' = [ledger EXCEPT ![l].state = "used"]
    BY <1>3, <2>1 DEF Redeem, Api!Redeem
  <2>3. visits'[v].state = "redeemed" /\ visits'[v].link = l /\ ledger'[l].state = "used"
    BY <1>1, <2>1, <2>2 DEF ApiOK
  <2>4. /\ \A w \in Gets \ {v} : visits'[w] = visits[w]
        /\ \A k \in Links : ledger[k].state = "used" => ledger'[k].state = "used"
    BY <1>1, <2>1, <2>2 DEF ApiOK
  <2>5. ApiOK'
    BY <1>1, <2>1, <2>2 DEF ApiOK
  <2>6. ASSUME NEW w \in Gets PROVE VisitOK(w)'
    <3>1. CASE w = v
      BY <1>1, <2>1, <2>3, <3>1 DEF VisitOK, Api!Outside
    <3>2. CASE w # v
      BY <1>1, <2>4, <3>2 DEF VisitOK
    <3> QED
      BY <3>1, <3>2
  <2>7. SessionEarned'
    <3>1. get[v].state # "welcomed"
      BY <1>1, <2>1 DEF VisitOK
    <3> QED
      BY <1>1, <2>4, <3>1, EarnedKept DEF EarnedOK, Signs
  <2> QED
    BY <2>5, <2>6, <2>7 DEF EarnedOK
<1> QED
  BY <1>2, <1>3

\* A step that moves one request on, with its visit or without, to a state that
\* does not welcome its client, keeps EarnedOK.
LEMMA GetStepEarned ==
    ASSUME IInv, EarnedOK, NEW v \in Gets, get[v].state # "welcomed",
           get'[v].state \notin {"idle", "welcomed"},
           get'[v].link = get[v].link \/ visits[v] = Api!Outside,
           \A w \in Gets \ {v} : get'[w] = get[w] /\ visits'[w] = visits[w],
           \/ visits'[v] = visits[v]
           \/ visits'[v] = Api!Away
           \/ visits[v].state = "redeemed" /\ visits'[v] = [visits[v] EXCEPT !.state = "signed_in"],
           get'[v].state \in {"granted", "redirect"} => visits'[v].state = "signed_in",
           DOMAIN visits' = Gets, visits' = [w \in Gets |-> visits'[w]],
           ledger' = ledger, \A c \in Clients : Signs(c)' => Signs(c)
    PROVE  EarnedOK'
<1>1. ApiOK /\ \A w \in Gets : VisitOK(w)
  BY DEF EarnedOK
<1>2. visits'[v] \in [state : {"outside", "admitted", "redeemed", "signed_in", "away"},
                      link : Links \cup {NoLink}]
  BY <1>1 DEF ApiOK, Api!Away
<1>3. ApiOK'
  BY <1>1, <1>2 DEF ApiOK
<1>4. VisitOK(v)'
  BY <1>1 DEF VisitOK, ApiOK, Api!Away, Api!Outside
<1>5. ASSUME NEW w \in Gets \ {v} PROVE VisitOK(w)'
  BY <1>1 DEF VisitOK
<1>6. SessionEarned'
  BY EarnedKept DEF EarnedOK
<1> QED
  BY <1>3, <1>4, <1>5, <1>6 DEF EarnedOK

\* Every step of the verify route and of the API on a request, but for the
\* cookie's arrival, keeps EarnedOK.
LEMMA RouteEarned ==
    ASSUME IInv, EarnedOK, NEW v \in Gets,
           \/ Grant(v) \/ Refuse(v) \/ FailApi(v) \/ Answer(v) \/ Lose(v) \/ TellError(v)
           \/ \E c \in Clients, l \in Links \cup {NoLink} : Open(v, c, l)
    PROVE  EarnedOK'
<1>1. /\ get \in [Gets -> Get] /\ ApiOK /\ VisitOK(v)
      /\ visits \in [Gets -> [state : {"outside", "admitted", "redeemed", "signed_in", "away"},
                              link : Links \cup {NoLink}]]
  BY DEF IInv, TypeOK, EarnedOK, ApiOK
<1>2. CASE \E c \in Clients, l \in Links \cup {NoLink} : Open(v, c, l)
  <2>1. PICK c \in Clients, l \in Links \cup {NoLink} : Open(v, c, l)
    BY <1>2
  <2>2. get[v].state = "idle" /\ visits[v] = Api!Outside
    BY <1>1, <2>1 DEF Open, VisitOK
  <2>3. get'[v].state = "sent" /\ \A w \in Gets \ {v} : get'[w] = get[w]
    <3>1. get' = [get EXCEPT ![v] = [@ EXCEPT !.state = "sent", !.client = c, !.link = l]]
      BY <2>1 DEF Open
    <3>2. get[v] \in Get
      BY <1>1
    <3> QED
      BY <1>1, <3>1, <3>2 DEF Get
  <2>4. visits' = visits /\ ledger' = ledger /\ cookie' = cookie
    BY <2>1 DEF Open
  <2> QED
    BY <1>1, <2>2, <2>3, <2>4, GetStepEarned DEF Signs
<1>3. CASE Grant(v)
  <2>1. /\ visits[v].state = "redeemed"
        /\ visits' = [visits EXCEPT ![v].state = "signed_in"]
        /\ ledger' = ledger /\ cookie' = cookie
    BY <1>3 DEF Grant, Api!Grant
  <2>2. get[v].state # "welcomed"
    BY <1>1, <2>1 DEF VisitOK
  <2>3. /\ get'[v].state = "granted" /\ get'[v].link = get[v].link
        /\ \A w \in Gets \ {v} : get'[w] = get[w]
    BY <1>1, <1>3 DEF Grant, Get
  <2>4. /\ visits'[v] = [visits[v] EXCEPT !.state = "signed_in"]
        /\ visits'[v].state = "signed_in"
        /\ \A w \in Gets \ {v} : visits'[w] = visits[w]
        /\ DOMAIN visits' = Gets /\ visits' = [w \in Gets |-> visits'[w]]
    BY <1>1, <2>1
  <2>5. \A c \in Clients : Signs(c)' => Signs(c)
    BY <2>1 DEF Signs
  <2>6. \A w \in Gets \ {v} : get'[w] = get[w] /\ visits'[w] = visits[w]
    BY <2>2, <2>3, <2>4
  <2>7. get'[v].link = get[v].link \/ visits[v] = Api!Outside
    BY <2>2, <2>3
  <2> QED
    BY <2>1, <2>2, <2>3, <2>4, <2>5, <2>6, <2>7, GetStepEarned
<1>4. CASE Refuse(v) \/ FailApi(v)
  <2>1. get[v].state = "sent" /\ visits' = [visits EXCEPT ![v] = Api!Away]
        /\ ledger' = ledger /\ cookie' = cookie
    BY <1>4 DEF Refuse, FailApi, Api!TurnAway
  <2>2. /\ get'[v].state = "refused" /\ get'[v].link = get[v].link
        /\ \A w \in Gets \ {v} : get'[w] = get[w]
    <3>1. CASE Refuse(v)
      BY <1>1, <3>1 DEF Refuse, Get
    <3>2. CASE FailApi(v)
      BY <1>1, <3>2 DEF FailApi, Get
    <3> QED
      BY <1>4, <3>1, <3>2
  <2>3. /\ visits'[v] = Api!Away
        /\ \A w \in Gets \ {v} : visits'[w] = visits[w]
        /\ DOMAIN visits' = Gets /\ visits' = [w \in Gets |-> visits'[w]]
    BY <1>1, <2>1
  <2>4. \A c \in Clients : Signs(c)' => Signs(c)
    BY <2>1 DEF Signs
  <2>5. get[v].state # "welcomed" /\ get'[v].state \notin {"idle", "welcomed", "granted", "redirect"}
    BY <2>1, <2>2
  <2>6. \A w \in Gets \ {v} : get'[w] = get[w] /\ visits'[w] = visits[w]
    BY <2>2, <2>3, <2>4
  <2>7. get'[v].link = get[v].link \/ visits[v] = Api!Outside
    BY <2>2, <2>3
  <2> QED
    BY <2>1, <2>2, <2>3, <2>4, <2>5, <2>6, <2>7, GetStepEarned
<1>5. CASE Answer(v) \/ Lose(v) \/ TellError(v)
  <2>1. visits' = visits /\ ledger' = ledger /\ cookie' = cookie
    BY <1>5 DEF Answer, Lose, TellError, CookieAfterError
  <2>2. get[v].state \in {"granted", "refused", "redirect"}
    BY <1>5 DEF Answer, Lose, TellError
  <2>3. /\ get'[v].state \in {"redirect", "lost", "told"} /\ get'[v].link = get[v].link
        /\ get'[v].state = "redirect" => get[v].state = "granted"
        /\ \A w \in Gets \ {v} : get'[w] = get[w]
    <3>1. CASE Answer(v)
      BY <1>1, <3>1 DEF Answer, Get
    <3>2. CASE Lose(v)
      BY <1>1, <3>2 DEF Lose, Over, Get
    <3>3. CASE TellError(v)
      BY <1>1, <3>3 DEF TellError, Over, Get
    <3> QED
      BY <1>5, <3>1, <3>2, <3>3
  <2>4. get'[v].state \in {"granted", "redirect"} => visits'[v].state = "signed_in"
    BY <1>1, <2>1, <2>3 DEF VisitOK
  <2>5. DOMAIN visits' = Gets /\ visits' = [w \in Gets |-> visits'[w]]
    BY <1>1, <2>1
  <2> QED
    BY <2>1, <2>2, <2>3, <2>4, <2>5, GetStepEarned DEF Signs
<1> QED
  BY <1>2, <1>3, <1>4, <1>5

\* The cookie's arrival keeps EarnedOK: the request it answers is the one that
\* earned it.
LEMMA WelcomeEarned == ASSUME IInv, EarnedOK, NEW v \in Gets, Welcome(v) PROVE EarnedOK'
<1>1. /\ get \in [Gets -> Get] /\ cookie \in [Clients -> Cookie \cup {NoCookie}]
      /\ ApiOK /\ SessionEarned /\ \A w \in Gets : VisitOK(w)
  BY DEF IInv, TypeOK, EarnedOK
<1>2. /\ get[v].state = "redirect" /\ visits[v].state = "signed_in"
      /\ get[v].link \in Links /\ visits[v].link = get[v].link
      /\ ledger[get[v].link].state = "used"
  BY <1>1 DEF Welcome, VisitOK
<1>3. /\ visits' = visits /\ ledger' = ledger
      /\ cookie' = [cookie EXCEPT ![get[v].client] = Stored(v)]
      /\ get' = Over(v, "welcomed")
  BY DEF Welcome
<1>4. /\ get'[v].state = "welcomed" /\ get'[v].link = get[v].link
      /\ get'[v].client = get[v].client
      /\ \A w \in Gets \ {v} : get'[w] = get[w]
  BY <1>1, <1>3 DEF Over, Get
<1>5. ApiOK'
  BY <1>1, <1>3 DEF ApiOK
<1>6. ASSUME NEW w \in Gets PROVE VisitOK(w)'
  <2>1. CASE w = v
    BY <1>1, <1>2, <1>3, <1>4, <2>1 DEF VisitOK
  <2>2. CASE w # v
    BY <1>1, <1>3, <1>4, <2>2 DEF VisitOK
  <2> QED
    BY <2>1, <2>2
<1>7. ASSUME NEW c \in Clients, Signs(c)'
      PROVE  \E w \in Gets :
               /\ get'[w].client = c /\ get'[w].state = "welcomed"
               /\ visits'[w].state = "signed_in" /\ visits'[w].link = get'[w].link
               /\ get'[w].link \in Links /\ ledger'[get'[w].link].state = "used"
  <2>1. CASE c = get[v].client
    BY <1>2, <1>3, <1>4, <2>1
  <2>2. CASE c # get[v].client
    <3>1. Signs(c)
      BY <1>1, <1>3, <1>7, <2>2 DEF Signs
    <3>2. PICK w \in Gets :
            /\ get[w].client = c /\ get[w].state = "welcomed"
            /\ visits[w].state = "signed_in" /\ visits[w].link = get[w].link
            /\ get[w].link \in Links /\ ledger[get[w].link].state = "used"
      BY <1>1, <3>1 DEF SessionEarned
    <3>3. get'[w] = get[w]
      BY <1>2, <1>4, <3>2
    <3> QED
      BY <1>3, <3>2, <3>3
  <2> QED
    BY <2>1, <2>2
<1> QED
  BY <1>5, <1>6, <1>7 DEF EarnedOK, SessionEarned

\* So does every step that leaves requests and visits alone.
LEMMA RestEarned ==
    ASSUME IInv, EarnedOK, get' = get, visits' = visits,
           ledger' \in [Links -> [state : {"none", "live", "used", "gone"}, deadline : Nat]],
           \A l \in Links : ledger[l].state = "used" => ledger'[l].state = "used",
           \A c \in Clients : Signs(c)' => Signs(c)
    PROVE  EarnedOK'
<1>1. ApiOK /\ \A w \in Gets : VisitOK(w)
  BY DEF EarnedOK
<1>2. ApiOK'
  BY <1>1 DEF ApiOK
<1>3. ASSUME NEW w \in Gets PROVE VisitOK(w)'
  BY <1>1 DEF VisitOK, ApiOK, Api!Outside
<1>4. SessionEarned'
  BY EarnedKept DEF EarnedOK
<1> QED
  BY <1>2, <1>3, <1>4 DEF EarnedOK

\* Every step keeps EarnedOK.
LEMMA NextEarned == IInv /\ EarnedOK /\ [Next]_vars => EarnedOK'
<1> SUFFICES ASSUME IInv, EarnedOK, [Next]_vars PROVE EarnedOK'
  OBVIOUS
<1>1. /\ ledger \in [Links -> [state : {"none", "live", "used", "gone"}, deadline : Nat]]
      /\ clock \in Nat /\ cookie \in [Clients -> Cookie \cup {NoCookie}]
  BY DEF EarnedOK, ApiOK, IInv, TypeOK
<1>2. ASSUME NEW c \in Clients, SignOut(c) \/ SignedOut(c) PROVE EarnedOK'
  BY <1>1, <1>2, RestEarned DEF SignOut, SignedOut, Signs
<1>3. ASSUME NEW l \in Links, IssueLink(l) PROVE EarnedOK'
  <2>1. ledger[l] = Api!Fresh /\ visits' = visits /\ get' = get /\ cookie' = cookie
    BY <1>3 DEF IssueLink, Api!Issue
  <2>2. PICK d \in 0 .. clock + Lifetime :
          ledger' = [ledger EXCEPT ![l] = [state |-> "live", deadline |-> d]]
    BY <1>3 DEF IssueLink, Api!Issue
  <2>3. ledger' \in [Links -> [state : {"none", "live", "used", "gone"}, deadline : Nat]]
    BY <1>1, <2>2
  <2>4. ASSUME NEW k \in Links, ledger[k].state = "used" PROVE ledger'[k].state = "used"
    BY <1>1, <2>1, <2>2, <2>4 DEF Api!Fresh
  <2> QED
    BY <2>1, <2>3, <2>4, RestEarned DEF Signs
<1>4. CASE Tick
  <2>1. get' = get /\ visits' = visits /\ ledger' = ledger
    BY <1>4 DEF Tick, Api!PassTime
  <2>2. ASSUME NEW c \in Clients, Signs(c)' PROVE Signs(c)
    BY <1>4, <2>2 DEF Tick, Signs
  <2> QED
    BY <1>1, <2>1, <2>2, RestEarned
<1>5. CASE UNCHANGED vars
  BY <1>1, <1>5, RestEarned DEF vars, Signs
<1> QED
  BY <1>2, <1>3, <1>4, <1>5, ApiStepEarned, RouteEarned, WelcomeEarned DEF Next, Handle

\* A browser is signed in only by a link that it opened itself and that its own
\* visit used up, for any number of clients, requests and links.
THEOREM SessionsEarned == Spec => []SessionEarned
<1>1. Spec => [](IInv /\ EarnedOK)
  BY InitEarned, NextEarned, InitIInv, NextIInv, PTL DEF Spec
<1>2. EarnedOK => SessionEarned
  BY DEF EarnedOK
<1> QED
  BY <1>1, <1>2, PTL

----------------------------------------------------------------------------
(* Who is turned away. *)

\* The initial state: nothing is issued or opened.
LEMMA InitExcused == Init => ExcusedOK
<1> SUFFICES ASSUME Init PROVE ExcusedOK
  OBVIOUS
<1>1. \A l \in Links : ledger[l] = Api!Fresh /\ ledger[l].state = "none"
  BY DEF Init, Api!SignInInit, Api!Fresh
<1>2. \A v \in Gets : get[v].state = "idle"
  BY DEF Init
<1>3. ASSUME NEW l \in Links PROVE LinkOK(l)
  BY <1>1 DEF LinkOK
<1> QED
  BY <1>2, <1>3 DEF ExcusedOK, TurnedAwayExcused

\* An excuse stays one: links that are issued keep their expiry, and requests
\* that opened one are never undone.
LEMMA ExcusesLast ==
    ASSUME NEW v \in Gets, Excused(v), get'[v].link = get[v].link,
           get[v].link \in Links \cup {NoLink}, get[v].excused => get'[v].excused,
           clock' \in Nat, clock \in Nat, clock <= clock',
           get[v].link # NoLink => /\ ledger[get[v].link].deadline \in Nat
                                   /\ ledger'[get[v].link].deadline = ledger[get[v].link].deadline,
           \A w \in Gets : get[w].state # "idle" =>
               get'[w].state # "idle" /\ get'[w].link = get[w].link
    PROVE  Excused(v)'
<1>1. CASE clock > ledger[get[v].link].deadline /\ get[v].link # NoLink
  BY <1>1 DEF Excused
<1>2. CASE \E w \in Gets \ {v} : get[w].state # "idle" /\ get[w].link = get[v].link
  BY <1>2 DEF Excused
<1>3. CASE get[v].excused \/ get[v].link = NoLink
  BY <1>3 DEF Excused
<1> QED
  BY <1>1, <1>2, <1>3 DEF Excused

\* A request that was made stays made, with its link and its excuse.
LEMMA GetsForward ==
    ASSUME IInv, [Next]_vars, NEW v \in Gets, get[v].state # "idle"
    PROVE  /\ get[v].link \in Links \cup {NoLink}
           /\ get'[v].state # "idle" /\ get'[v].link = get[v].link
           /\ get[v].excused => get'[v].excused
<1>1. get \in [Gets -> Get] /\ get[v] \in Get
  BY DEF IInv, TypeOK
<1>2. get[v].link \in Links \cup {NoLink}
  BY <1>1 DEF Get
<1>3. CASE get' = get
  BY <1>2, <1>3
<1>4. ASSUME NEW u \in Gets, NEW c \in Clients, NEW l \in Links \cup {NoLink}, Open(u, c, l)
      PROVE  get'[v] = get[v]
  BY <1>1, <1>4 DEF Open
<1>5. ASSUME NEW u \in Gets, u # v, Handle(u) \/ FailApi(u) \/ Lose(u)
      PROVE  get'[v] = get[v]
  BY <1>1, <1>5 DEF Handle, Admit, Redeem, Grant, Refuse, FailApi, Answer, Lose, Welcome,
                    TellError, Over
<1>6. CASE Grant(v)
  BY <1>1, <1>2, <1>6 DEF Grant, Get
<1>7. CASE Refuse(v)
  BY <1>1, <1>2, <1>7 DEF Refuse, Get
<1>8. CASE FailApi(v)
  BY <1>1, <1>2, <1>8 DEF FailApi, Get
<1>9. CASE Answer(v)
  BY <1>1, <1>2, <1>9 DEF Answer, Get
<1>10. CASE Lose(v)
  BY <1>1, <1>2, <1>10 DEF Lose, Over, Get
<1>11. CASE Welcome(v)
  BY <1>1, <1>2, <1>11 DEF Welcome, Over, Get
<1>12. CASE TellError(v)
  BY <1>1, <1>2, <1>12 DEF TellError, Over, Get
<1>13. \/ get' = get
       \/ \E u \in Gets, c \in Clients, l \in Links \cup {NoLink} : Open(u, c, l)
       \/ \E u \in Gets : Handle(u) \/ FailApi(u) \/ Lose(u)
  BY DEF Next, vars, SignOut, SignedOut, IssueLink, Tick
<1>14. ASSUME Handle(v) \/ FailApi(v) \/ Lose(v)
       PROVE  \/ get' = get
              \/ Grant(v) \/ Refuse(v) \/ FailApi(v) \/ Answer(v) \/ Lose(v) \/ Welcome(v) \/ TellError(v)
  BY <1>14 DEF Handle, Admit, Redeem
<1> QED
  BY <1>2, <1>3, <1>4, <1>5, <1>6, <1>7, <1>8, <1>9, <1>10, <1>11, <1>12, <1>13, <1>14

\* The API's state moves on: time does not go back, a link that was issued keeps
\* its expiry, and a visit that came in does not become one that never did.
LEMMA ApiForward ==
    ASSUME IInv, EarnedOK, [Next]_vars
    PROVE  /\ clock \in Nat /\ clock' \in Nat /\ clock <= clock'
           /\ \A l \in Links : ledger[l] # Api!Fresh =>
                 /\ ledger[l].deadline \in Nat /\ ledger'[l].deadline = ledger[l].deadline
                 /\ ledger'[l] = ledger[l] \/ ledger'[l].state = "used"
           /\ \A v \in Gets : visits[v] # Api!Outside => visits'[v] # Api!Outside
<1>1. /\ ledger \in [Links -> [state : {"none", "live", "used", "gone"}, deadline : Nat]]
      /\ visits \in [Gets -> [state : {"outside", "admitted", "redeemed", "signed_in", "away"},
                              link : Links \cup {NoLink}]]
      /\ clock \in Nat /\ clock' \in Nat
  BY NextIInv DEF EarnedOK, ApiOK, IInv, TypeOK
<1>2. CASE UNCHANGED <<clock, ledger, visits>>
  BY <1>1, <1>2
<1>3. CASE Tick
  BY <1>1, <1>3 DEF Tick, Api!PassTime
<1>4. ASSUME NEW l \in Links, IssueLink(l)
      PROVE  /\ clock' = clock /\ visits' = visits
             /\ \A k \in Links : ledger[k] # Api!Fresh => ledger'[k] = ledger[k]
  BY <1>1, <1>4 DEF IssueLink, Api!Issue
<1>5. ASSUME NEW v \in Gets, Admit(v) \/ Grant(v) \/ Refuse(v) \/ FailApi(v)
      PROVE  /\ clock' = clock /\ ledger' = ledger
             /\ \A w \in Gets : visits[w] # Api!Outside => visits'[w] # Api!Outside
  BY <1>1, <1>5 DEF Admit, Grant, Refuse, FailApi, Api!Admit, Api!Grant, Api!TurnAway,
                    Api!Outside, Api!Away
<1>6. ASSUME NEW v \in Gets, Redeem(v)
      PROVE  /\ clock' = clock
             /\ \A w \in Gets : visits[w] # Api!Outside => visits'[w] # Api!Outside
             /\ \A k \in Links : /\ ledger'[k].deadline = ledger[k].deadline
                                 /\ ledger'[k] = ledger[k] \/ ledger'[k].state = "used"
  BY <1>1, <1>6 DEF Redeem, Api!Redeem, Api!Outside
<1>7. \/ UNCHANGED <<clock, ledger, visits>> \/ Tick
      \/ \E l \in Links : IssueLink(l)
      \/ \E v \in Gets : Admit(v) \/ Grant(v) \/ Refuse(v) \/ FailApi(v) \/ Redeem(v)
  BY DEF Next, Handle, vars, Open, Answer, Welcome, TellError, Lose, SignOut, SignedOut
<1> QED
  BY <1>1, <1>2, <1>3, <1>4, <1>5, <1>6, <1>7

\* Links stay as LinkOK has them: one that becomes used has an opener whose
\* visit used it.
LEMMA LinksExcused ==
    ASSUME IInv, EarnedOK, ExcusedOK, [Next]_vars, NEW l \in Links
    PROVE  LinkOK(l)'
<1>1. LinkOK(l) /\ ApiOK
  BY DEF ExcusedOK, EarnedOK
<1>2. ASSUME NEW v \in Gets, get[v].state # "idle", get[v].link = l, visits[v] # Api!Outside
      PROVE  get'[v].state # "idle" /\ get'[v].link = l /\ visits'[v] # Api!Outside
  BY <1>2, GetsForward, ApiForward
<1>3. CASE ledger'[l] = ledger[l]
  BY <1>1, <1>2, <1>3 DEF LinkOK
<1>4. ASSUME ledger'[l] # ledger[l], NEW k \in Links, IssueLink(k)
      PROVE  LinkOK(l)'
  <2>1. ledger'[l].state = "live"
    BY <1>1, <1>4 DEF IssueLink, Api!Issue, ApiOK
  <2> QED
    BY <2>1 DEF LinkOK
<1>5. ASSUME ledger'[l] # ledger[l], NEW v \in Gets, Redeem(v)
      PROVE  LinkOK(l)'
  <2>1. visits[v].state = "admitted" /\ get[v].link \in Links /\ visits[v].link = get[v].link
    BY <1>5 DEF Redeem, Api!Redeem, EarnedOK, VisitOK
  <2>2. get[v].state # "idle" /\ visits[v] # Api!Outside
    BY <2>1 DEF EarnedOK, VisitOK, Api!Outside
  <2>3. get[v].link = l /\ ledger'[l].state = "used"
    BY <1>1, <1>5, <2>1 DEF Redeem, Api!Redeem, ApiOK
  <2>4. get'[v].state # "idle" /\ get'[v].link = l /\ visits'[v] # Api!Outside
    BY <1>2, <2>2, <2>3
  <2> QED
    BY <2>3, <2>4 DEF LinkOK
<1>6. \/ ledger' = ledger
      \/ \E k \in Links : IssueLink(k)
      \/ \E v \in Gets : Redeem(v)
  BY DEF Next, Handle, vars, Open, Answer, Welcome, TellError, Lose, SignOut, SignedOut, Tick,
         Admit, Grant, Refuse, FailApi, Api!Admit, Api!Grant, Api!TurnAway, Api!PassTime
<1> QED
  BY <1>3, <1>4, <1>5, <1>6

\* What a step newly turns away has an excuse.
LEMMA TurnedAwayNow ==
    ASSUME IInv, EarnedOK, ExcusedOK, [Next]_vars, NEW v \in Gets,
           get'[v].state \in {"refused", "told", "lost"}
    PROVE  get'[v].excused \/ (get[v].state # "idle" /\ Excused(v))
<1>1. get \in [Gets -> Get] /\ get[v] \in Get
  BY DEF IInv, TypeOK
<1>2. CASE get'[v] = get[v]
  BY <1>1, <1>2 DEF ExcusedOK, TurnedAwayExcused
<1>3. CASE Refuse(v)
  <2>1. get[v].state = "sent" /\ visits[v] = Api!Outside /\ ~Usable(get[v].link)
    BY <1>3 DEF Refuse
  <2>2. CASE get[v].link = NoLink
    BY <2>1, <2>2 DEF Excused
  <2>3. CASE get[v].link # NoLink
    <3> DEFINE l == get[v].link
    <3>1. l \in Links /\ LinkOK(l) /\ ledger[l] # Api!Fresh
      BY <1>1, <2>1, <2>3 DEF Get, ExcusedOK
    <3>2. CASE ledger[l].state = "used"
      <4>1. PICK w \in Gets : get[w].state # "idle" /\ get[w].link = l /\ visits[w] # Api!Outside
        BY <3>1, <3>2 DEF LinkOK
      <4> QED
        BY <2>1, <4>1 DEF Excused
    <3>3. CASE ledger[l].state = "live"
      <4>1. ~(clock <= ledger[l].deadline)
        BY <2>1, <2>3, <3>3 DEF Usable
      <4>2. clock \in Nat /\ ledger[l].deadline \in Nat
        BY <3>1, ApiForward
      <4>3. clock > ledger[l].deadline
        BY <4>1, <4>2
      <4> QED
        BY <2>1, <4>3 DEF Excused
    <3> QED
      BY <3>1, <3>2, <3>3 DEF LinkOK
  <2> QED
    BY <2>2, <2>3
<1>4. CASE FailApi(v)
  BY <1>1, <1>4 DEF FailApi, Get
<1>5. CASE Lose(v)
  BY <1>1, <1>5 DEF Lose, Over, Get
<1>6. CASE TellError(v)
  BY <1>6 DEF TellError, ExcusedOK, TurnedAwayExcused
<1>7. CASE Grant(v) \/ Answer(v) \/ Welcome(v)
  <2>1. CASE Grant(v)
    BY <1>1, <2>1 DEF Grant, Get
  <2>2. CASE Answer(v)
    BY <1>1, <2>2 DEF Answer, Get
  <2>3. CASE Welcome(v)
    BY <1>1, <2>3 DEF Welcome, Over, Get
  <2> QED
    BY <1>7, <2>1, <2>2, <2>3
<1>8. ASSUME NEW c \in Clients, NEW l \in Links \cup {NoLink}, Open(v, c, l)
      PROVE  FALSE
  <2>1. get' = [get EXCEPT ![v] = [@ EXCEPT !.state = "sent", !.client = c, !.link = l]]
    BY <1>8 DEF Open
  <2>2. get'[v].state = "sent"
    BY <1>1, <2>1 DEF Get
  <2> QED
    BY <2>2
<1>9. ASSUME NEW u \in Gets, u # v, Handle(u) \/ FailApi(u) \/ Lose(u)
      PROVE  get'[v] = get[v]
  BY <1>1, <1>9 DEF Handle, Admit, Redeem, Grant, Refuse, FailApi, Answer, Lose, Welcome,
                    TellError, Over
<1>10. ASSUME NEW u \in Gets, u # v, NEW c \in Clients, NEW l \in Links \cup {NoLink}, Open(u, c, l)
       PROVE  get'[v] = get[v]
  BY <1>1, <1>10 DEF Open
<1>11. ASSUME Handle(v) \/ FailApi(v) \/ Lose(v)
       PROVE  \/ get' = get
              \/ Grant(v) \/ Refuse(v) \/ FailApi(v) \/ Answer(v) \/ Lose(v) \/ Welcome(v) \/ TellError(v)
  BY <1>11 DEF Handle, Admit, Redeem
<1>12. \/ get' = get
       \/ \E u \in Gets, c \in Clients, l \in Links \cup {NoLink} : Open(u, c, l)
       \/ \E u \in Gets : Handle(u) \/ FailApi(u) \/ Lose(u)
  BY DEF Next, vars, SignOut, SignedOut, IssueLink, Tick
<1> QED
  BY <1>2, <1>3, <1>4, <1>5, <1>6, <1>7, <1>8, <1>9, <1>10, <1>11, <1>12

\* Every step keeps ExcusedOK.
LEMMA NextExcused == IInv /\ EarnedOK /\ ExcusedOK /\ [Next]_vars => ExcusedOK'
<1> SUFFICES ASSUME IInv, EarnedOK, ExcusedOK, [Next]_vars PROVE ExcusedOK'
  OBVIOUS
<1>1. ASSUME NEW l \in Links PROVE LinkOK(l)'
  BY LinksExcused
<1>2. ASSUME NEW v \in Gets, get'[v].state # "idle", get'[v].link # NoLink
      PROVE  ledger'[get'[v].link] # Api!Fresh
  <2>1. CASE get[v].state # "idle"
    <3>1. get'[v].link = get[v].link /\ get[v].link \in Links /\ ledger[get[v].link] # Api!Fresh
      BY <1>2, <2>1, GetsForward DEF ExcusedOK
    <3>2. ledger'[get[v].link] = ledger[get[v].link] \/ ledger'[get[v].link].state = "used"
      BY <3>1, ApiForward
    <3> QED
      BY <3>1, <3>2 DEF Api!Fresh
  <2>2. CASE get[v].state = "idle"
    <3>1. get \in [Gets -> Get] /\ visits[v] = Api!Outside
      BY <2>2 DEF IInv, TypeOK, EarnedOK, VisitOK
    <3>2. \E c \in Clients, l \in Links \cup {NoLink} : Open(v, c, l)
      <4>1. ~(Handle(v) \/ FailApi(v) \/ Lose(v)) \/ get' = get
        BY <2>2, <3>1 DEF Handle, Admit, Redeem, Grant, Refuse, FailApi, Answer, Lose, Welcome,
                          TellError, Api!Grant, Api!Outside
      <4>2. ASSUME NEW u \in Gets, u # v,
                   \/ Handle(u) \/ FailApi(u) \/ Lose(u)
                   \/ \E c \in Clients, l \in Links \cup {NoLink} : Open(u, c, l)
            PROVE  get'[v] = get[v]
        BY <3>1, <4>2 DEF Handle, Admit, Redeem, Grant, Refuse, FailApi, Answer, Lose, Welcome,
                          TellError, Over, Open
      <4>3. \/ get' = get
            \/ \E u \in Gets, c \in Clients, l \in Links \cup {NoLink} : Open(u, c, l)
            \/ \E u \in Gets : Handle(u) \/ FailApi(u) \/ Lose(u)
        BY DEF Next, vars, SignOut, SignedOut, IssueLink, Tick
      <4>4. get'[v] # get[v]
        BY <1>2, <2>2
      <4> QED
        BY <4>1, <4>2, <4>3, <4>4
    <3>3. PICK c \in Clients, l \in Links \cup {NoLink} : Open(v, c, l)
      BY <3>2
    <3>4. get' = [get EXCEPT ![v] = [@ EXCEPT !.state = "sent", !.client = c, !.link = l]]
      BY <3>3 DEF Open
    <3>5. get'[v].link = l
      BY <3>1, <3>4 DEF Get
    <3> QED
      BY <1>2, <3>3, <3>5 DEF Open
  <2> QED
    BY <2>1, <2>2
<1>3. ASSUME NEW v \in Gets, get'[v].state \in {"refused", "told", "lost"}
      PROVE  Excused(v)'
  <2>1. CASE get'[v].excused
    BY <2>1 DEF Excused
  <2>2. CASE get[v].state # "idle" /\ Excused(v)
    <3>1. /\ get[v].link \in Links \cup {NoLink} /\ get'[v].link = get[v].link
          /\ get[v].excused => get'[v].excused
      BY <2>2, GetsForward
    <3>2. get[v].link # NoLink =>
            /\ ledger[get[v].link].deadline \in Nat
            /\ ledger'[get[v].link].deadline = ledger[get[v].link].deadline
      BY <2>2, <3>1, ApiForward DEF ExcusedOK
    <3>3. \A w \in Gets : get[w].state # "idle" =>
             get'[w].state # "idle" /\ get'[w].link = get[w].link
      BY GetsForward
    <3>4. clock \in Nat /\ clock' \in Nat /\ clock <= clock'
      BY ApiForward
    <3> QED
      BY <2>2, <3>1, <3>2, <3>3, <3>4, ExcusesLast
  <2> QED
    BY <1>3, <2>1, <2>2, TurnedAwayNow
<1> QED
  BY <1>1, <1>2, <1>3 DEF ExcusedOK, TurnedAwayExcused

\* Nobody is turned away who opened his link in time and alone, unless the API
\* or the way to it failed, for any number of clients, requests and links.
THEOREM RefusalsExcused == Spec => []TurnedAwayExcused
<1>1. Spec => [](IInv /\ EarnedOK /\ ExcusedOK)
  BY InitEarned, NextEarned, InitIInv, NextIInv, InitExcused, NextExcused, PTL DEF Spec
<1>2. ExcusedOK => TurnedAwayExcused
  BY DEF ExcusedOK
<1> QED
  BY <1>1, <1>2, PTL
=============================================================================
