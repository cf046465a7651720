----------------------------- MODULE WebSession -----------------------------
(***************************************************************************)
(* The browser's side of signing in: links opened by GET at the site's     *)
(* verify route, which redeems them at the API, the access_token cookie it *)
(* sets, and sign-out.  The API is SignIn, which MagicLinkAuth implements: *)
(* a visit there is the POST that one GET here makes.                      *)
(*                                                                         *)
(* A client is whatever opens links and keeps cookies: the reader's        *)
(* browser, or a mail scanner or preview that opens the link first.  One   *)
(* client may open a link again: a reload, a prefetch.                     *)
(***************************************************************************)
EXTENDS Naturals, FiniteSets

CONSTANTS
    Clients,
    Gets,         \* GET requests of the verify route
    Links,
    NoLink,       \* no token in the URL
    Lifetime,     \* of a link
    JwtLifetime,  \* of an access token
    NoCookie,
    MaxTime,      \* bound on clock
    MaxSignOuts   \* bound on sign-outs

ASSUME SessionAssumption ==
    /\ NoLink \notin Links
    /\ NoCookie \notin [exp : Nat, dies : Nat, late : Nat]  \* Cookie
    /\ Lifetime \in Nat /\ JwtLifetime \in Nat \ {0} /\ MaxTime \in Nat /\ MaxSignOuts \in Nat

VARIABLES
    clock, ledger, visits,  \* the API: see SignIn
    get,       \* what became of each GET
    cookie,    \* each client's access_token
    leaving,   \* clients whose sign-out is on its way
    signOuts   \* sign-outs so far
vars == <<clock, ledger, visits, get, cookie, leaving, signOuts>>

Api == INSTANCE SignIn WITH Visits <- Gets

\* `exp' is the token's, `sent' the time the route answered; `excused' is set
\* by a failure on the way.
States == {"idle", "sent", "granted", "refused", "redirect", "welcomed", "told", "lost"}
Get == [state : States, client : Clients \cup {NoCookie}, link : Links \cup {NoLink},
        exp : Nat, sent : Nat, maxAge : Nat, excused : BOOLEAN]
Cookie == [exp : Nat, dies : Nat, late : Nat]

\* A request that is over, with nothing left of its answer.
Over(v, state) == [get EXCEPT ![v] =
    [@ EXCEPT !.state = state, !.exp = 0, !.sent = 0, !.maxAge = 0]]

Signs(c) == cookie[c] # NoCookie

----------------------------------------------------------------------------
(* auth/verify/route.ts *)

Open(v, c, l) ==
    /\ get[v].state = "idle"
    /\ l # NoLink => ledger[l] # Api!Fresh
    /\ get' = [get EXCEPT ![v] = [@ EXCEPT !.state = "sent", !.client = c, !.link = l]]
    /\ UNCHANGED <<clock, ledger, visits, cookie, leaving, signOuts>>

\* The API's steps for the POST.
Admit(v) ==
    /\ get[v].state = "sent" /\ get[v].link # NoLink
    /\ Api!Admit(v, get[v].link)
    /\ UNCHANGED <<get, cookie, leaving, signOuts>>
Redeem(v) ==
    /\ Api!Redeem(v)
    /\ UNCHANGED <<get, cookie, leaving, signOuts>>
Grant(v) ==
    /\ Api!Grant(v)
    /\ get' = [get EXCEPT ![v] = [@ EXCEPT !.state = "granted", !.exp = clock + JwtLifetime]]
    /\ UNCHANGED <<cookie, leaving, signOuts>>

\* A link is taken for expired at the moment of its expiry.
UsableBefore(l) == l # NoLink /\ ledger[l].state = "live" /\ clock < ledger[l].deadline
\* Not if the link is used or expired, or there is none: then the API is not
\* asked.
Usable(l) == l # NoLink /\ ledger[l].state = "live" /\ clock <= ledger[l].deadline
Refuse(v) ==
    /\ get[v].state = "sent" /\ visits[v] = Api!Outside
    /\ ~Usable(get[v].link)
    /\ Api!TurnAway(v)
    /\ get' = [get EXCEPT ![v].state = "refused"]
    /\ UNCHANGED <<cookie, leaving, signOuts>>
\* The API fails before it signs the visit in.
FailApi(v) ==
    /\ get[v].state = "sent"
    /\ Api!TurnAway(v)
    /\ get' = [get EXCEPT ![v] = [@ EXCEPT !.state = "refused", !.excused = TRUE]]
    /\ UNCHANGED <<cookie, leaving, signOuts>>

\* The lifetime of a token whose payload is not read.
ExpiryByDefault(exp) == JwtLifetime
ExpirySeconds(exp) == IF exp > clock THEN exp - clock ELSE 0

\* The redirect home, with the cookie.
Answer(v) ==
    /\ get[v].state = "granted"
    /\ get' = [get EXCEPT ![v] = [@ EXCEPT !.state = "redirect", !.sent = clock,
                                           !.maxAge = ExpirySeconds(get[v].exp)]]
    /\ UNCHANGED <<clock, ledger, visits, cookie, leaving, signOuts>>

\* An answer that never comes: from the API, or from the route.
Lose(v) ==
    /\ get[v].state \in {"granted", "refused", "redirect"}
    /\ get' = [get EXCEPT ![v] = [Over(v, "lost")[v] EXCEPT !.excused = TRUE]]
    /\ UNCHANGED <<clock, ledger, visits, cookie, leaving, signOuts>>

----------------------------------------------------------------------------
(* The browser. *)

\* Set-Cookie: a maxAge of 0 deletes the cookie.
Stored(v) ==
    IF get[v].maxAge = 0 THEN NoCookie
    ELSE [exp |-> get[v].exp, dies |-> clock + get[v].maxAge, late |-> clock - get[v].sent]
Welcome(v) ==
    /\ get[v].state = "redirect"
    /\ get' = Over(v, "welcomed")
    /\ cookie' = [cookie EXCEPT ![get[v].client] = Stored(v)]
    /\ UNCHANGED <<clock, ledger, visits, leaving, signOuts>>

\* The error page with a Set-Cookie that signs the reader out.
CookieCleared(v) == [cookie EXCEPT ![get[v].client] = NoCookie]
CookieAfterError(v) == cookie
\* The redirect to the error page.
TellError(v) ==
    /\ get[v].state = "refused"
    /\ get' = Over(v, "told")
    /\ cookie' = CookieAfterError(v)
    /\ UNCHANGED <<clock, ledger, visits, leaving, signOuts>>

SignOut(c) ==
    /\ signOuts < MaxSignOuts
    /\ signOuts' = signOuts + 1
    /\ leaving' = leaving \cup {c}
    /\ UNCHANGED <<clock, ledger, visits, get, cookie>>
\* sign-out/route.ts
SignedOut(c) ==
    /\ c \in leaving
    /\ leaving' = leaving \ {c}
    /\ cookie' = [cookie EXCEPT ![c] = NoCookie]
    /\ UNCHANGED <<clock, ledger, visits, get, signOuts>>

----------------------------------------------------------------------------
IssueLink(l) ==
    /\ Api!Issue(l)
    /\ UNCHANGED <<get, cookie, leaving, signOuts>>

\* Time passes, and browsers drop the cookies whose maxAge is over.
Tick ==
    /\ clock < MaxTime
    /\ Api!PassTime
    /\ cookie' = [c \in Clients |->
          IF Signs(c) /\ cookie[c].dies <= clock + 1 THEN NoCookie ELSE cookie[c]]
    /\ UNCHANGED <<get, leaving, signOuts>>

Init ==
    /\ Api!SignInInit
    /\ get = [v \in Gets |-> [state |-> "idle", client |-> NoCookie, link |-> NoLink,
                 exp |-> 0, sent |-> 0, maxAge |-> 0, excused |-> FALSE]]
    /\ cookie = [c \in Clients |-> NoCookie]
    /\ leaving = {} /\ signOuts = 0

Handle(v) == Admit(v) \/ Redeem(v) \/ Grant(v) \/ Refuse(v) \/ Answer(v) \/ Welcome(v) \/ TellError(v)
Next ==
    \/ \E v \in Gets : Handle(v) \/ FailApi(v) \/ Lose(v)
    \/ \E v \in Gets, c \in Clients, l \in Links \cup {NoLink} : Open(v, c, l)
    \/ \E c \in Clients : SignOut(c) \/ SignedOut(c)
    \/ \E l \in Links : IssueLink(l)
    \/ Tick

Spec == Init /\ [][Next]_vars
\* The API answers (HandlersFinish of MagicLinkAuth), the route does, and an
\* answer that is not lost arrives.
FairSpec == Spec /\ \A v \in Gets : WF_vars(Handle(v))

----------------------------------------------------------------------------
(* Properties. *)

\* API, requests and cookies keep their shape.
TypeOK ==
    /\ clock \in Nat
    /\ get \in [Gets -> Get]
    /\ cookie \in [Clients -> Cookie \cup {NoCookie}]
    /\ leaving \subseteq Clients
    /\ signOuts \in 0 .. MaxSignOuts

\* The inductive invariant behind the first property: a redirect's maxAge is
\* what its token had left, so a cookie dies as late as it arrived.
AnswerOK(v) ==
    get[v].state = "redirect" =>
        /\ get[v].sent <= clock
        /\ get[v].maxAge > 0 => get[v].sent + get[v].maxAge = get[v].exp
CookieOK(c) == Signs(c) => cookie[c].dies = cookie[c].exp + cookie[c].late /\ clock < cookie[c].dies
IInv ==
    /\ TypeOK
    /\ \A v \in Gets : AnswerOK(v)
    /\ \A c \in Clients : CookieOK(c)

\* A browser is signed in only by a link: one it opened itself, whose visit was
\* admitted while the link was live and has used it up.  No refusal, failure or
\* late answer leaves a cookie.
SessionEarned ==
    \A c \in Clients : Signs(c) =>
        \E v \in Gets :
            /\ get[v].client = c /\ get[v].state = "welcomed"
            /\ visits[v].state = "signed_in" /\ visits[v].link = get[v].link
            /\ get[v].link \in Links /\ ledger[get[v].link].state = "used"

\* Behind it: how far a request and its visit at the API may be apart.
ApiOK ==
    /\ ledger \in [Links -> [state : {"none", "live", "used", "gone"}, deadline : Nat]]
    /\ visits \in [Gets -> [state : {"outside", "admitted", "redeemed", "signed_in", "away"},
                            link : Links \cup {NoLink}]]
VisitOK(v) ==
    /\ get[v].state = "idle" => visits[v] = Api!Outside
    /\ visits[v].state \notin {"outside", "away"} =>
          get[v].link \in Links /\ visits[v].link = get[v].link
    /\ visits[v].state \in {"redeemed", "signed_in"} => ledger[get[v].link].state = "used"
    /\ get[v].state \in {"granted", "redirect", "welcomed"} => visits[v].state = "signed_in"
EarnedOK == ApiOK /\ (\A v \in Gets : VisitOK(v)) /\ SessionEarned

\* A browser's cookie lasts as long as the token in it: time takes it away
\* only when the token has expired, and leaves it beyond that for no longer
\* than the answer took to arrive.
CookieLastsAsToken ==
    [][\A c \in Clients : Signs(c) /\ clock' # clock =>
          /\ ~Signs(c)' => clock' >= cookie[c].exp
          /\ Signs(c)' => clock' < cookie[c].exp + cookie[c].late]_vars

\* Nothing but time, signing out and signing in again ends a session: not a
\* reload of its link, nor any other link that is refused, lost or under way.
RefusalKeepsSession ==
    [][\A c \in Clients : Signs(c) /\ cookie'[c] # cookie[c] =>
          \/ clock' # clock
          \/ c \in leaving /\ c \notin leaving'
          \/ \E v \in Gets : /\ get[v].client = c
                             /\ get[v].state = "redirect" /\ get'[v].state = "welcomed"]_vars

\* A link that is opened signs its opener in, unless something failed, it was
\* late, or somebody opened the same link: a scanner, or the same reader.
Excused(v) ==
    \/ get[v].excused
    \/ get[v].link = NoLink
    \/ clock > ledger[get[v].link].deadline
    \/ \E w \in Gets \ {v} : get[w].state # "idle" /\ get[w].link = get[v].link
OnlyVisitSignsIn ==
    \A v \in Gets : get[v].state = "sent" ~>
        (get[v].state = "welcomed" /\ Signs(get[v].client)) \/ Excused(v)

\* The part of it that is safety: nobody is turned away without such an excuse.
TurnedAwayExcused ==
    \A v \in Gets : get[v].state \in {"refused", "told", "lost"} => Excused(v)

\* Behind it: a link is issued before it is opened, and only a request that
\* opened it uses it up.
LinkOK(l) ==
    /\ ledger[l] = Api!Fresh \/ ledger[l].state \in {"live", "used"}
    /\ ledger[l].state = "used" =>
          \E v \in Gets : get[v].state # "idle" /\ get[v].link = l /\ visits[v] # Api!Outside
ExcusedOK ==
    /\ \A l \in Links : LinkOK(l)
    /\ \A v \in Gets : get[v].state # "idle" /\ get[v].link # NoLink =>
          ledger[get[v].link] # Api!Fresh
    /\ TurnedAwayExcused
=============================================================================
