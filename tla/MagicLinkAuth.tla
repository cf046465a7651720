--------------------------- MODULE MagicLinkAuth ---------------------------
(***************************************************************************)
(* Sign-in by magic link: POST /auth/magic-link, POST /auth/verify and     *)
(* GET /users/me, run by any number of concurrent handlers against one     *)
(* PostgreSQL database at READ COMMITTED.                                  *)
(*                                                                         *)
(* One step is one database statement together with the Python code up to  *)
(* the next await.  A handler's uncommitted writes live in its own record  *)
(* and reach `users' and `links' when it commits; ending the handler any   *)
(* other way (get_db closes the session) drops them.                       *)
(*                                                                         *)
(* A user row is named by the request that inserted it and a link row by   *)
(* the request that inserted it: both carry a fresh uuid7 / random token.  *)
(***************************************************************************)
EXTENDS Naturals, FiniteSets

CONSTANTS
    Emails,         \* addresses people sign in with
    Requests,       \* POST /auth/magic-link calls
    Verifies,       \* POST /auth/verify calls, each with the session it opens
    BypassUser,     \* id of the row the migrations seed
    BypassEmail,    \* and its address
    Bogus,          \* a token nobody was sent
    ExpireMinutes,  \* settings.magic_link_expire_minutes
    JwtMinutes,     \* settings.access_token_expire_minutes
    MaxTime,        \* bound: the clock stops here
    MaxResets,      \* bound: how often the database is recreated
    Absent,         \* no row
    Never           \* a NULL used_at

ASSUME NamesAssumption ==
    /\ BypassEmail \in Emails
    /\ BypassUser \notin Requests
    /\ Bogus \notin Requests
ASSUME TimesAssumption ==
    /\ ExpireMinutes \in Nat /\ JwtMinutes \in Nat
    /\ MaxTime \in Nat /\ MaxResets \in Nat
    /\ Never \notin Nat
ASSUME AbsentAssumption ==
    /\ Absent \notin [email : Emails, verified : BOOLEAN]
    /\ Absent \notin [user : Requests \cup {BypassUser}, expires : Nat,
                      used : Nat \cup {Never}]

UserIds == Requests \cup {BypassUser}

VARIABLES
    now,      \* utc_now(), in minutes
    users,    \* table users, committed rows
    links,    \* table magic_links, committed rows
    req,      \* the POST /auth/magic-link handlers
    ver,      \* the POST /auth/verify handlers
    inbox,    \* links that reached their reader, by mail or by the log line
    resets    \* databases recreated so far
vars == <<now, users, links, req, ver, inbox, resets>>

UserRow == [email : Emails, verified : BOOLEAN]
LinkRow == [user : UserIds, expires : Nat, used : Nat \cup {Never}]

ReqPC == {"idle", "lookup", "insert", "link", "commit", "respond", "mail", "done"}
VerPC == {"idle", "read", "mark", "load", "flip", "commit", "issue", "done"}
InRequest == {"lookup", "insert", "link", "commit"}  \* pcs with an open session
InVerify  == {"read", "mark", "load", "flip", "commit"}

ReqRecord == [pc : ReqPC, email : Emails, user : UserIds, new : BOOLEAN,
              expires : Nat, status : {"none", "ok", "error", "lost"}]
VerRecord == [pc : VerPC, link : Requests \cup {Bogus}, user : UserIds,
              stamp : Nat, locks : SUBSET {"link", "user"}, exp : Nat,
              status : {"none", "token", "invalid", "used", "expired",
                        "error", "lost"}]

----------------------------------------------------------------------------
(* What a statement sees and waits for. *)

Exists(u) == users[u] # Absent
WithEmail(e) == {u \in UserIds : Exists(u) /\ users[u].email = e}

\* A read that saw other sessions' uncommitted inserts.
WithEmailDirty(e) == {u \in UserIds : Exists(u) /\ users[u].email = e}
    \cup {r \in Requests : req[r].new /\ req[r].email = e}
\* A lookup that ignores which address it was given.
WithEmailAny(e) == {u \in UserIds : Exists(u)}
\* UserRepository.get_by_email: the committed row, there is at most one.
GetByEmail(e) == WithEmail(e)

\* Without the unique index nothing waits and nothing fails.
InsertWaitsNever(r) == FALSE
\* ix_users_email: an INSERT waits for another transaction's uncommitted
\* row with the same key.
InsertWaits(r) == \E s \in Requests \ {r} : req[s].new /\ req[s].email = req[r].email

\* Row locks an UPDATE waits for.
LinkWaits(v) == \E w \in Verifies \ {v} :
    "link" \in ver[w].locks /\ ver[w].link = ver[v].link
UserWaits(v) == \E w \in Verifies \ {v} :
    "user" \in ver[w].locks /\ ver[w].user = ver[v].user

\* is_used and is_expired the wrong way round, or forgotten.
IsUsedNever(l) == FALSE
IsExpiredAtOnce(l) == l.expires + 1 < now
\* MagicLink.is_used and MagicLink.is_expired.
IsUsed(l) == l.used # Never
IsExpired(l) == l.expires < now

----------------------------------------------------------------------------
(* How a handler ends: get_db closes the session, which rolls back whatever *)
(* was not committed and releases its locks.                               *)

EndRequest(r, status) ==
    req' = [req EXCEPT ![r].pc = "done", ![r].status = status, ![r].new = FALSE]

\* A session that is never closed keeps its row locks.
EndVerifyLeaking(v, status) ==
    ver' = [ver EXCEPT ![v].pc = "done", ![v].status = status]
EndVerify(v, status) ==
    ver' = [ver EXCEPT ![v].pc = "done", ![v].status = status, ![v].locks = {}]

----------------------------------------------------------------------------
(* POST /auth/magic-link: AuthService.request_magic_link. *)

RequestLink(r, e) ==
    /\ req[r].pc = "idle"
    /\ req' = [req EXCEPT ![r].pc = "lookup", ![r].email = e]
    /\ UNCHANGED <<now, users, links, ver, inbox, resets>>

LookupUser(r) ==
    /\ req[r].pc = "lookup"
    /\ \/ /\ GetByEmail(req[r].email) = {}
          /\ req' = [req EXCEPT ![r].pc = "insert"]
       \/ \E u \in GetByEmail(req[r].email) :
              req' = [req EXCEPT ![r].pc = "link", ![r].user = u]
    /\ UNCHANGED <<now, users, links, ver, inbox, resets>>

\* Two requests for one new address both came here; the unique index lets
\* one through and answers the other with an IntegrityError, a 500.
CreateUser(r) ==
    /\ req[r].pc = "insert"
    /\ ~InsertWaits(r)
    /\ IF WithEmail(req[r].email) = {}
       THEN req' = [req EXCEPT ![r].pc = "link", ![r].user = r, ![r].new = TRUE]
       ELSE EndRequest(r, "error")
    /\ UNCHANGED <<now, users, links, ver, inbox, resets>>

ExpiresAt == now + ExpireMinutes

CreateLink(r) ==
    /\ req[r].pc = "link"
    /\ req' = [req EXCEPT ![r].pc = "commit", ![r].expires = ExpiresAt]
    /\ UNCHANGED <<now, users, links, ver, inbox, resets>>

\* The commit publishes the new user row, if any, and the link row.
NewRow(r) == [email |-> req[r].email, verified |-> FALSE]
PublishUser(r) == IF req[r].new THEN [users EXCEPT ![r] = NewRow(r)] ELSE users
NewLink(r) == [user |-> req[r].user, expires |-> req[r].expires, used |-> Never]

CommitRequest(r) ==
    /\ req[r].pc = "commit"
    /\ users' = PublishUser(r)
    /\ links' = [links EXCEPT ![r] = NewLink(r)]
    /\ req' = [req EXCEPT ![r].pc = "respond", ![r].new = FALSE]
    /\ UNCHANGED <<now, ver, inbox, resets>>

Respond(r) ==
    /\ req[r].pc = "respond"
    /\ req' = [req EXCEPT ![r].pc = "mail", ![r].status = "ok"]
    /\ UNCHANGED <<now, users, links, ver, inbox, resets>>

\* The background task: one attempt, a failed send is only logged.
SendMagicLink(r) ==
    /\ req[r].pc = "mail"
    /\ req' = [req EXCEPT ![r].pc = "done"]
    /\ inbox' \in {inbox, inbox \cup {r}}
    /\ UNCHANGED <<now, users, links, ver, resets>>

----------------------------------------------------------------------------
(* POST /auth/verify: AuthService.verify_magic_link. *)

OpenLink(v, t) ==
    /\ ver[v].pc = "idle"
    /\ ver' = [ver EXCEPT ![v].pc = "read", ![v].link = t]
    /\ UNCHANGED <<now, users, links, req, inbox, resets>>

Found(v) == ver[v].link # Bogus /\ links[ver[v].link] # Absent

\* The SELECT, the two checks and used_at = utc_now(), with no await between.
ReadLink(v) ==
    LET row == links[ver[v].link] IN
    /\ ver[v].pc = "read"
    /\ \/ ~Found(v) /\ EndVerify(v, "invalid")
       \/ Found(v) /\ IsUsed(row) /\ EndVerify(v, "used")
       \/ Found(v) /\ ~IsUsed(row) /\ IsExpired(row) /\ EndVerify(v, "expired")
       \/ /\ Found(v) /\ ~IsUsed(row) /\ ~IsExpired(row)
          /\ ver' = [ver EXCEPT ![v].pc = "mark", ![v].stamp = now, ![v].user = row.user]
    /\ UNCHANGED <<now, users, links, req, inbox, resets>>

\* UPDATE magic_links SET used_at ... WHERE id: waits for the row, then
\* writes it whatever another transaction committed in the meantime.
MarkUsed(v) ==
    /\ ver[v].pc = "mark"
    /\ ~LinkWaits(v)
    /\ ver' = [ver EXCEPT ![v].pc = "load", ![v].locks = @ \cup {"link"}]
    /\ UNCHANGED <<now, users, links, req, inbox, resets>>

\* users.get_by_id, with the assertion that the row is there.
LoadUser(v) ==
    /\ ver[v].pc = "load"
    /\ IF Exists(ver[v].user)
       THEN ver' = [ver EXCEPT ![v].pc = IF users[ver[v].user].verified
                                         THEN "commit" ELSE "flip"]
       ELSE EndVerify(v, "error")
    /\ UNCHANGED <<now, users, links, req, inbox, resets>>

MarkVerified(v) ==
    /\ ver[v].pc = "flip"
    /\ ~UserWaits(v)
    /\ ver' = [ver EXCEPT ![v].pc = "commit", ![v].locks = @ \cup {"user"}]
    /\ UNCHANGED <<now, users, links, req, inbox, resets>>

\* used_at taken when the transaction commits instead of when it was checked.
StampedLate(v) == [links EXCEPT ![ver[v].link].used = now]
\* The session closed without the commit.
StampedNever(v) == links
\* What the commit makes visible: mark_verified's row and mark_used's.
PublishVerified(v) ==
    IF "user" \in ver[v].locks
    THEN [users EXCEPT ![ver[v].user].verified = TRUE]
    ELSE users
Stamped(v) == [links EXCEPT ![ver[v].link].used = ver[v].stamp]

CommitVerify(v) ==
    /\ ver[v].pc = "commit"
    /\ links' = Stamped(v)
    /\ users' = PublishVerified(v)
    /\ ver' = [ver EXCEPT ![v].pc = "issue", ![v].locks = {}]
    /\ UNCHANGED <<now, req, inbox, resets>>

\* create_access_token and the response that carries it.
IssueToken(v) ==
    /\ ver[v].pc = "issue"
    /\ ver' = [ver EXCEPT ![v].pc = "done", ![v].status = "token",
                          ![v].exp = now + JwtMinutes]
    /\ UNCHANGED <<now, users, links, req, inbox, resets>>

----------------------------------------------------------------------------
(* GET /users/me, and every other protected route, asked with the token of *)
(* session v or, before it has one, with none: get_current_user.           *)
(* `enabled' is AUTH_ENABLED of the server that answers: during a rollout   *)
(* servers with either setting run side by side.                           *)

Unauthorized == [status |-> 401]
NotFound == [status |-> 404]
Profile(u) == [status |-> 200, user |-> u]

\* UserNotFoundError passed on as the 404 it is elsewhere.
CurrentUserUnconverted(v, enabled) ==
    LET u == IF enabled THEN ver[v].user ELSE BypassUser IN
    IF enabled /\ (ver[v].status # "token" \/ ver[v].exp <= now) THEN Unauthorized
    ELSE IF Exists(u) THEN Profile(u) ELSE NotFound
CurrentUser(v, enabled) ==
    IF ~enabled
    THEN IF Exists(BypassUser) THEN Profile(BypassUser) ELSE NotFound
    ELSE IF ver[v].status # "token" \/ ver[v].exp <= now \/ ~Exists(ver[v].user)
         THEN Unauthorized
         ELSE Profile(ver[v].user)

----------------------------------------------------------------------------
(* The environment. *)

Tick ==
    /\ now < MaxTime
    /\ now' = now + 1
    /\ UNCHANGED <<users, links, req, ver, inbox, resets>>

\* A statement or the commit fails (timeout, lost connection): a 500.
FailRequest(r) ==
    /\ req[r].pc \in InRequest
    /\ EndRequest(r, "error")
    /\ UNCHANGED <<now, users, links, ver, inbox, resets>>
FailVerify(v) ==
    /\ ver[v].pc \in InVerify
    /\ EndVerify(v, "error")
    /\ UNCHANGED <<now, users, links, req, inbox, resets>>

\* The process dies: no answer, no background task.
CrashRequest(r) ==
    /\ req[r].pc \notin {"idle", "done"}
    /\ EndRequest(r, IF req[r].status = "none" THEN "lost" ELSE req[r].status)
    /\ UNCHANGED <<now, users, links, ver, inbox, resets>>
CrashVerify(v) ==
    /\ ver[v].pc \notin {"idle", "done"}
    /\ EndVerify(v, "lost")
    /\ UNCHANGED <<now, users, links, req, inbox, resets>>

EmptyUsers == [u \in UserIds |-> IF u = BypassUser
                                 THEN [email |-> BypassEmail, verified |-> TRUE]
                                 ELSE Absent]
EmptyLinks == [r \in Requests |-> Absent]

\* The database is recreated and migrated; open sessions fail.  Answers,
\* mails and tokens already on their way are not called back.
ResetDatabase ==
    /\ resets < MaxResets
    /\ resets' = resets + 1
    /\ users' = EmptyUsers
    /\ links' = EmptyLinks
    /\ req' = [r \in Requests |->
                 IF req[r].pc \in InRequest
                 THEN [req[r] EXCEPT !.pc = "done", !.status = "error", !.new = FALSE]
                 ELSE req[r]]
    /\ ver' = [v \in Verifies |->
                 IF ver[v].pc \in InVerify
                 THEN [ver[v] EXCEPT !.pc = "done", !.status = "error", !.locks = {}]
                 ELSE ver[v]]
    /\ UNCHANGED <<now, inbox>>

----------------------------------------------------------------------------
Init ==
    /\ now = 0
    /\ users = EmptyUsers
    /\ links = EmptyLinks
    /\ req = [r \in Requests |-> [pc |-> "idle", email |-> BypassEmail,
                 user |-> BypassUser, new |-> FALSE, expires |-> 0, status |-> "none"]]
    /\ ver = [v \in Verifies |-> [pc |-> "idle", link |-> Bogus, user |-> BypassUser,
                 stamp |-> 0, locks |-> {}, exp |-> 0, status |-> "none"]]
    /\ inbox = {}
    /\ resets = 0

RequestStep(r) ==
    \/ LookupUser(r) \/ CreateUser(r) \/ CreateLink(r) \/ CommitRequest(r)
    \/ Respond(r) \/ SendMagicLink(r)
VerifyStep(v) ==
    \/ ReadLink(v) \/ MarkUsed(v) \/ LoadUser(v) \/ MarkVerified(v)
    \/ CommitVerify(v) \/ IssueToken(v)

Work ==
    \/ \E r \in Requests : RequestStep(r) \/ \E e \in Emails : RequestLink(r, e)
    \/ \E v \in Verifies : VerifyStep(v) \/ \E t \in inbox \cup {Bogus} : OpenLink(v, t)
    \/ Tick
Faults ==
    \/ \E r \in Requests : FailRequest(r) \/ CrashRequest(r)
    \/ \E v \in Verifies : FailVerify(v) \/ CrashVerify(v)
    \/ ResetDatabase
Next == Work \/ Faults

Spec == Init /\ [][Next]_vars
\* No statement fails and no process dies.
SpecNoFaults == Init /\ [][Work]_vars
\* The event loop runs every handler whose statement is not waiting.
FairSpec ==
    /\ Spec
    /\ \A r \in Requests : WF_vars(RequestStep(r))
    /\ \A v \in Verifies : WF_vars(VerifyStep(v))

----------------------------------------------------------------------------
(* Properties. *)

\* Every variable keeps the shape of the tables and handler records it stands for.
TypeOK ==
    /\ now \in Nat /\ resets \in Nat
    /\ users \in [UserIds -> UserRow \cup {Absent}]
    /\ links \in [Requests -> LinkRow \cup {Absent}]
    /\ req \in [Requests -> ReqRecord]
    /\ ver \in [Verifies -> VerRecord]
    /\ inbox \subseteq Requests

\* However many first requests race for one address (get_by_email, then
\* create), the committed table holds one user for it.
OneUserPerEmail ==
    \A u, w \in UserIds :
        Exists(u) /\ Exists(w) /\ users[u].email = users[w].email => u = w

\* `assert user is not None' in verify_magic_link cannot fail: no handler
\* reaches it holding a link whose user is not committed.
UserOfLink == \A v \in Verifies : ver[v].pc = "load" => Exists(ver[v].user)

\* A session opens the account of the address its link was requested for,
\* and that account is verified, as long as the account's row exists.
SessionIsRecipients ==
    \A v \in Verifies :
        /\ ver[v].status = "token"
        /\ Exists(ver[v].user)
        => /\ users[ver[v].user].email = req[ver[v].link].email
           /\ users[ver[v].user].verified

\* No token leaves the server before the redemption that pays for it is
\* committed, and no failure or race afterwards makes its link fresh again.
TokenBacked ==
    \A v \in Verifies :
        ver[v].status = "token" =>
            \/ links[ver[v].link] = Absent
            \/ IsUsed(links[ver[v].link])

\* However long a verify waits for the row or for its commit, the redemption
\* it records is not later than the link's expiry.
NoLateRedemption ==
    \A t \in Requests :
        links[t] # Absent /\ IsUsed(links[t]) => links[t].used <= links[t].expires

\* GET /users/me answers 200 or 401, never 404: not for a token that outlived
\* its user in a database reset, and not for the bypass user.
NeverNotFound ==
    \A v \in Verifies, enabled \in BOOLEAN : CurrentUser(v, enabled) # NotFound

\* The inductive invariant behind the five above: what each open handler may
\* rely on about the committed rows, and what no later step can take back.
Past == {"respond", "mail", "done"}
UsersOK ==
    /\ Exists(BypassUser) /\ users[BypassUser].email = BypassEmail
    /\ \A r \in Requests : Exists(r) => req[r].pc \in Past
RequestOK(r) ==
    /\ req[r].new => /\ req[r].pc \in {"link", "commit"}
                     /\ req[r].user = r
                     /\ WithEmail(req[r].email) = {}
                     /\ ~InsertWaits(r)
    /\ req[r].pc \in {"link", "commit"} /\ ~req[r].new =>
          Exists(req[r].user) /\ users[req[r].user].email = req[r].email
LinkOK(t) ==
    links[t] # Absent =>
        /\ req[t].pc \in Past
        /\ Exists(links[t].user) /\ users[links[t].user].email = req[t].email
        /\ IsUsed(links[t]) => links[t].used <= links[t].expires
VerifyOK(v) ==
    /\ ver[v].pc # "done" => ver[v].status = "none"
    /\ ver[v].pc \in {"mark", "load", "flip", "commit"} =>
          /\ Found(v)
          /\ links[ver[v].link].user = ver[v].user
          /\ ver[v].stamp <= links[ver[v].link].expires
    /\ ver[v].pc = "commit" => "user" \in ver[v].locks \/ users[ver[v].user].verified
SessionOK(v) ==
    ver[v].pc = "issue" \/ ver[v].status = "token" =>
        /\ ver[v].link # Bogus /\ req[ver[v].link].pc \in Past
        /\ links[ver[v].link] = Absent \/ IsUsed(links[ver[v].link])
        /\ ver[v].user # BypassUser => req[ver[v].user].pc \in Past
        /\ Exists(ver[v].user) => /\ users[ver[v].user].email = req[ver[v].link].email
                                  /\ users[ver[v].user].verified
IInv ==
    /\ TypeOK
    /\ OneUserPerEmail
    /\ UsersOK
    /\ \A r \in Requests : RequestOK(r)
    /\ \A t \in Requests : LinkOK(t)
    /\ \A v \in Verifies : VerifyOK(v)
    /\ \A v \in Verifies : SessionOK(v)

\* Row locks end with their transaction, and the user's is taken last.
LocksOK(v) ==
    /\ "link" \in ver[v].locks => ver[v].pc \in {"load", "flip", "commit"}
    /\ "user" \in ver[v].locks => ver[v].pc = "commit"

\* Handlers wait for rows that others have locked or inserted, but never in a
\* circle and never for one that is over: whoever waits, waits for a handler
\* that can go on, or for one that waits for such a handler.
InsertPending(s) == req[s].new /\ req[s].pc \in {"link", "commit"}
Waiting(v) ==
    \/ ver[v].pc = "mark" /\ LinkWaits(v)
    \/ ver[v].pc = "flip" /\ UserWaits(v)
HoldsUp(w, v) ==
    \/ ver[v].pc = "mark" /\ "link" \in ver[w].locks /\ ver[w].link = ver[v].link
    \/ ver[v].pc = "flip" /\ "user" \in ver[w].locks /\ ver[w].user = ver[v].user
\* v has an open session and its statement does not wait.
GoesOn(v) == ver[v].pc \in InVerify /\ ~Waiting(v)
NoCircularWait ==
    /\ \A r \in Requests : req[r].pc = "insert" /\ InsertWaits(r) =>
          \E s \in Requests : InsertPending(s) /\ req[s].email = req[r].email
    /\ \A v \in Verifies : Waiting(v) =>
          \E w \in Verifies : /\ HoldsUp(w, v)
                              /\ GoesOn(w) \/ \E x \in Verifies : HoldsUp(x, w) /\ GoesOn(x)

\* An attempt that looks the link up after some attempt was answered with a
\* token is refused (the overlapping attempts are SingleUse, below).
SecondAttemptRefused ==
    [][\A v, w \in Verifies :
          /\ ver[w].status = "token" /\ ver[w].link = ver[v].link
          /\ ver[v].pc = "read" /\ ver'[v].pc # "read"
          => ver'[v].pc = "done"]_vars

\* Every handler that starts ends, whatever the others wait for, hold,
\* fail at or leave behind.
HandlersFinish ==
    /\ \A r \in Requests : req[r].pc = "lookup" ~> req[r].pc = "done"
    /\ \A v \in Verifies : ver[v].pc = "read" ~> ver[v].pc = "done"

\* The promise "a second attempt with the same token is rejected", taken for
\* all attempts: no two sessions come from one link.
SingleUse ==
    \A v, w \in Verifies :
        /\ ver[v].status = "token" /\ ver[w].status = "token"
        /\ ver[v].link = ver[w].link
        => v = w

\* The promise that POST /auth/magic-link always returns the same generic
\* message: with nothing failing, no request is answered with an error.
SameAnswer == \A r \in Requests : req[r].status # "error"
=============================================================================
