----------------------- MODULE MagicLinkAuth_proofs -----------------------
(***************************************************************************)
(* IInv is an inductive invariant of MagicLinkAuth, for any number of      *)
(* handlers, addresses, minutes and resets; the safety properties follow.  *)
(* In the second part, MagicLinkAuth implements SignIn.                    *)
(***************************************************************************)
EXTENDS MagicLinkRefinement, TLAPS

\* The initial state satisfies IInv.
LEMMA InitIInv == Init => IInv
<1> SUFFICES ASSUME Init PROVE IInv
  OBVIOUS
<1> USE NamesAssumption, TimesAssumption, AbsentAssumption DEF Init
<1>1. TypeOK
  BY DEF TypeOK, EmptyUsers, EmptyLinks, UserRow, LinkRow, UserIds, ReqRecord,
         VerRecord, ReqPC, VerPC
<1>2. OneUserPerEmail
  BY DEF OneUserPerEmail, Exists, EmptyUsers
<1>3. UsersOK
  <2>1. [email |-> BypassEmail, verified |-> TRUE] \in [email : Emails, verified : BOOLEAN]
    OBVIOUS
  <2>2. [email |-> BypassEmail, verified |-> TRUE] # Absent
    BY <2>1
  <2> QED
    BY <2>2 DEF UsersOK, Exists, EmptyUsers, UserIds
<1>4. ASSUME NEW r \in Requests PROVE RequestOK(r) /\ LinkOK(r)
  BY DEF RequestOK, LinkOK, EmptyLinks
<1>5. ASSUME NEW v \in Verifies PROVE VerifyOK(v) /\ SessionOK(v)
  BY DEF VerifyOK, SessionOK
<1> QED
  BY <1>1, <1>2, <1>3, <1>4, <1>5 DEF IInv

\* A step of RequestLink keeps IInv.
LEMMA RequestLinkIInv ==
  ASSUME IInv, NEW r \in Requests, NEW e \in Emails, RequestLink(r, e)
  PROVE  IInv'
<1> USE NamesAssumption, TimesAssumption, AbsentAssumption
<1>1. TypeOK'
  <2> DEFINE rec == [req[r] EXCEPT !.pc = "lookup", !.email = e]
  <2>1. req[r] \in ReqRecord /\ now \in Nat
    BY DEF IInv, TypeOK
  <2>2. rec \in ReqRecord
    BY <2>1 DEF ReqRecord, ReqPC
  <2>3. req' = [req EXCEPT ![r] = rec]
    BY DEF IInv, TypeOK, RequestLink
  <2> QED
    BY <2>2, <2>3 DEF IInv, TypeOK, RequestLink
<1>2. OneUserPerEmail'
  BY DEF IInv, OneUserPerEmail, Exists, RequestLink
<1>3. UsersOK'
  BY DEF IInv, TypeOK, UsersOK, Exists, Past, ReqRecord, RequestLink
<1>4. ASSUME NEW s \in Requests PROVE RequestOK(s)'
  BY DEF IInv, TypeOK, RequestOK, WithEmail, InsertWaits, Exists, ReqRecord, RequestLink
<1>5. ASSUME NEW t \in Requests PROVE LinkOK(t)'
  BY DEF IInv, TypeOK, LinkOK, IsUsed, Exists, Past, ReqRecord, RequestLink
<1>6. ASSUME NEW w \in Verifies PROVE VerifyOK(w)'
  BY DEF IInv, TypeOK, VerifyOK, Found, Exists, VerRecord, RequestLink
<1>7. ASSUME NEW w \in Verifies PROVE SessionOK(w)'
  BY DEF IInv, TypeOK, SessionOK, IsUsed, Exists, Past, ReqRecord, VerRecord, UserIds, RequestLink
<1> QED
  BY <1>1, <1>2, <1>3, <1>4, <1>5, <1>6, <1>7 DEF IInv

\* A step of LookupUser keeps IInv.
LEMMA LookupUserIInv ==
  ASSUME IInv, NEW r \in Requests, LookupUser(r)
  PROVE  IInv'
<1> USE NamesAssumption, TimesAssumption, AbsentAssumption
<1>1. TypeOK'
  BY DEF IInv, TypeOK, LookupUser, ReqRecord, ReqPC, GetByEmail, WithEmail, Exists, UserRow
<1>2. OneUserPerEmail'
  BY DEF IInv, OneUserPerEmail, Exists, LookupUser
<1>3. UsersOK'
  BY DEF IInv, TypeOK, UsersOK, Exists, Past, ReqRecord, LookupUser
<1>4. ASSUME NEW s \in Requests PROVE RequestOK(s)'
  BY DEF IInv, TypeOK, RequestOK, WithEmail, InsertWaits, Exists, ReqRecord, LookupUser, GetByEmail, UserRow
<1>5. ASSUME NEW t \in Requests PROVE LinkOK(t)'
  BY DEF IInv, TypeOK, LinkOK, IsUsed, Exists, Past, ReqRecord, LookupUser
<1>6. ASSUME NEW w \in Verifies PROVE VerifyOK(w)'
  BY DEF IInv, TypeOK, VerifyOK, Found, Exists, VerRecord, LookupUser
<1>7. ASSUME NEW w \in Verifies PROVE SessionOK(w)'
  BY DEF IInv, TypeOK, SessionOK, IsUsed, Exists, Past, ReqRecord, VerRecord, UserIds, LookupUser
<1> QED
  BY <1>1, <1>2, <1>3, <1>4, <1>5, <1>6, <1>7 DEF IInv

\* A step of CreateUser keeps IInv.
LEMMA CreateUserIInv ==
  ASSUME IInv, NEW r \in Requests, CreateUser(r)
  PROVE  IInv'
<1> USE NamesAssumption, TimesAssumption, AbsentAssumption
<1>1. TypeOK'
  BY DEF IInv, TypeOK, CreateUser, EndRequest, ReqRecord, ReqPC, UserIds
<1>2. OneUserPerEmail'
  BY DEF IInv, OneUserPerEmail, Exists, CreateUser, EndRequest
<1>3. UsersOK'
  BY DEF IInv, TypeOK, UsersOK, Exists, Past, ReqRecord, CreateUser, EndRequest
<1>4. ASSUME NEW s \in Requests PROVE RequestOK(s)'
  BY DEF IInv, TypeOK, RequestOK, WithEmail, InsertWaits, Exists, ReqRecord, CreateUser, EndRequest, UserIds
<1>5. ASSUME NEW t \in Requests PROVE LinkOK(t)'
  BY DEF IInv, TypeOK, LinkOK, IsUsed, Exists, Past, ReqRecord, CreateUser, EndRequest
<1>6. ASSUME NEW w \in Verifies PROVE VerifyOK(w)'
  BY DEF IInv, TypeOK, VerifyOK, Found, Exists, VerRecord, CreateUser, EndRequest
<1>7. ASSUME NEW w \in Verifies PROVE SessionOK(w)'
  BY DEF IInv, TypeOK, SessionOK, IsUsed, Exists, Past, ReqRecord, VerRecord, UserIds, CreateUser, EndRequest
<1> QED
  BY <1>1, <1>2, <1>3, <1>4, <1>5, <1>6, <1>7 DEF IInv

\* A step of CreateLink keeps IInv.
LEMMA CreateLinkIInv ==
  ASSUME IInv, NEW r \in Requests, CreateLink(r)
  PROVE  IInv'
<1> USE NamesAssumption, TimesAssumption, AbsentAssumption
<1>1. TypeOK'
  <2> DEFINE rec == [req[r] EXCEPT !.pc = "commit", !.expires = ExpiresAt]
  <2>1. req[r] \in ReqRecord /\ now \in Nat
    BY DEF IInv, TypeOK
  <2>2. ExpiresAt \in Nat
    BY <2>1 DEF ExpiresAt
  <2>3. rec \in ReqRecord
    BY <2>1, <2>2 DEF ReqRecord, ReqPC
  <2>4. req' = [req EXCEPT ![r] = rec]
    BY DEF IInv, TypeOK, CreateLink
  <2> QED
    BY <2>3, <2>4 DEF IInv, TypeOK, CreateLink
<1>2. OneUserPerEmail'
  BY DEF IInv, OneUserPerEmail, Exists, CreateLink, ExpiresAt
<1>3. UsersOK'
  BY DEF IInv, TypeOK, UsersOK, Exists, Past, ReqRecord, CreateLink, ExpiresAt
<1>4. ASSUME NEW s \in Requests PROVE RequestOK(s)'
  BY DEF IInv, TypeOK, RequestOK, WithEmail, InsertWaits, Exists, ReqRecord, CreateLink, ExpiresAt
<1>5. ASSUME NEW t \in Requests PROVE LinkOK(t)'
  BY DEF IInv, TypeOK, LinkOK, IsUsed, Exists, Past, ReqRecord, CreateLink, ExpiresAt
<1>6. ASSUME NEW w \in Verifies PROVE VerifyOK(w)'
  BY DEF IInv, TypeOK, VerifyOK, Found, Exists, VerRecord, CreateLink, ExpiresAt
<1>7. ASSUME NEW w \in Verifies PROVE SessionOK(w)'
  BY DEF IInv, TypeOK, SessionOK, IsUsed, Exists, Past, ReqRecord, VerRecord, UserIds, CreateLink, ExpiresAt
<1> QED
  BY <1>1, <1>2, <1>3, <1>4, <1>5, <1>6, <1>7 DEF IInv

\* A step of CommitRequest keeps IInv.
LEMMA CommitRequestIInv ==
  ASSUME IInv, NEW r \in Requests, CommitRequest(r)
  PROVE  IInv'
<1> USE NamesAssumption, TimesAssumption, AbsentAssumption
<1>1. TypeOK'
  <2> DEFINE rec == [req[r] EXCEPT !.pc = "respond", !.new = FALSE]
  <2>1. req[r] \in ReqRecord
    BY DEF IInv, TypeOK
  <2>2. NewRow(r) \in UserRow /\ NewLink(r) \in LinkRow
    BY <2>1 DEF ReqRecord, NewRow, NewLink, UserRow, LinkRow
  <2>3. rec \in ReqRecord
    BY <2>1 DEF ReqRecord, ReqPC
  <2>4. req' = [req EXCEPT ![r] = rec]
    BY DEF IInv, TypeOK, CommitRequest
  <2> QED
    BY <2>2, <2>3, <2>4 DEF IInv, TypeOK, CommitRequest, PublishUser
<1>2. OneUserPerEmail'
  BY DEF IInv, OneUserPerEmail, Exists, CommitRequest, PublishUser, NewRow, NewLink, TypeOK, RequestOK, WithEmail, ReqRecord, UserIds
<1>3. UsersOK'
  BY DEF IInv, TypeOK, UsersOK, Exists, Past, ReqRecord, CommitRequest, PublishUser, NewRow, NewLink, UserIds, RequestOK
<1>4. ASSUME NEW s \in Requests PROVE RequestOK(s)'
  BY DEF IInv, TypeOK, RequestOK, WithEmail, InsertWaits, Exists, ReqRecord, CommitRequest, PublishUser, NewRow, NewLink, UserIds
<1>5. ASSUME NEW t \in Requests PROVE LinkOK(t)'
  BY DEF IInv, TypeOK, LinkOK, IsUsed, Exists, Past, ReqRecord, CommitRequest, PublishUser, NewRow, NewLink, RequestOK, UserIds, LinkRow
<1>6. ASSUME NEW w \in Verifies PROVE VerifyOK(w)'
  <2>1. links[r] = Absent
    BY DEF IInv, LinkOK, CommitRequest, Past
  <2>2. req[r].new => req[r].user = r /\ users[r] = Absent
    BY DEF IInv, RequestOK, UsersOK, Exists, CommitRequest, Past
  <2>3. CASE ver[w].pc \in {"mark", "load", "flip", "commit"}
    <3>1. Found(w) /\ ver[w].link \in Requests /\ ver[w].link # r
      BY <2>1, <2>3 DEF IInv, TypeOK, VerifyOK, VerRecord, Found
    <3>2. Exists(ver[w].user)
      BY <2>3, <3>1 DEF IInv, VerifyOK, LinkOK, Found
    <3>3. links'[ver[w].link] = links[ver[w].link]
      BY <3>1 DEF IInv, TypeOK, CommitRequest
    <3>4. users'[ver[w].user] = users[ver[w].user]
      BY <2>2, <3>2 DEF IInv, TypeOK, CommitRequest, PublishUser, Exists
    <3> QED
      BY <3>1, <3>3, <3>4 DEF IInv, VerifyOK, Found, CommitRequest
  <2> QED
    BY <2>3 DEF IInv, VerifyOK, CommitRequest
<1>7. ASSUME NEW w \in Verifies PROVE SessionOK(w)'
  BY DEF IInv, TypeOK, SessionOK, IsUsed, Exists, Past, ReqRecord, VerRecord, UserIds, CommitRequest, PublishUser, NewRow, NewLink, LinkRow
<1> QED
  BY <1>1, <1>2, <1>3, <1>4, <1>5, <1>6, <1>7 DEF IInv

\* A step of Respond keeps IInv.
LEMMA RespondIInv ==
  ASSUME IInv, NEW r \in Requests, Respond(r)
  PROVE  IInv'
<1> USE NamesAssumption, TimesAssumption, AbsentAssumption
<1>1. TypeOK'
  <2> DEFINE rec == [req[r] EXCEPT !.pc = "mail", !.status = "ok"]
  <2>1. req[r] \in ReqRecord /\ now \in Nat
    BY DEF IInv, TypeOK
  <2>2. rec \in ReqRecord
    BY <2>1 DEF ReqRecord, ReqPC
  <2>3. req' = [req EXCEPT ![r] = rec]
    BY DEF IInv, TypeOK, Respond
  <2> QED
    BY <2>2, <2>3 DEF IInv, TypeOK, Respond
<1>2. OneUserPerEmail'
  BY DEF IInv, OneUserPerEmail, Exists, Respond
<1>3. UsersOK'
  BY DEF IInv, TypeOK, UsersOK, Exists, Past, ReqRecord, Respond
<1>4. ASSUME NEW s \in Requests PROVE RequestOK(s)'
  BY DEF IInv, TypeOK, RequestOK, WithEmail, InsertWaits, Exists, ReqRecord, Respond
<1>5. ASSUME NEW t \in Requests PROVE LinkOK(t)'
  BY DEF IInv, TypeOK, LinkOK, IsUsed, Exists, Past, ReqRecord, Respond
<1>6. ASSUME NEW w \in Verifies PROVE VerifyOK(w)'
  BY DEF IInv, TypeOK, VerifyOK, Found, Exists, VerRecord, Respond
<1>7. ASSUME NEW w \in Verifies PROVE SessionOK(w)'
  BY DEF IInv, TypeOK, SessionOK, IsUsed, Exists, Past, ReqRecord, VerRecord, UserIds, Respond
<1> QED
  BY <1>1, <1>2, <1>3, <1>4, <1>5, <1>6, <1>7 DEF IInv

\* A step of SendMagicLink keeps IInv.
LEMMA SendMagicLinkIInv ==
  ASSUME IInv, NEW r \in Requests, SendMagicLink(r)
  PROVE  IInv'
<1> USE NamesAssumption, TimesAssumption, AbsentAssumption
<1>1. TypeOK'
  BY DEF IInv, TypeOK, SendMagicLink, ReqRecord, ReqPC
<1>2. OneUserPerEmail'
  BY DEF IInv, OneUserPerEmail, Exists, SendMagicLink
<1>3. UsersOK'
  BY DEF IInv, TypeOK, UsersOK, Exists, Past, ReqRecord, SendMagicLink
<1>4. ASSUME NEW s \in Requests PROVE RequestOK(s)'
  BY DEF IInv, TypeOK, RequestOK, WithEmail, InsertWaits, Exists, ReqRecord, SendMagicLink
<1>5. ASSUME NEW t \in Requests PROVE LinkOK(t)'
  BY DEF IInv, TypeOK, LinkOK, IsUsed, Exists, Past, ReqRecord, SendMagicLink
<1>6. ASSUME NEW w \in Verifies PROVE VerifyOK(w)'
  BY DEF IInv, TypeOK, VerifyOK, Found, Exists, VerRecord, SendMagicLink
<1>7. ASSUME NEW w \in Verifies PROVE SessionOK(w)'
  BY DEF IInv, TypeOK, SessionOK, IsUsed, Exists, Past, ReqRecord, VerRecord, UserIds, SendMagicLink
<1> QED
  BY <1>1, <1>2, <1>3, <1>4, <1>5, <1>6, <1>7 DEF IInv

\* A step of OpenLink keeps IInv.
LEMMA OpenLinkIInv ==
  ASSUME IInv, NEW v \in Verifies, NEW t \in Requests \cup {Bogus}, OpenLink(v, t)
  PROVE  IInv'
<1> USE NamesAssumption, TimesAssumption, AbsentAssumption
<1>1. TypeOK'
  <2> DEFINE rec == [ver[v] EXCEPT !.pc = "read", !.link = t]
  <2>1. ver[v] \in VerRecord /\ now \in Nat
    BY DEF IInv, TypeOK
  <2>2. rec \in VerRecord
    BY <2>1 DEF VerRecord, VerPC
  <2>3. ver' = [ver EXCEPT ![v] = rec]
    BY DEF IInv, TypeOK, OpenLink
  <2> QED
    BY <2>2, <2>3 DEF IInv, TypeOK, OpenLink
<1>2. OneUserPerEmail'
  BY DEF IInv, OneUserPerEmail, Exists, OpenLink
<1>3. UsersOK'
  BY DEF IInv, TypeOK, UsersOK, Exists, Past, ReqRecord, OpenLink
<1>4. ASSUME NEW s \in Requests PROVE RequestOK(s)'
  BY DEF IInv, TypeOK, RequestOK, WithEmail, InsertWaits, Exists, ReqRecord, OpenLink
<1>5. ASSUME NEW l \in Requests PROVE LinkOK(l)'
  BY DEF IInv, TypeOK, LinkOK, IsUsed, Exists, Past, ReqRecord, OpenLink
<1>6. ASSUME NEW w \in Verifies PROVE VerifyOK(w)'
  BY DEF IInv, TypeOK, VerifyOK, Found, Exists, VerRecord, OpenLink
<1>7. ASSUME NEW w \in Verifies PROVE SessionOK(w)'
  BY DEF IInv, TypeOK, SessionOK, IsUsed, Exists, Past, ReqRecord, VerRecord, UserIds, OpenLink
<1> QED
  BY <1>1, <1>2, <1>3, <1>4, <1>5, <1>6, <1>7 DEF IInv

\* A step of ReadLink keeps IInv.
LEMMA ReadLinkIInv ==
  ASSUME IInv, NEW v \in Verifies, ReadLink(v)
  PROVE  IInv'
<1> USE NamesAssumption, TimesAssumption, AbsentAssumption
<1>1. TypeOK'
  BY DEF IInv, TypeOK, ReadLink, EndVerify, Found, IsExpired, IsUsed, VerRecord, VerPC, LinkRow, UserIds
<1>2. OneUserPerEmail'
  BY DEF IInv, OneUserPerEmail, Exists, ReadLink, EndVerify, Found, IsExpired, IsUsed
<1>3. UsersOK'
  BY DEF IInv, TypeOK, UsersOK, Exists, Past, ReqRecord, ReadLink, EndVerify, Found, IsExpired, IsUsed
<1>4. ASSUME NEW s \in Requests PROVE RequestOK(s)'
  BY DEF IInv, TypeOK, RequestOK, WithEmail, InsertWaits, Exists, ReqRecord, ReadLink, EndVerify, Found, IsExpired, IsUsed
<1>5. ASSUME NEW t \in Requests PROVE LinkOK(t)'
  BY DEF IInv, TypeOK, LinkOK, IsUsed, Exists, Past, ReqRecord, ReadLink, EndVerify, Found, IsExpired, IsUsed
<1>6. ASSUME NEW w \in Verifies PROVE VerifyOK(w)'
  BY DEF IInv, TypeOK, VerifyOK, Found, Exists, VerRecord, ReadLink, EndVerify, Found, IsExpired, IsUsed, LinkRow
<1>7. ASSUME NEW w \in Verifies PROVE SessionOK(w)'
  BY DEF IInv, TypeOK, SessionOK, IsUsed, Exists, Past, ReqRecord, VerRecord, UserIds, ReadLink, EndVerify, Found, IsExpired, IsUsed
<1> QED
  BY <1>1, <1>2, <1>3, <1>4, <1>5, <1>6, <1>7 DEF IInv

\* A step of MarkUsed keeps IInv.
LEMMA MarkUsedIInv ==
  ASSUME IInv, NEW v \in Verifies, MarkUsed(v)
  PROVE  IInv'
<1> USE NamesAssumption, TimesAssumption, AbsentAssumption
<1>1. TypeOK'
  <2> DEFINE rec == [ver[v] EXCEPT !.pc = "load", !.locks = @ \cup {"link"}]
  <2>1. ver[v] \in VerRecord /\ now \in Nat
    BY DEF IInv, TypeOK
  <2>2. rec \in VerRecord
    BY <2>1 DEF VerRecord, VerPC
  <2>3. ver' = [ver EXCEPT ![v] = rec]
    BY DEF IInv, TypeOK, MarkUsed
  <2> QED
    BY <2>2, <2>3 DEF IInv, TypeOK, MarkUsed
<1>2. OneUserPerEmail'
  BY DEF IInv, OneUserPerEmail, Exists, MarkUsed
<1>3. UsersOK'
  BY DEF IInv, TypeOK, UsersOK, Exists, Past, ReqRecord, MarkUsed
<1>4. ASSUME NEW s \in Requests PROVE RequestOK(s)'
  BY DEF IInv, TypeOK, RequestOK, WithEmail, InsertWaits, Exists, ReqRecord, MarkUsed
<1>5. ASSUME NEW t \in Requests PROVE LinkOK(t)'
  BY DEF IInv, TypeOK, LinkOK, IsUsed, Exists, Past, ReqRecord, MarkUsed
<1>6. ASSUME NEW w \in Verifies PROVE VerifyOK(w)'
  BY DEF IInv, TypeOK, VerifyOK, Found, Exists, VerRecord, MarkUsed
<1>7. ASSUME NEW w \in Verifies PROVE SessionOK(w)'
  BY DEF IInv, TypeOK, SessionOK, IsUsed, Exists, Past, ReqRecord, VerRecord, UserIds, MarkUsed
<1> QED
  BY <1>1, <1>2, <1>3, <1>4, <1>5, <1>6, <1>7 DEF IInv

\* A step of LoadUser keeps IInv.
LEMMA LoadUserIInv ==
  ASSUME IInv, NEW v \in Verifies, LoadUser(v)
  PROVE  IInv'
<1> USE NamesAssumption, TimesAssumption, AbsentAssumption
<1>1. TypeOK'
  BY DEF IInv, TypeOK, LoadUser, EndVerify, VerRecord, VerPC
<1>2. OneUserPerEmail'
  BY DEF IInv, OneUserPerEmail, Exists, LoadUser, EndVerify
<1>3. UsersOK'
  BY DEF IInv, TypeOK, UsersOK, Exists, Past, ReqRecord, LoadUser, EndVerify
<1>4. ASSUME NEW s \in Requests PROVE RequestOK(s)'
  BY DEF IInv, TypeOK, RequestOK, WithEmail, InsertWaits, Exists, ReqRecord, LoadUser, EndVerify
<1>5. ASSUME NEW t \in Requests PROVE LinkOK(t)'
  BY DEF IInv, TypeOK, LinkOK, IsUsed, Exists, Past, ReqRecord, LoadUser, EndVerify
<1>6. ASSUME NEW w \in Verifies PROVE VerifyOK(w)'
  BY DEF IInv, TypeOK, VerifyOK, Found, Exists, VerRecord, LoadUser, EndVerify
<1>7. ASSUME NEW w \in Verifies PROVE SessionOK(w)'
  BY DEF IInv, TypeOK, SessionOK, IsUsed, Exists, Past, ReqRecord, VerRecord, UserIds, LoadUser, EndVerify
<1> QED
  BY <1>1, <1>2, <1>3, <1>4, <1>5, <1>6, <1>7 DEF IInv

\* A step of MarkVerified keeps IInv.
LEMMA MarkVerifiedIInv ==
  ASSUME IInv, NEW v \in Verifies, MarkVerified(v)
  PROVE  IInv'
<1> USE NamesAssumption, TimesAssumption, AbsentAssumption
<1>1. TypeOK'
  <2> DEFINE rec == [ver[v] EXCEPT !.pc = "commit", !.locks = @ \cup {"user"}]
  <2>1. ver[v] \in VerRecord /\ now \in Nat
    BY DEF IInv, TypeOK
  <2>2. rec \in VerRecord
    BY <2>1 DEF VerRecord, VerPC
  <2>3. ver' = [ver EXCEPT ![v] = rec]
    BY DEF IInv, TypeOK, MarkVerified
  <2> QED
    BY <2>2, <2>3 DEF IInv, TypeOK, MarkVerified
<1>2. OneUserPerEmail'
  BY DEF IInv, OneUserPerEmail, Exists, MarkVerified
<1>3. UsersOK'
  BY DEF IInv, TypeOK, UsersOK, Exists, Past, ReqRecord, MarkVerified
<1>4. ASSUME NEW s \in Requests PROVE RequestOK(s)'
  BY DEF IInv, TypeOK, RequestOK, WithEmail, InsertWaits, Exists, ReqRecord, MarkVerified
<1>5. ASSUME NEW t \in Requests PROVE LinkOK(t)'
  BY DEF IInv, TypeOK, LinkOK, IsUsed, Exists, Past, ReqRecord, MarkVerified
<1>6. ASSUME NEW w \in Verifies PROVE VerifyOK(w)'
  BY DEF IInv, TypeOK, VerifyOK, Found, Exists, VerRecord, MarkVerified
<1>7. ASSUME NEW w \in Verifies PROVE SessionOK(w)'
  BY DEF IInv, TypeOK, SessionOK, IsUsed, Exists, Past, ReqRecord, VerRecord, UserIds, MarkVerified
<1> QED
  BY <1>1, <1>2, <1>3, <1>4, <1>5, <1>6, <1>7 DEF IInv

\* A step of CommitVerify keeps IInv.
LEMMA CommitVerifyIInv ==
  ASSUME IInv, NEW v \in Verifies, CommitVerify(v)
  PROVE  IInv'
<1> USE NamesAssumption, TimesAssumption, AbsentAssumption
<1>1. TypeOK'
  <2> DEFINE rec == [ver[v] EXCEPT !.pc = "issue", !.locks = {}]
  <2>1. ver[v] \in VerRecord /\ Found(v) /\ links[ver[v].link].user = ver[v].user
    BY DEF IInv, TypeOK, VerifyOK, CommitVerify
  <2>2. rec \in VerRecord
    BY <2>1 DEF VerRecord, VerPC
  <2>3. ver' = [ver EXCEPT ![v] = rec]
    BY DEF IInv, TypeOK, CommitVerify
  <2>4. ver[v].link \in Requests /\ links[ver[v].link] \in LinkRow
    BY <2>1 DEF IInv, TypeOK, Found, VerRecord
  <2>5. users[ver[v].user] \in UserRow
    BY <2>1, <2>4 DEF IInv, TypeOK, LinkOK, Found, Exists, VerRecord
  <2>6. links' \in [Requests -> LinkRow \cup {Absent}]
    BY <2>1, <2>4 DEF IInv, TypeOK, CommitVerify, Stamped, LinkRow, VerRecord
  <2>7. users' \in [UserIds -> UserRow \cup {Absent}]
    BY <2>5 DEF IInv, TypeOK, CommitVerify, PublishVerified, UserRow
  <2> QED
    BY <2>2, <2>3, <2>6, <2>7 DEF IInv, TypeOK, CommitVerify
<1>2. OneUserPerEmail'
  BY DEF IInv, OneUserPerEmail, Exists, CommitVerify, Stamped, PublishVerified, TypeOK, VerifyOK, LinkOK, Found, UserRow, UserIds, VerRecord
<1>3. UsersOK'
  BY DEF IInv, TypeOK, UsersOK, Exists, Past, ReqRecord, CommitVerify, Stamped, PublishVerified, UserRow, VerifyOK, LinkOK, Found, VerRecord, UserIds
<1>4. ASSUME NEW s \in Requests PROVE RequestOK(s)'
  BY DEF IInv, TypeOK, RequestOK, WithEmail, InsertWaits, Exists, ReqRecord, CommitVerify, Stamped, PublishVerified, UserRow, VerifyOK, LinkOK, Found, VerRecord, UserIds
<1>5. ASSUME NEW t \in Requests PROVE LinkOK(t)'
  BY DEF IInv, TypeOK, LinkOK, IsUsed, Exists, Past, ReqRecord, CommitVerify, Stamped, PublishVerified, VerifyOK, Found, UserRow, LinkRow, VerRecord, UserIds
<1>6. ASSUME NEW w \in Verifies PROVE VerifyOK(w)'
  BY DEF IInv, TypeOK, VerifyOK, Found, Exists, VerRecord, CommitVerify, Stamped, PublishVerified, LinkRow, UserRow, LinkOK, UserIds
<1>7. ASSUME NEW w \in Verifies PROVE SessionOK(w)'
  BY DEF IInv, TypeOK, SessionOK, IsUsed, Exists, Past, ReqRecord, VerRecord, UserIds, CommitVerify, Stamped, PublishVerified, VerifyOK, Found, LinkOK, LinkRow, UserRow, UsersOK
<1> QED
  BY <1>1, <1>2, <1>3, <1>4, <1>5, <1>6, <1>7 DEF IInv

\* A step of IssueToken keeps IInv.
LEMMA IssueTokenIInv ==
  ASSUME IInv, NEW v \in Verifies, IssueToken(v)
  PROVE  IInv'
<1> USE NamesAssumption, TimesAssumption, AbsentAssumption
<1>1. TypeOK'
  <2> DEFINE rec == [ver[v] EXCEPT !.pc = "done", !.status = "token", !.exp = now + JwtMinutes]
  <2>1. ver[v] \in VerRecord /\ now \in Nat
    BY DEF IInv, TypeOK
  <2>2. now + JwtMinutes \in Nat
    BY <2>1
  <2>3. rec \in VerRecord
    BY <2>1, <2>2 DEF VerRecord, VerPC
  <2>4. ver' = [ver EXCEPT ![v] = rec]
    BY DEF IInv, TypeOK, IssueToken
  <2> QED
    BY <2>3, <2>4 DEF IInv, TypeOK, IssueToken
<1>2. OneUserPerEmail'
  BY DEF IInv, OneUserPerEmail, Exists, IssueToken
<1>3. UsersOK'
  BY DEF IInv, TypeOK, UsersOK, Exists, Past, ReqRecord, IssueToken
<1>4. ASSUME NEW s \in Requests PROVE RequestOK(s)'
  BY DEF IInv, TypeOK, RequestOK, WithEmail, InsertWaits, Exists, ReqRecord, IssueToken
<1>5. ASSUME NEW t \in Requests PROVE LinkOK(t)'
  BY DEF IInv, TypeOK, LinkOK, IsUsed, Exists, Past, ReqRecord, IssueToken
<1>6. ASSUME NEW w \in Verifies PROVE VerifyOK(w)'
  BY DEF IInv, TypeOK, VerifyOK, Found, Exists, VerRecord, IssueToken
<1>7. ASSUME NEW w \in Verifies PROVE SessionOK(w)'
  BY DEF IInv, TypeOK, SessionOK, IsUsed, Exists, Past, ReqRecord, VerRecord, UserIds, IssueToken
<1> QED
  BY <1>1, <1>2, <1>3, <1>4, <1>5, <1>6, <1>7 DEF IInv

\* A step of FailRequest keeps IInv.
LEMMA FailRequestIInv ==
  ASSUME IInv, NEW r \in Requests, FailRequest(r)
  PROVE  IInv'
<1> USE NamesAssumption, TimesAssumption, AbsentAssumption
<1>1. TypeOK'
  <2> DEFINE rec == [req[r] EXCEPT !.pc = "done", !.status = "error", !.new = FALSE]
  <2>1. req[r] \in ReqRecord /\ now \in Nat
    BY DEF IInv, TypeOK
  <2>2. rec \in ReqRecord
    BY <2>1 DEF ReqRecord, ReqPC
  <2>3. req' = [req EXCEPT ![r] = rec]
    BY DEF IInv, TypeOK, FailRequest, EndRequest
  <2> QED
    BY <2>2, <2>3 DEF IInv, TypeOK, FailRequest
<1>2. OneUserPerEmail'
  BY DEF IInv, OneUserPerEmail, Exists, FailRequest, EndRequest
<1>3. UsersOK'
  BY DEF IInv, TypeOK, UsersOK, Exists, Past, ReqRecord, FailRequest, EndRequest
<1>4. ASSUME NEW s \in Requests PROVE RequestOK(s)'
  BY DEF IInv, TypeOK, RequestOK, WithEmail, InsertWaits, Exists, ReqRecord, FailRequest, EndRequest
<1>5. ASSUME NEW t \in Requests PROVE LinkOK(t)'
  BY DEF IInv, TypeOK, LinkOK, IsUsed, Exists, Past, ReqRecord, FailRequest, EndRequest
<1>6. ASSUME NEW w \in Verifies PROVE VerifyOK(w)'
  BY DEF IInv, TypeOK, VerifyOK, Found, Exists, VerRecord, FailRequest, EndRequest
<1>7. ASSUME NEW w \in Verifies PROVE SessionOK(w)'
  BY DEF IInv, TypeOK, SessionOK, IsUsed, Exists, Past, ReqRecord, VerRecord, UserIds, FailRequest, EndRequest
<1> QED
  BY <1>1, <1>2, <1>3, <1>4, <1>5, <1>6, <1>7 DEF IInv

\* A step of FailVerify keeps IInv.
LEMMA FailVerifyIInv ==
  ASSUME IInv, NEW v \in Verifies, FailVerify(v)
  PROVE  IInv'
<1> USE NamesAssumption, TimesAssumption, AbsentAssumption
<1>1. TypeOK'
  <2> DEFINE rec == [ver[v] EXCEPT !.pc = "done", !.status = "error", !.locks = {}]
  <2>1. ver[v] \in VerRecord /\ now \in Nat
    BY DEF IInv, TypeOK
  <2>2. rec \in VerRecord
    BY <2>1 DEF VerRecord, VerPC
  <2>3. ver' = [ver EXCEPT ![v] = rec]
    BY DEF IInv, TypeOK, FailVerify, EndVerify
  <2> QED
    BY <2>2, <2>3 DEF IInv, TypeOK, FailVerify
<1>2. OneUserPerEmail'
  BY DEF IInv, OneUserPerEmail, Exists, FailVerify, EndVerify, InVerify
<1>3. UsersOK'
  BY DEF IInv, TypeOK, UsersOK, Exists, Past, ReqRecord, FailVerify, EndVerify, InVerify
<1>4. ASSUME NEW s \in Requests PROVE RequestOK(s)'
  BY DEF IInv, TypeOK, RequestOK, WithEmail, InsertWaits, Exists, ReqRecord, FailVerify, EndVerify, InVerify
<1>5. ASSUME NEW t \in Requests PROVE LinkOK(t)'
  BY DEF IInv, TypeOK, LinkOK, IsUsed, Exists, Past, ReqRecord, FailVerify, EndVerify, InVerify
<1>6. ASSUME NEW w \in Verifies PROVE VerifyOK(w)'
  BY DEF IInv, TypeOK, VerifyOK, Found, Exists, VerRecord, FailVerify, EndVerify, InVerify
<1>7. ASSUME NEW w \in Verifies PROVE SessionOK(w)'
  BY DEF IInv, TypeOK, SessionOK, IsUsed, Exists, Past, ReqRecord, VerRecord, UserIds, FailVerify, EndVerify, InVerify
<1> QED
  BY <1>1, <1>2, <1>3, <1>4, <1>5, <1>6, <1>7 DEF IInv

\* A step of CrashRequest keeps IInv.
LEMMA CrashRequestIInv ==
  ASSUME IInv, NEW r \in Requests, CrashRequest(r)
  PROVE  IInv'
<1> USE NamesAssumption, TimesAssumption, AbsentAssumption
<1>1. TypeOK'
  <2> DEFINE rec == [req[r] EXCEPT !.pc = "done", !.new = FALSE,
                              !.status = IF @ = "none" THEN "lost" ELSE @]
  <2>1. req[r] \in ReqRecord /\ now \in Nat
    BY DEF IInv, TypeOK
  <2>2. rec \in ReqRecord
    BY <2>1 DEF ReqRecord, ReqPC
  <2>3. req' = [req EXCEPT ![r] = rec]
    BY DEF IInv, TypeOK, CrashRequest, EndRequest
  <2> QED
    BY <2>2, <2>3 DEF IInv, TypeOK, CrashRequest
<1>2. OneUserPerEmail'
  BY DEF IInv, OneUserPerEmail, Exists, CrashRequest, EndRequest
<1>3. UsersOK'
  BY DEF IInv, TypeOK, UsersOK, Exists, Past, ReqRecord, CrashRequest, EndRequest
<1>4. ASSUME NEW s \in Requests PROVE RequestOK(s)'
  BY DEF IInv, TypeOK, RequestOK, WithEmail, InsertWaits, Exists, ReqRecord, CrashRequest, EndRequest
<1>5. ASSUME NEW t \in Requests PROVE LinkOK(t)'
  BY DEF IInv, TypeOK, LinkOK, IsUsed, Exists, Past, ReqRecord, CrashRequest, EndRequest
<1>6. ASSUME NEW w \in Verifies PROVE VerifyOK(w)'
  BY DEF IInv, TypeOK, VerifyOK, Found, Exists, VerRecord, CrashRequest, EndRequest
<1>7. ASSUME NEW w \in Verifies PROVE SessionOK(w)'
  BY DEF IInv, TypeOK, SessionOK, IsUsed, Exists, Past, ReqRecord, VerRecord, UserIds, CrashRequest, EndRequest
<1> QED
  BY <1>1, <1>2, <1>3, <1>4, <1>5, <1>6, <1>7 DEF IInv

\* A step of CrashVerify keeps IInv.
LEMMA CrashVerifyIInv ==
  ASSUME IInv, NEW v \in Verifies, CrashVerify(v)
  PROVE  IInv'
<1> USE NamesAssumption, TimesAssumption, AbsentAssumption
<1>1. TypeOK'
  <2> DEFINE rec == [ver[v] EXCEPT !.pc = "done", !.status = "lost", !.locks = {}]
  <2>1. ver[v] \in VerRecord /\ now \in Nat
    BY DEF IInv, TypeOK
  <2>2. rec \in VerRecord
    BY <2>1 DEF VerRecord, VerPC
  <2>3. ver' = [ver EXCEPT ![v] = rec]
    BY DEF IInv, TypeOK, CrashVerify, EndVerify
  <2> QED
    BY <2>2, <2>3 DEF IInv, TypeOK, CrashVerify
<1>2. OneUserPerEmail'
  BY DEF IInv, OneUserPerEmail, Exists, CrashVerify, EndVerify
<1>3. UsersOK'
  BY DEF IInv, TypeOK, UsersOK, Exists, Past, ReqRecord, CrashVerify, EndVerify
<1>4. ASSUME NEW s \in Requests PROVE RequestOK(s)'
  BY DEF IInv, TypeOK, RequestOK, WithEmail, InsertWaits, Exists, ReqRecord, CrashVerify, EndVerify
<1>5. ASSUME NEW t \in Requests PROVE LinkOK(t)'
  BY DEF IInv, TypeOK, LinkOK, IsUsed, Exists, Past, ReqRecord, CrashVerify, EndVerify
<1>6. ASSUME NEW w \in Verifies PROVE VerifyOK(w)'
  BY DEF IInv, TypeOK, VerifyOK, Found, Exists, VerRecord, CrashVerify, EndVerify
<1>7. ASSUME NEW w \in Verifies PROVE SessionOK(w)'
  BY DEF IInv, TypeOK, SessionOK, IsUsed, Exists, Past, ReqRecord, VerRecord, UserIds, CrashVerify, EndVerify
<1> QED
  BY <1>1, <1>2, <1>3, <1>4, <1>5, <1>6, <1>7 DEF IInv

\* What a reset leaves of a handler and of the tables.
LEMMA ResetEffect ==
  ASSUME IInv, ResetDatabase
  PROVE  /\ \A u \in UserIds : u # BypassUser => ~Exists(u)'
         /\ users'[BypassUser] = [email |-> BypassEmail, verified |-> TRUE]
         /\ \A t \in Requests : links'[t] = Absent
         /\ \A r \in Requests :
               /\ req'[r] \in ReqRecord /\ req'[r].email = req[r].email
               /\ req'[r].pc \notin InRequest /\ (req[r].pc \in Past => req'[r].pc \in Past)
               /\ ~req'[r].new
         /\ \A v \in Verifies :
               /\ ver'[v] \in VerRecord
               /\ ver'[v].link = ver[v].link /\ ver'[v].user = ver[v].user
               /\ ver'[v].pc \notin InVerify
               /\ ver'[v].pc # "done" => ver'[v].status = "none"
               /\ ver'[v].pc = "issue" \/ ver'[v].status = "token"
                  => ver[v].pc = "issue" \/ ver[v].status = "token"
<1>1. /\ \A u \in UserIds : u # BypassUser => ~Exists(u)'
      /\ users'[BypassUser] = [email |-> BypassEmail, verified |-> TRUE]
      /\ \A t \in Requests : links'[t] = Absent
  BY DEF ResetDatabase, EmptyUsers, EmptyLinks, Exists, UserIds
<1>2. ASSUME NEW r \in Requests
      PROVE  /\ req'[r] \in ReqRecord /\ req'[r].email = req[r].email
             /\ req'[r].pc \notin InRequest /\ (req[r].pc \in Past => req'[r].pc \in Past)
             /\ ~req'[r].new
  <2>1. req[r] \in ReqRecord /\ (req[r].new => req[r].pc \in {"link", "commit"})
    BY DEF IInv, TypeOK, RequestOK
  <2>2. CASE req[r].pc \in InRequest
    <3>1. req'[r] = [req[r] EXCEPT !.pc = "done", !.status = "error", !.new = FALSE]
      BY <2>2 DEF ResetDatabase
    <3> QED
      BY <2>1, <3>1 DEF ReqRecord, ReqPC, InRequest, Past
  <2>3. CASE req[r].pc \notin InRequest
    <3>1. req'[r] = req[r]
      BY <2>3 DEF ResetDatabase
    <3> QED
      BY <2>1, <2>3, <3>1 DEF InRequest
  <2> QED
    BY <2>2, <2>3
<1>3. ASSUME NEW v \in Verifies
      PROVE  /\ ver'[v] \in VerRecord
             /\ ver'[v].link = ver[v].link /\ ver'[v].user = ver[v].user
             /\ ver'[v].pc \notin InVerify
             /\ ver'[v].pc # "done" => ver'[v].status = "none"
             /\ ver'[v].pc = "issue" \/ ver'[v].status = "token"
                => ver[v].pc = "issue" \/ ver[v].status = "token"
  <2>1. ver[v] \in VerRecord /\ (ver[v].pc # "done" => ver[v].status = "none")
    BY DEF IInv, TypeOK, VerifyOK
  <2>2. CASE ver[v].pc \in InVerify
    <3>1. ver'[v] = [ver[v] EXCEPT !.pc = "done", !.status = "error", !.locks = {}]
      BY <2>2 DEF ResetDatabase
    <3> QED
      BY <2>1, <3>1 DEF VerRecord, VerPC, InVerify
  <2>3. CASE ver[v].pc \notin InVerify
    <3>1. ver'[v] = ver[v]
      BY <2>3 DEF ResetDatabase
    <3> QED
      BY <2>1, <2>3, <3>1
  <2> QED
    BY <2>2, <2>3
<1> QED
  BY <1>1, <1>2, <1>3

\* A step of ResetDatabase keeps IInv.
LEMMA ResetDatabaseIInv ==
  ASSUME IInv, ResetDatabase
  PROVE  IInv'
<1>8. now' \in Nat /\ resets' \in Nat /\ inbox' \subseteq Requests
  <2>1. now \in Nat /\ resets \in Nat /\ inbox \subseteq Requests
    BY DEF IInv, TypeOK
  <2>2. now' = now /\ resets' = resets + 1 /\ inbox' = inbox
    BY DEF ResetDatabase
  <2> QED
    BY <2>1, <2>2
<1> USE ResetEffect, NamesAssumption, AbsentAssumption
<1>9. users'[BypassUser] # Absent
  <2>1. [email |-> BypassEmail, verified |-> TRUE] \in [email : Emails, verified : BOOLEAN]
    OBVIOUS
  <2> QED
    BY <2>1
<1>1. TypeOK'
  <2>1. users' \in [UserIds -> UserRow \cup {Absent}]
    BY DEF ResetDatabase, EmptyUsers, UserRow
  <2>2. links' \in [Requests -> LinkRow \cup {Absent}]
    BY DEF ResetDatabase, EmptyLinks
  <2>3. req' \in [Requests -> ReqRecord] /\ ver' \in [Verifies -> VerRecord]
    BY DEF ResetDatabase
  <2> QED
    BY <1>8, <2>1, <2>2, <2>3 DEF TypeOK
<1>2. OneUserPerEmail'
  BY DEF OneUserPerEmail, Exists
<1>3. UsersOK'
  BY <1>9 DEF UsersOK, Exists, UserIds
<1>4. ASSUME NEW s \in Requests PROVE RequestOK(s)'
  BY DEF RequestOK, InRequest
<1>5. ASSUME NEW t \in Requests PROVE LinkOK(t)'
  BY DEF LinkOK
<1>6. ASSUME NEW w \in Verifies PROVE VerifyOK(w)'
  BY DEF VerifyOK, InVerify
<1>7. ASSUME NEW w \in Verifies PROVE SessionOK(w)'
  <2> SUFFICES ASSUME ver'[w].pc = "issue" \/ ver'[w].status = "token"
               PROVE  SessionOK(w)'
    BY DEF SessionOK
  <2>1. SessionOK(w) /\ (ver[w].pc = "issue" \/ ver[w].status = "token")
    BY DEF IInv
  <2>2. ver[w].link \in Requests /\ ver[w].user \in UserIds
    BY <2>1 DEF IInv, TypeOK, VerRecord, SessionOK
  <2>3. Exists(BypassUser) /\ users[BypassUser].email = BypassEmail
    BY DEF IInv, UsersOK
  <2> QED
    BY <2>1, <2>2, <2>3 DEF SessionOK, Exists, UserIds
<1> QED
  BY <1>1, <1>2, <1>3, <1>4, <1>5, <1>6, <1>7 DEF IInv

\* A step of Tick keeps IInv.
LEMMA TickIInv ==
  ASSUME IInv, Tick
  PROVE  IInv'
<1> USE NamesAssumption, TimesAssumption, AbsentAssumption
<1>1. TypeOK'
  BY DEF IInv, TypeOK, Tick
<1>2. OneUserPerEmail'
  BY DEF IInv, OneUserPerEmail, Exists, Tick
<1>3. UsersOK'
  BY DEF IInv, TypeOK, UsersOK, Exists, Past, ReqRecord, Tick
<1>4. ASSUME NEW s \in Requests PROVE RequestOK(s)'
  BY DEF IInv, TypeOK, RequestOK, WithEmail, InsertWaits, Exists, ReqRecord, Tick
<1>5. ASSUME NEW t \in Requests PROVE LinkOK(t)'
  BY DEF IInv, TypeOK, LinkOK, IsUsed, Exists, Past, ReqRecord, Tick
<1>6. ASSUME NEW w \in Verifies PROVE VerifyOK(w)'
  BY DEF IInv, TypeOK, VerifyOK, Found, Exists, VerRecord, Tick
<1>7. ASSUME NEW w \in Verifies PROVE SessionOK(w)'
  BY DEF IInv, TypeOK, SessionOK, IsUsed, Exists, Past, ReqRecord, VerRecord, UserIds, Tick
<1> QED
  BY <1>1, <1>2, <1>3, <1>4, <1>5, <1>6, <1>7 DEF IInv

\* Every step of the system keeps IInv, and so does a stuttering step.
LEMMA NextIInv ==
  ASSUME IInv, [Next]_vars
  PROVE  IInv'
<1>1. ASSUME NEW r \in Requests, RequestStep(r)
      PROVE  IInv'
  BY <1>1, LookupUserIInv, CreateUserIInv, CreateLinkIInv, CommitRequestIInv,
     RespondIInv, SendMagicLinkIInv DEF RequestStep
<1>2. ASSUME NEW v \in Verifies, VerifyStep(v)
      PROVE  IInv'
  BY <1>2, ReadLinkIInv, MarkUsedIInv, LoadUserIInv, MarkVerifiedIInv,
     CommitVerifyIInv, IssueTokenIInv DEF VerifyStep
<1>3. ASSUME NEW v \in Verifies, NEW t \in inbox \cup {Bogus}, OpenLink(v, t)
      PROVE  IInv'
  <2>1. t \in Requests \cup {Bogus}
    BY DEF IInv, TypeOK
  <2> QED
    BY <1>3, <2>1, OpenLinkIInv
<1>4. CASE Work
  BY <1>1, <1>2, <1>3, <1>4, RequestLinkIInv, TickIInv DEF Work
<1>5. CASE Faults
  BY <1>5, FailRequestIInv, CrashRequestIInv, FailVerifyIInv, CrashVerifyIInv,
     ResetDatabaseIInv DEF Faults
<1>6. CASE UNCHANGED vars
  BY <1>6 DEF vars, IInv, TypeOK, OneUserPerEmail, UsersOK, RequestOK, LinkOK, VerifyOK,
     SessionOK, Exists, WithEmail, InsertWaits, IsUsed, Found
<1> QED
  BY <1>4, <1>5, <1>6 DEF Next

\* The invariant holds in every reachable state.
THEOREM Invariant == Spec => []IInv
<1>1. Init => IInv
  BY InitIInv
<1>2. IInv /\ [Next]_vars => IInv'
  BY NextIInv
<1> QED
  BY <1>1, <1>2, PTL DEF Spec

\* Tables and handler records keep their shape.
THEOREM TypeCorrect == Spec => []TypeOK
<1>1. IInv => TypeOK
  BY DEF IInv
<1> QED
  BY <1>1, Invariant, PTL

\* No race of first requests leaves two accounts for one address.
THEOREM UniqueUsers == Spec => []OneUserPerEmail
<1>1. IInv => OneUserPerEmail
  BY DEF IInv
<1> QED
  BY <1>1, Invariant, PTL

\* The assertion in verify_magic_link never fails.
THEOREM AssertionHolds == Spec => []UserOfLink
<1>1. IInv => UserOfLink
  BY DEF IInv, UserOfLink, VerifyOK, LinkOK, TypeOK, Found, VerRecord
<1> QED
  BY <1>1, Invariant, PTL

\* A session opens the verified account of the address the link was sent to.
THEOREM SessionsBelong == Spec => []SessionIsRecipients
<1>1. IInv => SessionIsRecipients
  BY DEF IInv, SessionIsRecipients, SessionOK
<1> QED
  BY <1>1, Invariant, PTL

\* Every token is paid for by a committed redemption.
THEOREM TokensBacked == Spec => []TokenBacked
<1>1. IInv => TokenBacked
  BY DEF IInv, TokenBacked, SessionOK
<1> QED
  BY <1>1, Invariant, PTL

\* No redemption is recorded after its link's expiry.
THEOREM RedeemedInTime == Spec => []NoLateRedemption
<1>1. IInv => NoLateRedemption
  BY DEF IInv, NoLateRedemption, LinkOK
<1> QED
  BY <1>1, Invariant, PTL

\* A protected route never answers 404 for the caller's own account.
THEOREM NoCallerMissing == Spec => []NeverNotFound
<1>1. IInv => NeverNotFound
  BY DEF IInv, UsersOK, NeverNotFound, CurrentUser, Profile, Unauthorized, NotFound
<1> QED
  BY <1>1, Invariant, PTL

\* Once an attempt got its token, later look-ups of the link are refused.
THEOREM LaterAttemptsRefused == Spec => SecondAttemptRefused
<1>1. ASSUME IInv, [Next]_vars, NEW v \in Verifies, NEW w \in Verifies,
             ver[w].status = "token", ver[w].link = ver[v].link,
             ver[v].pc = "read", ver'[v].pc # "read"
      PROVE  ver'[v].pc = "done"
  <2>1. links[ver[v].link] = Absent \/ IsUsed(links[ver[v].link])
    BY <1>1 DEF IInv, SessionOK
  <2>2. ASSUME NEW x \in Verifies, VerifyStep(x) \/ FailVerify(x) \/ CrashVerify(x)
        PROVE  ver'[v].pc = "done"
    <3>1. ver \in [Verifies -> VerRecord]
      BY <1>1 DEF IInv, TypeOK
    <3>2. x = v
      BY <1>1, <2>2, <3>1 DEF VerifyStep, ReadLink, MarkUsed, LoadUser, MarkVerified,
         CommitVerify, IssueToken, FailVerify, CrashVerify, EndVerify
    <3>3. ReadLink(v) \/ FailVerify(v) \/ CrashVerify(v)
      BY <1>1, <2>2, <3>2 DEF VerifyStep, MarkUsed, LoadUser, MarkVerified,
         CommitVerify, IssueToken
    <3> QED
      BY <2>1, <3>1, <3>3 DEF ReadLink, FailVerify, CrashVerify, EndVerify, Found, VerRecord
  <2>3. ASSUME NEW x \in Verifies, NEW t \in inbox \cup {Bogus}, OpenLink(x, t)
        PROVE  FALSE
    BY <1>1, <2>3 DEF OpenLink, IInv, TypeOK
  <2>4. CASE ResetDatabase
    BY <1>1, <2>4 DEF ResetDatabase, InVerify, IInv, TypeOK, VerRecord
  <2>5. CASE UNCHANGED ver
    BY <1>1, <2>5
  <2>6. ASSUME NEW r \in Requests
        PROVE  /\ RequestStep(r) \/ FailRequest(r) \/ CrashRequest(r) => UNCHANGED ver
               /\ \A e \in Emails : RequestLink(r, e) => UNCHANGED ver
    BY DEF RequestStep, LookupUser, CreateUser, CreateLink, CommitRequest, Respond,
       SendMagicLink, FailRequest, CrashRequest, RequestLink
  <2>7. Tick \/ UNCHANGED vars => UNCHANGED ver
    BY DEF Tick, vars
  <2> QED
    BY <1>1, <2>2, <2>3, <2>4, <2>5, <2>6, <2>7 DEF Next, Work, Faults
<1>2. IInv /\ [Next]_vars =>
        \A v, w \in Verifies :
          /\ ver[w].status = "token" /\ ver[w].link = ver[v].link
          /\ ver[v].pc = "read" /\ ver'[v].pc # "read"
          => ver'[v].pc = "done"
  BY <1>1
<1> QED
  BY <1>2, Invariant, PTL DEF Spec, SecondAttemptRefused

\* At first nothing is locked.
LEMMA InitLocks == Init => \A v \in Verifies : LocksOK(v)
  BY DEF Init, LocksOK

\* A step of a redemption, or its end, keeps the locks with their transaction.
LEMMA VerifyStepLocks ==
    ASSUME IInv, NEW x \in Verifies, NEW v \in Verifies, LocksOK(v),
           VerifyStep(x) \/ FailVerify(x) \/ CrashVerify(x)
    PROVE  LocksOK(v)'
<1>1. ver \in [Verifies -> VerRecord]
  BY DEF IInv, TypeOK
<1>2. CASE x # v
  <2>1. ver'[v] = ver[v]
    BY <1>1, <1>2 DEF VerifyStep, ReadLink, MarkUsed, LoadUser, MarkVerified, CommitVerify,
       IssueToken, FailVerify, CrashVerify, EndVerify
  <2> QED
    BY <2>1 DEF LocksOK
<1>3. CASE x = v
  <2>1. CASE ReadLink(v) \/ MarkUsed(v)
    BY <1>1, <2>1 DEF ReadLink, MarkUsed, EndVerify, LocksOK, VerRecord
  <2>2. CASE LoadUser(v) \/ MarkVerified(v)
    BY <1>1, <2>2 DEF LoadUser, MarkVerified, EndVerify, LocksOK, VerRecord
  <2>3. CASE CommitVerify(v) \/ IssueToken(v)
    BY <1>1, <2>3 DEF CommitVerify, IssueToken, LocksOK, VerRecord
  <2>4. CASE FailVerify(v) \/ CrashVerify(v)
    BY <1>1, <2>4 DEF FailVerify, CrashVerify, EndVerify, LocksOK, VerRecord
  <2> QED
    BY <1>3, <2>1, <2>2, <2>3, <2>4 DEF VerifyStep
<1> QED
  BY <1>2, <1>3

\* Every step keeps the locks with their transactions.
LEMMA NextLocks ==
    ASSUME IInv, \A v \in Verifies : LocksOK(v), [Next]_vars
    PROVE  (\A v \in Verifies : LocksOK(v))'
<1> SUFFICES ASSUME NEW v \in Verifies PROVE LocksOK(v)'
  OBVIOUS
<1>1. ver \in [Verifies -> VerRecord] /\ LocksOK(v)
  BY DEF IInv, TypeOK
<1>2. ASSUME UNCHANGED ver PROVE LocksOK(v)'
  BY <1>1, <1>2 DEF LocksOK
<1>3. ASSUME NEW x \in Verifies, VerifyStep(x) \/ FailVerify(x) \/ CrashVerify(x)
      PROVE  LocksOK(v)'
  BY <1>1, <1>3, VerifyStepLocks
<1>4. ASSUME NEW x \in Verifies, NEW t \in inbox \cup {Bogus}, OpenLink(x, t)
      PROVE  LocksOK(v)'
  BY <1>1, <1>4 DEF OpenLink, LocksOK, VerRecord
<1>5. CASE ResetDatabase
  BY <1>1, <1>5 DEF ResetDatabase, InVerify, LocksOK, VerRecord
<1>6. ASSUME NEW r \in Requests
      PROVE  /\ RequestStep(r) \/ FailRequest(r) \/ CrashRequest(r) => UNCHANGED ver
             /\ \A e \in Emails : RequestLink(r, e) => UNCHANGED ver
  BY DEF RequestStep, LookupUser, CreateUser, CreateLink, CommitRequest, Respond,
     SendMagicLink, FailRequest, CrashRequest, RequestLink
<1>7. Tick \/ UNCHANGED vars => UNCHANGED ver
  BY DEF Tick, vars
<1> QED
  BY <1>2, <1>3, <1>4, <1>5, <1>6, <1>7 DEF Next, Work, Faults

\* Whoever holds the user's row commits next; whoever holds a link's row goes
\* on, or waits for the user's.
LEMMA LocksNoCircle ==
    ASSUME IInv, \A v \in Verifies : LocksOK(v)
    PROVE  NoCircularWait
<1>1. ASSUME NEW r \in Requests, req[r].pc = "insert", InsertWaits(r)
      PROVE  \E s \in Requests : InsertPending(s) /\ req[s].email = req[r].email
  BY <1>1 DEF IInv, RequestOK, InsertWaits, InsertPending
<1>2. ASSUME NEW v \in Verifies, ver[v].pc = "flip", UserWaits(v)
      PROVE  \E w \in Verifies : HoldsUp(w, v) /\ GoesOn(w)
  <2>1. PICK w \in Verifies : "user" \in ver[w].locks /\ ver[w].user = ver[v].user
    BY <1>2 DEF UserWaits
  <2>2. ver[w].pc = "commit"
    BY <2>1 DEF LocksOK
  <2> QED
    BY <1>2, <2>1, <2>2 DEF HoldsUp, GoesOn, Waiting, InVerify
<1>3. ASSUME NEW v \in Verifies, ver[v].pc = "mark", LinkWaits(v)
      PROVE  \E w \in Verifies : /\ HoldsUp(w, v)
                                 /\ GoesOn(w) \/ \E x \in Verifies : HoldsUp(x, w) /\ GoesOn(x)
  <2>1. PICK w \in Verifies : "link" \in ver[w].locks /\ ver[w].link = ver[v].link
    BY <1>3 DEF LinkWaits
  <2>2. HoldsUp(w, v)
    BY <1>3, <2>1 DEF HoldsUp
  <2>3. ver[w].pc \in {"load", "flip", "commit"}
    BY <2>1 DEF LocksOK
  <2>4. CASE ver[w].pc = "flip" /\ UserWaits(w)
    BY <1>2, <2>2, <2>4
  <2>5. CASE ~(ver[w].pc = "flip" /\ UserWaits(w))
    BY <2>2, <2>3, <2>5 DEF GoesOn, Waiting, InVerify
  <2> QED
    BY <2>4, <2>5
<1> QED
  BY <1>1, <1>2, <1>3 DEF NoCircularWait, Waiting

\* Handlers never wait for one another in a circle.
THEOREM WaitsEnd == Spec => []NoCircularWait
<1>1. Init => IInv /\ \A v \in Verifies : LocksOK(v)
  BY InitIInv, InitLocks
<1>2. /\ IInv /\ \A v \in Verifies : LocksOK(v)
      /\ [Next]_vars
      => (IInv /\ \A v \in Verifies : LocksOK(v))'
  BY NextIInv, NextLocks
<1>3. IInv /\ (\A v \in Verifies : LocksOK(v)) => NoCircularWait
  BY LocksNoCircle
<1> QED
  BY <1>1, <1>2, <1>3, PTL DEF Spec

-----------------------------------------------------------------------------
(***************************************************************************)
(* MagicLinkAuth implements SignIn, for any handlers, addresses, lifetimes *)
(* and numbers of resets: every step of a handler or of the database is a  *)
(* step of SignIn on the mapped state, or none.                            *)
(***************************************************************************)

\* A link's expiry is never further off than its lifetime, from when it is
\* computed until the row is committed and after.
ExpiresOK == \A r \in Requests : req[r].expires <= now + ExpireMinutes

\* Before its commit a link is not handed out: the ledger has it as new.
LEMMA NotYetIssued ==
    ASSUME IInv, NEW r \in Requests, req[r].pc \notin Past
    PROVE  links[r] = Absent /\ Ledger[r] = Promise!Fresh
  BY DEF IInv, LinkOK, Past, Ledger, Promise!Fresh

\* The entry of a link changes only with its row or with its request's end.
LEMMA EntryKept ==
    ASSUME NEW t \in Requests, links'[t] = links[t],
           req'[t].pc \in Past <=> req[t].pc \in Past
    PROVE  Ledger'[t] = Ledger[t]
  BY DEF Ledger, Past, IsUsed

\* A request's step changes no other link's entry.
LEMMA OneEntry ==
    ASSUME NEW r \in Requests,
           \A t \in Requests \ {r} : links'[t] = links[t] /\ req'[t] = req[t]
    PROVE  Ledger' = [Ledger EXCEPT ![r] = Ledger'[r]]
<1>1. ASSUME NEW t \in Requests \ {r} PROVE Ledger'[t] = Ledger[t]
  BY <1>1, EntryKept
<1>2. DOMAIN Ledger = Requests /\ DOMAIN Ledger' = Requests
  BY DEF Ledger
<1> QED
  BY <1>1, <1>2 DEF Ledger

\* A redemption's step changes no other visit.
LEMMA OneVisit ==
    ASSUME NEW v \in Verifies, \A w \in Verifies \ {v} : ver'[w] = ver[w]
    PROVE  Visits' = [Visits EXCEPT ![v] = Visits'[v]]
<1>1. ASSUME NEW w \in Verifies \ {v} PROVE Visits'[w] = Visits[w]
  BY <1>1 DEF Visits, VisitState
<1> QED
  BY <1>1 DEF Visits

\* What no handler changed is mapped to what it was.
LEMMA LedgerKept ==
    ASSUME UNCHANGED <<links, req>>
    PROVE  Ledger' = Ledger
  BY DEF Ledger, IsUsed

\* Nor does a step that leaves the redemptions as they are.
LEMMA VisitsKept ==
    ASSUME UNCHANGED ver
    PROVE  Visits' = Visits
  BY DEF Visits, VisitState

\* A request that only moves on, before or after its commit, is no step.
LEMMA RequestMovesOn ==
    ASSUME NEW r \in Requests, UNCHANGED <<now, links, ver>>,
           \A t \in Requests \ {r} : req'[t] = req[t],
           req'[r].pc \in Past <=> req[r].pc \in Past
    PROVE  UNCHANGED Promise!signInVars
<1>1. \A t \in Requests : Ledger'[t] = Ledger[t]
  BY EntryKept
<1>2. Ledger' = Ledger
  BY <1>1 DEF Ledger
<1> QED
  BY <1>2, VisitsKept DEF Promise!signInVars

\* A request that ends without its commit withdraws its link.
LEMMA RequestEnds ==
    ASSUME IInv, NEW r \in Requests, UNCHANGED <<now, links, ver>>,
           \A t \in Requests \ {r} : req'[t] = req[t],
           req[r].pc \notin Past, req'[r].pc = "done"
    PROVE  Promise!Withdraw(r)
<1>1. links[r] = Absent /\ Ledger[r] = Promise!Fresh
  BY NotYetIssued
<1>2. Ledger'[r] = Promise!Gone
  BY <1>1 DEF Ledger, Promise!Gone
<1>3. Ledger' = [Ledger EXCEPT ![r] = Promise!Gone]
  BY <1>2, OneEntry
<1> QED
  BY <1>1, <1>3, VisitsKept DEF Promise!Withdraw

\* The commit of a request hands its link out, for at most its lifetime.
LEMMA CommitIssues ==
    ASSUME IInv, ExpiresOK, NEW r \in Requests, CommitRequest(r)
    PROVE  Promise!Issue(r)
<1>1. Ledger[r] = Promise!Fresh
  BY NotYetIssued DEF CommitRequest, Past
<1>2. links'[r] = NewLink(r) /\ NewLink(r) # Absent
  <2>1. NewLink(r) \in LinkRow
    BY DEF IInv, TypeOK, ReqRecord, NewLink, LinkRow
  <2> QED
    BY <2>1, AbsentAssumption DEF IInv, TypeOK, CommitRequest, LinkRow, UserIds
<1>3. Ledger'[r] = [state |-> "live", deadline |-> req[r].expires]
  BY <1>2 DEF Ledger, IsUsed, NewLink
<1>4. req[r].expires \in 0 .. now + ExpireMinutes
  BY TimesAssumption DEF ExpiresOK, IInv, TypeOK, ReqRecord
<1>5. \A t \in Requests \ {r} : links'[t] = links[t] /\ req'[t] = req[t]
  BY DEF IInv, TypeOK, CommitRequest
<1>6. Ledger' = [Ledger EXCEPT ![r] = [state |-> "live", deadline |-> req[r].expires]]
  BY <1>3, <1>5, OneEntry
<1> QED
  BY <1>1, <1>4, <1>6, VisitsKept DEF Promise!Issue, CommitRequest

\* What a step of a request is to SignIn.
LEMMA RequestSteps ==
    ASSUME IInv, ExpiresOK, NEW r \in Requests,
           \/ RequestStep(r) \/ FailRequest(r) \/ CrashRequest(r)
           \/ \E e \in Emails : RequestLink(r, e)
    PROVE  [Promise!SignInNext]_Promise!signInVars
<1> USE DEF Past
<1>1. req \in [Requests -> ReqRecord]
  BY DEF IInv, TypeOK
<1>2. CASE \/ LookupUser(r) \/ CreateLink(r) \/ Respond(r) \/ SendMagicLink(r)
           \/ \E e \in Emails : RequestLink(r, e)
  <2>1. /\ UNCHANGED <<now, links, ver>>
        /\ \A t \in Requests \ {r} : req'[t] = req[t]
        /\ req'[r].pc \in Past <=> req[r].pc \in Past
    BY <1>1, <1>2 DEF LookupUser, CreateLink, Respond, SendMagicLink, RequestLink, ReqRecord
  <2> QED
    BY <2>1, RequestMovesOn
<1>3. CASE CreateUser(r)
  <2>1. /\ UNCHANGED <<now, links, ver>> /\ req[r].pc = "insert"
        /\ \A t \in Requests \ {r} : req'[t] = req[t]
        /\ req'[r].pc \in {"link", "done"}
    BY <1>1, <1>3 DEF CreateUser, EndRequest, ReqRecord
  <2> QED
    BY <2>1, RequestMovesOn, RequestEnds DEF Promise!SignInNext
<1>4. CASE CommitRequest(r)
  BY <1>4, CommitIssues DEF Promise!SignInNext
<1>5. CASE FailRequest(r) \/ CrashRequest(r)
  <2>1. /\ UNCHANGED <<now, links, ver>> /\ req'[r].pc = "done"
        /\ \A t \in Requests \ {r} : req'[t] = req[t]
    BY <1>1, <1>5 DEF FailRequest, CrashRequest, EndRequest, ReqRecord
  <2> QED
    BY <2>1, RequestMovesOn, RequestEnds DEF Promise!SignInNext
<1> QED
  BY <1>2, <1>3, <1>4, <1>5 DEF RequestStep

\* A redemption that only moves on, before its answer is decided, is no step.
LEMMA VisitMovesOn ==
    ASSUME NEW v \in Verifies, UNCHANGED <<now, links, req>>,
           \A w \in Verifies \ {v} : ver'[w] = ver[w],
           VisitState(v)' = VisitState(v),
           ver'[v].link = ver[v].link \/ VisitState(v) = "outside"
    PROVE  UNCHANGED Promise!signInVars
<1>1. Visits'[v] = Visits[v]
  BY DEF Visits
<1>2. Visits' = [Visits EXCEPT ![v] = Visits'[v]]
  BY OneVisit
<1>3. Visits' = Visits
  BY <1>1, <1>2 DEF Visits
<1> QED
  BY <1>3, LedgerKept DEF Promise!signInVars

\* A redemption that ends without a token is turned away.
LEMMA VisitEnds ==
    ASSUME NEW v \in Verifies, UNCHANGED <<now, links, req>>,
           \A w \in Verifies \ {v} : ver'[w] = ver[w],
           ver[v].pc # "done", ver'[v].pc = "done", ver'[v].status # "token"
    PROVE  Promise!TurnAway(v)
<1>1. VisitState(v)' = "away" /\ VisitState(v) # "signed_in"
  BY DEF VisitState
<1>2. Visits'[v] = Promise!Away /\ Visits[v].state # "signed_in"
  BY <1>1 DEF Visits, Promise!Away
<1>3. Visits' = [Visits EXCEPT ![v] = Promise!Away]
  BY <1>2, OneVisit
<1> QED
  BY <1>2, <1>3, LedgerKept DEF Promise!TurnAway

\* A link that passes the two checks is live and in time.
LEMMA ReadLinkAdmits ==
    ASSUME IInv, NEW v \in Verifies, ReadLink(v), ver'[v].pc # "done"
    PROVE  Promise!Admit(v, ver[v].link) /\ ver[v].link \in Requests
<1>1. ver \in [Verifies -> VerRecord] /\ now \in Nat
  BY DEF IInv, TypeOK
<1>2. /\ Found(v) /\ ~IsUsed(links[ver[v].link]) /\ ~IsExpired(links[ver[v].link])
      /\ ver[v].pc = "read" /\ ver'[v].pc = "mark" /\ ver'[v].link = ver[v].link
      /\ \A w \in Verifies \ {v} : ver'[w] = ver[w]
      /\ UNCHANGED <<now, links, req>>
  BY <1>1 DEF ReadLink, EndVerify, VerRecord
<1>3. ver[v].link \in Requests /\ links[ver[v].link] \in LinkRow
  BY <1>1, <1>2 DEF Found, VerRecord, IInv, TypeOK
<1>4. Ledger[ver[v].link].state = "live" /\ now <= Ledger[ver[v].link].deadline
  BY <1>1, <1>2, <1>3 DEF Ledger, Found, IsExpired, LinkRow
<1>5. VisitState(v) = "outside" /\ VisitState(v)' = "admitted"
  BY <1>2 DEF VisitState
<1>6. Visits[v] = Promise!Outside /\ Visits'[v] = [state |-> "admitted", link |-> ver[v].link]
  BY <1>2, <1>5 DEF Visits, Promise!Outside
<1>7. Visits' = [Visits EXCEPT ![v] = [state |-> "admitted", link |-> ver[v].link]]
  BY <1>2, <1>6, OneVisit
<1> QED
  BY <1>2, <1>3, <1>4, <1>6, <1>7, LedgerKept DEF Promise!Admit

\* The commit of a redemption makes its link used, whoever used it before.
LEMMA CommitRedeems ==
    ASSUME IInv, NEW v \in Verifies, CommitVerify(v)
    PROVE  Promise!Redeem(v)
<1> DEFINE l == ver[v].link
<1>1. ver \in [Verifies -> VerRecord] /\ links \in [Requests -> LinkRow \cup {Absent}]
  BY DEF IInv, TypeOK
<1>2. /\ ver[v].pc = "commit" /\ ver'[v].pc = "issue" /\ ver'[v].link = l
      /\ \A w \in Verifies \ {v} : ver'[w] = ver[w]
      /\ links' = [links EXCEPT ![l].used = ver[v].stamp] /\ UNCHANGED <<now, req>>
  BY <1>1 DEF CommitVerify, Stamped, VerRecord
<1>3. l \in Requests /\ links[l] \in LinkRow /\ links[l] # Absent
  BY <1>1, <1>2 DEF IInv, VerifyOK, Found, VerRecord
<1>4. ver[v].stamp \in Nat /\ ver[v].stamp # Never
  BY <1>1, TimesAssumption DEF VerRecord
<1>5. links'[l] = [links[l] EXCEPT !.used = ver[v].stamp] /\ links'[l] \in LinkRow
  BY <1>1, <1>2, <1>3, <1>4 DEF LinkRow
<1>6. links'[l] # Absent /\ links'[l].used # Never /\ links'[l].expires = links[l].expires
  BY <1>3, <1>4, <1>5, AbsentAssumption DEF LinkRow, UserIds
<1>7. Ledger'[l] = [Ledger[l] EXCEPT !.state = "used"]
  BY <1>3, <1>6 DEF Ledger, IsUsed
<1>8. Ledger' = [Ledger EXCEPT ![l].state = "used"]
  <2>1. \A t \in Requests \ {l} : links'[t] = links[t] /\ req'[t] = req[t]
    BY <1>1, <1>2
  <2> QED
    BY <2>1, <1>3, <1>7, OneEntry
<1>9. VisitState(v) = "admitted" /\ VisitState(v)' = "redeemed"
  BY <1>2 DEF VisitState
<1>10. /\ Visits[v].state = "admitted" /\ Visits[v].link = l
       /\ Visits'[v] = [Visits[v] EXCEPT !.state = "redeemed"]
  BY <1>2, <1>9 DEF Visits
<1>11. Visits' = [Visits EXCEPT ![v].state = "redeemed"]
  BY <1>2, <1>10, OneVisit
<1> QED
  BY <1>2, <1>8, <1>10, <1>11 DEF Promise!Redeem

\* The token is granted to a visit that redeemed.
LEMMA IssueGrants ==
    ASSUME IInv, NEW v \in Verifies, IssueToken(v)
    PROVE  Promise!Grant(v)
<1>1. ver \in [Verifies -> VerRecord]
  BY DEF IInv, TypeOK
<1>2. /\ ver[v].pc = "issue" /\ ver'[v].pc = "done" /\ ver'[v].status = "token"
      /\ ver'[v].link = ver[v].link /\ \A w \in Verifies \ {v} : ver'[w] = ver[w]
      /\ UNCHANGED <<now, links, req>>
  BY <1>1 DEF IssueToken, VerRecord
<1>3. VisitState(v) = "redeemed" /\ VisitState(v)' = "signed_in"
  BY <1>2 DEF VisitState
<1>4. /\ Visits[v].state = "redeemed"
      /\ Visits'[v] = [Visits[v] EXCEPT !.state = "signed_in"]
  BY <1>2, <1>3 DEF Visits
<1>5. Visits' = [Visits EXCEPT ![v].state = "signed_in"]
  BY <1>2, <1>4, OneVisit
<1> QED
  BY <1>2, <1>4, <1>5, LedgerKept DEF Promise!Grant

\* What a step of a redemption is to SignIn.
LEMMA VerifySteps ==
    ASSUME IInv, NEW v \in Verifies,
           \/ VerifyStep(v) \/ FailVerify(v) \/ CrashVerify(v)
           \/ \E t \in inbox \cup {Bogus} : OpenLink(v, t)
    PROVE  [Promise!SignInNext]_Promise!signInVars
<1>1. ver \in [Verifies -> VerRecord] /\ (ver[v].pc # "done" => ver[v].status = "none")
  BY DEF IInv, TypeOK, VerifyOK
<1>2. CASE \E t \in inbox \cup {Bogus} : OpenLink(v, t)
  <2>1. PICK t \in inbox \cup {Bogus} : OpenLink(v, t)
    BY <1>2
  <2>2. UNCHANGED <<now, links, req>> /\ \A w \in Verifies \ {v} : ver'[w] = ver[w]
    BY <1>1, <2>1 DEF OpenLink
  <2>3. ver[v].pc = "idle" /\ ver'[v].pc = "read"
    <3>1. ver[v].pc = "idle" /\ ver' = [ver EXCEPT ![v].pc = "read", ![v].link = t]
      BY <2>1 DEF OpenLink
    <3>2. ver[v] \in VerRecord /\ t \in Requests \cup {Bogus}
      BY <1>1 DEF IInv, TypeOK
    <3>3. ver'[v] = [ver[v] EXCEPT !.pc = "read", !.link = t]
      BY <1>1, <3>1
    <3>4. "pc" \in DOMAIN ver[v]
      BY <3>2 DEF VerRecord
    <3>5. ver'[v].pc = "read"
      BY <3>3, <3>4, Zenon
    <3> QED
      BY <3>1, <3>5
  <2>4. VisitState(v) = "outside" /\ VisitState(v)' = "outside"
    BY <2>3 DEF VisitState
  <2> QED
    BY <2>2, <2>4, VisitMovesOn
<1>3. CASE MarkUsed(v) \/ MarkVerified(v) \/ (LoadUser(v) /\ ver'[v].pc # "done")
  <2>1. /\ UNCHANGED <<now, links, req>> /\ \A w \in Verifies \ {v} : ver'[w] = ver[w]
        /\ ver[v].pc \in {"mark", "load", "flip"} /\ ver'[v].link = ver[v].link
        /\ ver'[v].pc \in {"load", "flip", "commit"}
    BY <1>1, <1>3 DEF MarkUsed, MarkVerified, LoadUser, EndVerify, VerRecord
  <2>2. VisitState(v) = "admitted" /\ VisitState(v)' = "admitted"
    BY <2>1 DEF VisitState
  <2> QED
    BY <2>1, <2>2, VisitMovesOn
<1>4. CASE \/ FailVerify(v) \/ CrashVerify(v)
           \/ (LoadUser(v) \/ ReadLink(v)) /\ ver'[v].pc = "done"
  <2>1. /\ UNCHANGED <<now, links, req>> /\ \A w \in Verifies \ {v} : ver'[w] = ver[w]
        /\ ver[v].pc # "done" /\ ver'[v].pc = "done" /\ ver'[v].status # "token"
    BY <1>1, <1>4
       DEF FailVerify, CrashVerify, LoadUser, ReadLink, EndVerify, InVerify, VerRecord
  <2> QED
    BY <2>1, VisitEnds DEF Promise!SignInNext
<1>5. CASE ReadLink(v) /\ ver'[v].pc # "done"
  BY <1>5, ReadLinkAdmits DEF Promise!SignInNext
<1>6. CASE CommitVerify(v)
  BY <1>6, CommitRedeems DEF Promise!SignInNext
<1>7. CASE IssueToken(v)
  BY <1>7, IssueGrants DEF Promise!SignInNext
<1> QED
  BY <1>2, <1>3, <1>4, <1>5, <1>6, <1>7 DEF VerifyStep

\* A new database forgets every link that was handed out or is about to be,
\* and turns away whoever had not redeemed one.
LEMMA ResetWipes ==
    ASSUME IInv, ResetDatabase
    PROVE  Promise!Wipe
<1> DEFINE lost == {t \in Requests : req[t].pc # "idle"}
           turned == {v \in Verifies : ver[v].pc = "read"}
<1>1. /\ links \in [Requests -> LinkRow \cup {Absent}] /\ req \in [Requests -> ReqRecord]
      /\ ver \in [Verifies -> VerRecord]
  BY DEF IInv, TypeOK
<1>2. ASSUME NEW t \in Requests
      PROVE  /\ Ledger'[t] = IF t \in lost THEN Promise!Gone ELSE Ledger[t]
             /\ Ledger[t] # Promise!Fresh => t \in lost
  <2>1. links'[t] = Absent
    BY DEF ResetDatabase, EmptyLinks
  <2>2. CASE req[t].pc = "idle"
    <3>1. links[t] = Absent /\ Ledger[t] = Promise!Fresh
      BY <2>2, NotYetIssued DEF Past
    <3>2. req'[t].pc = "idle"
      BY <2>2 DEF ResetDatabase, InRequest
    <3>3. Ledger'[t] = Promise!Fresh
      BY <2>1, <3>2 DEF Ledger, Promise!Fresh
    <3> QED
      BY <2>2, <3>1, <3>3
  <2>3. CASE req[t].pc # "idle"
    <3>1. req'[t].pc \in Past
      BY <1>1, <2>3 DEF ResetDatabase, InRequest, ReqRecord, ReqPC, Past
    <3> QED
      BY <2>1, <2>3, <3>1 DEF Ledger, Past, Promise!Gone
  <2> QED
    BY <2>2, <2>3
<1>3. Ledger' = [t \in Requests |-> IF t \in lost THEN Promise!Gone ELSE Ledger[t]]
  BY <1>2 DEF Ledger
<1>4. ASSUME NEW v \in Verifies
      PROVE  Visits'[v] = IF Visits[v].state = "admitted" \/ v \in turned
                          THEN Promise!Away ELSE Visits[v]
  <2>1. ver'[v] = IF ver[v].pc \in InVerify
                  THEN [ver[v] EXCEPT !.pc = "done", !.status = "error", !.locks = {}]
                  ELSE ver[v]
    BY DEF ResetDatabase
  <2>2. CASE ver[v].pc \in InVerify
    <3>1. ver'[v].pc = "done" /\ ver'[v].status = "error"
      BY <1>1, <2>1, <2>2 DEF VerRecord
    <3>2. VisitState(v)' = "away"
      BY <3>1 DEF VisitState
    <3>3. Visits'[v] = Promise!Away
      BY <3>2 DEF Visits, Promise!Away
    <3>4. Visits[v].state = "admitted" \/ v \in turned
      BY <2>2 DEF Visits, VisitState, InVerify
    <3> QED
      BY <3>3, <3>4
  <2>3. CASE ver[v].pc \notin InVerify
    <3>1. Visits'[v] = Visits[v]
      BY <2>1, <2>3 DEF Visits, VisitState
    <3>2. VisitState(v) # "admitted" /\ v \notin turned
      BY <2>3 DEF VisitState, InVerify
    <3> QED
      BY <3>1, <3>2 DEF Visits
  <2> QED
    BY <2>2, <2>3
<1>5. Visits' = [v \in Verifies |-> IF Visits[v].state = "admitted" \/ v \in turned
                                    THEN Promise!Away ELSE Visits[v]]
  BY <1>4 DEF Visits
<1>6. turned \in SUBSET {v \in Verifies : Visits[v].state = "outside"}
  BY DEF Visits, VisitState
<1>7. lost \in SUBSET Requests /\ \A t \in Requests : Ledger[t] # Promise!Fresh => t \in lost
  BY <1>2
<1>8. now' = now
  BY DEF ResetDatabase
<1> HIDE DEF lost, turned
<1> QED
  BY <1>3, <1>5, <1>6, <1>7, <1>8 DEF Promise!Wipe

\* Every step of MagicLinkAuth is one of SignIn or a stutter.
LEMMA StepSimulation ==
    ASSUME IInv, ExpiresOK, [Next]_vars
    PROVE  [Promise!SignInNext]_Promise!signInVars
<1>1. CASE Tick
  <2>1. UNCHANGED <<links, req, ver>> /\ now' = now + 1
    BY <1>1 DEF Tick
  <2> QED
    BY <2>1, LedgerKept, VisitsKept DEF Promise!PassTime, Promise!SignInNext
<1>2. CASE ResetDatabase
  BY <1>2, ResetWipes DEF Promise!SignInNext
<1>3. CASE UNCHANGED vars
  BY <1>3, LedgerKept, VisitsKept DEF vars, Promise!signInVars
<1>4. CASE \E r \in Requests :
              \/ RequestStep(r) \/ FailRequest(r) \/ CrashRequest(r)
              \/ \E e \in Emails : RequestLink(r, e)
  BY <1>4, RequestSteps
<1>5. CASE \E v \in Verifies :
              \/ VerifyStep(v) \/ FailVerify(v) \/ CrashVerify(v)
              \/ \E t \in inbox \cup {Bogus} : OpenLink(v, t)
  BY <1>5, VerifySteps
<1> QED
  BY <1>1, <1>2, <1>3, <1>4, <1>5 DEF Next, Work, Faults

\* Initial states map to initial states.
LEMMA InitSimulation == Init => Promise!SignInInit /\ ExpiresOK
<1> SUFFICES ASSUME Init PROVE Promise!SignInInit /\ ExpiresOK
  OBVIOUS
<1>1. Ledger = [t \in Requests |-> Promise!Fresh]
  BY DEF Init, EmptyLinks, Ledger, Promise!Fresh
<1>2. Visits = [v \in Verifies |-> Promise!Outside]
  BY DEF Init, Visits, VisitState, Promise!Outside
<1>3. ExpiresOK
  BY TimesAssumption DEF Init, ExpiresOK
<1> QED
  BY <1>1, <1>2, <1>3 DEF Init, Promise!SignInInit

\* Expiries are computed from the clock, which only goes on.
LEMMA NextExpires ==
    ASSUME IInv, ExpiresOK, [Next]_vars
    PROVE  ExpiresOK'
<1> SUFFICES ASSUME NEW r \in Requests
             PROVE  req'[r].expires <= now' + ExpireMinutes
  BY DEF ExpiresOK
<1>1. /\ now \in Nat /\ req \in [Requests -> ReqRecord] /\ ExpireMinutes \in Nat
      /\ req[r].expires \in Nat /\ req[r].expires <= now + ExpireMinutes
  BY TimesAssumption DEF IInv, TypeOK, ReqRecord, ExpiresOK
<1>2. now' = now \/ now' = now + 1
  BY DEF Next, Work, Faults, RequestStep, VerifyStep, Tick, vars, RequestLink, LookupUser,
         CreateUser, CreateLink, CommitRequest, Respond, SendMagicLink, OpenLink, ReadLink,
         MarkUsed, LoadUser, MarkVerified, CommitVerify, IssueToken, FailRequest, CrashRequest,
         FailVerify, CrashVerify, ResetDatabase
<1>3. req'[r].expires = req[r].expires \/ (req'[r].expires = now + ExpireMinutes /\ now' = now)
  <2>1. ASSUME NEW s \in Requests,
               \/ RequestStep(s) \/ FailRequest(s) \/ CrashRequest(s)
               \/ \E e \in Emails : RequestLink(s, e)
        PROVE  \/ req'[r].expires = req[r].expires
               \/ req'[r].expires = now + ExpireMinutes /\ now' = now
    <3>1. CASE CreateLink(s)
      BY <1>1, <3>1 DEF CreateLink, ExpiresAt, ReqRecord
    <3>2. CASE \/ LookupUser(s) \/ CreateUser(s) \/ CommitRequest(s) \/ Respond(s)
               \/ SendMagicLink(s) \/ \E e \in Emails : RequestLink(s, e)
      BY <1>1, <3>2
         DEF LookupUser, CreateUser, EndRequest, CommitRequest, Respond, SendMagicLink,
             RequestLink, ReqRecord
    <3>3. CASE FailRequest(s) \/ CrashRequest(s)
      BY <1>1, <3>3 DEF FailRequest, CrashRequest, EndRequest, ReqRecord
    <3> QED
      BY <2>1, <3>1, <3>2, <3>3 DEF RequestStep
  <2>2. CASE ResetDatabase
    BY <1>1, <2>2 DEF ResetDatabase, ReqRecord
  <2>3. CASE UNCHANGED req
    BY <2>3
  <2> QED
    BY <2>1, <2>2, <2>3
       DEF Next, Work, Faults, VerifyStep, Tick, vars, OpenLink, ReadLink, MarkUsed,
           LoadUser, MarkVerified, CommitVerify, IssueToken, FailVerify, CrashVerify
<1> QED
  BY <1>1, <1>2, <1>3

\* Signing in keeps the promises of SignIn: whatever races, fails, dies or is
\* reset, a session was admitted on a live link, and paid for by its redemption.
THEOREM SignInKept == Spec => KeepsSignIn
<1>1. Init => Promise!SignInInit /\ ExpiresOK
  BY InitSimulation
<1>2. IInv /\ ExpiresOK /\ [Next]_vars => ExpiresOK'
  BY NextExpires
<1>3. IInv /\ ExpiresOK /\ [Next]_vars => [Promise!SignInNext]_Promise!signInVars
  BY StepSimulation
<1> QED
  BY <1>1, <1>2, <1>3, Invariant, PTL DEF Spec, KeepsSignIn, Promise!SignInSpec
=============================================================================
