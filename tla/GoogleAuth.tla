----------------------------- MODULE GoogleAuth -----------------------------
(***************************************************************************)
(* GoogleAuth (src/src/auth/googleauth.cpp) and createNewUser of           *)
(* AuthModule: a client presents an authorization code as its token, the   *)
(* first request exchanges it for an access token, asks Google who that    *)
(* is, and stores the answer in google_tokens; later requests find it      *)
(* there until it expires.  Two HTTP requests to Google may be under way   *)
(* for every request of a client, and their replies come in any order.     *)
(*                                                                         *)
(* Lookup and creation of a user run in one callback, so no other request  *)
(* comes between them; the only partial failures are those of SQL.         *)
(***************************************************************************)
EXTENDS Naturals, FiniteSets

CONSTANTS
  Requests,  \* calls of authenticate()
  Tokens,    \* authorization codes
  Accounts,  \* accounts at Google (sub)
  DbFails    \* a SQL statement may fail

ASSUME GoogleAssumption == DbFails \in BOOLEAN

VARIABLES
  token,    \* the token each request presents
  owner,    \* external: whose token it is
  spent,    \* external: the codes Google has exchanged
  stage,    \* "token", "info": the reply a request waits for
  refresh,  \* whether a request holds a refresh token for its code
  rows,     \* google_tokens
  userOf,   \* google_users, 0 for no row
  created,  \* the last id of table users
  orphans,  \* those users whose link to an account failed
  status,   \* what the caller of authenticate() has seen
  userId    \* the id its callback got

users == <<userOf, created, orphans>>
database == <<rows, users>>
authVars == <<token, owner, spent, stage, refresh, database, status, userId>>

(* The tokens in google_tokens are the domain of rows. *)
Rows == [sub : Accounts, refresh : BOOLEAN, fresh : BOOLEAN]
Fresh(t) == t \in DOMAIN rows /\ rows[t].fresh

GoogleInit ==
  /\ token \in [Requests -> Tokens]
  /\ owner \in [Tokens -> Accounts]
  /\ spent = {}
  /\ stage = [r \in Requests |-> "none"]
  /\ refresh = [r \in Requests |-> FALSE]
  /\ rows = [t \in {} |-> {}]
  /\ userOf = [a \in Accounts |-> 0]
  /\ created = 0
  /\ orphans = {}
  /\ status = [r \in Requests |-> "idle"]
  /\ userId = [r \in Requests |-> 0]

-----------------------------------------------------------------------------
Fail(r) ==
  /\ status' = [status EXCEPT ![r] = "rejected"]
  /\ userId' = userId

Succeed(r, u) ==
  /\ status' = [status EXCEPT ![r] = "accepted"]
  /\ userId' = [userId EXCEPT ![r] = u]

(* Bug: the user is created again whenever the account signs in. *)
BugLookupUser(r, a) ==
  /\ created' = created + 1
  /\ userOf' = [userOf EXCEPT ![a] = created + 1]
  /\ orphans' = orphans
  /\ Succeed(r, created + 1)

(* createNewUser returns 0, with or without a new row, and the request is  *)
(* never answered; or the link to the new user is not stored.              *)
NotCreated(r) ==
  /\ created' \in {created, created + 1}
  /\ orphans' = orphans \cup (1 .. created' \ 1 .. created)
  /\ userOf' = userOf
  /\ \/ status' = [status EXCEPT ![r] = "lost"]
     \/ created' # created /\ status' = [status EXCEPT ![r] = "rejected"]
  /\ userId' = userId

(* lookupUserFromSub: the user of the account, who is created on its first *)
(* success.                                                                *)
LookupUser(r, a) ==
  \/ /\ userOf[a] # 0
     /\ Succeed(r, userOf[a])
     /\ UNCHANGED users
  \/ /\ userOf[a] = 0
     /\ created' = created + 1
     /\ userOf' = [userOf EXCEPT ![a] = created + 1]
     /\ orphans' = orphans
     /\ Succeed(r, created + 1)
  \/ /\ DbFails
     /\ Fail(r)
     /\ UNCHANGED users
  \/ /\ DbFails
     /\ userOf[a] = 0
     /\ NotCreated(r)

(* authenticate(), when google_tokens has a row that has not expired. *)
AuthenticateKnown(r) ==
  /\ status[r] = "idle"
  /\ Fresh(token[r])
  /\ LookupUser(r, rows[token[r]].sub)
  /\ UNCHANGED <<token, owner, spent, stage, refresh, rows>>

(* authenticate(), when it has none, or one that has expired: the row's    *)
(* refresh token is read now and used when the reply is there.             *)
AuthenticateNew(r) ==
  /\ status[r] = "idle"
  /\ ~Fresh(token[r])
  /\ status' = [status EXCEPT ![r] = "waiting"]
  /\ stage' = [stage EXCEPT ![r] = "token"]
  /\ refresh' = [refresh EXCEPT ![r] = token[r] \in DOMAIN rows /\ rows[token[r]].refresh]
  /\ UNCHANGED <<token, owner, spent, database, userId>>

(* authenticate() whose lookup of the token fails. *)
AuthenticateFails(r) ==
  /\ DbFails
  /\ status[r] = "idle"
  /\ Fail(r)
  /\ UNCHANGED <<token, owner, spent, stage, refresh, database>>

(* The reply of the token endpoint is good, and the account is asked for.  *)
(* Google exchanges a code once, and may add a refresh token to it.        *)
TokenGranted(r) ==
  /\ stage[r] = "token"
  /\ stage' = [stage EXCEPT ![r] = "info"]
  /\ IF refresh[r]
     THEN UNCHANGED <<refresh, spent>>
     ELSE /\ token[r] \notin spent
          /\ spent' = spent \cup {token[r]}
          /\ \E given \in BOOLEAN : refresh' = [refresh EXCEPT ![r] = given]
  /\ UNCHANGED <<token, owner, database, status, userId>>

(* Bug: the callback goes on after it has reported the failure. *)
BugTokenRefused(r) ==
  /\ stage[r] = "token"
  /\ stage' = [stage EXCEPT ![r] = "info"]
  /\ Fail(r)
  /\ UNCHANGED <<token, owner, spent, refresh, database>>

(* It is an error, or it is lost; the code may be spent nevertheless. *)
TokenRefused(r) ==
  /\ stage[r] = "token"
  /\ stage' = [stage EXCEPT ![r] = "none"]
  /\ Fail(r)
  /\ spent' \in IF refresh[r] THEN {spent} ELSE {spent, spent \cup {token[r]}}
  /\ UNCHANGED <<token, owner, refresh, database>>

(* INSERT ... ON DUPLICATE KEY UPDATE access_token, expires_at. *)
Stored(t, withRefresh) ==
  [x \in DOMAIN rows \cup {t} |->
     IF x # t THEN rows[x]
     ELSE IF t \in DOMAIN rows THEN [rows[t] EXCEPT !.fresh = TRUE]
     ELSE [sub |-> owner[t], refresh |-> withRefresh, fresh |-> TRUE]]

(* Google says whose token it is. *)
UserInfo(r) ==
  /\ stage[r] = "info"
  /\ stage' = [stage EXCEPT ![r] = "none"]
  /\ rows' = Stored(token[r], refresh[r])
  /\ LookupUser(r, owner[token[r]])
  /\ UNCHANGED <<token, owner, spent, refresh>>

(* Bug: the error is logged and nobody is told. *)
BugUserInfoRefused(r) ==
  /\ stage[r] = "info"
  /\ stage' = [stage EXCEPT ![r] = "none"]
  /\ UNCHANGED <<token, owner, spent, refresh, database, status, userId>>

(* It does not, or the row cannot be stored. *)
UserInfoRefused(r) ==
  /\ stage[r] = "info"
  /\ stage' = [stage EXCEPT ![r] = "none"]
  /\ Fail(r)
  /\ UNCHANGED <<token, owner, spent, refresh, database>>

Expire(t) ==
  /\ Fresh(t)
  /\ rows' = [rows EXCEPT ![t].fresh = FALSE]
  /\ UNCHANGED <<token, owner, spent, stage, refresh, users, status, userId>>

(* The process ends: nobody will receive the replies. *)
Restart ==
  /\ stage' = [r \in Requests |-> "none"]
  /\ status' = [r \in Requests |-> IF status[r] = "waiting" THEN "lost" ELSE status[r]]
  /\ UNCHANGED <<token, owner, spent, refresh, database, userId>>

Reply(r) == TokenGranted(r) \/ TokenRefused(r) \/ UserInfo(r) \/ UserInfoRefused(r)

GoogleNext ==
  \/ \E r \in Requests : \/ AuthenticateKnown(r) \/ AuthenticateNew(r) \/ AuthenticateFails(r)
                         \/ Reply(r)
  \/ \E t \in Tokens : Expire(t)
  \/ Restart

(* QNetworkReply emits finished for every request, with an error if need   *)
(* be, so a reply that is awaited is handled in the end.                   *)
GoogleSpec ==
  /\ GoogleInit /\ [][GoogleNext]_authVars
  /\ \A r \in Requests : WF_authVars(Reply(r))

-----------------------------------------------------------------------------
(* Types; and a reply is awaited for exactly the requests that wait for    *)
(* their answer: none is answered before it, and none is forgotten.        *)
GoogleTypeOK ==
  /\ token \in [Requests -> Tokens]
  /\ owner \in [Tokens -> Accounts]
  /\ spent \subseteq Tokens
  /\ stage \in [Requests -> {"none", "token", "info"}]
  /\ refresh \in [Requests -> BOOLEAN]
  /\ DOMAIN rows \subseteq Tokens /\ rows \in [DOMAIN rows -> Rows]
  /\ userOf \in [Accounts -> Nat]
  /\ created \in Nat /\ orphans \subseteq 1 .. created
  /\ status \in [Requests -> {"idle", "waiting", "accepted", "rejected", "lost"}]
  /\ userId \in [Requests -> Nat]
  /\ \A r \in Requests : stage[r] # "none" <=> status[r] = "waiting"

(* Every user row belongs to exactly one account: two devices that sign in *)
(* for the first time at once, with codes of their own, create one user    *)
(* (lookupUserFromSub).  Only the user of a failed INSERT INTO             *)
(* google_users belongs to none, and no account is ever given that one.    *)
OneUserPerAccount ==
  LET owners(u) == {a \in Accounts : userOf[a] = u}
  IN  /\ \A u \in 1 .. created : Cardinality(owners(u)) = IF u \in orphans THEN 0 ELSE 1
      /\ \A a \in Accounts : userOf[a] <= created

(* AuthService is what ChatServer expects, and what it gets: though frames *)
(* share codes, replies come in any order, tokens expire and statements    *)
(* fail, a request is answered at most once, with the user of its account, *)
(* and is always answered unless the server could not create the user.     *)
Service == INSTANCE AuthService WITH
  account <- [r \in Requests |-> owner[token[r]]],
  UserIds <- 1 .. Cardinality(Requests)

ImplementsService == Service!ServiceSpec

=============================================================================
