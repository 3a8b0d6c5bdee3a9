-------------------------- MODULE GoogleAuthProofs --------------------------
(***************************************************************************)
(* Proofs about GoogleAuth, for any number of requests, codes and          *)
(* accounts, whatever Google answers and whichever statements fail.        *)
(*                                                                         *)
(* The inductive invariant adds to the types that the row of a code is     *)
(* that of its owner, and that userOf is a bijection between the accounts  *)
(* that have a user and the users that are no orphans.                     *)
(***************************************************************************)
EXTENDS GoogleAuth, FiniteSetTheorems, TLAPS

RowsOwned == \A t \in DOMAIN rows : rows[t].sub = owner[t]

UsersPaired ==
  /\ \A a \in Accounts : userOf[a] \in 0 .. created \ orphans
  /\ \A a, b \in Accounts : userOf[a] = userOf[b] /\ userOf[a] # 0 => a = b
  /\ \A u \in 1 .. created \ orphans : \E a \in Accounts : userOf[a] = u

GoogleInv == GoogleTypeOK /\ RowsOwned /\ UsersPaired

(* The refinement mapping of the run, with all ids a user can get. *)
Promise == INSTANCE AuthService WITH
  account <- [r \in Requests |-> owner[token[r]]],
  UserIds <- Nat \ {0}

-----------------------------------------------------------------------------
(* lookupUserFromSub, whatever statement fails in it. *)
LEMMA LookupUserInv ==
  ASSUME GoogleTypeOK, UsersPaired, NEW r \in Requests, NEW a \in Accounts, LookupUser(r, a)
  PROVE  /\ UsersPaired'
         /\ userOf' \in [Accounts -> Nat]
         /\ created' \in Nat /\ orphans' \subseteq 1 .. created'
         /\ status' \in [Requests -> {"idle", "waiting", "accepted", "rejected", "lost"}]
         /\ status'[r] # "waiting" /\ \A q \in Requests \ {r} : status'[q] = status[q]
         /\ userId' \in [Requests -> Nat]
<1> USE DEF GoogleTypeOK
<1>1. CASE /\ UNCHANGED users
           /\ Fail(r) \/ (userOf[a] # 0 /\ Succeed(r, userOf[a]))
  BY <1>1 DEF users, Fail, Succeed, UsersPaired
<1>2. CASE /\ userOf[a] = 0
           /\ created' = created + 1 /\ userOf' = [userOf EXCEPT ![a] = created + 1]
           /\ orphans' = orphans /\ Succeed(r, created + 1)
  <2>1. created + 1 \in Nat /\ created + 1 \notin orphans
    OBVIOUS
  <2>2. UsersPaired'
    <3>1. \A b \in Accounts : userOf'[b] = IF b = a THEN created + 1 ELSE userOf[b]
      BY <1>2
    <3>2. ASSUME NEW b \in Accounts
          PROVE  userOf'[b] \in 0 .. created' \ orphans'
      BY <1>2, <2>1, <3>1 DEF UsersPaired
    <3>3. ASSUME NEW b \in Accounts, NEW c \in Accounts, userOf'[b] = userOf'[c], userOf'[b] # 0
          PROVE  b = c
      BY <1>2, <3>1, <3>3 DEF UsersPaired
    <3>4. ASSUME NEW u \in 1 .. created' \ orphans'
          PROVE  \E b \in Accounts : userOf'[b] = u
      <4>1. CASE u = created + 1
        BY <3>1, <4>1
      <4>2. CASE u # created + 1
        <5>1. u \in 1 .. created \ orphans /\ u # 0
          BY <1>2, <4>2
        <5>2. PICK b \in Accounts : userOf[b] = u
          BY <5>1 DEF UsersPaired
        <5> QED
          BY <1>2, <3>1, <5>1, <5>2
      <4> QED
        BY <4>1, <4>2
    <3> QED
      BY <3>2, <3>3, <3>4 DEF UsersPaired
  <2> QED
    BY <1>2, <2>1, <2>2 DEF Succeed
<1>3. CASE userOf[a] = 0 /\ NotCreated(r)
  <2>1. created' \in Nat /\ orphans' \subseteq 1 .. created' /\ userOf' = userOf
        /\ 1 .. created' \ orphans' = 1 .. created \ orphans
    BY <1>3 DEF NotCreated
  <2>2. UsersPaired'
    <3>1. \A b \in Accounts : userOf[b] \in 0 .. created' \ orphans'
      BY <1>3 DEF NotCreated, UsersPaired
    <3> QED
      BY <2>1, <3>1 DEF UsersPaired
  <2> QED
    BY <1>3, <2>1, <2>2 DEF NotCreated
<1> QED
  BY <1>1, <1>2, <1>3 DEF LookupUser

LEMMA FreshRow ==
  ASSUME GoogleInv, NEW r \in Requests, Fresh(token[r])
  PROVE  rows[token[r]].sub = owner[token[r]] /\ owner[token[r]] \in Accounts
BY DEF GoogleInv, GoogleTypeOK, RowsOwned, Fresh

LEMMA StoredRows ==
  ASSUME GoogleInv, NEW t \in Tokens, NEW withRefresh \in BOOLEAN, rows' = Stored(t, withRefresh),
         owner' = owner
  PROVE  /\ DOMAIN rows' \subseteq Tokens /\ rows' \in [DOMAIN rows' -> Rows]
         /\ RowsOwned'
<1> USE DEF GoogleInv, GoogleTypeOK
<1>1. DOMAIN rows' = DOMAIN rows \cup {t}
  BY DEF Stored
<1>2. ASSUME NEW x \in DOMAIN rows'
      PROVE  rows'[x] \in Rows /\ rows'[x].sub = owner[x]
  <2>1. CASE x # t
    BY <1>1, <1>2, <2>1 DEF Stored, RowsOwned
  <2>2. CASE x = t /\ t \in DOMAIN rows
    <3>1. rows[t] \in Rows
      BY <2>2
    <3>2. rows'[t] = [rows[t] EXCEPT !.fresh = TRUE]
      BY <2>2 DEF Stored
    <3> QED
      BY <2>2, <3>1, <3>2 DEF Rows, RowsOwned
  <2>3. CASE x = t /\ t \notin DOMAIN rows
    <3>1. rows'[t] = [sub |-> owner[t], refresh |-> withRefresh, fresh |-> TRUE]
      BY <2>3 DEF Stored
    <3> QED
      BY <2>3, <3>1 DEF Rows
  <2> QED
    BY <2>1, <2>2, <2>3
<1> QED
  BY <1>1, <1>2 DEF RowsOwned, Stored

-----------------------------------------------------------------------------
(* The handlers. *)
LEMMA AuthenticateInv ==
  ASSUME GoogleInv, NEW r \in Requests,
         AuthenticateKnown(r) \/ AuthenticateNew(r) \/ AuthenticateFails(r)
  PROVE  GoogleInv'
<1> USE DEF GoogleInv
<1>1. CASE AuthenticateKnown(r)
  <2>1. LookupUser(r, owner[token[r]]) /\ owner[token[r]] \in Accounts
    BY <1>1, FreshRow DEF AuthenticateKnown
  <2>2. stage[r] = "none" /\ UNCHANGED stage
    BY <1>1 DEF AuthenticateKnown, GoogleTypeOK
  <2> QED
    BY <1>1, <2>1, <2>2, LookupUserInv DEF AuthenticateKnown, GoogleTypeOK, RowsOwned
<1>2. CASE AuthenticateNew(r)
  <2>1. (token[r] \in DOMAIN rows /\ rows[token[r]].refresh) \in BOOLEAN
    OBVIOUS
  <2>2. refresh' \in [Requests -> BOOLEAN]
    BY <1>2, <2>1, Zenon DEF AuthenticateNew, GoogleTypeOK
  <2>3. UNCHANGED <<rows, owner, userOf, created, orphans>>
    BY <1>2 DEF AuthenticateNew, database, users
  <2>4. RowsOwned' /\ UsersPaired'
    BY <2>3 DEF RowsOwned, UsersPaired
  <2>5. /\ stage' = [stage EXCEPT ![r] = "token"] /\ status' = [status EXCEPT ![r] = "waiting"]
        /\ UNCHANGED <<token, spent, userId>>
    BY <1>2 DEF AuthenticateNew
  <2> QED
    BY <2>2, <2>3, <2>4, <2>5 DEF GoogleTypeOK
<1>3. CASE AuthenticateFails(r)
  BY <1>3 DEF AuthenticateFails, Fail, database, users, GoogleTypeOK, RowsOwned, UsersPaired
<1> QED
  BY <1>1, <1>2, <1>3

LEMMA ReplyInv ==
  ASSUME GoogleInv, NEW r \in Requests, Reply(r)
  PROVE  GoogleInv'
<1> USE DEF GoogleInv
<1>1. CASE TokenGranted(r)
  <2>1. UNCHANGED <<token, owner, rows, userOf, created, orphans, status, userId>>
    BY <1>1 DEF TokenGranted, database, users
  <2>2. refresh' \in [Requests -> BOOLEAN] /\ spent' \subseteq Tokens
    BY <1>1, <2>1 DEF TokenGranted, GoogleTypeOK
  <2>3. stage' = [stage EXCEPT ![r] = "info"] /\ stage[r] = "token"
    BY <1>1 DEF TokenGranted
  <2> QED
    BY <2>1, <2>2, <2>3 DEF GoogleTypeOK, RowsOwned, UsersPaired
<1>2. CASE TokenRefused(r)
  <2>1. spent' \subseteq Tokens
    BY <1>2 DEF TokenRefused, GoogleTypeOK
  <2>2. stage' = [stage EXCEPT ![r] = "none"] /\ status' = [status EXCEPT ![r] = "rejected"]
    BY <1>2 DEF TokenRefused, Fail
  <2> QED
    BY <1>2, <2>1, <2>2
    DEF TokenRefused, Fail, database, users, GoogleTypeOK, RowsOwned, UsersPaired
<1>3. CASE UserInfo(r)
  <2>1. token[r] \in Tokens /\ owner[token[r]] \in Accounts /\ refresh[r] \in BOOLEAN
    BY DEF GoogleTypeOK
  <2>2. LookupUser(r, owner[token[r]]) /\ rows' = Stored(token[r], refresh[r]) /\ owner' = owner
    BY <1>3 DEF UserInfo
  <2>3. /\ DOMAIN rows' \subseteq Tokens /\ rows' \in [DOMAIN rows' -> Rows]
        /\ RowsOwned'
    BY <2>1, <2>2, StoredRows, Zenon
  <2>4. stage' = [stage EXCEPT ![r] = "none"]
    BY <1>3 DEF UserInfo
  <2> QED
    BY <1>3, <2>1, <2>2, <2>3, <2>4, LookupUserInv DEF UserInfo, GoogleTypeOK
<1>4. CASE UserInfoRefused(r)
  BY <1>4 DEF UserInfoRefused, Fail, database, users, GoogleTypeOK, RowsOwned, UsersPaired
<1> QED
  BY <1>1, <1>2, <1>3, <1>4 DEF Reply

LEMMA OtherInv ==
  ASSUME GoogleInv, Restart \/ UNCHANGED authVars \/ \E t \in Tokens : Expire(t)
  PROVE  GoogleInv'
<1> USE DEF GoogleInv
<1>1. CASE Restart
  <2>1. UNCHANGED <<token, owner, spent, refresh, rows, userOf, created, orphans, userId>>
    BY <1>1 DEF Restart, database, users
  <2>2. stage' = [r \in Requests |-> "none"]
    BY <1>1 DEF Restart
  <2>3. /\ status' \in [Requests -> {"idle", "waiting", "accepted", "rejected", "lost"}]
        /\ \A r \in Requests : status'[r] # "waiting"
    BY <1>1 DEF Restart, GoogleTypeOK
  <2> QED
    BY <2>1, <2>2, <2>3 DEF GoogleTypeOK, RowsOwned, UsersPaired
<1>2. CASE UNCHANGED authVars
  BY <1>2 DEF authVars, database, users, GoogleTypeOK, RowsOwned, UsersPaired
<1>3. ASSUME NEW t \in Tokens, Expire(t) PROVE GoogleInv'
  <2>1. /\ rows' = [rows EXCEPT ![t].fresh = FALSE] /\ t \in DOMAIN rows
        /\ UNCHANGED <<token, owner, spent, stage, refresh, userOf, created, orphans, status, userId>>
    BY <1>3 DEF Expire, Fresh, users
  <2>2. rows[t] \in Rows
    BY <2>1 DEF GoogleTypeOK
  <2>3. [rows[t] EXCEPT !.fresh = FALSE] \in Rows
        /\ [rows[t] EXCEPT !.fresh = FALSE].sub = rows[t].sub
    BY <2>2 DEF Rows
  <2>4. rows' \in [DOMAIN rows' -> Rows] /\ DOMAIN rows' = DOMAIN rows
        /\ \A x \in DOMAIN rows : rows'[x].sub = rows[x].sub
    BY <2>1, <2>3 DEF GoogleTypeOK
  <2> QED
    BY <2>1, <2>4 DEF GoogleTypeOK, RowsOwned, UsersPaired
<1> QED
  BY <1>1, <1>2, <1>3

(* The types, the owners of the rows and the pairing of users and accounts *)
(* hold together in every reachable state (googleauth.cpp).                *)
THEOREM GoogleInvCorrect == GoogleSpec => []GoogleInv
<1>1. GoogleInit => GoogleInv
  BY DEF GoogleInit, GoogleInv, GoogleTypeOK, RowsOwned, UsersPaired
<1>2. GoogleInv /\ [GoogleNext]_authVars => GoogleInv'
  BY AuthenticateInv, ReplyInv, OtherInv DEF GoogleNext
<1> QED
  BY <1>1, <1>2, PTL DEF GoogleSpec

(* Types; and a reply is awaited only for a request that has no answer.    *)
THEOREM GoogleTypeCorrect == GoogleSpec => []GoogleTypeOK
<1>1. GoogleInv => GoogleTypeOK
  BY DEF GoogleInv
<1> QED
  BY <1>1, GoogleInvCorrect, PTL

(* lookupUserFromSub gives every user to one account, however many devices *)
(* sign in for the first time at once.                                     *)
THEOREM OneUserCorrect == GoogleSpec => []OneUserPerAccount
<1>1. GoogleInv => OneUserPerAccount
  <2> SUFFICES ASSUME GoogleInv PROVE OneUserPerAccount
    OBVIOUS
  <2> DEFINE owners(u) == {a \in Accounts : userOf[a] = u}
  <2>1. ASSUME NEW u \in 1 .. created, u \in orphans
        PROVE  Cardinality(owners(u)) = 0
    <3>1. owners(u) = {}
      BY <2>1 DEF GoogleInv, UsersPaired
    <3> QED
      BY <3>1, FS_EmptySet
  <2>2. ASSUME NEW u \in 1 .. created, u \notin orphans
        PROVE  Cardinality(owners(u)) = 1
    <3>1. PICK a \in Accounts : userOf[a] = u
      BY <2>2 DEF GoogleInv, UsersPaired
    <3>2. owners(u) = {a}
      BY <3>1 DEF GoogleInv, UsersPaired
    <3> QED
      BY <3>2, FS_Singleton
  <2>3. \A a \in Accounts : userOf[a] <= created
    BY DEF GoogleInv, GoogleTypeOK, UsersPaired
  <2> QED
    BY <2>1, <2>2, <2>3 DEF OneUserPerAccount
<1> QED
  BY <1>1, GoogleInvCorrect, PTL

-----------------------------------------------------------------------------
(* What the answers of the handlers are to the caller. *)
LEMMA LookupUserAnswers ==
  ASSUME GoogleInv, NEW r \in Requests, LookupUser(r, owner[token[r]]),
         status[r] \in {"idle", "waiting"}, UNCHANGED <<token, owner>>
  PROVE  Promise!ServiceNext
<1> DEFINE a == owner[token[r]]
           accounts == [q \in Requests |-> owner[token[q]]]
<1> USE DEF GoogleInv, GoogleTypeOK
<1>1. a \in Accounts /\ accounts[r] = a /\ UNCHANGED accounts
  OBVIOUS
<1> HIDE DEF a
<1>2. CASE userOf[a] # 0 /\ Succeed(r, userOf[a]) /\ UNCHANGED users
  <2>1. Promise!Accept(r)
    BY <1>1, <1>2 DEF Succeed, users, Promise!Accept
  <2> QED
    BY <1>1, <2>1 DEF Promise!ServiceNext
<1>3. CASE /\ userOf[a] = 0
           /\ created' = created + 1 /\ userOf' = [userOf EXCEPT ![a] = created + 1]
           /\ Succeed(r, created + 1)
  <2>1. created + 1 \in Nat \ {0} /\ \A b \in Accounts : userOf[b] # created + 1
    BY DEF UsersPaired
  <2>2. userOf'[a] = created + 1
    BY <1>1, <1>3
  <2>3. Promise!Accept(r)
    BY <1>1, <1>3, <2>1, <2>2 DEF Succeed, Promise!Accept
  <2> QED
    BY <1>1, <2>3 DEF Promise!ServiceNext
<1>4. CASE UNCHANGED <<userOf, userId>> /\ status' = [status EXCEPT ![r] = "rejected"]
  <2>1. Promise!Reject(r)
    BY <1>4 DEF Promise!Reject
  <2> QED
    BY <1>1, <2>1 DEF Promise!ServiceNext
<1>5. CASE /\ userOf[a] = 0
           /\ UNCHANGED <<userOf, userId>> /\ status' = [status EXCEPT ![r] = "lost"]
  <2>1. Promise!Drop(r)
    BY <1>1, <1>5 DEF Promise!Drop
  <2> QED
    BY <1>1, <2>1 DEF Promise!ServiceNext
<1> QED
  BY <1>2, <1>3, <1>4, <1>5 DEF LookupUser, NotCreated, Fail, users, a

LEMMA FailAnswers ==
  ASSUME GoogleInv, NEW r \in Requests, Fail(r), status[r] \in {"idle", "waiting"},
         UNCHANGED <<token, owner, userOf>>
  PROVE  Promise!ServiceNext
<1>1. Promise!Reject(r)
  BY DEF Fail, Promise!Reject
<1> QED
  BY <1>1 DEF Promise!ServiceNext

(* The part of AuthService without fairness is implemented for any number  *)
(* of requests, codes and accounts: at most one answer each, and with the  *)
(* user of the account.  That an answer comes is left to the run google.   *)
THEOREM AnswersImplemented ==
  GoogleSpec => Promise!ServiceInit /\ [][Promise!ServiceNext]_(Promise!serviceVars)
<1>1. GoogleInit => Promise!ServiceInit
  BY DEF GoogleInit, Promise!ServiceInit
<1>2. ASSUME GoogleInv, [GoogleNext]_authVars
      PROVE  [Promise!ServiceNext]_(Promise!serviceVars)
  <2> USE DEF Promise!serviceVars, Promise!answers
  <2>1. ASSUME NEW r \in Requests, AuthenticateKnown(r)
        PROVE  Promise!ServiceNext
    BY <1>2, <2>1, FreshRow, LookupUserAnswers DEF AuthenticateKnown
  <2>2. ASSUME NEW r \in Requests, AuthenticateNew(r)
        PROVE  Promise!ServiceNext
    <3>1. Promise!Wait(r) /\ UNCHANGED <<token, owner>>
      BY <2>2 DEF AuthenticateNew, database, users, Promise!Wait
    <3> QED
      BY <3>1 DEF Promise!ServiceNext
  <2>3. ASSUME NEW r \in Requests, AuthenticateFails(r)
        PROVE  Promise!ServiceNext
    BY <1>2, <2>3, FailAnswers DEF AuthenticateFails, database, users
  <2>4. ASSUME NEW r \in Requests, TokenGranted(r)
        PROVE  UNCHANGED <<token, owner, status, userId, userOf>>
    BY <2>4 DEF TokenGranted, database, users
  <2>5. ASSUME NEW r \in Requests, TokenRefused(r) \/ UserInfoRefused(r)
        PROVE  Promise!ServiceNext
    <3>1. status[r] = "waiting"
      BY <1>2, <2>5 DEF TokenRefused, UserInfoRefused, GoogleInv, GoogleTypeOK
    <3> QED
      BY <1>2, <2>5, <3>1, FailAnswers DEF TokenRefused, UserInfoRefused, database, users
  <2>6. ASSUME NEW r \in Requests, UserInfo(r)
        PROVE  Promise!ServiceNext
    <3>1. status[r] = "waiting"
      BY <1>2, <2>6 DEF UserInfo, GoogleInv, GoogleTypeOK
    <3> QED
      BY <1>2, <2>6, <3>1, LookupUserAnswers DEF UserInfo
  <2>7. CASE Restart
    <3>1. Promise!LoseWaiting /\ UNCHANGED <<token, owner>>
      BY <2>7 DEF Restart, database, users, Promise!LoseWaiting
    <3> QED
      BY <3>1 DEF Promise!ServiceNext
  <2>8. ASSUME UNCHANGED authVars \/ \E t \in Tokens : Expire(t)
        PROVE  UNCHANGED <<token, owner, status, userId, userOf>>
    BY <2>8 DEF authVars, Expire, database, users
  <2> QED
    BY <1>2, <2>1, <2>2, <2>3, <2>4, <2>5, <2>6, <2>7, <2>8 DEF GoogleNext, Reply
<1> QED
  BY GoogleInvCorrect, <1>1, <1>2, PTL DEF GoogleSpec

=============================================================================
