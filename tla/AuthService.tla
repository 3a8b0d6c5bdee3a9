---------------------------- MODULE AuthService ----------------------------
(***************************************************************************)
(* What ChatServer expects of an authentication module: a request made for *)
(* an account at the service is answered once, with the user the account   *)
(* has had since its first success or with a failure, unless that user     *)
(* cannot be created.  Tokens, databases and HTTP are the business of      *)
(* GoogleAuth, which implements this module.                               *)
(***************************************************************************)
CONSTANTS
  Requests,  \* calls of authenticate()
  Accounts,  \* accounts at the service
  UserIds    \* ids of users, none of which is 0

VARIABLES
  status,   \* of each request
  account,  \* whose token it presented, once made
  userId,   \* the user it was answered with, 0 for none
  userOf    \* the user of each account, 0 before its first success

answers == <<status, userId, userOf>>
serviceVars == <<answers, account>>

ServiceInit ==
  /\ status = [r \in Requests |-> "idle"]
  /\ account \in [Requests -> Accounts]
  /\ userId = [r \in Requests |-> 0]
  /\ userOf = [a \in Accounts |-> 0]

(* An account without a user gets one that no account has. *)
Accept(r) ==
  /\ status[r] \in {"idle", "waiting"}
  /\ status' = [status EXCEPT ![r] = "accepted"]
  /\ IF userOf[account[r]] # 0
     THEN userOf' = userOf
     ELSE \E u \in UserIds : /\ \A a \in Accounts : userOf[a] # u
                              /\ userOf' = [userOf EXCEPT ![account[r]] = u]
  /\ userId' = [userId EXCEPT ![r] = userOf'[account[r]]]

Reject(r) ==
  /\ status[r] \in {"idle", "waiting"}
  /\ status' = [status EXCEPT ![r] = "rejected"]
  /\ UNCHANGED <<userId, userOf>>

Wait(r) ==
  /\ status[r] = "idle"
  /\ status' = [status EXCEPT ![r] = "waiting"]
  /\ UNCHANGED <<userId, userOf>>

(* It is never answered: for an account without a user, whose creation     *)
(* failed.                                                                 *)
Drop(r) ==
  /\ status[r] \in {"idle", "waiting"}
  /\ userOf[account[r]] = 0
  /\ status' = [status EXCEPT ![r] = "lost"]
  /\ UNCHANGED <<userId, userOf>>

(* The server died with its requests. *)
LoseWaiting ==
  /\ status' = [r \in Requests |-> IF status[r] = "waiting" THEN "lost" ELSE status[r]]
  /\ UNCHANGED <<userId, userOf>>

Answer(r) == status[r] = "waiting" /\ (Accept(r) \/ Reject(r) \/ Drop(r))

ServiceNext ==
  /\ \/ \E r \in Requests : Accept(r) \/ Reject(r) \/ Wait(r) \/ Drop(r)
     \/ LoseWaiting
  /\ account' = account

ServiceSpec ==
  /\ ServiceInit /\ [][ServiceNext]_serviceVars
  /\ \A r \in Requests : WF_answers(Answer(r))

=============================================================================
