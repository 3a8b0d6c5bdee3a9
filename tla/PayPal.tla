------------------------------- MODULE PayPal -------------------------------
(***************************************************************************)
(* Donations (chatserver.cpp:1047-1204): processPayPal reads the donor,    *)
(* asks PayPal for the order with the access token it has, and goes on in  *)
(* the callback of the reply.  A reply of 401 makes it ask for a token,    *)
(* and the callback of that request starts processPayPal again from its    *)
(* first line.  Requests of several donors, or several for one order, are  *)
(* under way at once and share the token, a static variable.               *)
(*                                                                         *)
(* PayPal answers a request (Answer, AnswerToken) before its callback runs *)
(* in the server (Callback).  A request is one frame.                      *)
(*                                                                         *)
(* The order of a frame is a string of the client's.  It becomes a part of *)
(* the URL (line 1084) and the key of table transactions (line 1135); the  *)
(* id in PayPal's reply (line 1151) is compared with neither.  The two are *)
(* therefore kept apart: ids are what frames name and the table records,   *)
(* orders are PayPal's, and several ids may name one order.                *)
(***************************************************************************)
EXTENDS Naturals, FiniteSets

CONSTANTS
  Requests,     \* frames of type "paypal"
  Users,        \* donors; all have names
  Ids,          \* ids of orders as clients send them, the table's keys
  Orders,       \* orders at PayPal
  Named,        \* the order PayPal answers with when asked for an id
  Sound,        \* those with intent CAPTURE, in USD, of at least 2.00
  Texts,        \* messages
  Blocked,      \* those that contain a word of banned_words
  Overlong,     \* those longer than max_chat_length
  SortsAfter,   \* those that as strings are greater than the character
                \* whose code is max_chat_length
  Credentials,  \* TRUE: paypal_client_id and paypal_client_secret are valid
  DbFails,      \* TRUE: the INSERT of a transaction may fail
  MaxFaults     \* bound on tokens that expire and requests that fail

ASSUME PayPalAssumption ==
  /\ Named \in [Ids -> Orders]
  /\ Sound \subseteq Orders
  /\ Blocked \subseteq Texts /\ Overlong \subseteq Texts /\ SortsAfter \subseteq Texts
  /\ Credentials \in BOOLEAN /\ DbFails \in BOOLEAN /\ MaxFaults \in Nat

VARIABLES
  stage,         \* of each request; see Stages
  frame,         \* what it asks for: user, id and text
  bearer,        \* TRUE: it was sent with a token that is good
  answer,        \* what PayPal answered, once it did
  token,         \* TRUE: PP_ACCESS_TOKEN is a good token
  banned,        \* the users whose banned_until is in the future
  transactions,  \* the ids in table transactions
  published,     \* how many donations of each id were published
  texts,         \* and the texts of these
  paid,          \* at PayPal: orders of status COMPLETED,
  aged,          \* and orders created more than five minutes ago
  faults         \* tokens that expired and requests that failed so far

requests == <<stage, frame, bearer, answer>>
records == <<transactions, published, texts>>
orders == <<paid, aged>>
paypalVars == <<requests, token, banned, records, orders, faults>>

(* "order" and "token" are the two requests under way, "ordered" and       *)
(* "tokened" their answers on the way to the callback.                     *)
Stages == {"new", "order", "ordered", "token", "tokened", "done"}

PayPalInit ==
  /\ stage = [r \in Requests |-> "new"]
  /\ frame \in [Requests -> [user : Users, id : Ids, text : Texts]]
  /\ bearer = [r \in Requests |-> FALSE]
  /\ answer = [r \in Requests |-> "none"]
  /\ token = FALSE
  /\ banned = {}
  /\ transactions = {}
  /\ published = [i \in Ids |-> 0]
  /\ texts = {}
  /\ paid = {}
  /\ aged = {}
  /\ faults = 0

Goes(r, s) == stage' = [stage EXCEPT ![r] = s]

-----------------------------------------------------------------------------
(* processPayPal, up to the request for the order.                         *)

(* The donor is read anew every time; withToken is the token by then.      *)
Process(r, withToken) ==
  IF frame[r].user \in banned
  THEN Goes(r, "done") /\ UNCHANGED bearer
  ELSE Goes(r, "order") /\ bearer' = [bearer EXCEPT ![r] = withToken]

Donate(r) ==
  /\ stage[r] = "new"
  /\ Process(r, token)
  /\ UNCHANGED <<frame, answer, token, banned, records, orders, faults>>

-----------------------------------------------------------------------------
(* PayPal.                                                                 *)

(* It answers with the state of the order, or 401.                         *)
Answer(r) ==
  /\ stage[r] = "order"
  /\ Goes(r, "ordered")
  /\ answer' = [answer EXCEPT ![r] =
       CASE ~bearer[r] -> "unauthorized"
         [] bearer[r] /\ Named[frame[r].id] \in paid \ aged -> "completed"
         [] OTHER -> "incomplete"]
  /\ UNCHANGED <<frame, bearer, token, banned, records, orders, faults>>

AnswerToken(r) ==
  /\ stage[r] = "token"
  /\ Goes(r, "tokened")
  /\ answer' = [answer EXCEPT ![r] = IF Credentials THEN "granted" ELSE "error"]
  /\ UNCHANGED <<frame, bearer, token, banned, records, orders, faults>>

(* A request fails in the network or at PayPal, which may have no order of *)
(* that id.                                                                *)
Fault(r) ==
  /\ faults < MaxFaults
  /\ faults' = faults + 1
  /\ stage[r] \in {"order", "token"}
  /\ Goes(r, IF stage[r] = "order" THEN "ordered" ELSE "tokened")
  /\ answer' = [answer EXCEPT ![r] = "error"]
  /\ UNCHANGED <<frame, bearer, token, banned, records, orders>>

(* The tokens granted so far expire. *)
Expire ==
  /\ faults < MaxFaults
  /\ faults' = faults + 1
  /\ token' = FALSE
  /\ bearer' = [r \in Requests |-> FALSE]
  /\ UNCHANGED <<stage, frame, answer, banned, records, orders>>

Pay(o) ==
  /\ paid' = paid \cup {o}
  /\ UNCHANGED <<requests, token, banned, records, aged, faults>>

Age(o) ==
  /\ aged' = aged \cup {o}
  /\ UNCHANGED <<requests, token, banned, records, paid, faults>>

-----------------------------------------------------------------------------
(* The callback of the order request.                                      *)

AskToken(r) ==
  /\ stage[r] = "ordered" /\ answer[r] = "unauthorized"
  /\ Goes(r, "token")
  /\ UNCHANGED <<frame, bearer, answer, token, banned, records, orders, faults>>

(* Any other error, a duplicate, or another error of the INSERT. *)
Ends(r) ==
  /\ stage[r] = "ordered" /\ answer[r] # "unauthorized"
  /\ answer[r] = "error" \/ frame[r].id \in transactions \/ DbFails
  /\ Goes(r, "done")
  /\ UNCHANGED <<frame, bearer, answer, token, banned, records, orders, faults>>

(* Bug: the status is not tested. *)
BugValid(r) ==
  /\ Named[frame[r].id] \in Sound
  /\ frame[r].text \notin SortsAfter \cup Blocked

(* The validations after the INSERT.  The message is compared with a       *)
(* number, which makes it a comparison of strings; its length is not       *)
(* looked at (line 1191).                                                  *)
Valid(r) ==
  /\ answer[r] = "completed"
  /\ Named[frame[r].id] \in Sound
  /\ frame[r].text \notin SortsAfter \cup Blocked

(* Bug: the values of the INSERT are bound in the wrong order. *)
BugRecorded(r) == transactions \cup {frame[r].user}

Recorded(r) == transactions \cup {frame[r].id}

(* Bug: the key is not looked at. *)
BugInsertable(r) == stage[r] = "ordered" /\ answer[r] \in {"completed", "incomplete"}

(* The INSERT succeeds. *)
Insertable(r) ==
  /\ stage[r] = "ordered" /\ answer[r] \in {"completed", "incomplete"}
  /\ frame[r].id \notin transactions

Decide(r) ==
  /\ Insertable(r)
  /\ Goes(r, "done")
  /\ transactions' = Recorded(r)
  /\ published' = IF Valid(r) THEN [published EXCEPT ![frame[r].id] = @ + 1] ELSE published
  /\ texts' = IF Valid(r) THEN texts \cup {frame[r].text} ELSE texts
  /\ UNCHANGED <<frame, bearer, answer, token, banned, orders, faults>>

(* Bug: the token is not stored. *)
BugTokenReply(r) ==
  /\ stage[r] = "tokened"
  /\ token' = token
  /\ Process(r, token)
  /\ UNCHANGED <<frame, answer, banned, records, orders, faults>>

(* The callback of the token request.  A reply without a token, an error,  *)
(* leaves an empty one.                                                    *)
TokenReply(r) ==
  /\ stage[r] = "tokened"
  /\ token' = (answer[r] = "granted")
  /\ Process(r, token')
  /\ UNCHANGED <<frame, answer, banned, records, orders, faults>>

-----------------------------------------------------------------------------
Ban(u) ==
  /\ banned' = (banned \ {u}) \cup ({u} \ banned)
  /\ UNCHANGED <<requests, token, records, orders, faults>>

(* The process ends, and the frames under way with it; or it ends between  *)
(* the INSERT of a transaction and the rest of the callback.               *)
Restart ==
  /\ stage' = [r \in Requests |-> IF stage[r] = "new" THEN "new" ELSE "done"]
  /\ token' = FALSE
  /\ \/ UNCHANGED transactions
     \/ \E r \in Requests : Insertable(r) /\ transactions' = Recorded(r)
  /\ UNCHANGED <<frame, bearer, answer, banned, published, texts, orders, faults>>

(* A granted token may have expired by the time the callback stores it:    *)
(* that is Expire right after it.                                          *)
Callback(r) == AskToken(r) \/ Ends(r) \/ Decide(r) \/ TokenReply(r)

PayPalNext ==
  \/ \E r \in Requests : Donate(r) \/ Answer(r) \/ AnswerToken(r) \/ Fault(r) \/ Callback(r)
  \/ Expire
  \/ \E o \in Orders : Pay(o) \/ Age(o)
  \/ \E u \in Users : Ban(u)
  \/ Restart

(* PayPal answers every request, if with an error, and the event loop runs *)
(* every callback.                                                         *)
PayPalSpec ==
  /\ PayPalInit /\ [][PayPalNext]_paypalVars
  /\ \A r \in Requests : /\ WF_paypalVars(Answer(r) \/ AnswerToken(r) \/ Fault(r))
                         /\ WF_paypalVars(Callback(r))

-----------------------------------------------------------------------------
(* Types; and the answer on the way to a callback is one it handles: that  *)
(* of the other request, which the frame made before, is never taken for   *)
(* it.                                                                     *)
PayPalTypeOK ==
  /\ stage \in [Requests -> Stages]
  /\ frame \in [Requests -> [user : Users, id : Ids, text : Texts]]
  /\ bearer \in [Requests -> BOOLEAN]
  /\ answer \in [Requests -> {"none", "unauthorized", "completed", "incomplete",
                              "granted", "error"}]
  /\ token \in BOOLEAN
  /\ banned \subseteq Users
  /\ transactions \subseteq Ids
  /\ published \in [Ids -> Nat]
  /\ texts \subseteq Texts
  /\ paid \subseteq Orders /\ aged \subseteq Orders
  /\ faults \in 0 .. MaxFaults
  /\ \A r \in Requests :
       /\ stage[r] = "ordered" => answer[r] \in {"unauthorized", "completed", "incomplete", "error"}
       /\ stage[r] = "tokened" => answer[r] \in {"granted", "error"}

(* An id buys one message, however many frames send it, in whatever order  *)
(* their replies come, and across restarts; and what is published was      *)
(* recorded first.  That is so of the ids of clients, the table's keys     *)
(* (line 1135): of an order with several ids it says that it buys no more  *)
(* messages than ids of it were sent.                                      *)
PublishedOnce ==
  \A i \in Ids : published[i] <= IF i \in transactions THEN 1 ELSE 0

(* The fate of an id, as Donations sees it. *)
Fate == [i \in Ids |-> IF i \notin transactions THEN "open"
                       ELSE IF published[i] > 0 THEN "accepted" ELSE "spent"]

Promise == INSTANCE Donations WITH fate <- Fate

(* PayPal implements Donations: what an id became, refused as well as      *)
(* published, it stays, and nothing is published for an unpaid order.      *)
ImplementsDonations == Promise!DonationsSpec

(* Every donation frame comes to an end: whatever it needs a token for, it *)
(* asks for one and is answered, as tokens expire and requests fail.       *)
EveryRequestEnds ==
  \A r \in Requests : stage[r] # "new" ~> stage[r] = "done"

(* "message was too long" (chatserver.cpp:1192): no donation with a        *)
(* message longer than max_chat_length is published.                       *)
LongMessagesRefused == texts \cap Overlong = {}

=============================================================================
