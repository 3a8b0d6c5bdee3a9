---------------------------- MODULE PayPalProofs ----------------------------
(***************************************************************************)
(* Proofs about PayPal, for any requests, ids, orders and texts, and       *)
(* whichever order PayPal takes each id for: a client's id is published    *)
(* once at most, and PayPal implements Donations.                          *)
(***************************************************************************)
EXTENDS PayPal, TLAPS

(* An answer that the order was paid for is true. *)
HonestAnswers ==
  \A r \in Requests : answer[r] = "completed" => Named[frame[r].id] \in paid

PayPalInv == PayPalTypeOK /\ PublishedOnce /\ HonestAnswers

-----------------------------------------------------------------------------
(* The first half of processPayPal leaves a request in a proper state. *)
LEMMA ProcessType ==
  ASSUME PayPalTypeOK, NEW r \in Requests, NEW w \in BOOLEAN, Process(r, w)
  PROVE  /\ stage' \in [Requests -> Stages] /\ bearer' \in [Requests -> BOOLEAN]
         /\ stage'[r] \in {"done", "order"} /\ \A q \in Requests \ {r} : stage'[q] = stage[q]
BY DEF PayPalTypeOK, Process, Goes, Stages

LEMMA InitInv == PayPalInit => PayPalInv
<1> SUFFICES ASSUME PayPalInit PROVE PayPalInv
  OBVIOUS
<1> USE PayPalAssumption DEF PayPalAssumption
<1>1. PayPalTypeOK
  <2>1. stage \in [Requests -> Stages]
    BY DEF PayPalInit, Stages
  <2>2. bearer \in [Requests -> BOOLEAN] /\ token \in BOOLEAN
    BY DEF PayPalInit
  <2>3. answer \in [Requests -> {"none", "unauthorized", "completed", "incomplete", "granted", "error"}]
    BY DEF PayPalInit
  <2>4. published \in [Ids -> Nat]
    BY DEF PayPalInit
  <2>5. faults \in 0 .. MaxFaults
    BY DEF PayPalInit
  <2>6. frame \in [Requests -> [user : Users, id : Ids, text : Texts]]
    BY DEF PayPalInit
  <2>7. transactions \subseteq Ids /\ texts \subseteq Texts /\ banned \subseteq Users
    BY DEF PayPalInit
  <2>8. paid \subseteq Orders /\ aged \subseteq Orders
    BY DEF PayPalInit
  <2>9. \A r \in Requests : stage[r] = "new"
    BY DEF PayPalInit
  <2> QED
    BY <2>1, <2>2, <2>3, <2>4, <2>5, <2>6, <2>7, <2>8, <2>9 DEF PayPalTypeOK
<1>2. PublishedOnce
  BY DEF PayPalInit, PublishedOnce
<1>3. HonestAnswers
  BY DEF PayPalInit, HonestAnswers
<1> QED
  BY <1>1, <1>2, <1>3 DEF PayPalInv

(* Steps of the server and of PayPal keep the types. *)
LEMMA TypeStep ==
  ASSUME PayPalTypeOK, [PayPalNext]_paypalVars
  PROVE  PayPalTypeOK'
<1> USE PayPalAssumption DEF PayPalAssumption, PayPalTypeOK
<1>1. CASE UNCHANGED paypalVars
  BY <1>1 DEF paypalVars, requests, records, orders
<1>2. ASSUME NEW r \in Requests, Donate(r) PROVE PayPalTypeOK'
  <2>1. token \in BOOLEAN /\ Process(r, token)
    BY <1>2 DEF Donate
  <2>2. /\ stage' \in [Requests -> Stages] /\ bearer' \in [Requests -> BOOLEAN]
        /\ stage'[r] \in {"done", "order"} /\ \A q \in Requests \ {r} : stage'[q] = stage[q]
    BY <2>1, ProcessType
  <2> QED
    BY <1>2, <2>2 DEF Donate, records, orders
<1>3. ASSUME NEW r \in Requests, Answer(r) PROVE PayPalTypeOK'
  BY <1>3 DEF Answer, Goes, Stages, records, orders
<1>4. ASSUME NEW r \in Requests, AnswerToken(r) PROVE PayPalTypeOK'
  BY <1>4 DEF AnswerToken, Goes, Stages, records, orders
<1>5. ASSUME NEW r \in Requests, Fault(r) PROVE PayPalTypeOK'
  BY <1>5 DEF Fault, Goes, Stages, records, orders
<1>6. ASSUME NEW r \in Requests, AskToken(r) PROVE PayPalTypeOK'
  BY <1>6 DEF AskToken, Goes, Stages, records, orders
<1>7. ASSUME NEW r \in Requests, Ends(r) PROVE PayPalTypeOK'
  BY <1>7 DEF Ends, Goes, Stages, records, orders
<1>8. ASSUME NEW r \in Requests, Decide(r) PROVE PayPalTypeOK'
  <2>1. frame[r].id \in Ids /\ frame[r].text \in Texts
    OBVIOUS
  <2>2. transactions' \subseteq Ids /\ texts' \subseteq Texts
    BY <1>8, <2>1 DEF Decide, Recorded
  <2>3. published' \in [Ids -> Nat]
    BY <1>8, <2>1 DEF Decide
  <2>4. stage' \in [Requests -> Stages]
    BY <1>8 DEF Decide, Goes, Stages
  <2>5. stage'[r] = "done" /\ \A q \in Requests \ {r} : stage'[q] = stage[q]
    BY <1>8 DEF Decide, Goes
  <2> QED
    BY <1>8, <2>2, <2>3, <2>4, <2>5 DEF Decide, orders
<1>9. ASSUME NEW r \in Requests, TokenReply(r) PROVE PayPalTypeOK'
  <2>1. token' \in BOOLEAN
    BY <1>9 DEF TokenReply
  <2>2. /\ stage' \in [Requests -> Stages] /\ bearer' \in [Requests -> BOOLEAN]
        /\ stage'[r] \in {"done", "order"} /\ \A q \in Requests \ {r} : stage'[q] = stage[q]
    BY <1>9, <2>1, ProcessType DEF TokenReply
  <2> QED
    BY <1>9, <2>1, <2>2 DEF TokenReply, records, orders
<1>10. CASE Expire
  <2>1. faults' \in 0 .. MaxFaults
    BY <1>10 DEF Expire
  <2>2. bearer' \in [Requests -> BOOLEAN] /\ token' \in BOOLEAN
    BY <1>10 DEF Expire
  <2> QED
    BY <1>10, <2>1, <2>2 DEF Expire, records, orders
<1>11. ASSUME NEW o \in Orders, Pay(o) \/ Age(o) PROVE PayPalTypeOK'
  BY <1>11 DEF Pay, Age, requests, records
<1>12. ASSUME NEW u \in Users, Ban(u) PROVE PayPalTypeOK'
  BY <1>12 DEF Ban, requests, records, orders
<1>13. CASE Restart
  <2>1. stage' \in [Requests -> Stages]
    BY <1>13 DEF Restart, Stages
  <2>2. transactions' \subseteq Ids
    BY <1>13 DEF Restart, Recorded
  <2> QED
    BY <1>13, <2>1, <2>2 DEF Restart, orders
<1> QED
  BY <1>1, <1>2, <1>3, <1>4, <1>5, <1>6, <1>7, <1>8, <1>9, <1>10, <1>11, <1>12, <1>13
  DEF PayPalNext, Callback

(* The records change in Decide and in a restart in the middle of it. *)
LEMMA RecordsStep ==
  ASSUME PayPalTypeOK, [PayPalNext]_paypalVars
  PROVE  \/ UNCHANGED records
         \/ \E r \in Requests : Decide(r)
         \/ Restart
BY DEF PayPalNext, Callback, Donate, Answer, AnswerToken, Fault, AskToken, Ends, TokenReply,
       Expire, Pay, Age, Ban, paypalVars, records

LEMMA PublishedStep ==
  ASSUME PayPalInv, [PayPalNext]_paypalVars
  PROVE  PublishedOnce'
<1> USE DEF PayPalInv, PayPalTypeOK, PublishedOnce
<1>1. CASE UNCHANGED records
  BY <1>1 DEF records
<1>2. ASSUME NEW r \in Requests, Decide(r) PROVE PublishedOnce'
  BY <1>2 DEF Decide, Insertable, Recorded
<1>3. CASE Restart
  BY <1>3 DEF Restart, Recorded
<1> QED
  BY <1>1, <1>2, <1>3, RecordsStep

LEMMA HonestStep ==
  ASSUME PayPalInv, [PayPalNext]_paypalVars
  PROVE  HonestAnswers'
<1> USE DEF PayPalInv, PayPalTypeOK, HonestAnswers
<1>1. CASE UNCHANGED <<frame, answer, paid>>
  BY <1>1
<1>2. ASSUME NEW r \in Requests, Answer(r) \/ AnswerToken(r) \/ Fault(r) PROVE HonestAnswers'
  BY <1>2 DEF Answer, AnswerToken, Fault, orders
<1>3. ASSUME NEW o \in Orders, Pay(o) PROVE HonestAnswers'
  BY <1>3 DEF Pay, requests
<1> QED
  BY <1>1, <1>2, <1>3
  DEF PayPalNext, Callback, Donate, AskToken, Ends, Decide, TokenReply, Expire, Age, Ban, Restart,
      paypalVars, requests, orders

-----------------------------------------------------------------------------
(* The invariant that the theorems below draw on. *)
THEOREM InvCorrect == PayPalSpec => []PayPalInv
<1>1. PayPalInv /\ [PayPalNext]_paypalVars => PayPalInv'
  BY TypeStep, PublishedStep, HonestStep DEF PayPalInv
<1> QED
  BY InitInv, <1>1, PTL DEF PayPalSpec

(* processPayPal: every variable stays within its type. *)
THEOREM PayPalTypeCorrect == PayPalSpec => []PayPalTypeOK
BY InvCorrect, PTL DEF PayPalInv

(* An id of a client is published once at most (the INSERT into            *)
(* transactions, whose key it is).                                         *)
THEOREM PublishedOnceCorrect == PayPalSpec => []PublishedOnce
BY InvCorrect, PTL DEF PayPalInv

(* A request decides the id it names, and no other. *)
LEMMA DecideImplements ==
  ASSUME PayPalInv, NEW r \in Requests, Decide(r)
  PROVE  \E i \in Ids : Promise!Accept(i) \/ Promise!Spend(i)
<1> DEFINE i == frame[r].id
<1> USE DEF PayPalInv, PayPalTypeOK
<1>1. i \in Ids /\ i \notin transactions /\ transactions' = transactions \cup {i}
  BY DEF Decide, Insertable, Recorded
<1>2. paid' = paid
  BY DEF Decide, orders
<1>3. \A q \in Ids \ {i} : published'[q] = published[q]
  BY <1>1 DEF Decide
<1>4. Fate[i] = "open"
  BY <1>1 DEF Fate
<1>5. CASE Valid(r)
  <2>1. published'[i] > 0
    BY <1>1, <1>5 DEF Decide
  <2>2. Fate' = [Fate EXCEPT ![i] = "accepted"]
    BY <1>1, <1>3, <2>1 DEF Fate
  <2>3. Named[i] \in paid
    BY <1>5 DEF Valid, HonestAnswers
  <2> QED
    BY <1>1, <1>2, <1>4, <2>2, <2>3 DEF Promise!Accept
<1>6. CASE ~Valid(r)
  <2>1. published'[i] = 0
    BY <1>1, <1>6 DEF Decide, PublishedOnce
  <2>2. Fate' = [Fate EXCEPT ![i] = "spent"]
    <3>1. Fate'[i] = "spent"
      BY <1>1, <1>3, <2>1 DEF Fate
    <3>2. \A q \in Ids \ {i} : Fate'[q] = Fate[q]
      BY <1>1, <1>3, <2>1 DEF Fate
    <3> QED
      BY <1>1, <2>1, <3>1, <3>2 DEF Fate
  <2> QED
    BY <1>1, <1>2, <1>4, <2>2 DEF Promise!Spend
<1> QED
  BY <1>5, <1>6

(* A restart after the INSERT spends the id. *)
LEMMA RestartImplements ==
  ASSUME PayPalInv, Restart
  PROVE  [Promise!DonationsNext]_(Promise!donationVars)
<1> USE DEF PayPalInv, PayPalTypeOK
<1>1. published' = published /\ paid' = paid
  BY DEF Restart, orders
<1>2. CASE transactions' = transactions
  BY <1>1, <1>2 DEF Fate, Promise!donationVars
<1>3. ASSUME NEW r \in Requests, Insertable(r), transactions' = Recorded(r)
      PROVE  Promise!Spend(frame[r].id)
  <2> DEFINE i == frame[r].id
  <2>1. i \in Ids /\ i \notin transactions /\ transactions' = transactions \cup {i}
    BY <1>3 DEF Insertable, Recorded
  <2>2. published[i] = 0
    BY <2>1 DEF PublishedOnce
  <2>3. Fate[i] = "open"
    BY <2>1 DEF Fate
  <2>4. Fate' = [Fate EXCEPT ![i] = "spent"]
    <3>1. Fate'[i] = "spent"
      BY <1>1, <2>1, <2>2 DEF Fate
    <3>2. \A q \in Ids \ {i} : Fate'[q] = Fate[q]
      BY <1>1, <2>1, <2>2 DEF Fate
    <3> QED
      BY <1>1, <2>1, <3>1, <3>2 DEF Fate
  <2> QED
    BY <1>1, <2>3, <2>4 DEF Promise!Spend
<1> QED
  BY <1>2, <1>3 DEF Restart, Promise!DonationsNext

(* PayPal implements Donations (the refinement of the run paypal). *)
THEOREM DonationsImplemented == PayPalSpec => ImplementsDonations
<1>1. PayPalInit => Promise!DonationsInit
  BY DEF PayPalInit, Promise!DonationsInit, Fate
<1>2. ASSUME PayPalInv, [PayPalNext]_paypalVars
      PROVE  [Promise!DonationsNext]_(Promise!donationVars)
  <2>1. ASSUME NEW o \in Orders, Pay(o) PROVE Promise!Pay(o)
    BY <2>1 DEF Pay, Promise!Pay, Fate, records
  <2>2. CASE UNCHANGED <<transactions, published, paid>>
    BY <2>2 DEF Fate, Promise!donationVars
  <2>3. \/ UNCHANGED <<transactions, published, paid>>
        \/ \E r \in Requests : Decide(r)
        \/ \E o \in Orders : Pay(o)
        \/ Restart
    BY <1>2 DEF PayPalNext, Callback, Donate, Answer, AnswerToken, Fault, AskToken, Ends,
      TokenReply, Expire, Age, Ban, paypalVars, records, orders
  <2> QED
    BY <1>2, <2>1, <2>2, <2>3, DecideImplements, RestartImplements DEF Promise!DonationsNext
<1> QED
  BY InvCorrect, <1>1, <1>2, PTL DEF PayPalSpec, ImplementsDonations, Promise!DonationsSpec

=============================================================================
