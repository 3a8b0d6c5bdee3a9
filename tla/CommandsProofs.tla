--------------------------- MODULE CommandsProofs ---------------------------
(***************************************************************************)
(* Proofs about Commands, for any names, responses and collation: no       *)
(* sequence of commands, failures and restarts touches a built-in command, *)
(* the two maps agree, and memory and table differ only where a statement  *)
(* failed.                                                                 *)
(***************************************************************************)
EXTENDS Commands, TLAPS

(* What BuiltinsIntact rests on: loadResponses lets a row override what    *)
(* initCommands entered, and addcom never makes such a row.                *)
NoBuiltinRow == \A n \in Builtins : responses[n] = None

CommandsInv ==
  CommandsTypeOK /\ BuiltinsIntact /\ MapsAgree /\ RestartKeeps /\ NoBuiltinRow

LEMMA InitInv == CommandsInit => CommandsInv
<1> SUFFICES ASSUME CommandsInit PROVE CommandsInv
  OBVIOUS
<1> USE CommandsAssumption DEF CommandsAssumption, CommandsInit, NoRows, Loaded
<1>1. CommandsTypeOK
  BY DEF CommandsTypeOK, Rows
<1>2. BuiltinsIntact /\ NoBuiltinRow
  BY DEF BuiltinsIntact, NoBuiltinRow
<1>3. MapsAgree /\ RestartKeeps
  BY DEF MapsAgree, RestartKeeps
<1> QED
  BY <1>1, <1>2, <1>3 DEF CommandsInv

-----------------------------------------------------------------------------
(* What a statement leaves of the table has its types, and its key, if     *)
(* what the statement would make of it does.                               *)
LEMMA ExecutesKeeps ==
  ASSUME CommandsTypeOK, NEW n \in Names, NEW table \in [Names -> Replies \cup {None}],
         NEW succeeds \in BOOLEAN, Executes(n, table, succeeds),
         succeeds => \A m, k \in {i \in Names : table[i] # None} :
                       Collation[m] = Collation[k] => m = k
  PROVE  /\ responses' \in [Names -> Replies \cup {None}]
         /\ \A m, k \in Rows' : Collation[m] = Collation[k] => m = k
         /\ apart' \subseteq {Collation[i] : i \in Names}
BY DEF CommandsTypeOK, Executes, Rows

LEMMA OutcomesBoolean == Outcomes \subseteq BOOLEAN
BY DEF Outcomes

LEMMA AddComStep ==
  ASSUME CommandsInv, NEW n \in Names, NEW reply \in Replies, AddCom(n, reply)
  PROVE  CommandsInv'
<1> USE CommandsAssumption DEF CommandsAssumption, CommandsInv
<1>1. PICK succeeds \in BOOLEAN : Executes(n, Inserted(n, reply), succeeds /\ ~Refused(n))
  BY OutcomesBoolean DEF AddCom
<1> DEFINE ok == succeeds /\ ~Refused(n)
<1>2. Inserted(n, reply) \in [Names -> Replies \cup {None}]
  BY DEF Inserted, CommandsTypeOK
<1>3. ASSUME ok
      PROVE  \A m, k \in {i \in Names : Inserted(n, reply)[i] # None} :
               Collation[m] = Collation[k] => m = k
  BY <1>3 DEF Inserted, Refused, Matching, Rows, CommandsTypeOK
<1>4. n \notin Builtins
  BY DEF AddCom, Free, BuiltinsIntact
<1>5. CommandsTypeOK'
  <2>1. ok \in BOOLEAN
    BY <1>1
  <2>2. /\ responses' \in [Names -> Replies \cup {None}]
        /\ \A m, k \in Rows' : Collation[m] = Collation[k] => m = k
        /\ apart' \subseteq {Collation[i] : i \in Names}
    BY <1>1, <1>2, <1>3, <2>1, ExecutesKeeps
  <2> QED
    BY <2>2 DEF AddCom, CommandsTypeOK
<1>6. BuiltinsIntact' /\ NoBuiltinRow'
  BY <1>1, <1>4 DEF AddCom, Executes, Inserted, BuiltinsIntact, NoBuiltinRow, CommandsTypeOK
<1>7. MapsAgree'
  BY DEF AddCom, MapsAgree, CommandsTypeOK
<1>8. RestartKeeps'
  BY <1>1 DEF AddCom, Executes, Inserted, RestartKeeps, CommandsTypeOK
<1> QED
  BY <1>5, <1>6, <1>7, <1>8

LEMMA EditComStep ==
  ASSUME CommandsInv, NEW n \in Names, NEW reply \in Replies, EditCom(n, reply)
  PROVE  CommandsInv'
<1> USE CommandsAssumption DEF CommandsAssumption, CommandsInv
<1>1. PICK succeeds \in BOOLEAN : Executes(n, Edited(n, reply), succeeds)
  BY OutcomesBoolean DEF EditCom
<1>2. Edited(n, reply) \in [Names -> Replies \cup {None}]
  BY DEF Edited, CommandsTypeOK
<1>3. {i \in Names : Edited(n, reply)[i] # None} = Rows
  BY DEF Edited, Matching, Rows, CommandsTypeOK
<1>4. CommandsTypeOK'
  <2>1. /\ responses' \in [Names -> Replies \cup {None}]
        /\ \A m, k \in Rows' : Collation[m] = Collation[k] => m = k
        /\ apart' \subseteq {Collation[i] : i \in Names}
    BY <1>1, <1>2, <1>3, ExecutesKeeps DEF CommandsTypeOK
  <2> QED
    BY <2>1 DEF EditCom, CommandsTypeOK
<1>5. BuiltinsIntact' /\ NoBuiltinRow'
  BY <1>1 DEF EditCom, Executes, Edited, Matching, Rows, BuiltinsIntact, NoBuiltinRow, CommandsTypeOK
<1>6. MapsAgree'
  BY DEF EditCom, Custom, MapsAgree, CommandsTypeOK
<1>7. RestartKeeps'
  <2>1. CASE succeeds
    <3>1. responses' = Edited(n, reply) /\ apart' = apart
      BY <1>1, <2>1 DEF Executes
    <3>2. simpleResponses[n] # None
      BY DEF EditCom, Custom, MapsAgree
    <3>3. ASSUME NEW m \in Names, Collation[m] \notin apart, m \in Matching(n)
          PROVE  m = n
      BY <3>2, <3>3 DEF Matching, Rows, RestartKeeps, CommandsTypeOK
    <3>4. Collation[n] \notin apart => n \in Matching(n)
      BY <3>2 DEF Matching, Rows, RestartKeeps
    <3> QED
      BY <3>1, <3>3, <3>4 DEF EditCom, Edited, RestartKeeps, CommandsTypeOK
  <2>2. CASE ~succeeds
    BY <1>1, <2>2 DEF Executes, EditCom, RestartKeeps, CommandsTypeOK
  <2> QED
    BY <2>1, <2>2
<1> QED
  BY <1>4, <1>5, <1>6, <1>7

LEMMA DelComStep ==
  ASSUME CommandsInv, NEW n \in Names, DelCom(n)
  PROVE  CommandsInv'
<1> USE CommandsAssumption DEF CommandsAssumption, CommandsInv
<1>1. PICK succeeds \in BOOLEAN : Executes(n, Deleted(n), succeeds)
  BY OutcomesBoolean DEF DelCom
<1>2. Deleted(n) \in [Names -> Replies \cup {None}]
  BY DEF Deleted, CommandsTypeOK
<1>3. {i \in Names : Deleted(n)[i] # None} \subseteq Rows
  BY DEF Deleted, Matching, Rows, CommandsTypeOK
<1>4. CommandsTypeOK'
  <2>1. /\ responses' \in [Names -> Replies \cup {None}]
        /\ \A m, k \in Rows' : Collation[m] = Collation[k] => m = k
        /\ apart' \subseteq {Collation[i] : i \in Names}
    BY <1>1, <1>2, <1>3, ExecutesKeeps DEF CommandsTypeOK
  <2> QED
    BY <2>1 DEF DelCom, CommandsTypeOK
<1>5. BuiltinsIntact' /\ NoBuiltinRow'
  BY <1>1 DEF DelCom, Custom, Executes, Deleted, BuiltinsIntact, NoBuiltinRow, CommandsTypeOK
<1>6. MapsAgree'
  BY DEF DelCom, MapsAgree, CommandsTypeOK
<1>7. RestartKeeps'
  <2>1. CASE succeeds
    <3>1. responses' = Deleted(n) /\ apart' = apart
      BY <1>1, <2>1 DEF Executes
    <3>2. simpleResponses[n] # None
      BY DEF DelCom, Custom, MapsAgree
    <3>3. ASSUME NEW m \in Names, Collation[m] \notin apart, m \in Matching(n)
          PROVE  m = n
      BY <3>2, <3>3 DEF Matching, Rows, RestartKeeps, CommandsTypeOK
    <3>4. Collation[n] \notin apart => n \in Matching(n)
      BY <3>2 DEF Matching, Rows, RestartKeeps
    <3> QED
      BY <3>1, <3>3, <3>4 DEF DelCom, Deleted, RestartKeeps, CommandsTypeOK
  <2>2. CASE ~succeeds
    BY <1>1, <2>2 DEF Executes, DelCom, RestartKeeps, CommandsTypeOK
  <2> QED
    BY <2>1, <2>2
<1> QED
  BY <1>4, <1>5, <1>6, <1>7

(* A restart makes memory what the table says, or what a process without a *)
(* table has.                                                              *)
LEMMA RestartStep ==
  ASSUME CommandsInv, Restart
  PROVE  CommandsInv'
<1> USE CommandsAssumption DEF CommandsAssumption, CommandsInv
<1>1. PICK succeeds \in BOOLEAN :
        LET table == IF succeeds THEN responses ELSE NoRows
        IN  /\ commandMap' = Loaded(table)
            /\ simpleResponses' = table
            /\ apart' = IF succeeds THEN {} ELSE {Collation[n] : n \in Names}
  BY OutcomesBoolean DEF Restart
<1> DEFINE table == IF succeeds THEN responses ELSE NoRows
<1>2. table \in [Names -> Replies \cup {None}] /\ \A n \in Builtins : table[n] = None
  BY DEF NoRows, NoBuiltinRow, CommandsTypeOK
<1>3. Loaded(table) \in [Names -> {"builtin", "simple", None}]
  BY DEF Loaded
<1>4. responses' = responses /\ timers' = {}
  BY DEF Restart
<1>5. CommandsTypeOK'
  BY <1>1, <1>2, <1>3, <1>4 DEF CommandsTypeOK, Rows
<1>6. BuiltinsIntact' /\ NoBuiltinRow'
  BY <1>1, <1>2, <1>4 DEF Loaded, BuiltinsIntact, NoBuiltinRow
<1>7. MapsAgree'
  BY <1>1 DEF Loaded, MapsAgree
<1>8. RestartKeeps'
  BY <1>1, <1>4 DEF RestartKeeps
<1> QED
  BY <1>5, <1>6, <1>7, <1>8

-----------------------------------------------------------------------------
(* Dictionary.                                                             *)

Customs == Names \ Builtins
Dict == [n \in Customs |-> simpleResponses[n]]
Doubtful == {n \in Customs : Collation[n] \in apart}

(* A statement about n puts n, and what the table takes for n, in doubt or *)
(* nothing.                                                                *)
LEMMA ExecutesDoubts ==
  ASSUME NEW n \in Names, NEW table, NEW succeeds \in BOOLEAN, Executes(n, table, succeeds)
  PROVE  Doubtful' \in {Doubtful, Doubtful \cup {j \in Customs : Collation[j] = Collation[n]}}
<1>1. CASE succeeds
  BY <1>1 DEF Executes, Doubtful
<1>2. CASE ~succeeds
  BY <1>2 DEF Executes, Doubtful
<1> QED
  BY <1>1, <1>2

LEMMA CommandChanges ==
  ASSUME CommandsInv, NEW n \in Names, NEW reply \in Replies,
         AddCom(n, reply) \/ EditCom(n, reply) \/ DelCom(n)
  PROVE  /\ n \in Customs
         /\ Entries!Add(n, reply) \/ Entries!Change(n, reply) \/ Entries!Remove(n)
<1> USE CommandsAssumption DEF CommandsAssumption
<1>1. n \in Customs
  BY DEF AddCom, EditCom, DelCom, Free, Custom, CommandsInv, BuiltinsIntact, Customs
<1>2. ASSUME NEW v, simpleResponses' = [simpleResponses EXCEPT ![n] = v]
      PROVE  Dict' = [Dict EXCEPT ![n] = v]
  BY <1>1, <1>2 DEF Dict, Customs, CommandsInv, CommandsTypeOK
<1>3. Dict[n] = simpleResponses[n]
  BY <1>1 DEF Dict
<1>4. Doubtful' \in {Doubtful, Doubtful \cup {j \in Customs : Collation[j] = Collation[n]}}
  <2>1. CASE AddCom(n, reply)
    <3>1. PICK succeeds \in BOOLEAN : Executes(n, Inserted(n, reply), succeeds /\ ~Refused(n))
      BY <2>1, OutcomesBoolean DEF AddCom
    <3> DEFINE ok == succeeds /\ ~Refused(n)
    <3>2. ok \in BOOLEAN /\ Executes(n, Inserted(n, reply), ok)
      BY <3>1
    <3> HIDE DEF ok
    <3> QED
      BY <3>2, ExecutesDoubts
  <2>2. CASE EditCom(n, reply)
    <3>1. PICK succeeds \in BOOLEAN : Executes(n, Edited(n, reply), succeeds)
      BY <2>2, OutcomesBoolean DEF EditCom
    <3> QED
      BY <3>1, ExecutesDoubts
  <2>3. CASE DelCom(n)
    <3>1. PICK succeeds \in BOOLEAN : Executes(n, Deleted(n), succeeds)
      BY <2>3, OutcomesBoolean DEF DelCom
    <3> QED
      BY <3>1, ExecutesDoubts
  <2> QED
    BY <2>1, <2>2, <2>3
<1>5. ASSUME NEW v, Dict' = [Dict EXCEPT ![n] = v]
      PROVE  Entries!Becomes(n, v)
  BY <1>4, <1>5 DEF Entries!Becomes, Entries!Alike, Dict, Doubtful, Customs
<1>6. CASE AddCom(n, reply)
  <2>1. simpleResponses' = [simpleResponses EXCEPT ![n] = reply] /\ Dict[n] = None
    BY <1>3, <1>6 DEF AddCom, Free, CommandsInv, MapsAgree
  <2>2. Entries!Becomes(n, reply)
    BY <1>2, <1>5, <2>1
  <2> QED
    BY <1>1, <2>1, <2>2 DEF Entries!Add, Dict, Customs
<1>7. CASE EditCom(n, reply)
  <2>1. simpleResponses' = [simpleResponses EXCEPT ![n] = reply] /\ Dict[n] # None
    BY <1>3, <1>7 DEF EditCom, Custom, CommandsInv, MapsAgree
  <2>2. Entries!Becomes(n, reply)
    BY <1>2, <1>5, <2>1
  <2> QED
    BY <1>1, <2>1, <2>2 DEF Entries!Change, Dict, Customs
<1>8. CASE DelCom(n)
  <2>1. simpleResponses' = [simpleResponses EXCEPT ![n] = None] /\ Dict[n] # None
    BY <1>3, <1>8 DEF DelCom, Custom, CommandsInv, MapsAgree
  <2>2. Entries!Becomes(n, None)
    BY <1>2, <1>5, <2>1
  <2> QED
    BY <1>1, <2>1, <2>2 DEF Entries!Remove, Dict, Customs
<1> QED
  BY <1>1, <1>6, <1>7, <1>8

(* DelCom names no response: any will do for the lemma above, and without  *)
(* one there is no custom command to delete.                               *)
LEMMA DelComRemoves ==
  ASSUME CommandsInv, NEW n \in Names, DelCom(n)
  PROVE  \E k \in Customs : Entries!Remove(k) \/ \E v \in Replies : Entries!Add(k, v) \/ Entries!Change(k, v)
<1>1. simpleResponses[n] \in Replies
  BY DEF DelCom, Custom, CommandsInv, MapsAgree, CommandsTypeOK
<1> QED
  BY <1>1, CommandChanges

(* RestartKeeps is what a restart rests on. *)
LEMMA RestartReopens ==
  ASSUME CommandsInv, Restart
  PROVE  Entries!Reopen \/ Entries!ReopenEmpty
<1>1. PICK succeeds \in BOOLEAN :
        LET table == IF succeeds THEN responses ELSE NoRows
        IN  /\ simpleResponses' = table
            /\ apart' = IF succeeds THEN {} ELSE {Collation[n] : n \in Names}
  BY OutcomesBoolean DEF Restart
<1>2. CASE succeeds
  <2>1. Dict' = [n \in Customs |-> responses[n]] /\ Doubtful' = {}
    BY <1>1, <1>2 DEF Dict, Doubtful
  <2>2. Dict' \in [Customs -> Replies \cup {None}]
    BY <2>1 DEF CommandsInv, CommandsTypeOK, Customs
  <2>3. \A k \in Customs \ Doubtful : Dict'[k] = Dict[k]
    BY <2>1 DEF CommandsInv, RestartKeeps, Doubtful, Dict, Customs
  <2>4. Entries!Reopen
    BY <2>1, <2>2, <2>3 DEF Entries!Reopen, Dict, Doubtful, Customs
  <2> QED
    BY <2>4
<1>3. CASE ~succeeds
  <2>1. Dict' = [n \in Customs |-> None] /\ Doubtful' = Customs
    BY <1>1, <1>3 DEF Dict, Doubtful, NoRows, Customs
  <2>2. Entries!ReopenEmpty
    BY <2>1 DEF Entries!ReopenEmpty, Dict, Doubtful, Customs
  <2> QED
    BY <2>2
<1> QED
  BY <1>2, <1>3

-----------------------------------------------------------------------------
(* The invariant that the theorems below draw on. *)
THEOREM CommandsInvCorrect == CommandsSpec => []CommandsInv
<1>1. ASSUME CommandsInv, [CommandsNext]_commandsVars
      PROVE  CommandsInv'
  <2>1. ASSUME NEW t \in TimerNames, TimerStart(t) \/ TimerStop(t)
        PROVE  CommandsInv'
    BY <1>1, <2>1 DEF TimerStart, TimerStop, memory, CommandsInv, CommandsTypeOK, Rows,
      BuiltinsIntact, MapsAgree, RestartKeeps, NoBuiltinRow
  <2>2. CASE UNCHANGED commandsVars
    BY <1>1, <2>2 DEF commandsVars, memory, CommandsInv, CommandsTypeOK, Rows,
      BuiltinsIntact, MapsAgree, RestartKeeps, NoBuiltinRow
  <2> QED
    BY <1>1, <2>1, <2>2, AddComStep, EditComStep, DelComStep, RestartStep DEF CommandsNext
<1> QED
  BY InitInv, <1>1, PTL DEF CommandsSpec

(* addcom, editcom, delcom: types, and the UNIQUE KEY of the table. *)
THEOREM CommandsTypeCorrect == CommandsSpec => []CommandsTypeOK
BY CommandsInvCorrect, PTL DEF CommandsInv

(* No built-in command is ever replaced, hidden or deleted. *)
THEOREM BuiltinsCorrect == CommandsSpec => []BuiltinsIntact
BY CommandsInvCorrect, PTL DEF CommandsInv

(* The handler of custom commands always finds a response. *)
THEOREM MapsCorrect == CommandsSpec => []MapsAgree
BY CommandsInvCorrect, PTL DEF CommandsInv

(* Memory and table differ only in commands whose statement failed. *)
THEOREM KeepsCorrect == CommandsSpec => []RestartKeeps
BY CommandsInvCorrect, PTL DEF CommandsInv

(* Commands implements Dictionary: addcom, editcom and delcom change one   *)
(* entry, and a restart none that is not in doubt.                         *)
THEOREM DictionaryCorrect == CommandsSpec => ImplementsDictionary
<1>1. CommandsInit => Entries!DictionaryInit
  BY DEF CommandsInit, NoRows, Entries!DictionaryInit
<1>2. ASSUME CommandsInv, [CommandsNext]_commandsVars
      PROVE  [Entries!DictionaryNext]_(Entries!dictionaryVars)
  <2>1. ASSUME UNCHANGED <<simpleResponses, apart>>
        PROVE  UNCHANGED Entries!dictionaryVars
    BY <2>1 DEF Entries!dictionaryVars
  <2>2. ASSUME (\E t \in TimerNames : TimerStart(t) \/ TimerStop(t)) \/ UNCHANGED commandsVars
        PROVE  UNCHANGED <<simpleResponses, apart>>
    BY <2>2 DEF TimerStart, TimerStop, commandsVars, memory
  <2> QED
    BY <1>2, <2>1, <2>2, CommandChanges, DelComRemoves, RestartReopens
    DEF CommandsNext, Entries!DictionaryNext, Customs
<1> QED
  BY <1>1, <1>2, CommandsInvCorrect, PTL DEF CommandsSpec, ImplementsDictionary, Entries!DictionarySpec

=============================================================================
