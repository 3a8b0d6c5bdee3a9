------------------------------ MODULE Commands ------------------------------
(***************************************************************************)
(* Custom commands and timers (src/src/chatcommands.cpp): what a command   *)
(* does is in two maps of the process, and the responses of the custom     *)
(* ones are also rows of table responses, from which loadResponses fills   *)
(* the maps when the process starts.  The maps compare names by code       *)
(* point, the table by the collation utf8mb4_unicode_ci, for which a       *)
(* letter with an accent is the letter.                                    *)
(*                                                                         *)
(* A name is what is left of the argument in lower case.  The author of a  *)
(* command has the level it needs (May of ChatMessages).                   *)
(***************************************************************************)
EXTENDS Naturals, FiniteSets

CONSTANTS
  Names,       \* names of commands
  Builtins,    \* those of initCommands
  Collation,   \* Collation[n]: all names with this value are equal to the table
  TooLong,     \* names that do not fit the column
  Replies,     \* responses
  None,        \* "not in the map", "no such row"
  TimerNames,  \* names of timers
  DbFails      \* TRUE: a statement may fail

ASSUME CommandsAssumption ==
  /\ Builtins \subseteq Names /\ TooLong \subseteq Names
  /\ DOMAIN Collation = Names
  /\ None \notin Replies /\ None \notin {"builtin", "simple"}
  /\ DbFails \in BOOLEAN

VARIABLES
  commandMap,       \* m_commandMap: the handler, commandSimpleResponse or another
  simpleResponses,  \* m_simpleResponses
  responses,        \* table responses
  timers,           \* the keys of m_timers
  apart             \* names, as the table sees them, of which memory and
                    \* table differ since a statement was refused or failed

memory == <<commandMap, simpleResponses>>
commandsVars == <<memory, responses, timers, apart>>

Rows == {n \in Names : responses[n] # None}

(* The rows a WHERE command = ? selects. *)
Matching(n) == {m \in Rows : Collation[m] = Collation[n]}

(* Bug: insertSimpleResponse enters the response only. *)
BugLoaded(table) == [n \in Names |-> IF n \in Builtins THEN "builtin" ELSE None]

(* m_commandMap after initCommands and loadResponses. *)
Loaded(table) ==
  [n \in Names |-> IF table[n] # None THEN "simple"
                   ELSE IF n \in Builtins THEN "builtin" ELSE None]

NoRows == [n \in Names |-> None]

CommandsInit ==
  /\ responses = NoRows
  /\ commandMap = Loaded(NoRows)
  /\ simpleResponses = NoRows
  /\ timers = {}
  /\ apart = {}

-----------------------------------------------------------------------------
(* Bug: names are compared with those of the table only. *)
BugFree(n) == responses[n] = None

Free(n) == commandMap[n] = None

Inserted(n, reply) == [responses EXCEPT ![n] = reply]

(* Bug: the column has no UNIQUE KEY. *)
BugRefused(n) == n \in TooLong

(* A name the table has already, or one too long for it, is refused.       *)
Refused(n) == Matching(n) # {} \/ n \in TooLong

(* A statement about n succeeds and makes the table of it, or changes      *)
(* nothing, as if it were not there: its failure is logged only.           *)
Executes(n, table, succeeds) ==
  /\ responses' = IF succeeds THEN table ELSE responses
  /\ apart' = IF succeeds THEN apart ELSE apart \cup {Collation[n]}

Outcomes == IF DbFails THEN {TRUE, FALSE} ELSE {TRUE}

(* The command stays in memory whatever becomes of the INSERT. *)
AddCom(n, reply) ==
  /\ Free(n)
  /\ simpleResponses' = [simpleResponses EXCEPT ![n] = reply]
  /\ commandMap' = [commandMap EXCEPT ![n] = "simple"]
  /\ \E succeeds \in Outcomes :
       Executes(n, Inserted(n, reply), succeeds /\ ~Refused(n))
  /\ timers' = timers

(* The handler of n is commandSimpleResponse. *)
Custom(n) == commandMap[n] = "simple"

Edited(n, reply) == [m \in Names |-> IF m \in Matching(n) THEN reply ELSE responses[m]]

EditCom(n, reply) ==
  /\ Custom(n)
  /\ simpleResponses' = [simpleResponses EXCEPT ![n] = reply]
  /\ \E succeeds \in Outcomes : Executes(n, Edited(n, reply), succeeds)
  /\ UNCHANGED <<commandMap, timers>>

(* Bug: the row stays. *)
BugDeleted(n) == responses

Deleted(n) == [m \in Names |-> IF m \in Matching(n) THEN None ELSE responses[m]]

DelCom(n) ==
  /\ Custom(n)
  /\ simpleResponses' = [simpleResponses EXCEPT ![n] = None]
  /\ commandMap' = [commandMap EXCEPT ![n] = None]
  /\ \E succeeds \in Outcomes : Executes(n, Deleted(n), succeeds)
  /\ timers' = timers

(* commandTimer; anybody may stop any timer. *)
TimerStart(t) ==
  /\ t \notin timers
  /\ timers' = timers \cup {t}
  /\ UNCHANGED <<memory, responses, apart>>

TimerStop(t) ==
  /\ t \in timers
  /\ timers' = timers \ {t}
  /\ UNCHANGED <<memory, responses, apart>>

(* The process ends and starts again; without a database it starts without *)
(* custom commands.                                                        *)
Restart ==
  /\ \E succeeds \in Outcomes :
       LET table == IF succeeds THEN responses ELSE NoRows
       IN  /\ commandMap' = Loaded(table)
           /\ simpleResponses' = table
           /\ apart' = IF succeeds THEN {} ELSE {Collation[n] : n \in Names}
  /\ timers' = {}
  /\ responses' = responses

CommandsNext ==
  \/ \E n \in Names : DelCom(n) \/ \E reply \in Replies : AddCom(n, reply) \/ EditCom(n, reply)
  \/ \E t \in TimerNames : TimerStart(t) \/ TimerStop(t)
  \/ Restart

CommandsSpec == CommandsInit /\ [][CommandsNext]_commandsVars

-----------------------------------------------------------------------------
(* Types, and the UNIQUE KEY of the table. *)
CommandsTypeOK ==
  /\ commandMap \in [Names -> {"builtin", "simple", None}]
  /\ simpleResponses \in [Names -> Replies \cup {None}]
  /\ responses \in [Names -> Replies \cup {None}]
  /\ \A m, n \in Rows : Collation[m] = Collation[n] => m = n
  /\ timers \subseteq TimerNames
  /\ apart \subseteq {Collation[n] : n \in Names}

(* A built-in command is always there and does what it is for: no sequence *)
(* of addcom, editcom, delcom and restarts replaces, hides or deletes it,  *)
(* though what loadResponses reads would override it, statements fail and  *)
(* the table takes names for equal that the maps tell apart.               *)
BuiltinsIntact ==
  \A n \in Builtins : commandMap[n] = "builtin"

(* The handler that looks a response up finds one, and a response is there *)
(* for a command that has this handler.                                    *)
MapsAgree ==
  \A n \in Names : commandMap[n] = "simple" <=> simpleResponses[n] # None

(* The table has the custom commands of the process, so that a restart     *)
(* changes none of them (addcom, editcom, delcom, loadResponses).  The     *)
(* exceptions are the names of statements that failed, or that the table   *)
(* refused as too long or equal to another, and what it takes for equal to *)
(* them: no failure spreads to other commands, and a restart heals all.    *)
RestartKeeps ==
  \A n \in Names : Collation[n] \notin apart => simpleResponses[n] = responses[n]

(* The custom commands, as Dictionary sees them. *)
Entries == INSTANCE Dictionary WITH
  Keys <- Names \ Builtins, Class <- Collation, Values <- Replies, Absent <- None,
  dict <- [n \in Names \ Builtins |-> simpleResponses[n]],
  doubtful <- {n \in Names \ Builtins : Collation[n] \in apart}

(* Users see a dictionary: addcom, editcom and delcom change the entry     *)
(* they name and no other, though an UPDATE or a DELETE reaches every row  *)
(* the collation matches, and a restart changes no entry that was not in   *)
(* doubt (loadResponses).                                                  *)
ImplementsDictionary == Entries!DictionarySpec

=============================================================================
