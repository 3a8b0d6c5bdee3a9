----------------------------- MODULE Dictionary -----------------------------
(***************************************************************************)
(* What whoever adds, changes and removes entries by name may rely on: an  *)
(* entry changes when somebody changes it, and survives a restart, unless  *)
(* a change of it, or of one whose name the store takes for the same, did  *)
(* not reach the store since the last one.                                 *)
(* Commands implements it.                                                 *)
(***************************************************************************)
CONSTANTS
  Keys,    \* names
  Class,   \* Class[k]: the store takes all names with this value for one
  Values,  \* what an entry says
  Absent   \* no entry

VARIABLES
  dict,     \* the entries
  doubtful  \* names that a restart may do anything to

dictionaryVars == <<dict, doubtful>>

DictionaryInit ==
  /\ dict = [k \in Keys |-> Absent]
  /\ doubtful = {}

Alike(k) == {j \in Keys : Class[j] = Class[k]}

(* The entry of k becomes v, and the store may or may not know. *)
Becomes(k, v) ==
  /\ dict' = [dict EXCEPT ![k] = v]
  /\ doubtful' \in {doubtful, doubtful \cup Alike(k)}

Add(k, v) == dict[k] = Absent /\ Becomes(k, v)
Change(k, v) == dict[k] # Absent /\ Becomes(k, v)
Remove(k) == dict[k] # Absent /\ Becomes(k, Absent)

(* A restart reads the store. *)
Reopen ==
  /\ dict' \in [Keys -> Values \cup {Absent}]
  /\ \A k \in Keys \ doubtful : dict'[k] = dict[k]
  /\ doubtful' = {}

(* There is no store to read. *)
ReopenEmpty ==
  /\ dict' = [k \in Keys |-> Absent]
  /\ doubtful' = Keys

DictionaryNext ==
  \/ \E k \in Keys : Remove(k) \/ \E v \in Values : Add(k, v) \/ Change(k, v)
  \/ Reopen
  \/ ReopenEmpty

DictionarySpec == DictionaryInit /\ [][DictionaryNext]_dictionaryVars

=============================================================================
