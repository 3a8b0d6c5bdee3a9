---------------------------- MODULE ModeratedLog ----------------------------
(***************************************************************************)
(* What moderation promises about the history, whatever clients, commands  *)
(* and failing statements do: a message stays what it was and where it     *)
(* was, but that it may be taken away, which is for ever; who is silenced  *)
(* loses every message, and gets none in but those that were paid for.     *)
(* ChatMessages implements it.                                             *)
(***************************************************************************)
EXTENDS Naturals

CONSTANT Authors

VARIABLES
  log,      \* the messages: who wrote each, whether it was paid for or dropped
  silenced  \* the authors who may not write

logVars == <<log, silenced>>

LogInit ==
  /\ log = [i \in {} |-> {}]
  /\ silenced = {}

(* Messages come in behind the others. *)
Post ==
  /\ DOMAIN log \subseteq DOMAIN log'
  /\ \A i \in DOMAIN log : log'[i] = log[i]
  /\ \A i \in DOMAIN log' \ DOMAIN log :
       /\ \A j \in DOMAIN log : j < i
       /\ log'[i].author \in silenced => log'[i].paid \/ log'[i].dropped
  /\ silenced' = silenced

(* Messages are dropped and authors silenced, or heard again. *)
Moderate ==
  /\ DOMAIN log' = DOMAIN log
  /\ \A i \in DOMAIN log :
       /\ log'[i] = [log[i] EXCEPT !.dropped = log'[i].dropped]
       /\ log[i].dropped \/ log[i].author \in silenced' \ silenced => log'[i].dropped
  /\ silenced' \subseteq Authors

LogSpec == LogInit /\ [][Post \/ Moderate]_logVars

=============================================================================
