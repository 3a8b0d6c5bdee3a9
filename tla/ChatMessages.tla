---------------------------- MODULE ChatMessages ----------------------------
(***************************************************************************)
(* Messages and moderation (src/src/chatserver.cpp, chatcommands.cpp): the *)
(* table history, the moderation columns of table users, the two modes a   *)
(* moderator can set, the donations being verified, and what every client  *)
(* has on its screen.  A message arrives here authenticated (ChatSession)  *)
(* from a user with a name, and its handler is one step.                   *)
(*                                                                         *)
(* A message id is its index in history.  Users are called by name in      *)
(* commands; names are unique (ChatSession), so the user stands for it.    *)
(* Timers and custom commands are in Commands, host bans in HostBans, and  *)
(* what PayPal does before a donation is published in PayPal.              *)
(***************************************************************************)
EXTENDS Durations, Sequences, FiniteSets

CONSTANTS
  Users,              \* accounts with a display name
  Bot,                \* user id 0, in whose name the server itself writes
  Conns,              \* connections of web clients
  Texts,              \* messages, nonempty after trimming
  Overlong,           \* those longer than max_chat_length
  Blocked,            \* those that contain a word of banned_words
  Replies,            \* reply ids clients send
  HistoryLength,      \* HISTORY_LENGTH
  DuplicateSlowMode,  \* m_duplicateSlowMode
  FollowDefault,      \* m_followMode of a new process
  ModeValues,         \* numbers moderators enter for modes
  BanTimes,           \* and for bans, with one of the Units
  Forever,            \* banEnd of a ban without a time
  Fails,              \* SQL statements that may fail, of those named below
  OldestAccount,      \* bounds: accounts are created from OldestAccount
  StartTime,          \* to StartTime, when the clock starts,
  MaxTime,            \* the clock stops at MaxTime,
  MaxMessages,        \* ids end at MaxMessages,
  MaxDonations        \* donations verified at once

(* The INSERT of a message, the SELECT of the banned words, the UPDATE of a *)
(* bad reply id, that of last_message, that of dropped, and the SELECT of  *)
(* the author of a message for hello.                                      *)
Statements == {"insert", "words", "reply", "last", "drop", "author"}

ASSUME MessagesAssumption ==
  /\ Fails \subseteq Statements
  /\ Bot \notin Users
  /\ Overlong \subseteq Texts /\ Blocked \subseteq Texts
  /\ Replies \subseteq Int /\ BanTimes \subseteq Int
  /\ HistoryLength \in Nat \ {0}
  /\ {DuplicateSlowMode, FollowDefault, MaxMessages, MaxDonations} \subseteq Nat
  /\ {OldestAccount, StartTime, MaxTime} \subseteq Nat /\ StartTime <= MaxTime
  /\ MaxTime + DuplicateSlowMode + IntHalf < LongHalf
  /\ ModeValues \subseteq Int /\ FollowDefault < IntHalf
  /\ Forever \in Nat /\ Forever > MaxTime

VARIABLES
  now,          \* the clock, in seconds
  history,      \* table history
  auth,         \* users.auth_level
  bannedUntil,  \* users.banned_until
  createdAt,    \* users.created_at
  last,         \* users.last_message and last_message_time
  slowMode,     \* m_slowMode
  followMode,   \* m_followMode
  donations,    \* orders PayPal is asked about, with the user as read before
  feed,         \* the connections in m_clients
  shown,        \* the messages on the screen of each connection
  floor,        \* up to this id, a connection may lack messages
  stale,        \* connections in feed when a statement failed
  torn,         \* users whose ban went into the database without the rest
  unnoted,      \* users of whose last message last_message was not told
  unrepaired    \* ids of messages whose bad reply id was left in the table

tables == <<history, auth, bannedUntil, createdAt, last>>
modes == <<slowMode, followMode>>
screens == <<feed, shown, floor, stale>>
(* What a failed statement left behind: no variable of the code. *)
failures == <<torn, unnoted, unrepaired>>
messagesVars == <<now, tables, modes, donations, screens, failures>>

(* last_message of a new user. *)
NoText == "none"

USER == 0
MOD == 50
ADMIN == 100

Ids == DOMAIN history
Visible == {i \in Ids : ~history[i].dropped}

Rows == [user : Users \cup {Bot}, time : Nat, dropped : BOOLEAN, reply : Int,
         level : {USER, MOD, ADMIN}, donated : BOOLEAN]

(* createNewUser leaves every column but created_at at its zero, and the   *)
(* first moderators and administrators are appointed by hand.              *)
MessagesInit ==
  /\ now = StartTime
  /\ history = <<>>
  /\ auth \in [Users -> {USER, MOD, ADMIN}]
  /\ bannedUntil = [u \in Users |-> 0]
  /\ createdAt \in [Users -> OldestAccount .. StartTime]
  /\ last = [u \in Users |-> [text |-> NoText, time |-> 0]]
  /\ slowMode = 0
  /\ followMode = FollowDefault
  /\ donations = {}
  /\ feed = {}
  /\ shown = [c \in Conns |-> {}]
  /\ floor = [c \in Conns |-> 0]
  /\ stale = {}
  /\ torn = {} /\ unnoted = {} /\ unrepaired = {}

-----------------------------------------------------------------------------
(* publish and dropMessages. *)

(* Bug: a message may be a reply to itself. *)
BugRow(id, u, text, level, reply, donated) ==
  [user |-> u, time |-> now, dropped |-> text \in Blocked,
   reply |-> IF text \notin Blocked /\ (reply < 0 \/ reply > id) THEN 0 ELSE reply,
   level |-> level, donated |-> donated]

Row(id, u, text, level, reply, donated) ==
  [user |-> u, time |-> now, dropped |-> text \in Blocked,
   reply |-> IF text \notin Blocked /\ (reply < 0 \/ reply >= id) THEN 0 ELSE reply,
   level |-> level, donated |-> donated]

(* What publish makes of table h when the statements in fails fail, what   *)
(* it broadcasts that the table lacks, and the row it fails to repair.     *)
(* Without the banned words the message is dropped; a row dropped at once  *)
(* keeps its reply id; without the INSERT clients get an id 0.             *)
Stored(h, u, text, level, reply, donated, fails) ==
  LET id == Len(h) + 1
      row == Row(id, u, text, level, reply, donated)
      dropped == row.dropped \/ "words" \in fails
      replied == IF dropped \/ "reply" \in fails THEN reply ELSE row.reply
  IN  IF "insert" \in fails
      THEN [table |-> h, lost |-> IF dropped THEN {} ELSE {0}, kept |-> {}]
      ELSE [table |-> Append(h, [row EXCEPT !.dropped = dropped, !.reply = replied]),
            lost |-> {},
            kept |-> IF dropped \/ replied = row.reply THEN {} ELSE {id}]

(* Nothing becomes of a chat message that is too long. *)
Outcomes(h, u, text, level, reply, donated) ==
  IF text \in Overlong /\ ~donated
  THEN {[table |-> h, lost |-> {}, kept |-> {}]}
  ELSE {Stored(h, u, text, level, reply, donated, fails) :
          fails \in SUBSET (Fails \cap {"insert", "words", "reply"})}

(* The messages of table h that publish broadcast. *)
NewIds(h) == {i \in Len(history) + 1 .. Len(h) : ~h[i].dropped}

(* The table becomes h, and every connection of m_clients is told. *)
Publish(h, lost) ==
  /\ history' = h
  /\ shown' = [c \in Conns |-> IF c \in feed THEN shown[c] \cup NewIds(h) \cup lost ELSE shown[c]]
  /\ stale' = IF lost = {} THEN stale ELSE stale \cup feed
  /\ UNCHANGED <<feed, floor>>

(* Bug: the delete packet goes to one connection only. *)
BugDropMessages(ids, sent) ==
  /\ history' = [i \in Ids |-> [history[i] EXCEPT !.dropped = @ \/ i \in ids]]
  /\ \E c \in Conns : shown' = [shown EXCEPT ![c] = @ \ sent]
  /\ stale' = IF sent \cap Visible \subseteq ids THEN stale ELSE stale \cup feed
  /\ UNCHANGED <<feed, floor>>

(* Bug: the UPDATE sets dropped in every row. *)
BugUpdated(ids, sent) ==
  /\ history' = [i \in Ids |-> [history[i] EXCEPT !.dropped = i \in ids]]
  /\ shown' = [c \in Conns |-> IF c \in feed THEN shown[c] \ sent ELSE shown[c]]
  /\ stale' = IF sent \cap Visible \subseteq ids THEN stale ELSE stale \cup feed
  /\ UNCHANGED <<feed, floor>>

(* UPDATE history SET dropped = 1 for ids, and a delete packet with sent,  *)
(* of which some may not have been updated.                                *)
DropMessages(ids, sent) ==
  /\ history' = [i \in Ids |-> [history[i] EXCEPT !.dropped = @ \/ i \in ids]]
  /\ shown' = [c \in Conns |-> IF c \in feed THEN shown[c] \ sent ELSE shown[c]]
  /\ stale' = IF sent \cap Visible \subseteq ids THEN stale ELSE stale \cup feed
  /\ UNCHANGED <<feed, floor>>

-----------------------------------------------------------------------------
(* processChatMessage. *)

Banned(u) == bannedUntil[u] > now

(* Bug: slow mode holds back messages with the text of the last one only. *)
BugInTime(u, text) ==
  \/ auth[u] >= MOD
  \/ /\ text # last[u].text \/ ~HeldBySlowMode(last[u].time, slowMode, now)
     /\ ~HeldByFollowMode(createdAt[u], followMode, now)

(* A user who is no moderator passes slow mode, duplicates and follow mode *)
(* (lines 789-815; the test for duplicates is that of slow mode).          *)
InTime(u, text) ==
  \/ auth[u] >= MOD
  \/ /\ ~HeldBySlowMode(last[u].time, slowMode, now)
     /\ text # last[u].text \/ ~HeldBySlowMode(last[u].time, DuplicateSlowMode, now)
     /\ ~HeldByFollowMode(createdAt[u], followMode, now)

(* Bug: the time the next message is due is stored. *)
BugRemembered(u, text) == [last EXCEPT ![u] = [text |-> text, time |-> now + slowMode]]

Remembered(u, text) == [last EXCEPT ![u] = [text |-> text, time |-> now]]

(* last_message is written before publish, which may then discard it, and  *)
(* not for a moderator.  The UPDATE may fail unnoticed.                    *)
Note(u, text) ==
  \/ auth[u] >= MOD /\ UNCHANGED <<last, unnoted>>
  \/ auth[u] < MOD /\ last' = Remembered(u, text) /\ unnoted' = unnoted \ {u}
  \/ auth[u] < MOD /\ "last" \in Fails /\ last' = last /\ unnoted' = unnoted \cup {u}

(* A message that is no command and does not make the bot speak. *)
Speak(u, text, reply) ==
  /\ Len(history) < MaxMessages
  /\ ~Banned(u)
  /\ InTime(u, text)
  /\ Note(u, text)
  /\ \E o \in Outcomes(history, u, text, auth[u], reply, FALSE) :
       Publish(o.table, o.lost) /\ unrepaired' = unrepaired \cup o.kept
  /\ UNCHANGED <<now, auth, bannedUntil, createdAt, modes, donations, torn>>

(* A mention of the bot or a command with a public response (doMention,    *)
(* say, time, timer, custom commands): the message is published and the    *)
(* answer of the bot after it.                                             *)
Ask(u, text, reply, answer) ==
  /\ Len(history) + 1 < MaxMessages
  /\ ~Banned(u)
  /\ InTime(u, text)
  /\ Note(u, text)
  /\ \E o \in Outcomes(history, u, text, auth[u], reply, FALSE) :
       \E a \in Outcomes(o.table, Bot, answer, MOD, 0, FALSE) :
         /\ Publish(a.table, o.lost \cup a.lost)
         /\ unrepaired' = unrepaired \cup o.kept \cup a.kept
  /\ UNCHANGED <<now, auth, bannedUntil, createdAt, modes, donations, torn>>

-----------------------------------------------------------------------------
(* Moderation: commands whose response goes to their author only.          *)

(* The author's level and ban are read with the message, in the same step. *)
May(m, level) == ~Banned(m) /\ auth[m] >= level

(* UPDATE users of ban(): administrators are left out.  A second ban in    *)
(* the same second to the same end changes no row and ends there, which is *)
(* a step that changes nothing.                                            *)
Bans(u, until) ==
  /\ auth[u] # ADMIN
  /\ bannedUntil' = [bannedUntil EXCEPT ![u] = until]

(* Where a ban can end: for ever, or a number of seconds from now, which   *)
(* the command lets be negative.                                           *)
BanEnds ==
  LET entered == {e \in BanTimes \X Units : Parses(e[1], e[2])}
  IN  {Forever} \cup {now + s : s \in UNION {Seconds(e[1], e[2]) : e \in entered}}

Written(u) == {i \in Ids : history[i].user = u}

(* Bug: the rows of the user are left in the table. *)
BugBan(m, u, until) ==
  /\ May(m, MOD)
  /\ Bans(u, until)
  /\ torn' = torn \ {u}
  /\ UNCHANGED <<now, history, auth, createdAt, last, modes, donations, screens, unnoted, unrepaired>>

(* ban(): the packet names the messages that were not dropped before.  The *)
(* UPDATE that follows their SELECT may fail unnoticed.                    *)
Ban(m, u, until) ==
  /\ May(m, MOD)
  /\ Bans(u, until)
  /\ \/ DropMessages(Written(u), Written(u) \cap Visible) /\ torn' = torn \ {u}
     \/ "drop" \in Fails /\ DropMessages({}, Written(u) \cap Visible) /\ torn' = torn \cup {u}
  /\ UNCHANGED <<now, auth, createdAt, last, modes, donations, unnoted, unrepaired>>

(* ban() whose second statement fails, or before which the process dies    *)
(* (Restart may be the next step): the messages stay.                      *)
BanTorn(m, u, until) ==
  /\ May(m, MOD)
  /\ Bans(u, until)
  /\ torn' = torn \cup {u}
  /\ UNCHANGED <<now, history, auth, createdAt, last, modes, donations, screens, unnoted, unrepaired>>

Unban(m, u) ==
  /\ May(m, MOD)
  /\ bannedUntil' = [bannedUntil EXCEPT ![u] = 0]
  /\ torn' = torn \ {u}
  /\ UNCHANGED <<now, history, auth, createdAt, last, modes, donations, screens, unnoted, unrepaired>>

(* commandDelMsg, for the arguments that are numbers. *)
DelMsg(m, ids) ==
  /\ May(m, MOD)
  /\ \E dropped \in (IF "drop" \in Fails THEN SUBSET ids ELSE {ids}) : DropMessages(dropped, ids)
  /\ UNCHANGED <<now, auth, bannedUntil, createdAt, last, modes, donations, failures>>

(* Bug: the test for administrators is lost. *)
BugSetAuth(m, u, level) ==
  /\ May(m, ADMIN)
  /\ auth' = [auth EXCEPT ![u] = level]
  /\ UNCHANGED <<now, history, bannedUntil, createdAt, last, modes, donations, screens, failures>>

(* commandMod and commandUnmod, through setUserAuthLevelCommand. *)
SetAuth(m, u, level) ==
  /\ May(m, ADMIN)
  /\ auth[u] # ADMIN
  /\ auth' = [auth EXCEPT ![u] = level]
  /\ UNCHANGED <<now, history, bannedUntil, createdAt, last, modes, donations, screens, failures>>

SlowMode(m, n) ==
  /\ May(m, MOD)
  /\ slowMode' = Unsigned(Read(n))
  /\ UNCHANGED <<now, tables, followMode, donations, screens, failures>>

(* A number toInt() does not take is reported and changes nothing. *)
FollowMode(m, n) ==
  /\ May(m, MOD)
  /\ n \in Int32
  /\ followMode' = Unsigned(n)
  /\ UNCHANGED <<now, tables, slowMode, donations, screens, failures>>

-----------------------------------------------------------------------------
(* Donations: processPayPal and the callback of its order request.         *)

(* The ban is tested and the user is read before PayPal is asked. *)
Donate(u) ==
  /\ ~Banned(u)
  /\ Cardinality(donations) < MaxDonations
  /\ donations' = donations \cup {[user |-> u, level |-> auth[u]]}
  /\ UNCHANGED <<now, tables, modes, screens, failures>>

(* The order is good and its message has no blocked word: it is published  *)
(* in the name of the user that was read.  No mode holds it back, and      *)
(* last_message stays.                                                     *)
DonationAccepted(d, text) ==
  /\ Len(history) < MaxMessages
  /\ text \notin Blocked
  /\ donations' = donations \ {d}
  /\ \E o \in Outcomes(history, d.user, text, d.level, 0, TRUE) :
       Publish(o.table, o.lost) /\ unrepaired' = unrepaired \cup o.kept
  /\ UNCHANGED <<now, auth, bannedUntil, createdAt, last, modes, torn, unnoted>>

(* One of the validations failed, or PayPal never answers. *)
DonationRejected(d) ==
  /\ donations' = donations \ {d}
  /\ UNCHANGED <<now, tables, modes, screens, failures>>

-----------------------------------------------------------------------------
(* Connections and the process.                                            *)

(* What processHello selects for a client whose last message is lastId:    *)
(* HistoryLength visible messages after it, the latest by time (messages   *)
(* of the same time in any order).                                         *)
Selections(lastId) ==
  LET after == {i \in Visible : i > lastId}
      newest(S) == \A i \in S, j \in after \ S : history[i].time >= history[j].time
  IN  IF Cardinality(after) <= HistoryLength
      THEN {after}
      ELSE {S \in SUBSET after : Cardinality(S) = HistoryLength /\ newest(S)}

(* The selection S leaves no message out behind f, the last it leaves out. *)
ReachesTo(S, f) ==
  /\ f \in {0} \cup (Visible \ S)
  /\ \A i \in Visible \ S : i <= f

Hello(c, lastId) ==
  /\ \E selected \in Selections(lastId) :
     \E S \in (IF "author" \in Fails THEN SUBSET selected ELSE {selected}), f \in {0} \cup Ids :
       /\ ReachesTo(S, f)
       /\ shown' = [shown EXCEPT ![c] = @ \cup S]
       /\ floor' = [floor EXCEPT ![c] = IF c \in feed /\ @ < f THEN @ ELSE f]
  /\ feed' = feed \cup {c}
  /\ UNCHANGED <<now, tables, modes, donations, stale, failures>>

(* insertSocket of a connection that has not said hello: it gets what is   *)
(* broadcast from now on.                                                  *)
SignIn(c) ==
  /\ c \notin feed
  /\ feed' = feed \cup {c}
  /\ floor' = [floor EXCEPT ![c] = Len(history)]
  /\ UNCHANGED <<now, tables, modes, donations, shown, stale, failures>>

(* clientDisconnected.  The screen is that of the connection: what the     *)
(* program at the other end keeps over a reconnection is its own affair.   *)
Leave(c) ==
  /\ c \in feed
  /\ feed' = feed \ {c}
  /\ stale' = stale \ {c}
  /\ shown' = [shown EXCEPT ![c] = {}]
  /\ floor' = [floor EXCEPT ![c] = 0]
  /\ UNCHANGED <<now, tables, modes, donations, failures>>

Tick ==
  /\ now < MaxTime
  /\ now' = now + 1
  /\ UNCHANGED <<tables, modes, donations, screens, failures>>

(* The modes a moderator set are not in the database. *)
Restart ==
  /\ slowMode' = 0
  /\ followMode' = FollowDefault
  /\ donations' = {}
  /\ feed' = {}
  /\ stale' = {}
  /\ shown' = [c \in Conns |-> {}]
  /\ floor' = [c \in Conns |-> 0]
  /\ UNCHANGED <<now, tables, failures>>

Moderate(m) ==
  \/ \E u \in Users : \/ \E until \in BanEnds : Ban(m, u, until) \/ BanTorn(m, u, until)
                      \/ Unban(m, u)
                      \/ \E level \in {USER, MOD} : SetAuth(m, u, level)
  \/ \E ids \in SUBSET (1 .. MaxMessages) : DelMsg(m, ids)
  \/ \E n \in ModeValues : SlowMode(m, n) \/ FollowMode(m, n)

MessagesNext ==
  \/ \E u \in Users, text \in Texts, reply \in Replies :
       \/ Speak(u, text, reply)
       \/ \E answer \in Texts : Ask(u, text, reply, answer)
  \/ \E m \in Users : Moderate(m)
  \/ \E u \in Users : Donate(u)
  \/ \E d \in donations : DonationRejected(d) \/ \E text \in Texts : DonationAccepted(d, text)
  \/ \E c \in Conns : SignIn(c) \/ Leave(c) \/ \E lastId \in 0 .. MaxMessages : Hello(c, lastId)
  \/ Tick
  \/ Restart

MessagesSpec == MessagesInit /\ [][MessagesNext]_messagesVars

-----------------------------------------------------------------------------
MessagesTypeOK ==
  /\ now \in StartTime .. MaxTime
  /\ history \in Seq(Rows)
  /\ auth \in [Users -> {USER, MOD, ADMIN}]
  /\ bannedUntil \in [Users -> Int]
  /\ createdAt \in [Users -> 0 .. now]
  /\ last \in [Users -> [text : Texts \cup {NoText}, time : 0 .. now]]
  /\ {slowMode, followMode} \subseteq 0 .. 2 * LongHalf - 1
  /\ {Signed(slowMode), Signed(followMode)} \subseteq Int32
  /\ donations \subseteq [user : Users, level : {USER, MOD, ADMIN}]
  /\ feed \subseteq Conns
  /\ shown \in [Conns -> SUBSET (Ids \cup {0})]
  /\ stale \subseteq feed
  /\ floor \in [Conns -> Nat]
  /\ torn \subseteq Users /\ unnoted \subseteq Users
  /\ unrepaired \subseteq Ids

(* Every connection in m_clients shows exactly the messages that are not   *)
(* dropped, from the point its hello reached back to: no message that was  *)
(* deleted, or dropped by a ban, stays on any screen, and none is missing, *)
(* however publishing, bans, deletions and hellos follow each other        *)
(* (publish, dropMessages, ban, processHello).  A statement that fails     *)
(* under publish or dropMessages makes the connections of that moment an   *)
(* exception, and no others: who connects again is right.                  *)
FeedInSync ==
  /\ \A c \in feed \ stale : shown[c] \subseteq Visible /\ {i \in Visible : i > floor[c]} \subseteq shown[c]
  /\ \A c \in Conns \ feed : shown[c] = {}

(* A banned user has no visible message, but for a donation PayPal took so *)
(* long to verify that the ban came first, and for a ban of which only the *)
(* first statement reached the database.                                   *)
BannedSilenced ==
  \A u \in Users \ torn : Banned(u) =>
    \A i \in Written(u) \cap Visible : history[i].donated

(* The history as ModeratedLog sees it.  Who is banned is silenced, but    *)
(* for a ban of which only the first statement reached the database.       *)
Log == INSTANCE ModeratedLog WITH
  Authors <- Users,
  log <- [i \in Ids |-> [author |-> history[i].user, paid |-> history[i].donated,
                         dropped |-> history[i].dropped]],
  silenced <- {u \in Users \ torn : Banned(u)}

(* publish, dropMessages, ban and unban keep the promise of moderation:    *)
(* what was deleted or dropped by a ban never comes back, nothing that was *)
(* written is changed, and a ban leaves nothing of its user, before it or  *)
(* after it, but donations that were being verified.                       *)
ImplementsLog == Log!LogSpec

(* What a step adds to the history, as far as the modes are concerned. *)
AddedInTime ==
  \A i \in DOMAIN history' \ Ids :
    LET row == history'[i]
        bound(r) == r.user = row.user /\ r.level < MOD /\ ~r.donated
    IN  row.user \in Users /\ bound(row) =>
          /\ createdAt[row.user] + Signed(followMode) <= row.time
          /\ row.user \notin unnoted =>
               \A j \in Ids : bound(history[j]) => history[j].time + Signed(slowMode) <= row.time

(* Slow mode and follow mode hold for what is in the history: a message a  *)
(* user writes comes as many seconds as were entered for slow mode after   *)
(* every message that user wrote without being a moderator, and as many as *)
(* were entered for follow mode after the account was created, whatever    *)
(* promotions, mode changes, failures and restarts came between.  Only a   *)
(* failure to note the last message suspends slow mode for its author, and *)
(* no longer than until the next one is noted.                             *)
ModesHonoured == [][AddedInTime]_messagesVars

(* No command, and no sequence of commands of several moderators, bans or  *)
(* demotes an administrator or makes one.                                  *)
AdminsImmune ==
  /\ \A u \in Users : auth[u] = ADMIN => bannedUntil[u] = 0
  /\ \A d \in donations : d.level = ADMIN <=> auth[d.user] = ADMIN

(* The reply id a client receives names an earlier message: replies cannot *)
(* form a cycle (lines 197-208).  A bad reply id gets past that only where *)
(* the very statement that repairs it fails.                               *)
RepliesPointBack ==
  \A i \in Visible \ unrepaired : history[i].reply \in 0 .. i - 1

(* The modes mean what was entered, though the members are unsigned and a  *)
(* negative number becomes a huge one: a user is held back while fewer     *)
(* seconds than that have passed since the last message, or since the      *)
(* account was created, and a mode that is not positive holds nobody back. *)
ModesAsEntered ==
  \A u \in Users :
    /\ HeldBySlowMode(last[u].time, slowMode, now) <=> last[u].time + Signed(slowMode) > now
    /\ HeldByFollowMode(createdAt[u], followMode, now) <=> createdAt[u] + Signed(followMode) > now

=============================================================================
