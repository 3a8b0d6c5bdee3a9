------------------------------ MODULE Shutdown ------------------------------
(***************************************************************************)
(* The three threads of the process (src/src/main.cpp) and the overlay     *)
(* (src/src/overlaydispatch.cpp): main posts start to the chat server and  *)
(* to the overlay, connects the signal requestOverlayMessage, and runs its *)
(* event loop; a Ctrl+C ends that loop, and main posts stop, tells each    *)
(* thread's event loop to quit, and joins it.  The chat server reaches the *)
(* overlay by queued calls of sendMessage, which the connected signal      *)
(* posts.                                                                  *)
(*                                                                         *)
(* QThread is external.  Its event loop tests its exit flag, then runs the *)
(* events posted so far and waits for more; on being woken it tests the    *)
(* flag again (the dispatcher of Unix) or first runs what was posted       *)
(* meanwhile (that of glib).  quit() sets the flag from another thread and *)
(* wakes the loop.  Events of sockets are no posted events.  What the chat *)
(* server does in its thread is in ChatSession and ChatMessages.           *)
(***************************************************************************)
EXTENDS Naturals, Sequences, FiniteSets

CONSTANTS
  Overlays,  \* QWebSockets of overlays
  MaxAlerts  \* bound on requestOverlayMessage

ASSUME ShutdownAssumption == MaxAlerts \in Nat

VARIABLES
  mainAt,   \* the next line of main()
  linked,   \* TRUE: requestOverlayMessage is connected to sendMessage
  queue,    \* the events posted to each thread
  exit,     \* the threads that were told to quit
  at,       \* where each event loop is
  todo,     \* posted events that it runs before it waits or tests
  started,  \* threads whose start() ran
  stopped,  \* threads whose stop() ran
  clients,  \* m_clients of the overlay
  deleted,  \* the overlay's sockets that were deleted
  misused,  \* TRUE: sendMessage used one of these
  sent,     \* number of alerts that sendMessage sent
  alerts    \* number of those requested since main runs its event loop

loops == <<at, todo>>
overlay == <<clients, deleted, misused, sent>>
shutdownVars == <<mainAt, linked, queue, exit, loops, started, stopped, overlay, alerts>>

Threads == {"chat", "overlay"}

ShutdownInit ==
  /\ mainAt = "start"
  /\ linked = FALSE
  /\ queue = [t \in Threads |-> <<>>]
  /\ exit = {}
  /\ at = [t \in Threads |-> "test"]
  /\ todo = [t \in Threads |-> 0]
  /\ started = {}
  /\ stopped = {}
  /\ clients = {}
  /\ deleted = {}
  /\ misused = FALSE
  /\ sent = 0
  /\ alerts = 0

(* The lines of main() before its event loop. *)
Starting == {"start", "startOverlay", "connect"}

-----------------------------------------------------------------------------
(* main().                                                                 *)

(* Bug: an event is posted in front of the others. *)
BugPosted(t, e) == [queue EXCEPT ![t] = <<e>> \o @]

(* Bug: every call is posted twice, as by a signal connected twice. *)
BugDoubled(t, e) == [queue EXCEPT ![t] = Append(Append(@, e), e)]

Posted(t, e) == [queue EXCEPT ![t] = Append(@, e)]

(* A call from one line to another, which touches no loop. *)
Line(from, to) ==
  /\ mainAt = from
  /\ mainAt' = to
  /\ UNCHANGED <<linked, loops, started, stopped, overlay, alerts>>

StartChat == Line("start", "startOverlay") /\ queue' = Posted("chat", "start") /\ exit' = exit
StartOverlay == Line("startOverlay", "connect") /\ queue' = Posted("overlay", "start") /\ exit' = exit

(* Bug: the signal is not connected. *)
BugConnectSignal == Line("connect", "exec") /\ UNCHANGED <<queue, exit>>

(* Both threads may run start() and serve clients before this line. *)
ConnectSignal ==
  /\ mainAt = "connect"
  /\ mainAt' = "exec"
  /\ linked' = TRUE
  /\ UNCHANGED <<queue, exit, loops, started, stopped, overlay, alerts>>

(* Ctrl+C in exec(); before it, the signal is lost. *)
Interrupt == Line("exec", "stopChat") /\ UNCHANGED <<queue, exit>>

StopChat == Line("stopChat", "stopOverlay") /\ queue' = Posted("chat", "stop") /\ exit' = exit
StopOverlay == Line("stopOverlay", "quitOverlay") /\ queue' = Posted("overlay", "stop") /\ exit' = exit

(* threadExit(&overlayThread), then threadExit(&chatThread). *)
QuitOverlay == Line("quitOverlay", "joinOverlay") /\ exit' = exit \cup {"overlay"} /\ queue' = queue
JoinOverlay == at["overlay"] = "done" /\ Line("joinOverlay", "quitChat") /\ UNCHANGED <<queue, exit>>

(* Bug: the thread is joined without quit(). *)
BugQuitChat == Line("quitChat", "joinChat") /\ UNCHANGED <<queue, exit>>

QuitChat == Line("quitChat", "joinChat") /\ exit' = exit \cup {"chat"} /\ queue' = queue
JoinChat == at["chat"] = "done" /\ Line("joinChat", "ended") /\ UNCHANGED <<queue, exit>>

Starts == StartChat \/ StartOverlay \/ ConnectSignal
Exits == StopChat \/ StopOverlay \/ QuitOverlay \/ JoinOverlay \/ QuitChat \/ JoinChat

-----------------------------------------------------------------------------
(* The event loop of thread t.                                             *)

Goes(t, to, n) ==
  /\ at' = [at EXCEPT ![t] = to]
  /\ todo' = [todo EXCEPT ![t] = n]

Idle == UNCHANGED <<mainAt, linked, queue, exit, started, stopped, overlay, alerts>>

TestsExit(t) ==
  /\ at[t] = "test"
  /\ IF t \in exit THEN Goes(t, "done", 0) ELSE Goes(t, "pass", Len(queue[t]))
  /\ Idle

PassEnds(t) ==
  /\ todo[t] = 0
  /\ \/ at[t] = "pass" /\ Goes(t, "wait", 0)
     \/ at[t] = "woken" /\ Goes(t, "test", 0)
  /\ Idle

Wakes(t) ==
  /\ at[t] = "wait"
  /\ queue[t] # <<>> \/ t \in exit
  /\ Goes(t, "test", 0) \/ Goes(t, "woken", Len(queue[t]))
  /\ Idle

(* The next event of the pass is e. *)
Takes(t, e) ==
  /\ at[t] \in {"pass", "woken"} /\ todo[t] > 0
  /\ Head(queue[t]) = e
  /\ queue' = [queue EXCEPT ![t] = Tail(@)]
  /\ Goes(t, at[t], todo[t] - 1)
  /\ UNCHANGED <<mainAt, linked, exit, alerts>>

Start(t) ==
  /\ Takes(t, "start")
  /\ started' = started \cup {t}
  /\ UNCHANGED <<stopped, overlay>>

(* ChatServer::stop. *)
ChatStop ==
  /\ Takes("chat", "stop")
  /\ stopped' = stopped \cup {"chat"}
  /\ UNCHANGED <<started, overlay>>

(* OverlayDispatch::stop: m_clients keeps the sockets it deletes. *)
OverlayStop ==
  /\ Takes("overlay", "stop")
  /\ stopped' = stopped \cup {"overlay"}
  /\ deleted' = deleted \cup clients
  /\ UNCHANGED <<started, clients, misused, sent>>

SendMessage ==
  /\ Takes("overlay", "alert")
  /\ misused' = (misused \/ clients \cap deleted # {})
  /\ sent' = sent + 1
  /\ UNCHANGED <<started, stopped, clients, deleted>>

RunsPosted(t) == Start(t) \/ (t = "chat" /\ ChatStop) \/ (t = "overlay" /\ (OverlayStop \/ SendMessage))

(* The servers accept and serve clients from start() to stop(). *)
Serves(t) ==
  /\ at[t] = "wait"
  /\ t \in started \ stopped
  /\ Goes(t, "test", 0)
  /\ UNCHANGED <<mainAt, linked, exit, started, stopped>>

(* A donation or a moderator's command asks for an alert: it emits the     *)
(* signal, which nobody receives until main connected it.                  *)
Alert ==
  /\ Serves("chat")
  /\ alerts < MaxAlerts
  /\ alerts' = IF mainAt \in Starting THEN alerts ELSE alerts + 1
  /\ queue' = IF linked THEN Posted("overlay", "alert") ELSE queue
  /\ UNCHANGED overlay

Connected(o) ==
  /\ Serves("overlay")
  /\ o \notin clients
  /\ clients' = clients \cup {o}
  /\ UNCHANGED <<queue, deleted, misused, sent, alerts>>

Disconnected(o) ==
  /\ Serves("overlay")
  /\ o \in clients
  /\ clients' = clients \ {o}
  /\ UNCHANGED <<queue, deleted, misused, sent, alerts>>

Loop(t) == TestsExit(t) \/ PassEnds(t) \/ Wakes(t) \/ RunsPosted(t)

ShutdownNext ==
  \/ Starts \/ Interrupt \/ Exits
  \/ \E t \in Threads : Loop(t)
  \/ Alert
  \/ \E o \in Overlays : Connected(o) \/ Disconnected(o)

(* The operating system runs every thread. *)
ShutdownSpec ==
  /\ ShutdownInit /\ [][ShutdownNext]_shutdownVars
  /\ WF_shutdownVars(Starts) /\ WF_shutdownVars(Exits)
  /\ \A t \in Threads : WF_shutdownVars(Loop(t))

-----------------------------------------------------------------------------
ShutdownTypeOK ==
  /\ mainAt \in Starting \cup {"exec", "stopChat", "stopOverlay", "quitOverlay",
                              "joinOverlay", "quitChat", "joinChat", "ended"}
  /\ linked \in BOOLEAN
  /\ queue \in [Threads -> Seq({"start", "stop", "alert"})]
  /\ at \in [Threads -> {"test", "pass", "wait", "woken", "done"}]
  /\ \A t \in Threads : todo[t] \in 0 .. Len(queue[t])
  /\ exit \subseteq Threads /\ started \subseteq Threads /\ stopped \subseteq Threads
  /\ clients \subseteq Overlays /\ deleted \subseteq Overlays
  /\ misused \in BOOLEAN
  /\ sent \in 0 .. alerts /\ alerts \in 0 .. MaxAlerts

(* stop() uses the servers start() makes, whose pointers are uninitialized *)
(* before: it never runs first, however soon the Ctrl+C comes.             *)
StartedFirst == stopped \subseteq started

(* Ctrl+C ends the process: both threads quit and are joined, whatever     *)
(* they are doing, what is posted to them, and in which order.  The        *)
(* exception is an overlay that sends an alert behind its stop(), through  *)
(* the sockets this deleted: whatever happens then is undefined.           *)
ProcessEnds == mainAt = "stopChat" ~> (mainAt = "ended" \/ misused)

(* main never waits for a thread that waits itself: the loop of a thread   *)
(* that threadExit joins has a step to make until it is done, though the   *)
(* quit() that wakes it may come at any point of it.  In the middle of a   *)
(* pass that is an event the thread has a handler for.                     *)
Handled == [t \in Threads |-> IF t = "chat" THEN {"start", "stop"} ELSE {"start", "stop", "alert"}]

Moves(t) ==
  \/ at[t] = "test"
  \/ at[t] = "wait" /\ (queue[t] # <<>> \/ t \in exit)
  \/ at[t] \in {"pass", "woken"} /\ (todo[t] = 0 \/ Head(queue[t]) \in Handled[t])

JoinedMoves ==
  /\ mainAt = "joinOverlay" => at["overlay"] = "done" \/ Moves("overlay")
  /\ mainAt = "joinChat" => at["chat"] = "done" \/ Moves("chat")

(* No alert is left unsent: once main runs its event loop, whatever the    *)
(* chat server asks for, sendMessage sends, though the overlay's loop may  *)
(* be anywhere, its start() not yet run, and sockets keep it busy.  The    *)
(* exceptions are alerts asked for while main still starts (line 100 comes *)
(* after the servers started) and those that wait when it ends.            *)
AlertsSent ==
  \A n \in 1 .. MaxAlerts : alerts = n ~> (sent >= n \/ mainAt # "exec")

=============================================================================
