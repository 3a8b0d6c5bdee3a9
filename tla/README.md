# A TLA+ verification project for the KC Chat server

The server (`src/src/`, C++ with Qt) keeps WebSocket connections of web clients,
signs their users in through Google, publishes chat messages, lets moderators
ban, delete and slow down, and accepts donations through PayPal. This directory
holds TLA+ modules of it, TLC configurations that check them on small instances,
and proofs that hold for instances of any size.

## 1. Inventory

All of `ChatServer` runs in one thread (`main.cpp:86-88`): a Qt slot or a network
callback runs to its end before the next one starts, and SQL calls block. What
interleaves is therefore *events*: frames and disconnects of several clients,
deferred deletions, replies of Google and PayPal, the clock, and the end of the
process between two SQL statements.

| component | state | operations | hard behaviour | what must hold |
|---|---|---|---|---|
| connection map (`usersocketmap.h`) | `m_idSocket`, `m_socketId` | `insertSocket`, `removeSocket`, `broadcastTextMessage` | one user on several sockets, one socket under several ids over time | the maps are inverse; the last socket of a user, and no other, parts it |
| connections, sign-in, user list (`chatserver.cpp`) | the map, sockets, callbacks held by authentication modules, `users.display_name` | `handleNewConnection`, `processHello`, `processClientMessage`, `processAuthenticatedMessage`, `processSetUserConfig`, `clientDisconnected` | answers after the connection ended or its address was reused; rename, join and part packets in the same callback; a lookup that fails in the middle of a join or part | every client's user list is right; no closed socket is in the map but through its own client's misuse |
| messages and moderation (`chatserver.cpp`, `chatcommands.cpp`) | `history`, moderation columns of `users`, `m_slowMode`, `m_followMode` | `publish`, `dropMessages`, `processChatMessage`, `ban` and the other commands, `processHello` | donations verified while their author is banned; two-statement bans; mode changes and restarts | screens agree with the table; the banned are silent; modes hold; administrators are immune; replies point back |
| Google sign-in (`auth/`) | `google_tokens`, `google_users`, requests under way | `authenticate`, two reply handlers, `lookupUserFromSub`, `createNewUser` | replies in any order, codes used twice, SQL failures | one user per account; one answer per request |
| packet rate limit, host bans (`processClientMessage`) | property `access` of a socket, `banned_hosts` | the checks before authentication, `ban` | boundary of the window; a host banned between the check and the answer; entries of the map that outlive their connection | fewer than ten packets are served in any second; no frame passes from a banned address |
| PayPal (`processPayPal`) | `PP_ACCESS_TOKEN`, `transactions` | order request, token request, retry | expired tokens, endless retries, an order recorded before it is validated | a client's id of an order is decided once, published at most once and only if the order is paid; every frame comes to an end |
| commands, timers (`chatcommands.cpp`) | `m_commandMap`, `m_simpleResponses`, `m_timers`, `responses` | addcom, editcom, delcom, timer | memory and table drift apart; collation | built-in commands stay; a restart changes only what a statement failed on |
| overlay dispatch | `m_clients` of its own | connect, disconnect, `sendMessage`, `stop` | a second thread, queued signals | no alert of a running server is left unsent |
| start-up, shutdown (`main.cpp`) | two event loops | queued `start`, `stop`, `quit`; the connection of `requestOverlayMessage` | `quit` may overtake `stop`; threads serve clients before the signal is connected | `stop` never precedes `start`; the process ends |
| configuration, JSON, formatting, logging | none that changes | - | - | - |

They interact as follows. `ChatServer` owns the map and calls it in every handler.
`authenticate` of an `AuthModule` gets two callbacks and calls one of them, at once
(the token is known) or after one or two HTTP replies. `processPayPal` keeps a copy
of the user until its order is verified. `ChatServer` reaches the overlay by a
queued signal and clients by packets; nothing is shared between the two threads.

`PROJECT.json` lists the hazards of the code line by line with the properties that
cover them.

## 2. Modules

Component modules; each has an `MC...` module with the values TLC uses.

| module | models | |
|---|---|---|
| `UserSocketMap` | the two hash maps and their operations | a library of operations: no `Next` of its own |
| `ChatSession` | connections, sign-in, renaming, join and part packets | EXTENDS `UserSocketMap` |
| `ChatPresence` | the promise: every client that asked has the list of the named users online, but for those it was not told about | abstract; `ChatSession` implements it |
| `Durations` | the integer arithmetic of the lengths of bans and modes | a library |
| `ChatMessages` | history, moderation, modes, donations, the screens of clients | EXTENDS `Durations`; its input is a message that is authenticated and has an author with a name |
| `ModeratedLog` | the promise: messages never change, what is dropped stays dropped, a ban leaves nothing of its user before or after it but donations | abstract; `ChatMessages` implements it |
| `HostBans` | address bans against frames that are being authenticated | EXTENDS `UserSocketMap` |
| `RateLimiter` | the times of packets a connection keeps | |
| `SlidingWindow` | the promise: a window over all packets of the connection | abstract; `RateLimiter` implements it |
| `GoogleAuth` | both tables of Google sign-in, requests and replies | |
| `AuthService` | the promise `ChatServer` relies on: a request is answered once, an account keeps its user | abstract; `GoogleAuth` implements it |
| `PayPal` | donation frames, the two requests to PayPal, the shared token, the table `transactions` | |
| `Donations` | the promise: a client's id is decided once, and published only if the order it names was paid | abstract; `PayPal` implements it |
| `Commands` | custom commands in memory and in the table, timers | |
| `Dictionary` | the promise: a change is to one entry, and a restart changes only what did not reach the store | abstract; `Commands` implements it |
| `Shutdown` | `main()`, two event loops with queued calls, the overlay's sockets | |

Proof modules, each about the module it is named after: `ChatSessionProofs`,
`ChatMessagesProofs`, `HostBansProofs`, `RateLimiterProofs`, `GoogleAuthProofs`,
`PayPalProofs`, `CommandsProofs`, `ShutdownProofs`.

Operators whose name starts with `Bug` are deliberately wrong variants of the
operator after them (a lost reset, a dropped test). They show that each property
can fail: with the variant in place of the operator TLC finds a violation.

How the modules compose. `HostBans` and `ChatSession` are two views of
`processClientMessage` over the same map: the first adds addresses and bans, the
second renames, hellos and sockets that are gone. `ChatMessages` starts where a frame
of them is authenticated. `Donate`, `DonationAccepted` and `DonationRejected` of
`ChatMessages` are the ends of a frame of `PayPal`: the one module shows what becomes
of the id of an order, the other what becomes of a donor who is banned meanwhile.
`AuthService` is what `Request`, `AuthSucceeds` and `AuthFails` of `ChatSession`
take for granted. They are separate modules because their product is beyond TLC,
and share no variable but those named here.

### UserSocketMap and ChatSession

`idSocket` is `m_idSocket` with a set for each list (a socket is never listed twice
and an empty list is erased), `socketId` is `m_socketId`; `Sockets` are the
addresses a `QWebSocket` can be allocated at. `conn` is the life of the object at
an address: `"open"`, `"closed"` (disconnected, waiting for `deleteLater`), `"free"`.

| action | code |
|---|---|
| `NewConnection`, `Disconnect`, `DeleteSocket` | `handleNewConnection`, `clientDisconnected` with `removeSocket`, the deferred deletion |
| `Hello` | `processHello`: joins of all authors, then `insertSocket(0, client)` |
| `Request` | `authenticate` returns and keeps the bound callback (`pending`) |
| `AuthenticateCached` | `authenticate` calls back at once |
| `AuthSucceeds`, `AuthFails` | the answer comes: `processAuthenticatedMessage` or `handleAuthFailure` |
| `CooldownOver` | thirty days after a rename |
| `Restart` | the process ends and starts again |

`SignedIn` and `Renamed` are the whole of `processAuthenticatedMessage` for frames
without and with a new name: `insertSocket`, its join packet, and in a rename the
part of the old name and the join of the new one. `roster` is what a client computes
from the packets it gets.

`getUserInfoFromUserId` may fail, and the join packet of `insertSocket`
(`chatserver.cpp:526`), the part packet of `removeSocket` (538) or a join packet of
hello (1039) is then not sent. `Announced` is a packet that is sent or not, `Hello` sends
the packets of any set `found`; the history variable `missed` has, for each client, the
users about whom its last packet was not made. `RosterInSync` and `ChatPresence` say that
a list is wrong about these and about nobody else.

The QPointer of `processAuthenticatedMessage` is made when the callback runs, so its
null test never stops anything. What the code does on a deleted socket is undefined;
the model lets the callback carry on as if the socket were there, or the process die
(`Restart`). Three things upset the map, and the server tests for none of them: a hello
after signing in (`"rehello"`), tokens of several users on one connection (`"switch"`),
and an end before the answer (`"hangup"`). The constant `Unruly` says which of these
happen at all, at any address. The history variable `soiled` has the addresses of
`QWebSocket` objects where one did, since the start; whatever is allocated there later,
orderly or not, may meet a late answer or an entry that was left. `OrderlyPaired` and
`MapOnlyLive` are about the addresses outside `soiled`: the damage stays at its address,
however connections at others behave. They promise nothing to a connection that is given
a soiled address: `late_answer` shows an answer that lands there.

### ChatMessages and Durations

A message id is an index into `history`. `Speak` is `processChatMessage` for an
ordinary message, `Ask` for one the bot answers in public; a command with a private
answer is one of `Ban`, `Unban`, `DelMsg`, `SetAuth`, `SlowMode`, `FollowMode`.
`shown` is what a client has on its screen by the chat and delete packets of its
connection. Level 20 (member) is left out: no code sets it, and it passes the same
tests as level 0 here. Texts are model values; those in `Blocked` contain a banned
word, those in `Overlong` exceed `max_chat_length`.

`Fails` names the statements that may fail, of `Statements`: the INSERT of a message
(`"insert"`: it is sent with the id 0), reading the banned words (`"words"`: it is
dropped), the repair of a bad reply id (`"reply"`: the id stays in the table), noting
`last_message` (`"last"`), dropping messages (`"drop"`: delete packets go out for rows
that were not updated, and a ban may take effect in `users` only) and reading an author
(`"author"`: hello skips the message). `Stored` and `Outcomes` are what `publish` leaves
in the table and tells clients, `Note` what a message does to `last_message`, and
`BanTorn` the half-done ban. History variables say what the properties except:
`floor` (up to this id the LIMIT of hello may have left messages out), `stale`
(connections in `m_clients` when a statement failed), `torn` (users of half-done bans),
`unnoted` (users whose latest message was not noted) and `unrepaired` (rows whose
repair failed). Each ends with its cause: a new hello, an `unban` or a whole ban, and
the next message that is noted; a row is never repaired again.

`ModeratedLog` sees of each row who wrote it, whether it was paid for and whether it is
dropped; silenced are the banned users but those of `torn`. Publications, also those of
donations, are `Post`; bans, unbans, deletions and the clock, which ends bans, are
`Moderate`; nothing else concerns it.

`Durations` has the arithmetic of the numbers a moderator enters. The product of a
number and a unit is an int: outside its range the result is undefined, and
`Seconds` is then any int. The modes are stored in a `quint64` and compared as
`qint64`: `Unsigned` and `Signed` are the conversions, at any width.

### HostBans and RateLimiter

`Frame` of `HostBans` is `processClientMessage` up to `authenticate`; the answer is
one of `Refused`, `SignsIn`, `Ban`, `IpBan`, `Unban`, `NotFound`. The last is a ban whose
UPDATE changes no row, of an administrator or in the second of an equal ban: `ban()`
answers "Couldn't find user" and bans no address. Connections behave as in
`ChatSession`: `Hello` resets the id and leaves the socket in the list of its user,
`Disconnect` may come before the answer, the address may be in use again when it comes,
and `Restart` empties everything but the database. `hostUntil` is the latest end of the
rows of `banned_hosts` for an address, `exile` the history variable the properties compare
it with: it is computed from `accounts`, whom the open connections signed in as, and not
from the list of sockets `ban()` goes through. Where something unruly happened (`soiled`,
as in `ChatSession`) a socket may be in the list of a user that the connection there has
not signed in as, and when nobody is connected there `ban()` reads `peerAddress()` of a
deleted object, which may be the address of anybody (`stray`). `BansExact` is about every
step and allows an address that served only others to be banned through such an entry
alone. `access` of `RateLimiter` is the
property of the same name of the socket; `times` and `served` are history variables.

### GoogleAuth

A request is one call of `authenticate`. `AuthenticateKnown`, `AuthenticateNew` and
`AuthenticateFails` are its three ways; `TokenGranted`/`TokenRefused` and
`UserInfo`/`UserInfoRefused` are the two reply handlers. `owner` and `spent` are
Google's: whose code it is and whether it was exchanged (once only). `NotCreated`
is `createNewUser` or the link failing: the first ends without calling either
callback (status `"lost"`), the second leaves a user that is nobody's (`orphans`).
`AuthService` allows the loss (`Drop`) for an account without a user, and no other.

### PayPal and Donations

A request is one frame of type `paypal`. `Donate` runs `processPayPal` to the order
request; `Answer`, `AnswerToken` and `Fault` are PayPal and the network, `Expire` the
end of the tokens granted so far; `AskToken`, `Ends`, `Decide` and `TokenReply` are the
callbacks. `token` is the static `PP_ACCESS_TOKEN`, which all frames share. `Decide`
is the INSERT into `transactions`, the validations and the publication; `Restart` may
come between the first and the rest.

The `id` of a frame is the client's string. It becomes part of the request URL
(`chatserver.cpp:1084`) and the key of the row (1135), while the id in PayPal's reply
(1151) only appears in log messages. `Ids` are these strings, up to the collation of the
key, `Orders` PayPal's orders, and the constant `Named` is any function that says with which order
PayPal answers a request for an id; several ids may name one order. What is checked and
proved holds for every id: it is decided once and buys at most one message.

### Commands

`commandMap` and `simpleResponses` are the two maps, `responses` the table, whose
key compares by collation. `Executes` is one statement that may fail; the maps are
changed in either case. `apart` is a history variable: the names, as the table
compares them, that a failed or refused statement was about. `Dictionary` sees
`simpleResponses` without the built-in names, and the names of `apart` as doubtful;
`Restart` is `Reopen`, or `ReopenEmpty` if the table cannot be read.

### Shutdown

`mainAt` is the line of `main()`, `linked` whether `requestOverlayMessage` is connected
(`ConnectSignal`, after the starts of both threads were posted), `queue` what is posted to each thread, and
`at`/`todo` where each QThread event loop is: testing its exit flag, running what
was posted, waiting, or woken. Both dispatchers Qt uses on Linux are allowed.
`OverlayStop` deletes the sockets and leaves them in `clients`, as the code does;
`misused` records that a later alert used one. `Moves` says that an event loop has a
step to make: what `main` joins must, or the process hangs. An `Alert` is posted to the
overlay only once the signal is connected; before that the chat server may emit it, as
its thread serves clients already, and nobody receives it. `alerts` counts those that
are asked for from then on.

## 3. Runs

| run | checks | bounds |
|---|---|---|
| `session` | types, `SocketIndexed`, `RosterInSync`, `OrderlyPaired`, `MapOnlyLive`, refinement of `ChatPresence` | 2 users, 2 names, 2 sockets, anything unruly, 1 pending answer |
| `late_answer` | `DeletedSocketSkipped` is violated | 2 users, 2 sockets; `"hangup"` only |
| `rehello` | `Pairing` is violated | 2 users, 2 sockets; `"rehello"` only |
| `feed` | `FeedInSync`, `BannedSilenced`, `RepliesPointBack`, refinement of `ModeratedLog` | 1 user, 2 clients, 3 messages, hello LIMIT 1, every statement may fail, int of 2 values |
| `modes` | types, `ModesAsEntered`, `ModesHonoured`, `BannedSilenced`, `AdminsImmune`, refinement of `ModeratedLog` | 2 users, 2 messages, 1 donation, 2 seconds, `last_message` may not be noted |
| `google` | types, `OneUserPerAccount`, refinement of `AuthService` with liveness | 3 requests, 2 codes, 2 accounts, failing statements |
| `rate_limit` | types, `RateKept`, refinement of `SlidingWindow` | 9 packets, list of 4, interval of 4, clock to 9 |
| `host_bans` | types, `BansExact`, `EvasionStopped` | 2 users, 2 sockets, 2 addresses, anything unruly, 1 pending frame, clock to 1 |
| `paypal` | types, `PublishedOnce`, refinement of `Donations`, `EveryRequestEnds` | 2 frames, 3 ids of 2 orders, 1 fault, failing statements |
| `paypal_length` | `LongMessagesRefused` is violated | 1 frame, 3 texts |
| `commands` | types, `BuiltinsIntact`, `MapsAgree`, `RestartKeeps`, refinement of `Dictionary` | 5 names, 2 responses, 2 timers, failing statements |
| `shutdown` | types, `StartedFirst`, `JoinedMoves`, `ProcessEnds`, `AlertsSent` | 2 overlays, 2 alerts |

Why the bounds suffice for what the runs are about. Two users are the smallest number
for which a packet can hit the wrong one, and two sockets give one user two connections
or a reused address. One pending answer in `session` and `host_bans` comes after any
hello, sign-in with a known token, end and reuse; several that are answered in any order
are in `late_answer` and `rehello`, in `google`, and in the theorems, which hold for any
number. In `feed` the
LIMIT of 1 makes hello leave messages out with two in the table, and a third is
published afterwards; a text with a banned word and one that is too long are among
those sent; a ban of one unit overflows the int; the reply id 1 is bad for the first
message, which gets that id itself, and good for the others. In `modes` a too long message is
remembered and not published; the modes entered are positive, negative and no int,
and each test falls on, before and after its boundary, a ban for ever being one
that outlasts the clock; `HISTORY_LENGTH`, the 30
seconds of duplicates and the 600 of follow mode are constants with small values. In
`rate_limit` the list fills up, is cut more than once and lies on both sides of the
interval. In `host_bans` two connections share an address or do not, and a ban ends
when the clock moves or outlasts it. Three requests in `google` allow
two with the same code and one with another code of the same or of another
account. In `paypal` the frames may send one id, two ids of one order, or ids of two, and the fault may be an expired
token, a failed order request or a failed token request; a second fault only repeats
the loop. The names of `commands` are a built-in command, a name that differs from it
by an accent, two such names that are free, and one too long for the column. Runs
without a property about connections have none (`Conns = {}`). The theorems of
section 5 cover the safety properties for every value of these constants.

Symmetry (users, sockets or connections, names) is used in the safety runs
whose constants are interchangeable, and in none that checks liveness.
Deadlock is checked except in `google`, which stops when all requests are answered,
and in `shutdown`, which stops when the process has ended.

### What the runs found

* **`late_answer`**: connect (and say hello), present a token Google must check, disconnect, the
  socket is deleted, the answer arrives. `processAuthenticatedMessage` goes on:
  the bound argument is a raw pointer (`chatserver.cpp:713`), and the QPointer is
  built from it too late to notice the deletion, although the comment at 596-598 says
  that it does. From then on the map holds a dangling pointer that every
  broadcast uses.
* **`rehello`**: connect, sign in, hello: a hello on a signed-in connection resets its id to 0
  (`chatserver.cpp:1044`), the list of its user keeps the socket, and removing the
  socket no longer finds it there (`usersocketmap.h:30,38-39`): the user stays in
  the list of chatters until the server restarts, and private answers to that
  user write to a deleted socket. Tokens of two users on one connection have the same effect.
* **`paypal_length`**: the length of a donation's message is compared as
  `message > number` (`chatserver.cpp:1191`), a comparison of strings with the
  character of that code; a long message passes and a short one may not.

`RosterInSync` holds in spite of the first two: clients list what the map says, even
where the map is wrong.

### Observations without a run

No text of the repository says otherwise, so these are behaviours of the models and
not findings.

* A message longer than `max_chat_length` is remembered as the last one and answered
  as accepted before `publish` discards it (`chatserver.cpp:817-834`).
* Without valid PayPal credentials a donation frame asks for tokens for ever
  (`chatserver.cpp:1099-1125`): `EveryRequestEnds` needs `Credentials`.
* A command whose name the table takes for equal to another lives until the next
  restart only (`chatcommands.cpp:43-57`); `apart` excepts it.
* `quit()` may be seen before a queued `stop` (`main.cpp:106-110`): the process ends
  without its clients being closed. `ProcessEnds` says no more than that it ends.
* `OverlayDispatch::stop` keeps deleted sockets in `m_clients`
  (`overlaydispatch.cpp:32`), which an alert queued behind it would use.
* The key of `transactions` is the id a client sends, not the id of the order PayPal
  answers with (`chatserver.cpp:1135`, 1151): an order with several ids is recorded once
  for each. `PublishedOnce` and `Donations` promise nothing of orders.
* A join or part packet whose lookup of the user fails is not made up for
  (`chatserver.cpp:526`, 538, 1039): lists stay wrong about that user until the next one.
* An `ipban` in the second of a ban of the same user to the same end answers "Couldn't
  find user" and bans no address (`chatserver.cpp:361`).
* A donation is published although its author was banned while PayPal was asked
  (`chatserver.cpp:1065`): the properties except rows that were paid for.
* An alert that is asked for between `main.cpp:96` and 100 has no receiver.
* A long ban in a unit overflows an int (`chatserver.cpp:323`) and may end in the past.

## 4. Fairness

* `GoogleSpec`: weak fairness of `Reply(r)` for every request. `QNetworkReply` emits
  `finished` for each request, with an error if the connection fails, and the event
  loop runs the handler; nothing else can take the reply from it.
* `PayPalSpec`: weak fairness of PayPal's answers, of which an error is one, for the
  same reason, and of every callback. Nothing else is fair: no client sends, no order
  is paid, no token need expire. Failures are bounded by `MaxFaults`; without a bound
  the tokens might expire for ever and the code would ask for ever.
* `ShutdownSpec`: weak fairness of `main` before and after `exec()`, and of each event
  loop: the operating system runs every thread. The Ctrl+C itself is not fair.

No fairness is assumed of clients, clocks, moderators or restarts, and the other
specifications state none.

## 5. Proofs

All proofs hold for all values of the constants that satisfy the named assumptions.
The inductive invariant of each module, and why it is needed:

* `ChatSessionProofs`. `TypeCorrect` and `IndexedCorrect` are inductive.
  `RosterCorrect` uses `SessionInv`, which adds `UniqueNames`: a part packet carries a
  name, not a user, so a shared name would remove the wrong one from every list.
  The core is that a packet pair (gone, come) which changes the names online in the same
  way keeps every list right, and that a packet which is not made adds its user to `missed`.
  `PresenceImplemented` maps every step to a step of `ChatPresence` or a stutter.
  `OrderlyCorrect` and `LiveCorrect` rest on `OrderlyInv`, which adds that an open question
  at an address outside `soiled` belongs to an open connection and to its only user.
* `ChatMessagesProofs`. `MessagesInv` joins types, `FeedInSync`, `BannedSilenced` and
  `AdminsImmune`. The ranges of the modes are in the types; with `RoundTrip` and
  `SignedShift` they give `ModesEnteredCorrect` at any width of the integers.
  `Grown` says what every publication has in common and carries `FeedCorrect` and
  `SilencedCorrect`. `RepliesCorrect` uses `PointsBack`, and `ModesCorrect`
  `LastIsLatest`: the time in `last` is not before any row the user wrote as no
  moderator, unless that user is in `unnoted`. All hold for any set of statements that
  fail. `LogCorrect` is the whole refinement of `ModeratedLog`: a ban needs
  `BannedSilenced` in the state it leads to, and a publication that its author was not
  banned, or that the row was paid for.
* `HostBansProofs`. `EvasionCorrect` uses `Listed` (a connection is in the list of every
  user it has signed in as, which `ban()` goes through) and `Covered` (no row ends before
  the exile it stands for). `ExactCorrect` also needs `OneUserEach`: outside `soiled` the
  entries of the map and the pending frames are those of the open connection, and of one
  user. It holds whatever happens inside `soiled`: an entry left there gets an address
  banned with a user it did not serve, and this is the only way in.
* `RateLimiterProofs`. `LimiterInv`: the list is the end of all times, in order
  (`EndOf`, `TimesOrdered`), so its two ends decide what a count over the whole
  connection decides. `WindowImplemented` is a count of an interval of indices.
* `GoogleAuthProofs`. `GoogleInv` adds `RowsOwned` (the row of a code is its owner's)
  and `UsersPaired` (accounts and users are in bijection but for orphans).
  `GoogleTypeCorrect` says more than types: a request has a reply under way if and only
  if it waits, so that no handler runs for a request that was answered.
  `AnswersImplemented` is the safety part of the refinement, with all positive user ids.
* `PayPalProofs`. `PayPalInv` adds `HonestAnswers`: an answer that an order was paid
  for stays true. `Named` is any function from ids to orders. `PayPalTypeCorrect` says also that the answer on its way to a
  callback is one the callback handles. `DonationsImplemented` is the whole refinement.
* `CommandsProofs`. `CommandsInv` adds `NoBuiltinRow`: no row could override a built-in
  command on a restart. `DictionaryCorrect` is the whole refinement of `Dictionary`: the
  names apart after a step are those before it, or these and the class of one name.
* `ShutdownProofs`. `ShutdownInv` adds `InOrder` (`start` has run or stands before every
  `stop` of the queue), `AlertsOK`, which counts the alerts that wait (the signal is
  connected exactly from the event loop of `main` on), and `JoinsOK`: a thread that is
  joined was told to quit. With it
  `JoinedMovesCorrect` excludes that `main` waits for a thread that waits itself, the
  safety core of `ProcessEnds`.

Only model-checked: liveness, since fairness and ENABLED are beyond the prover -
the fairness part of `ImplementsService`, `EveryRequestEnds`, `ProcessEnds` and
`AlertsSent`. The three violated properties have counterexamples only.

## 6. What could follow

1. A composition of `PayPal` with `ChatMessages`, in which a donation's callback is
   the same step in both.
2. Other authentication modules, once the repository has one with state.

## 7. Not modelled

* Start-up configuration and SSL: read once, before anything runs.
* JSON encoding of packets and overlay messages, wording, colours, `getuserconf`,
  formatting helpers and logging: nothing later reads what they make.
* The `video` and TTS commands: they forward to the overlay or write a table
  that no code here reads back into state.
* What a client keeps over a reconnection, which is not in this repository.
* The code in comments at the end of `chatserver.cpp`.
* Frames without a known type or token change none of the modelled state and have no
  action of their own.
