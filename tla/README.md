# TLA+ models of the chat room server and its desktop client

The repository holds a TCP chat server (`src/server`, C++ with Boost.Asio
coroutines) and a desktop client (`src/ui`, Rust with Dioxus and tokio). UDP
multicast, which the repository is named after, is a placeholder. This
directory holds models of both programs in TLA+, the TLC runs that check them
on small instances, and TLAPS proofs for instances of any size.

## 1. The system

| Part | State | Operations | Talks to |
|---|---|---|---|
| `Channel<T>` (`channel.hpp`) | a deque, a closed flag, a mutex, a timer that serves as condition variable | `write`, `close`, `is_open`, `async_read` | shared by coroutines on any thread |
| Chat rooms (`server.hpp`, `tcp_chat_room.hpp`) | a list of rooms, each with id, name, mutex and `weak_ptr`s to channels | create, find, join, broadcast | used by all sessions, under `chat_room_mutex` and the room's mutex |
| Session (`tcp_accept`) | the socket, `current_subscriptions`, the write channel | `sub`, `csub`, `msg`, `desub`, end of the connection | rooms, its writer, its listeners |
| `spawn_listener` | none | moves messages from a room channel to the write channel | one per subscription |
| `socket_writer` | a reference to the session's socket | moves lines from the write channel to the socket | one per session |
| Server process (`serve`, `serve_async`, `accept_connections`, `main`) | threads, work guard, acceptor, signal set | start, accept, shut down | spawns sessions |
| Client connection task (`network.rs`) | socket, command receiver | connect, write commands, read lines, end | server; the UI through two bounded channels |
| Client UI (`main.rs`, `components/`) | status, rooms, messages, active room, the channel ends | connect, create, subscribe, select, send, unsubscribe, disconnect; the event poller | connection task |
| Screens and toasts (`helpers.rs`, `components/`) | what is mounted, the toasts, their counter and their timers | draw, `add_toast`, removal after 4 seconds | follows the client's state |

What is hard in it:

* coroutines of one session run on different threads at the same time, and the
  rooms are shared by all sessions; the locks cover parts of an operation only
  (the check for a subscription and its entry are apart, the room exists before
  its creator has joined);
* the channel's condition variable is a timer, and the wait on it begins after
  the mutex was released;
* the coroutines of a session end one by one, and share its socket by reference;
* shutdown is indirect: `run()` returns when nothing is outstanding any more;
* the client guesses ids, and corrects them when the server's answer comes, while
  the user goes on clicking; every command is sent by a task of its own;
* an old connection is still running when a new one is made;
* a toast's timer belongs to a component that may be gone before it is over.

What makes each part correct: a channel delivers what it accepted, once and in
order, and wakes its reader; a room's subscribers all see the room's messages in
the order of the broadcasts, from the moment they joined, and nobody else does;
a session leaves nothing behind; the process ends when, and only when, it should;
the client shows the server's rooms under the server's ids, messages in order,
and never a dead connection as a live one, and takes a toast away, and the right
one. `PROJECT.json` lists the hazards line
by line, with the properties for each.

## 2. Modules

| Module | Models | Notes |
|---|---|---|
| `Pipe` | what a channel promises to writers and to the one reader, which may be kept busy by what it took | abstract specification |
| `Channel` | `channel.hpp`, with the loop of its reader (`spawn_listener` or `socket_writer`) | implements `Pipe` (`ImplementsPipe`, `ImplementsFairPipe`) |
| `Channel_proofs` | | theorems about `Channel` |
| `Multicast` | what the rooms promise their subscribers | abstract specification |
| `ChatServer` | sessions, rooms, listeners, writers | uses channels through the promise of `Pipe`; implements `Multicast` (`ImplementsMulticast`) |
| `MCChatServer` | | scenarios: who may send which lines |
| `ChatServer_proofs` | | types, and subscriptions: who owns which channel, and what is closed |
| `Delivery_proofs` | | order and completeness of delivery; extends `ChatServer_proofs` |
| `Multicast_proofs` | | the refinement, order on the wire, confirmation first; extends `Delivery_proofs` |
| `ServerLifecycle` | `serve`, `serve_async`, `accept_connections`, `main` | sessions as outstanding work only |
| `ServerLifecycle_proofs` | | theorems about the process |
| `Retain` | `Vec::retain`, as the client calls it | used by `ChatClient` (`Unsubscribe`) and `Screens` (`Expire`, `RetainOthers`) |
| `Retain_proofs` | | lemmas: induction, and what `Retained` leaves |
| `ChatClient` | the client | the server is its promise to one connection |
| `MCChatClient` | | what the user may type |
| `ChatClient_proofs` | | types, what is shown, its order, the status and the ids |
| `Screens` | mounted components, `add_toast`, `toast.rs` | the rest of the client only as what it shows |
| `Screens_proofs` | | types and keys of toasts |

Operators with a comment "Mutant" are deliberate faults. They stand in front of
the definition that they would replace; nothing uses them. They show that each
property notices a bug of the kind it is about.

### Channel

One action per critical section of `mutex_`. `ReadUnlock` is the end of the
critical section of `async_read` that found nothing, `ReadWait` the registration
of the wait on the timer. What other threads do in between is the point of the
model: `Cancel` completes a wait that is outstanding and leaves no trace for a
later one, as `timer_.cancel()` does. With `Threads = 1` nothing runs in between
(`OthersRun`). `ChecksOpen` selects the reader: `spawn_listener` looks at
`is_open()` before each read, `socket_writer` does not (`is_open() || true`).
The listener is back at the head of its loop as soon as it has a message. The
writer first awaits `async_send` (`server.cpp:521`), which completes (`SendDone`),
throws and ends the loop (`SendFail`), or does neither: a peer that does not read
keeps it for ever. So a write channel may be left open and with messages in it.
`Pipe` has the same in its own terms: a patient consumer is "busy" with what it
took, comes "back" or gives up, and only one that is "ready" is promised anything.
`accepted` and `received` are history variables. `channel_lost_wakeup` shows what goes
wrong with two threads; what holds on any number of threads and for either reader
(`Fifo`, `ImplementsPipe`) is proved. `ImplementsFairPipe` is `ImplementsPipe` with the
fairness, which takes a single thread. `timer_` is also touched by two
threads outside the mutex (`expires_at` under it, `async_wait` not), which is a
data race of its own; the model has its mildest outcome.

### ChatServer

A session's `pc` is where `tcp_accept` is. Actions are the stretches between
points where another thread can tell the difference: reading a line and the
checks before the first lock (`ReceiveSub`, `ReceiveCsub`, `ReceiveMsg`, ...),
`sub_to_room` under the room's mutex (`SubToRoom`), the entry into
`current_subscriptions` with the reply (`SubReply`), the check under the room's
mutex (`MsgLock`, `MsgReject`), one turn of the broadcast loop (`Broadcast`),
its end (`MsgUnlock`), the three parts of the end of a session
(`CloseSubscription`, once for each channel that is open, `CloseWriteChan`,
`Return`). `ThreadFree` says that a
thread is there to run a coroutine; a session between two suspension points
occupies one. A channel is `pushed`, `popped` and `closed`, which is the state of
`Pipe`: the lost wakeup of `Channel` is left out on purpose, so that the
properties here say what the server adds to it. A send on the socket of a session
that has returned is undefined behaviour (`server_send_after_return` shows that it
happens): it may seem to succeed or fail, by choice (`SendDone`, `SendFail`). That
it corrupts or ends the process is left out. `log` is a history variable of
a room: who broadcast, in the order in which the mutex admitted them; a message
is its place in the log. JSON is abstracted to what `tcp_accept` tells apart
(`RequestLines`): which fields are there and of the right kind. `ParseId` keeps
the cast of a negative number to `uint64_t`, with `IdModulus` for 2^64.

`Multicast` has no mutex and no loop: `Post` puts a message into the boxes of all
others in one step. Under the refinement mapping (`M`) a message counts as posted
from the moment the mutex admitted it (`OnItsWay`, `Posted`, `Box`), so that a channel which the loop has not
come to yet is mapped to a box that already holds it; each turn of the loop is
then a stutter. A channel that is closed before its turn loses that message,
which is why `Leave` may take the room's latest message out of the box.

### ServerLifecycle

`Work` is what keeps `run()` from returning. `StartThreads` has the wrap of
`thread_count - 1` for `-j0`; `ListenThrows` has the exception of `bind` that
skips `work_guard.reset()`; `AcceptFails` ends the accept loop on any error, as
the code does; `Signal` kills the process whenever no signal set is there. A
session ends in two steps: `SessionEnds` is the return of `tcp_accept`,
`SessionUnwinds` that of the last of its listeners and its writer. Nothing says that
the second follows the first: with several threads the wakeup by `close()` may be
lost, and then `run()` does not return.

### ChatClient

Handlers and the poller run on the UI thread, one at a time, and are one action
each; a command is a task of its own (`spawned`, then `SendCommand` in any
order), and each click on Connect makes a connection with its own channels
(`net[k]`). The poller takes one event at a time (`Poll`) and reconciles rooms
(`Rekey` for `csub_ok`, by name; `Rename` for `sub_ok`, by id). The server is
`Serve`, `Reply` and `OtherPosts`: the lines of a connection are handled in order
and each is answered, but a subscription is in force before its confirmation is
written (`owed`), so messages of the room may come first, as they do from
`ChatServer` with several threads. `Classified` is `classify_server_message`, without
the branches for lines that this server never writes (a confirmation without a
number, the legacy format without a type). `NextId` wraps as in a release build; a debug
build panics there.

### Screens

An action is a handler, or the poller with one event, and the drawing that
follows. `Mounted` is which components that raise toasts are on the screen,
`timers` the removal tasks, and `Draw` drops the tasks of components that went:
`dioxus::prelude::spawn` ties a task to the component whose handler spawned it.
That is the one thing taken from the library. The poller runs in `App`, which is
never unmounted. Events are bound by what `ChatClient` says of them only as far
as `Connected` comes once for a click on Connect; otherwise they may come at any
time. In `DoCreate` the new id is one that is not in the list; the sum that wraps
to 0 is left to `ChatClient`.

## 3. Runs

Each of them finishes within about two minutes with two workers.

| Run | Instance | Shows |
|---|---|---|
| `channel_writer` | 2 messages, 4 writes, 1 thread, reader `socket_writer`, sends complete, fail or hang | nothing lost, repeated or reordered; no wakeup is lost; everything is passed on unless a send fails or hangs; implements `Pipe` with its fairness |
| `channel_lost_wakeup` | 2 threads, reader `spawn_listener` | **violated**: a message stays queued for ever |
| `server_order` | 3 sessions, 1 room, 2 threads; one session opens the room, the other two join, talk and leave in any order | order and completeness of delivery, order on the wire, implements `Multicast` |
| `server_protocol` | 2 sessions, any line, 2 rooms, 2 threads, connections break | only subscribers broadcast; no double subscription; nothing left open; no deadlock |
| `server_liveness` | 2 sessions, 1 thread, one peer takes nothing | `sub_ok` comes before the first message; broadcasts get forwarded; sessions unwind |
| `server_send_after_return` | 2 sessions | **violated**: a send on the socket of a session that returned |
| `lifecycle_shutdown` | 3 clients, 2 threads, 2 signals, 1 accept error, bind may fail | clients served; exit after the sessions; exit after a signal once clients have hung up and their sessions have unwound |
| `client_rooms` | 4 clicks, 2 rooms by others, 2 posts, ids 1 and the largest | messages at most once and in order; ids reconciled; nothing on the screen refers to a room that is not there |
| `client_reconnect` | 2 connections, 2 clicks, connections fail and break | status honest; no revival; old connections released |
| `client_filed` | 2 clicks, 1 room by others, 1 post | **violated**: a message ends up in the wrong room |
| `screens` | 2 rooms, 2 ids, 5 toasts | toasts have keys and timers of their own; only a toast that outlived its component stays |
| `screens_toasts` | 1 room, 2 toasts: the one of the connection and one more | **violated**: a room is created, Disconnect is clicked, and the toast of `CreateRoomSection` stays for ever |

The violated properties state what a document, a comment or a label of the
repository says; the findings in `PROJECT.json` quote it.

**Bounds.** `MaxWrites`, `MaxRooms`, `MaxChans`, `MaxLines`, `MaxErrors`,
`MaxSignals`, `MaxConns`, `MaxClicks`, `MaxOthers`, `MaxPosts`, `MaxToasts` are bounds
of the models; the code has no such limits (`m_max_room_limit` is never looked at).
Order and completeness need two senders and a receiver that joins or leaves in
between, which the three sessions of `server_order` give: the one that opens the
room is there all the time, and the other two, which are interchangeable
(`Twins`, a symmetry), have two lines each; two rooms and two
sessions are enough for a session to mistake one room for another; two
connections for one to be replaced while it runs. `CmdCap` and `EventCap` stand
for the capacities 64 and 256 and are set to 2, so that the channels do fill up.
Five toasts are enough for a
connection, a room, an unsubscription and an event on each side of a disconnect.
`IdModulus` is 8 in the runs: small enough for the casts and sums that wrap to
meet ids that exist or are next to them. Runs that talk about what is queued
(`server_order`, `server_protocol`) have no peer that takes
anything (`Takers = {}`): what is written to a channel does not depend on it,
and `server_liveness` has a peer of each kind.

**Deadlock** is checked in `server_protocol`, `server_liveness` and all runs of
`ServerLifecycle`; there a state without a successor would be one in which not
everyone is through (`Quiet`, `Over`). The other runs stop when the users and
clients have used up their bounds.

**Fairness.** The threads of the io_context, the tokio runtime and the poller run
whatever is ready: weak fairness for each coroutine and task. In `ServerLifecycle`
it is weak fairness of the server as a whole and of the accept loop. Users and
clients owe nothing: nobody has to connect, send, read or hang up, and no signal
has to come. In `ChatClient` the
server reads and answers what it is sent (`Server`), as `ChatServer` does, and
ends the session of a client that has gone. In `Screens` a sleep of four seconds
is over some time, if its task is not dropped before; nothing else has to happen.
A send to a peer that does not read never completes (`channel_writer`,
`server_liveness`): no fairness is assumed of `SendDone`, `SendFail` or, in `Pipe`, of
`Back`. Only a send on a destroyed socket is taken to complete, in one way or the
other, on which `SessionsUnwind` rests. In `ServerLifecycle` no session has to unwind.

## 4. Proofs

Checked by TLAPS for all values of the constants that satisfy the assumptions
named in the modules: `ChannelAssumption`, `ServerAssumption`,
`LifecycleAssumption`, `ClientAssumption`, `ScreensAssumption`. They say what the
constants are (bounds are naturals, there is a thread, a name is not a number, a
capacity is not 0); TLC evaluates them in each run. Any number of sessions,
rooms, channels, lines, clicks and threads is covered, except where a theorem
says `Threads = 1`. The inductive invariants were invariants of TLC runs before
they were proved.

**`Channel_proofs`**
* `TypeCorrect`; `FifoCorrect`: `Fifo` is inductive together with the type.
* `NoLostWakeupOneThread`: for `Threads = 1`. With one thread no other action is
  enabled while the reader is "unlocked", so the reader carries what it saw under
  the mutex into the wait; that is the inductive invariant.
* `RefinesPipe`: initial states map to initial states and every step to a step
  of `Pipe` or to a stutter. A pop is a `Take` because of `Fifo`, and `async_read`
  throws on a pipe that is empty for the same reason; the end of a send is a `Back`,
  to the loop or out of it. `spawn_listener` thus leaves only a closed channel, and
  `socket_writer` a closed and empty one, unless a send failed.

**`ChatServer_proofs`**
* `TypeCorrect`. Type correctness is not inductive by itself: a session or a
  channel could refer to a room that is not there. `References` says that they
  never do; `TypeInv` is the conjunction, and the invariant that the other proofs
  start from.
* `Membership` is the inductive invariant of subscriptions: every channel that
  was made is in the `current_subscriptions` of its owner, or the owner is
  between `sub_to_room` and the entry; and no session has two channels in one
  room nor is about to join a room in which it has one. Why it holds although
  `handle_sub` checks and `sub_to_room` enters under different locks: only the
  session itself changes its subscriptions, and it does one thing at a time. A
  `csub` joins a room that did not exist before, so no channel can be in it.
* `SubscriptionsUnique` follows with `Numbered` (a room's id is its place).
* `EndedSessionsClosed` follows with `Closing` (what a session past `cleanup()`,
  which closes one channel after the other, has closed) and the lemma that nothing
  is ever opened again.
* `BroadcastersSubscribed` follows with `Admitted` (no channel joined later than
  the messages that are there).

**`Delivery_proofs`**: `InOrderDelivery` and `CompleteDelivery` from one inductive
invariant, `Delivery`. `Connected`: a room's `connections` are the channels made
for it, each once, so the loop comes to each once. `Broadcasting`: the mutex
admits one broadcast at a time, its message is the latest, and nobody joins while
it lasts, so the list does not grow under the loop. `Untaken`: a channel that the
loop has yet to come to has only older messages. With these a push keeps the
order (`AllInOrder`), and a message that misses a channel is its owner's own, is
still coming, or met a channel that was closed (`DeliveredToAll`).

**`Multicast_proofs`**
* `RefinesMulticast`: every step of the server is a step of `Multicast` or a
  stutter. `MsgLock` is `Post`; a turn of the loop is a stutter, because the
  message it pushes was in the box as one on its way; the end of a subscription is
  `Leave`, which loses what was still coming; reading from a channel is `Take`.
  Besides `Delivery` it needs that channels not made yet are as at the start
  (`Fresh`) and that a session closes channels only when it leaves
  (`OpenWhileServing`: one that is about to broadcast has an open box).
* `InOrderOnTheWire`: `Wire` says that each message line in a write channel was
  popped from a room channel of that session. There is one such channel per room
  (`SubscriptionsUnique`), it took its messages in order (`InOrderDelivery`), and a
  listener passes on the one at `popped + 1`, which is larger than all before it.
  Names stand for rooms here under the condition that the property itself states.
* `ConfirmedFirstOneThread`: for `Threads = 1`. One session at most is between
  two suspension points (`OneRunning`), so no listener runs between `sub_to_room`
  and the reply; `AllConfirmed` says that every entered subscription was confirmed.
  With two threads a message may come first.

**`ServerLifecycle_proofs`**: `TypeCorrect`; `ExitsAfterSessions` from `Progress`
(the guard is reset at the very end of `serve_async`, when the acceptor is closed)
and `Joined` (the last thread leaves `run()` only when nothing is outstanding).
Once the guard is gone no work can arise any more: nothing accepts.

**`Retain_proofs`**: what `Retained` returns is defined by a recursive function,
and the induction theorems of the library cannot be instantiated. `Induction` is
therefore stated for sets and proved from the well-foundedness of the naturals
(`LeastNatural`); with it `RetainKeeps`: what is left are the elements at the
places to keep, all of them, in their order.

**`ChatClient_proofs`**. A lemma per action says what it does to a connection and
to the lists; the theorems share them.
* `TypeCorrect`: neither bounded channel outgrows its capacity.
* `NoneOrphaned`: `NothingOrphaned` is inductive with the types. `Rekey` gives
  room, messages and selection the same new id; `Unsubscribe` takes out a room with
  its messages.
* `HonestStatus` and `NeverRevived` from `Alive`: if the task or the reader of the
  current connection is gone, `Disconnected` is among its events or the user was
  told; `Connected` is only ever the first event, and only while it is waited for.
  Disconnect can be clicked only when `Connected` was taken, and a click on Connect
  replaces the receiver, so no event of an old connection is read any more.
* `OrderShown` (at most once and in order; a message that overtakes its confirmation
  is dropped) from `InOrder`: what is shown is older than what waits for the
  poller, and that is older than what waits for the reader.
* `IdsReconciled`: `Reconciled`, for users who give every room that they create a
  name of its own which nobody else uses (`DistinctNames`, a hypothesis of the
  theorem; TLC evaluates it for the instances of `MCChatClient`). The client looks
  a created room up by its name, so without it the property is false (section 5).
  The inductive invariant is `Tracking`. `Tracked`: while the current connection is
  up, a room of the list with a real name is `Known` by the server's id, or it is
  the only one of its name and `Awaited`: its `csub` is among the tasks, in the
  command channel or on the wire, or its `csub_ok` is on the way back, no other
  connection asks for that name, every room of the server with that name is this
  connection's, and no `sub_ok` under way brings the name to another room. `Genuine`:
  what the server confirms is a room that it has, under that name. `Named`: every name
  in the list, on the wire or at the server was typed so far or is one of others, so
  that the next one typed is new. `Unmade`: nothing was sent on a connection that is
  yet to be made. Each step either carries what is on a connection without losing a
  request or a confirmation (`Carries`, `HaulsTracking`), or is one of the few that
  matter: a room is created, confirmed, renamed, or the connection replaced. A
  connection may lose what is on it only when it is no longer up, or after a
  Disconnect, when the status is no longer connected.

**`Screens_proofs`**: `TypeCorrect`; `KeysUnique` from `Keyed` (ids rise from toast
to toast, the counter is ahead of them, a timer has a toast that is shown). That
an expiry takes out exactly one toast is counted with injections, by `RetainKeeps`.

Only model-checked:
* all liveness, and `ImplementsFairPipe`, the part of the refinement that is about
  fairness: out of reach of TLAPS.

Every invariant that a passing run checks is the subject of a theorem, two of them
for one thread, as in their runs.

## 5. What is not modelled, and what reading showed

UDP multicast (placeholders that no code path reaches), logging, avatars and
initials, the clock, the text of messages and errors, the text fields.
`src/README.md:210` says that the `data` of a broadcast is a serialized object;
the code sends the bare text. No model is needed to see it. The memory model: a data race is modelled, where it
is modelled, by the interleavings of the accesses.

Other places where code and words part, seen while modelling; the models follow
the code, and no run is spent on them:
* `async_send` may send a part of a line and its count is dropped
  (`server.cpp:521`; `README.md:137` promises newline-terminated objects). In the
  model a send is whole or fails.
* a `msg` whose text is not a string throws and ends the session
  (`server.cpp:595`), where `README.md:217` promises an error line.
* a broadcast skips expired `weak_ptr`s and nothing erases them
  (`server.cpp:371`; `README.md:260` speaks of cleanup).
* `serve_async` logs "accept loop exited" (`server.cpp:125`) without waiting for
  `accept_done`, which the handler of the loop sets later (`server.cpp:96`) in a
  frame that is gone.
* "Unsubscribe" (`sidebar.rs:377`) tells the server nothing.
* both unsubscribe buttons raise their toast from a component that the same click
  unmounts (`sidebar.rs:385`, `chat.rs:88`): it stays, for the reason that
  `screens_toasts` shows. In `screens` this is the case that `ToastsOfMountedVanish`
  excludes.
* two rooms that the user creates under one name are told apart by nothing: the
  first of them gets both confirmations (`main.rs:89`), and the other keeps the
  id that was guessed for it, which may be the same. A room of another user that
  was subscribed to by id takes the confirmation in the same way if it comes first
  in the list. `Reconciled` is therefore stated for names that differ.
* after a signal the process lives for as long as one client stays connected
  (`server.cpp:69`), where `README.md:66` has it shut down "gracefully".
* `MessageInput` (`chat.rs:163`) has no key: what was typed for one room is still
  there after another one is selected.

## 6. Plan

Done: the channel and the rooms with their promises and the refinements; the
server's sessions; the process; the client and its screens; proofs of the
safety invariants, of the action property and of the refinements.

Worth a model, and left out so far: the lost wakeup inside the server (channels
with their timers in an instance of `ChatServer`), to see which sessions hang and
what wakes them. The state space of `ChatServer` leaves little room for it, and
`channel_lost_wakeup` shows the cause.
