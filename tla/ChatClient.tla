----------------------------- MODULE ChatClient -----------------------------
(***************************************************************************)
(* The desktop client: the state the components share, the handlers of the *)
(* user's clicks, one tcp_connection_task per click on Connect, the tasks  *)
(* that carry a command to it, its reader task and the event poller.       *)
(*                                                                         *)
(* Handlers and poller run on the UI's thread, one at a time; everything   *)
(* else is a tokio task, and two tasks that are ready run in either order. *)
(* A command is sent by a task of its own.                                 *)
(*                                                                         *)
(* The server is its promise to one connection (ChatServer): it handles    *)
(* the lines of a connection in order and answers each; others create      *)
(* rooms and post in them.  A subscription is in force before it is        *)
(* confirmed, so messages of a room may overtake its sub_ok or csub_ok.    *)
(***************************************************************************)
EXTENDS Integers, Sequences, FiniteSets, Retain

CONSTANTS
    Names,        \* room names
    TypedNames,   \* the names that the user may type at each click
    TypedIds,     \* the room ids that the user may type
    OtherNames,   \* the names that others give to rooms
    IdModulus,    \* 2^64, the width of a room id
    CmdCap,       \* capacity of the command channel (64)
    EventCap,     \* capacity of the event channel (256)
    MaxConns,     \* bound: clicks on Connect
    MaxClicks,    \* bound: other clicks
    MaxOthers,    \* bound: others create rooms while the server has fewer
    MaxPosts,     \* bound: messages that others post
    Breaks        \* TRUE: connections may fail or break

ASSUME ClientAssumption ==
    /\ Names \cap Nat = {}
    /\ TypedNames \in [1..MaxClicks -> SUBSET Names]
    /\ OtherNames \subseteq Names
    /\ TypedIds \subseteq 0..(IdModulus - 1)
    /\ IdModulus \in Nat \ {0}
    /\ CmdCap \in Nat \ {0} /\ EventCap \in Nat \ {0}
    /\ MaxConns \in Nat /\ MaxClicks \in Nat /\ MaxOthers \in Nat /\ MaxPosts \in Nat
    /\ Breaks \in BOOLEAN

VARIABLES
    status,       \* connection_status
    rooms,        \* rooms: ids, names and unread counts
    messages,     \* messages; a text is <<room, number>> when a post of others
    active,       \* active_room_id, or NoRoom
    cur,          \* which connection cmd_tx and event_rx belong to; 0 is none
    net,          \* the connections
    srooms,       \* the names of the server's rooms; the id is the place
    clicks,       \* how often the user clicked
    posts         \* how many messages others posted

uiVars == <<status, rooms, messages, active, cur>>
vars == <<status, rooms, messages, active, cur, net, srooms, clicks, posts>>

Conns == 1..MaxConns
NoRoom == -1

\* format!("Room #{}", id): the name of a room until sub_ok brings another.
Placeholder(id) == id

Commands ==
         [type : {"csub"}, name : Names]
    \cup [type : {"sub", "msg"}, grp : Nat]
    \cup [type : {"desub"}]

Texts == [grp : Nat, n : Nat]
\* What the server says, and what becomes of it: RoomConfirmed, Message or
\* Error by the type of the line.
Confirmations == [type : {"sub_ok", "csub_ok"}, grp : Nat, grp_name : Names]
Lines ==
         Confirmations
    \cup [type : {"message"}, data : Texts, grp_name : Names]
    \cup [type : {"error"}]
Events == Lines \cup [type : {"connected", "disconnected"}]

Room == [id : Nat, name : Names \cup Nat, unread : Nat]
Message == [room_id : Nat, sender : {"me", "server", "system"}, text : Texts]

\* One click on Connect: the task and its reader, the server's session and what
\* it is subscribed to, and everything that is on its way.
Connection ==
    [task : {"none", "connecting", "looping", "ending", "done"},
     reader : {"none", "reading", "aborting", "done"},
     session : {"none", "open", "closed"},
     subs : SUBSET Nat,
     spawned : SUBSET [n : 1..MaxClicks, cmd : Commands],
     cmds : Seq(Commands), up : Seq(Commands),
     down : Seq(Lines), owed : Seq(Confirmations),
     events : Seq(Events)]

TypeOK ==
    /\ status \in {"disconnected", "connecting", "connected"}
    /\ rooms \in Seq(Room)
    /\ messages \in Seq(Message)
    /\ active \in Nat \cup {NoRoom}
    /\ cur \in 0..MaxConns
    /\ net \in [Conns -> Connection]
    /\ \A k \in Conns : Len(net[k].cmds) <= CmdCap /\ Len(net[k].events) <= EventCap
    /\ srooms \in Seq(Names)
    /\ clicks \in 0..MaxClicks
    /\ posts \in 0..MaxPosts

Init ==
    /\ status = "disconnected"
    /\ rooms = <<>>
    /\ messages = <<>>
    /\ active = NoRoom
    /\ cur = 0
    /\ net = [k \in Conns |->
                [task |-> "none", reader |-> "none", session |-> "none", subs |-> {},
                 spawned |-> {}, cmds |-> <<>>, up |-> <<>>, down |-> <<>>,
                 owed |-> <<>>, events |-> <<>>]]
    /\ srooms = <<>>
    /\ clicks = 0
    /\ posts = 0

\* iter().find(...): the first room of the list with a field of that value, as
\* a set of at most one place.
Find(field, value) ==
    {i \in 1..Len(rooms) : /\ rooms[i][field] = value
                          /\ \A j \in 1..(i - 1) : rooms[j][field] # value}

NoText == [grp |-> 0, n |-> 0]

\* Mutant: a message is put at the front.
SayFirst(id, who, text) ==
    messages' = <<[room_id |-> id, sender |-> who, text |-> text]>> \o messages

Say(id, who, text) ==
    messages' = Append(messages, [room_id |-> id, sender |-> who, text |-> text])
-----------------------------------------------------------------------------
(* The user.  Only Connect can be clicked unless the status is connected. *)

\* New channels replace the old ones, whose ends are dropped.
Connect ==
    /\ status = "disconnected"
    /\ cur < MaxConns
    /\ status' = "connecting"
    /\ rooms' = <<>>
    /\ messages' = <<>>
    /\ active' = NoRoom
    /\ cur' = cur + 1
    /\ net' = [net EXCEPT ![cur + 1].task = "connecting"]
    /\ UNCHANGED <<srooms, clicks, posts>>

Click ==
    /\ status = "connected"
    /\ clicks < MaxClicks
    /\ clicks' = clicks + 1
    /\ UNCHANGED <<cur, srooms, posts>>

\* tokio::spawn(async move { tx_clone.send(cmd).await })
Spawn(cmd) ==
    net' = [net EXCEPT ![cur].spawned = @ \cup {[n |-> clicks + 1, cmd |-> cmd]}]

NextId ==
    LET ids == {rooms[i].id : i \in 1..Len(rooms)} \cup {0}
    IN  ((CHOOSE m \in ids : \A i \in ids : i <= m) + 1) % IdModulus

DoCreate(name) ==
    /\ Click
    /\ name \in TypedNames[clicks + 1]
    /\ rooms' = Append(rooms, [id |-> NextId, name |-> name, unread |-> 0])
    /\ Say(NextId, "system", NoText)
    /\ Spawn([type |-> "csub", name |-> name])
    /\ UNCHANGED <<status, active>>

\* An id that is in the list already is refused with a toast.
DoSubscribe(id) ==
    /\ Click
    /\ \A i \in 1..Len(rooms) : rooms[i].id # id
    /\ rooms' = Append(rooms, [id |-> id, name |-> Placeholder(id), unread |-> 0])
    /\ Say(id, "system", NoText)
    /\ Spawn([type |-> "sub", grp |-> id])
    /\ UNCHANGED <<status, active>>

Select(i) ==
    /\ Click
    /\ active' = rooms[i].id
    /\ \E j \in Find("id", rooms[i].id) :
          rooms' = [rooms EXCEPT ![j].unread = 0]
    /\ UNCHANGED <<status, messages, net>>

\* ChatPanel shows the first room with the active id, and its input.
DoSend ==
    /\ Click
    /\ \E i \in 1..Len(rooms) : rooms[i].id = active
    /\ Say(active, "me", NoText)
    /\ Spawn([type |-> "msg", grp |-> active])
    /\ UNCHANGED <<status, rooms, active>>

\* Either button: the room goes from the screen, the server is told nothing.
Unsubscribe(id) ==
    /\ Click
    /\ \E i \in 1..Len(rooms) : rooms[i].id = id
    /\ rooms' = Retained(rooms, {i \in 1..Len(rooms) : rooms[i].id # id})
    /\ messages' = Retained(messages, {i \in 1..Len(messages) : messages[i].room_id # id})
    /\ active' = IF active = id THEN NoRoom ELSE active
    /\ UNCHANGED <<status, net>>

Disconnect ==
    /\ Click
    /\ Spawn([type |-> "desub"])
    /\ status' = "disconnected"
    /\ UNCHANGED <<rooms, messages, active>>

User ==
    \/ Connect \/ DoSend \/ Disconnect
    \/ \E name \in Names : DoCreate(name)
    \/ \E id \in TypedIds : DoSubscribe(id)
    \/ \E i \in 1..Len(rooms) : Select(i) \/ Unsubscribe(rooms[i].id)
-----------------------------------------------------------------------------
(* tcp_connection_task and the tasks that feed it *)

\* Mutant: the event channel has no bound.
EmitAlways(k, evs) == TRUE

\* event_tx.send(e).await waits for room in the channel; when the receiver is
\* gone it fails, which is ignored.
Emit(k, evs) ==
    IF k = cur THEN Len(net[k].events) + Len(evs) <= EventCap ELSE TRUE
Emitted(k, evs) == IF k = cur THEN net[k].events \o evs ELSE <<>>

\* A command gets into the channel, or finds its receiver gone.
SendCommand(k) ==
    /\ \E s \in net[k].spawned :
          IF net[k].task = "done"
          THEN net' = [net EXCEPT ![k].spawned = @ \ {s}]
          ELSE /\ Len(net[k].cmds) < CmdCap
               /\ net' = [net EXCEPT ![k].spawned = @ \ {s}, ![k].cmds = Append(@, s.cmd)]
    /\ UNCHANGED <<uiVars, srooms, clicks, posts>>

\* TcpStream::connect; the reader task is spawned.
TaskConnects(k) ==
    /\ net[k].task = "connecting"
    /\ Emit(k, <<[type |-> "connected"]>>)
    /\ net' = [net EXCEPT ![k].task = "looping", ![k].reader = "reading", ![k].session = "open",
                          ![k].events = Emitted(k, <<[type |-> "connected"]>>)]
    /\ UNCHANGED <<uiVars, srooms, clicks, posts>>

TaskRefused(k) ==
    /\ Breaks
    /\ net[k].task = "connecting"
    /\ Emit(k, <<[type |-> "error"], [type |-> "disconnected"]>>)
    /\ net' = [net EXCEPT ![k].task = "done",
                          ![k].events = Emitted(k, <<[type |-> "error"], [type |-> "disconnected"]>>)]
    /\ UNCHANGED <<uiVars, srooms, clicks, posts>>

\* A command is written to the socket.  Disconnect ends the loop, and so does
\* a write that fails; read_handle.abort() follows at once.
TaskCommand(k) ==
    /\ net[k].task = "looping"
    /\ net[k].cmds # <<>>
    /\ LET cmd == Head(net[k].cmds)
           written == [net EXCEPT ![k].cmds = Tail(@),
                                  ![k].up = IF net[k].session = "open" THEN Append(@, cmd) ELSE @]
           ended(n) == [n EXCEPT ![k].task = "ending",
                                 ![k].reader = IF @ = "reading" THEN "aborting" ELSE @]
       IN  \/ cmd.type # "desub" /\ net' = written
           \/ cmd.type = "desub" /\ net' = ended(written)
           \/ /\ cmd.type # "desub" /\ net[k].session = "closed"
              /\ net' = ended(written)
    /\ UNCHANGED <<uiVars, srooms, clicks, posts>>

\* Mutant: None is not taken for the end of the commands.
TaskIgnoresNone(k) == FALSE /\ UNCHANGED vars

\* recv() gives None: cmd_tx was replaced and no clone of it is left.
TaskNone(k) ==
    /\ net[k].task = "looping"
    /\ k # cur
    /\ net[k].spawned = {}
    /\ net[k].cmds = <<>>
    /\ net' = [net EXCEPT ![k].task = "ending",
                          ![k].reader = IF @ = "reading" THEN "aborting" ELSE @]
    /\ UNCHANGED <<uiVars, srooms, clicks, posts>>

\* Mutant: the end of a connection is not reported.
NoWords == <<>>

\* What is reported of the end of a connection.
LastWords == <<[type |-> "disconnected"]>>

\* The last event; then the task returns and drops the command receiver.
TaskEnds(k) ==
    /\ net[k].task = "ending"
    /\ Emit(k, LastWords)
    /\ net' = [net EXCEPT ![k].task = "done", ![k].cmds = <<>>,
                          ![k].events = Emitted(k, LastWords)]
    /\ UNCHANGED <<uiVars, srooms, clicks, posts>>
-----------------------------------------------------------------------------
(* The reader task *)

\* A line of a type that classify_server_message knows becomes RoomConfirmed or
\* Message, with the fields it has; any other line, and plain text, becomes
\* Error.  Its branches for a field that is missing and for a line without a
\* type are left out: ChatServer writes no such line.
Classified(line) ==
    IF line.type \in {"sub_ok", "csub_ok", "message"} THEN line ELSE [type |-> "error"]

\* An abort takes effect at the next await: a line that is being handled may
\* still become an event.
ReadLine(k) ==
    /\ net[k].reader \in {"reading", "aborting"}
    /\ net[k].down # <<>>
    /\ Emit(k, <<Classified(Head(net[k].down))>>)
    /\ net' = [net EXCEPT ![k].down = Tail(@),
                          ![k].events = Emitted(k, <<Classified(Head(net[k].down))>>),
                          ![k].reader = IF @ = "aborting" THEN "done" ELSE @]
    /\ UNCHANGED <<uiVars, srooms, clicks, posts>>

ReadAborted(k) ==
    /\ net[k].reader = "aborting"
    /\ net' = [net EXCEPT ![k].reader = "done"]
    /\ UNCHANGED <<uiVars, srooms, clicks, posts>>

\* End of file, or a read error, which is reported first and changes nothing.
ReadEnd(k) ==
    /\ net[k].reader = "reading"
    /\ net[k].down = <<>>
    /\ net[k].session = "closed"
    /\ Emit(k, LastWords)
    /\ net' = [net EXCEPT ![k].reader = "done", ![k].events = Emitted(k, LastWords)]
    /\ UNCHANGED <<uiVars, srooms, clicks, posts>>
-----------------------------------------------------------------------------
(* The event poller *)

\* Mutant: the room that was created is looked for by the server's id.
CreatedById(id, name) == Find("id", id)

Created(id, name) == Find("name", name)

\* Mutant: what refers to the room is forgotten.
Unmoved(ref, old, id) == ref

\* A reference to a room follows its id.
Moved(ref, old, id) == IF ref \in old THEN id ELSE ref

\* csub_ok: the first room of that name gets the server's id, and everything
\* that has the old id with it.
Rekey(id, name) ==
    LET here == Created(id, name)
        old  == {rooms[i].id : i \in here}
    IN  /\ rooms' = [i \in 1..Len(rooms) |->
                       [rooms[i] EXCEPT !.id = IF i \in here THEN id ELSE @]]
        /\ messages' = [j \in 1..Len(messages) |->
                          [messages[j] EXCEPT !.room_id = Moved(@, old, id)]]
        /\ active' = Moved(active, old, id)

\* sub_ok: the first room with that id gets the server's name.
Rename(id, name) ==
    /\ rooms' = [i \in 1..Len(rooms) |->
                   [rooms[i] EXCEPT !.name = IF i \in Find("id", id)
                                             THEN name ELSE @]]
    /\ UNCHANGED <<messages, active>>

\* message: filed under the first room of that name, if there is one.
File(text, name) ==
    LET found == Find("name", name)
    IN  IF found = {}
        THEN UNCHANGED <<rooms, messages, active>>
        ELSE \E i \in found :
                /\ Say(rooms[i].id, "server", text)
                /\ \E j \in Find("id", rooms[i].id) :
                      rooms' = IF active = rooms[i].id
                               THEN rooms ELSE [rooms EXCEPT ![j].unread = @ + 1]
                /\ UNCHANGED active

\* Mutant: whatever the server says shows that the client is connected.
StatusRevived(e) == IF e.type = "disconnected" THEN e.type ELSE "connected"

StatusAfter(e) == IF e.type \in {"connected", "disconnected"} THEN e.type ELSE status

Poll ==
    /\ cur # 0
    /\ net[cur].events # <<>>
    /\ net' = [net EXCEPT ![cur].events = Tail(@)]
    /\ LET e == Head(net[cur].events)
       IN  /\ status' = StatusAfter(e)
           /\ CASE e.type = "csub_ok" -> Rekey(e.grp, e.grp_name)
                [] e.type = "sub_ok"  -> Rename(e.grp, e.grp_name)
                [] e.type = "message" -> File(e.data, e.grp_name)
                [] OTHER -> UNCHANGED <<rooms, messages, active>>
    /\ UNCHANGED <<cur, srooms, clicks, posts>>
-----------------------------------------------------------------------------
(* The server and the other users *)

\* tcp_accept's answer to the next line of connection k.
Serve(k) ==
    /\ net[k].session = "open"
    /\ net[k].up # <<>>
    /\ net[k].owed = <<>>
    /\ LET q == Head(net[k].up)
           rest == [net EXCEPT ![k].up = Tail(@)]
           ok(type, id, name) ==
               [rest EXCEPT ![k].subs = @ \cup {id},
                            ![k].owed = <<[type |-> type, grp |-> id, grp_name |-> name]>>]
           error == [rest EXCEPT ![k].down = Append(@, [type |-> "error"])]
       IN  \/ /\ q.type = "csub"
              /\ srooms' = Append(srooms, q.name)
              /\ net' = ok("csub_ok", Len(srooms) + 1, q.name)
           \/ /\ q.type = "sub"
              /\ net' = IF q.grp \in 1..Len(srooms) /\ q.grp \notin net[k].subs
                        THEN ok("sub_ok", q.grp, srooms[q.grp]) ELSE error
              /\ UNCHANGED srooms
           \/ /\ q.type = "msg"
              /\ net' = IF q.grp \in net[k].subs THEN rest ELSE error
              /\ UNCHANGED srooms
           \/ /\ q.type = "desub"
              /\ net' = [rest EXCEPT ![k].session = "closed"]
              /\ UNCHANGED srooms
    /\ UNCHANGED <<uiVars, clicks, posts>>

\* The confirmation that Serve left to be written.
Reply(k) ==
    /\ net[k].session = "open"
    /\ net[k].owed # <<>>
    /\ net' = [net EXCEPT ![k].down = @ \o net[k].owed, ![k].owed = <<>>]
    /\ UNCHANGED <<uiVars, srooms, clicks, posts>>

\* The client's socket was closed, which happens when its task is done; or the
\* connection broke.
SessionEnds(k) ==
    /\ net[k].session = "open"
    /\ \/ net[k].task = "done" /\ net[k].up = <<>> /\ net[k].owed = <<>>
       \/ Breaks
    /\ net' = [net EXCEPT ![k].session = "closed"]
    /\ UNCHANGED <<uiVars, srooms, clicks, posts>>

OtherCreates(name) ==
    /\ Len(srooms) < MaxOthers
    /\ srooms' = Append(srooms, name)
    /\ UNCHANGED <<uiVars, net, clicks, posts>>

OtherPosts(r) ==
    /\ posts < MaxPosts
    /\ posts' = posts + 1
    /\ net' = [k \in Conns |->
                 IF net[k].session = "open" /\ r \in net[k].subs
                 THEN [net[k] EXCEPT !.down =
                         Append(@, [type |-> "message", grp_name |-> srooms[r],
                                    data |-> [grp |-> r, n |-> posts + 1]])]
                 ELSE net[k]]
    /\ UNCHANGED <<uiVars, srooms, clicks>>
-----------------------------------------------------------------------------
Task(k) ==
    \/ SendCommand(k) \/ TaskConnects(k) \/ TaskCommand(k) \/ TaskNone(k) \/ TaskEnds(k)

Server(k) == Serve(k) \/ Reply(k)

Reader(k) == ReadLine(k) \/ ReadAborted(k) \/ ReadEnd(k)

Next ==
    \/ User \/ Poll
    \/ \E k \in Conns : Task(k) \/ TaskRefused(k) \/ Reader(k) \/ Server(k) \/ SessionEnds(k)
    \/ \E name \in OtherNames : OtherCreates(name)
    \/ \E r \in 1..Len(srooms) : OtherPosts(r)

Spec == Init /\ [][Next]_vars

\* tokio runs every task that is ready, the poller wakes up every 50 ms and
\* the server reads what it is sent.  Users owe nothing.
Fairness ==
    /\ WF_vars(Poll)
    /\ \A k \in Conns : /\ WF_vars(Task(k)) /\ WF_vars(Reader(k)) /\ WF_vars(Server(k))
                        /\ WF_vars(net[k].task = "done" /\ SessionEnds(k))

FairSpec == Spec /\ Fairness
-----------------------------------------------------------------------------
(* Properties *)

\* The messages of a room are shown at most once and in the order in which the
\* server sent them, whatever the user does to the list of rooms meanwhile.
ShownInOrder ==
    \A i, j \in 1..Len(messages) :
        /\ i < j
        /\ messages[i].sender = "server" /\ messages[j].sender = "server"
        /\ messages[i].text.grp = messages[j].text.grp
        => messages[i].text.n < messages[j].text.n

Pending(k) == {net[k].events[i].type : i \in 1..Len(net[k].events)}

\* The user is not left with a dead connection that is shown as connected: if
\* its task or its reader is gone, the event that says so is on its way.
StatusHonest ==
    status = "connected" =>
        /\ cur # 0
        /\ \/ net[cur].task \in {"looping", "ending"} /\ net[cur].reader # "done"
           \/ net[cur].task = "ending"
           \/ "disconnected" \in Pending(cur)

\* A connection that was given up does not come back: the status turns to
\* connected only after a click on Connect, never by an event that is late.
NotRevived ==
    [][status' = "connected" => status \in {"connecting", "connected"}]_vars

\* Everything that was sent in either direction has been dealt with.
Settled ==
    /\ status = "connected"
    /\ net[cur].session = "open"
    /\ net[cur].spawned = {} /\ net[cur].cmds = <<>> /\ net[cur].up = <<>>
    /\ net[cur].owed = <<>> /\ net[cur].down = <<>> /\ net[cur].events = <<>>

\* The user gives each room that he creates a name of its own, which nobody else
\* gives to a room.  Reconciled needs it: rooms are found by their names.
DistinctNames ==
    \A n \in 1..MaxClicks :
        /\ TypedNames[n] \cap OtherNames = {}
        /\ \A m \in 1..MaxClicks : m # n => TypedNames[n] \cap TypedNames[m] = {}

\* Once everything is settled the rooms of the list that have a real name are
\* the server's: each has the id that the server knows it by.
Reconciled ==
    Settled => \A i \in 1..Len(rooms) :
                  rooms[i].name \in Names =>
                      /\ rooms[i].id \in net[cur].subs
                      /\ srooms[rooms[i].id] = rooms[i].name

\* What is on the screen belongs to a room of the list: unsubscribing, late
\* messages and changes of ids leave no message and no selection behind that
\* refers to a room which is not there.
NothingOrphaned ==
    LET ids == {rooms[i].id : i \in 1..Len(rooms)}
    IN  /\ active \in ids \cup {NoRoom}
        /\ \A i \in 1..Len(messages) : messages[i].room_id \in ids

\* Once everything is settled every message of the server is shown in the room
\* in which it was posted: under the id by which the server knows that room.
MessagesFiled ==
    Settled => \A i \in 1..Len(messages) :
                  messages[i].sender = "server" => messages[i].room_id = messages[i].text.grp

\* A connection that was replaced is released: its task returns and its session
\* on the server ends, although nobody disconnected it.
OldConnectionsEnd ==
    \A k \in Conns :
        (k < cur /\ net[k].task = "looping") ~>
            (net[k].task = "done" /\ net[k].session = "closed")
=============================================================================
