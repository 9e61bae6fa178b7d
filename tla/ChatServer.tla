----------------------------- MODULE ChatServer -----------------------------
(***************************************************************************)
(* The TCP chat server of server.cpp while it serves: the chat rooms, one  *)
(* tcp_accept coroutine per connection, one socket_writer per connection   *)
(* and one spawn_listener per subscription, all run by the threads of one  *)
(* io_context.                                                             *)
(*                                                                         *)
(* Every critical section (chat_room_mutex, a room's mutex, a channel's    *)
(* mutex_) that does not enclose another is one action.  The one that      *)
(* does, the broadcast under the room's mutex, is a sequence of actions,   *)
(* one per connection of the room, during which the mutex is held.         *)
(* Between two critical sections of a session other threads run; a session *)
(* that has not reached its next co_await occupies a thread (ThreadFree).  *)
(* A listener takes a message from its channel and passes it on in one     *)
(* action, and a writer takes a line and begins to send it in one: what    *)
(* others do between the two cannot be told from the same done before.     *)
(*                                                                         *)
(* A Channel is used through its promise (module Pipe): everything it ever *)
(* accepted, how much of that was read, and whether it is closed.  The     *)
(* text of a chat message is abstracted to its number in the order in      *)
(* which the room's mutex admitted the broadcasts.                         *)
(***************************************************************************)
EXTENDS Integers, Sequences, FiniteSets

CONSTANTS
    Sessions,     \* TCP connections; each lives once
    Requests,     \* the lines that each client may send
    Names,        \* room names
    Absent,       \* a JSON field that is not there
    Malformed,    \* a JSON field of the wrong kind
    NoSession,    \* the owner of a channel that does not exist yet
    IdModulus,    \* 2^64, the width of a room id
    Threads,      \* threads that run the io_context
    MaxRooms,     \* bound: chat rooms
    MaxChans,     \* bound: room channels
    MaxLines,     \* bound: lines per connection
    Takers,       \* connections whose peer takes what is sent to it
    Leavers       \* connections that may break or be closed by the peer

\* The numbers parse_id accepts: all that int64_t or uint64_t can hold.
GroupNumbers == (-(IdModulus \div 2))..(IdModulus - 1)

\* What a line is, as far as tcp_accept tells lines apart: "unparsable" is
\* not JSON, "untyped" is JSON without a known string in "type".
RequestLines ==
         [type : {"empty", "unparsable", "untyped", "desub"}]
    \cup [type : {"sub"}, grp : GroupNumbers \cup {Absent, Malformed}]
    \cup [type : {"csub"}, grp_name : Names \cup {Absent, Malformed}]
    \cup [type : {"msg"}, grp : GroupNumbers \cup {Absent, Malformed},
          msg : {"text", "absent", "malformed"}]

ASSUME ServerAssumption ==
    /\ Requests \in [Sessions -> SUBSET RequestLines]
    /\ NoSession \notin Sessions
    /\ {Absent, Malformed} \cap (Int \cup Names) = {}
    /\ Threads \in Nat \ {0}
    /\ MaxRooms \in Nat /\ MaxChans \in Nat
    /\ MaxLines \in [Sessions -> Nat]
    /\ Takers \subseteq Sessions /\ Leavers \subseteq Sessions
    /\ IdModulus \in Nat /\ 2 * MaxRooms < IdModulus

VARIABLES
    rooms,     \* chat_rooms; field log is history: who broadcast, in order
    nchans,    \* how many room channels were made
    chan,      \* the room channels and their spawn_listener coroutines
    ses,       \* the tcp_accept coroutines
    wr         \* the write channels and their socket_writer coroutines

vars == <<rooms, nchans, chan, ses, wr>>

ChanIds == 1..MaxChans

\* Where a tcp_accept coroutine is.  It is suspended in parse_data when
\* "reading"; "sub_lock" and "msg_lock" are in front of a room's mutex,
\* "bcast" holds it.
SessionStates == {"new", "reading", "sub_lock", "sub_reply", "msg_lock", "bcast",
                  "cleanup", "returning", "ended"}
ListenerStates == {"none", "spawned", "read", "done"}
WriterStates == {"none", "read", "sending", "done"}

\* Replies are kept apart by what they answer, not by their wording.
Replies ==
         [type : {"sub_ok", "csub_ok"}, grp : Nat, grp_name : Names]
    \cup [type : {"message"}, data : Nat, grp_name : Names]
    \cup [type : {"error"}]

RoomType == [id : Nat, name : Names, connections : Seq(ChanIds), log : Seq(Sessions)]

ChanType == [owner : Sessions \cup {NoSession}, room : Nat, joined : Nat,
             pushed : Seq(Nat), popped : Nat, closed : BOOLEAN,
             listener : ListenerStates]

SessionType == [pc : SessionStates, room : Nat, chan : Nat,
                reply : {"sub_ok", "csub_ok"}, next : Nat,
                subs : SUBSET ChanIds, lines : Nat]

WriterType == [pushed : Seq(Replies), popped : Nat, closed : BOOLEAN,
               pc : WriterStates]

TypeOK ==
    /\ rooms \in Seq(RoomType)
    /\ nchans \in 0..MaxChans
    /\ chan \in [ChanIds -> ChanType]
    /\ ses \in [Sessions -> SessionType]
    /\ wr \in [Sessions -> WriterType]
    /\ \A c \in ChanIds : chan[c].popped <= Len(chan[c].pushed)
    /\ \A s \in Sessions : wr[s].popped <= Len(wr[s].pushed)

Init ==
    /\ rooms = <<>>
    /\ nchans = 0
    /\ chan = [c \in ChanIds |->
                 [owner |-> NoSession, room |-> 0, joined |-> 0, pushed |-> <<>>,
                  popped |-> 0, closed |-> FALSE, listener |-> "none"]]
    /\ ses = [s \in Sessions |->
                [pc |-> "new", room |-> 0, chan |-> 0, reply |-> "sub_ok",
                 next |-> 0, subs |-> {}, lines |-> 0]]
    /\ wr = [s \in Sessions |->
               [pushed |-> <<>>, popped |-> 0, closed |-> FALSE, pc |-> "none"]]
-----------------------------------------------------------------------------
(* Threads and locks *)

\* The sessions that are between two suspension points.
Running == {s \in Sessions : ses[s].pc \notin {"new", "reading", "ended"}}

\* A thread is free for a listener or a writer, or for a session to take up
\* a line; a session that is running has one already.
ThreadFree == Cardinality(Running) < Threads

\* Mutant: nobody locks the room's mutex.
NeverLocked(r) == TRUE

\* The mutex of a room is held by the session that is broadcasting in it.
Unlocked(r) == \A t \in Sessions : ~(ses[t].pc = "bcast" /\ ses[t].room = r)

\* write_chan->write(line)
Write(s, line) ==
    wr' = [wr EXCEPT ![s].pushed = IF wr[s].closed THEN @ ELSE Append(@, line)]

ErrorLine == [type |-> "error"]
-----------------------------------------------------------------------------
(* tcp_accept: the start of a session and the lines it reads *)

\* accept_connections spawned tcp_accept, which spawns socket_writer.
Accept(s) ==
    /\ ses[s].pc = "new"
    /\ ThreadFree
    /\ ses' = [ses EXCEPT ![s].pc = "reading"]
    /\ wr' = [wr EXCEPT ![s].pc = "read"]
    /\ UNCHANGED <<rooms, nchans, chan>>

\* parse_data returned a line to the session, which was waiting for one.
GetsLine(s) ==
    /\ ses[s].pc = "reading"
    /\ ThreadFree
    /\ ses[s].lines < MaxLines[s]

\* The session goes on at pc.
GoOn(s, pc) == ses' = [ses EXCEPT ![s].lines = @ + 1, ![s].pc = pc]

\* The session goes on at pc with the room of that number.
GoOnWith(s, pc, r, reply) ==
    ses' = [ses EXCEPT ![s].lines = @ + 1, ![s].pc = pc, ![s].room = r,
                       ![s].reply = reply]

\* An error line is the answer, and the session reads on.
Refuse(s) ==
    /\ GoOn(s, "reading")
    /\ Write(s, ErrorLine)
    /\ UNCHANGED <<rooms, nchans, chan>>

ReceiveEmpty(s, q) ==
    /\ GetsLine(s)
    /\ q.type = "empty"
    /\ GoOn(s, "reading")
    /\ UNCHANGED <<rooms, nchans, chan, wr>>

ReceiveUnknown(s, q) ==
    /\ GetsLine(s)
    /\ q.type \in {"unparsable", "untyped"}
    /\ Refuse(s)

ReceiveDesub(s, q) ==
    /\ GetsLine(s)
    /\ q.type = "desub"
    /\ GoOn(s, "cleanup")
    /\ UNCHANGED <<rooms, nchans, chan, wr>>

\* parse_data threw: end of file, a reset, any error of the socket.
ReceiveError(s) ==
    /\ s \in Leavers
    /\ ses[s].pc = "reading"
    /\ ThreadFree
    /\ ses' = [ses EXCEPT ![s].pc = "cleanup"]
    /\ UNCHANGED <<rooms, nchans, chan, wr>>
-----------------------------------------------------------------------------
(* sub and csub *)

IsId(g) == g \notin {Absent, Malformed}

\* parse_id: a negative number is cast to uint64_t.
ParseId(g) == g % IdModulus

\* try_find_room: find_if takes the first room with the id asked for.
FindRoom(g) ==
    {r \in 1..Len(rooms) : /\ rooms[r].id = ParseId(g)
                           /\ \A t \in 1..(r - 1) : rooms[t].id # ParseId(g)}

\* Mutant: handle_sub does not look into the session's subscriptions.
NeverSubscribed(s, g) == FALSE

AlreadySubscribed(s, g) ==
    \E c \in ses[s].subs : rooms[chan[c].room].id = ParseId(g)

SubRefused(s, q) ==
    ~IsId(q.grp) \/ AlreadySubscribed(s, q.grp) \/ FindRoom(q.grp) = {}

ReceiveSub(s, q) ==
    /\ GetsLine(s)
    /\ q.type = "sub"
    /\ IF SubRefused(s, q)
       THEN Refuse(s)
       ELSE /\ \E r \in FindRoom(q.grp) : GoOnWith(s, "sub_lock", r, "sub_ok")
            /\ UNCHANGED <<rooms, nchans, chan, wr>>

\* handle_create_and_sub appends the room under chat_room_mutex; a room's
\* number here is its place in the list, which is never taken from.
ReceiveCsub(s, q) ==
    /\ GetsLine(s)
    /\ q.type = "csub"
    /\ \/ q.grp_name \in {Absent, Malformed} /\ Refuse(s)
       \/ /\ q.grp_name \in Names
          /\ Len(rooms) < MaxRooms
          /\ rooms' = Append(rooms, [id |-> Len(rooms) + 1, name |-> q.grp_name,
                                     connections |-> <<>>, log |-> <<>>])
          /\ GoOnWith(s, "sub_lock", Len(rooms) + 1, "csub_ok")
          /\ UNCHANGED <<nchans, chan, wr>>

\* sub_to_room under the room's mutex, then co_spawn of spawn_listener.
SubToRoom(s) ==
    LET r == ses[s].room
        c == nchans + 1
    IN  /\ ses[s].pc = "sub_lock"
        /\ Unlocked(r)
        /\ nchans < MaxChans
        /\ nchans' = c
        /\ rooms' = [rooms EXCEPT ![r].connections = Append(@, c)]
        /\ chan' = [chan EXCEPT ![c].owner = s, ![c].room = r,
                                ![c].joined = Len(rooms[r].log),
                                ![c].listener = "spawned"]
        /\ ses' = [ses EXCEPT ![s].pc = "sub_reply", ![s].chan = c]
        /\ UNCHANGED wr

\* Mutant: the client is told that it failed.
ConfirmationLost(s) == ErrorLine

\* The sub_ok or csub_ok line.
Confirmation(s) ==
    LET r == ses[s].room
    IN  [type |-> ses[s].reply, grp |-> rooms[r].id, grp_name |-> rooms[r].name]

\* current_subscriptions.emplace(...), which keeps an entry that is there,
\* and the reply.
SubReply(s) ==
    /\ ses[s].pc = "sub_reply"
    /\ ses' = [ses EXCEPT ![s].pc = "reading",
                          ![s].subs = IF \E d \in @ : chan[d].room = ses[s].room
                                      THEN @ ELSE @ \cup {ses[s].chan}]
    /\ Write(s, Confirmation(s))
    /\ UNCHANGED <<rooms, nchans, chan>>
-----------------------------------------------------------------------------
(* msg *)

MsgRefused(q) ==
    q.msg = "absent" \/ ~IsId(q.grp) \/ FindRoom(q.grp) = {}

\* parse_message: as_string() throws when "msg" is not a string, and the
\* handlers of tcp_accept end the session.
ReceiveMsg(s, q) ==
    /\ GetsLine(s)
    /\ q.type = "msg"
    /\ IF MsgRefused(q)
       THEN Refuse(s)
       ELSE /\ \/ q.msg = "malformed" /\ GoOn(s, "cleanup")
               \/ /\ q.msg = "text"
                  /\ \E r \in FindRoom(q.grp) :
                        GoOnWith(s, "msg_lock", r, ses[s].reply)
            /\ UNCHANGED <<rooms, nchans, chan, wr>>

\* The channels under which s is subscribed to the room it is busy with.
CurrChan(s) == {c \in ses[s].subs : chan[c].room = ses[s].room}

\* Mutant: nobody looks into current_subscriptions.
AnyoneSubscribed(s) == TRUE

Subscribed(s) == CurrChan(s) # {}

MsgReject(s) ==
    /\ ses[s].pc = "msg_lock"
    /\ Unlocked(ses[s].room)
    /\ ~Subscribed(s)
    /\ Write(s, ErrorLine)
    /\ ses' = [ses EXCEPT ![s].pc = "reading"]
    /\ UNCHANGED <<rooms, nchans, chan>>

MsgLock(s) ==
    /\ ses[s].pc = "msg_lock"
    /\ Unlocked(ses[s].room)
    /\ Subscribed(s)
    /\ rooms' = [rooms EXCEPT ![ses[s].room].log = Append(@, s)]
    /\ ses' = [ses EXCEPT ![s].pc = "bcast", ![s].next = 1]
    /\ UNCHANGED <<nchans, chan, wr>>

\* Mutant: the loop stops before the last connection.
BroadcastOverEarly(s) == ses[s].next >= Len(rooms[ses[s].room].connections)

BroadcastOver(s) == ses[s].next > Len(rooms[ses[s].room].connections)

\* One turn of the loop over the room's connections: a channel that is
\* closed, or gone, takes nothing; the sender's own is skipped.
Broadcast(s) ==
    LET room == rooms[ses[s].room]
        c == room.connections[ses[s].next]
    IN  /\ ses[s].pc = "bcast"
        /\ ~BroadcastOver(s)
        /\ chan' = IF chan[c].closed \/ c \in CurrChan(s)
                   THEN chan
                   ELSE [chan EXCEPT ![c].pushed = Append(@, Len(room.log))]
        /\ ses' = [ses EXCEPT ![s].next = @ + 1]
        /\ UNCHANGED <<rooms, nchans, wr>>

MsgUnlock(s) ==
    /\ ses[s].pc = "bcast"
    /\ BroadcastOver(s)
    /\ ses' = [ses EXCEPT ![s].pc = "reading"]
    /\ UNCHANGED <<rooms, nchans, chan, wr>>
-----------------------------------------------------------------------------
(* The end of a session: cleanup(), then co_return destroys the socket *)

\* Mutant: cleanup() leaves the subscriptions open.
NoneOpen(s) == {}

OpenSubscriptions(s) == {c \in ses[s].subs : ~chan[c].closed}

\* cleanup() closes one channel after the other, in the order of the map's
\* keys, which are addresses ...
CloseSubscription(s) ==
    /\ ses[s].pc = "cleanup"
    /\ \E c \in OpenSubscriptions(s) : chan' = [chan EXCEPT ![c].closed = TRUE]
    /\ UNCHANGED <<rooms, nchans, ses, wr>>

\* ... and then the write channel.
CloseWriteChan(s) ==
    /\ ses[s].pc = "cleanup"
    /\ OpenSubscriptions(s) = {}
    /\ wr' = [wr EXCEPT ![s].closed = TRUE]
    /\ ses' = [ses EXCEPT ![s].pc = "returning"]
    /\ UNCHANGED <<rooms, nchans, chan>>

\* The socket goes with the frame; a send that is outstanding on it is
\* aborted, and socket_writer leaves its loop.
Return(s) ==
    /\ ses[s].pc = "returning"
    /\ ses' = [ses EXCEPT ![s].pc = "ended"]
    /\ wr' = [wr EXCEPT ![s].pc = IF @ = "sending" THEN "done" ELSE @]
    /\ UNCHANGED <<rooms, nchans, chan>>
-----------------------------------------------------------------------------
(* spawn_listener *)

\* Mutant: the listener does not stay in its loop.
LoopLeft(c) == "done"

\* The head of the loop: is the channel still open?
LoopHead(c) == IF chan[c].closed THEN "done" ELSE "read"

ListenStart(c) ==
    /\ chan[c].listener = "spawned"
    /\ ThreadFree
    /\ chan' = [chan EXCEPT ![c].listener = LoopHead(c)]
    /\ UNCHANGED <<rooms, nchans, ses, wr>>

\* Mutant: the newest message is taken first.
NewestMessage(c) == chan[c].pushed[Len(chan[c].pushed) - chan[c].popped]

NextMessage(c) == chan[c].pushed[chan[c].popped + 1]

\* async_read returned a message, which goes to the write channel; then the
\* head of the loop again.
ListenForward(c) ==
    /\ chan[c].listener = "read"
    /\ ThreadFree
    /\ chan[c].popped < Len(chan[c].pushed)
    /\ Write(chan[c].owner, [type |-> "message", data |-> NextMessage(c),
                             grp_name |-> rooms[chan[c].room].name])
    /\ chan' = [chan EXCEPT ![c].popped = @ + 1, ![c].listener = LoopHead(c)]
    /\ UNCHANGED <<rooms, nchans, ses>>

\* async_read threw operation_aborted.
ListenAbort(c) ==
    /\ chan[c].listener = "read"
    /\ ThreadFree
    /\ chan[c].popped = Len(chan[c].pushed)
    /\ chan[c].closed
    /\ chan' = [chan EXCEPT ![c].listener = "done"]
    /\ UNCHANGED <<rooms, nchans, ses, wr>>
-----------------------------------------------------------------------------
(* socket_writer *)

\* Mutant: the writer does not look whether there is a line.
AlwaysLine(s) == TRUE

HasLine(s) == wr[s].popped < Len(wr[s].pushed)

\* co_await s.async_send(data): nothing looks whether s still exists.
WriterSend(s) ==
    /\ wr[s].pc = "read"
    /\ ThreadFree
    /\ HasLine(s)
    /\ wr' = [wr EXCEPT ![s].popped = @ + 1, ![s].pc = "sending"]
    /\ UNCHANGED <<rooms, nchans, chan, ses>>

\* The loop goes on after close() until the channel is empty.
WriterAbort(s) ==
    /\ wr[s].pc = "read"
    /\ ThreadFree
    /\ ~HasLine(s)
    /\ wr[s].closed
    /\ wr' = [wr EXCEPT ![s].pc = "done"]
    /\ UNCHANGED <<rooms, nchans, chan, ses>>

\* The line is out, or a part of it: nothing looks at the number of bytes
\* transmitted, so the two are the same step.  On a socket that went with the
\* frame of tcp_accept the outcome is undefined: async_send may seem to
\* succeed as well as fail, whoever the peer was.
SendDone(s) ==
    /\ s \in Takers \/ ses[s].pc = "ended"
    /\ wr[s].pc = "sending"
    /\ ThreadFree
    /\ wr' = [wr EXCEPT ![s].pc = "read"]
    /\ UNCHANGED <<rooms, nchans, chan, ses>>

\* The send failed, as it may when the peer is gone and on a socket that was
\* destroyed.
SendFail(s) ==
    /\ s \in Leavers \/ ses[s].pc = "ended"
    /\ wr[s].pc = "sending"
    /\ ThreadFree
    /\ wr' = [wr EXCEPT ![s].pc = "done"]
    /\ UNCHANGED <<rooms, nchans, chan, ses>>
-----------------------------------------------------------------------------
Session(s) ==
    \/ SubToRoom(s) \/ SubReply(s)
    \/ MsgReject(s) \/ MsgLock(s) \/ Broadcast(s) \/ MsgUnlock(s)
    \/ CloseSubscription(s) \/ CloseWriteChan(s) \/ Return(s)

Client(s) ==
    \/ Accept(s)
    \/ ReceiveError(s)
    \/ \E q \in Requests[s] :
          \/ ReceiveEmpty(s, q) \/ ReceiveUnknown(s, q) \/ ReceiveDesub(s, q)
          \/ ReceiveSub(s, q) \/ ReceiveCsub(s, q) \/ ReceiveMsg(s, q)

Listener(c) == ListenStart(c) \/ ListenForward(c) \/ ListenAbort(c)

Writer(s) == WriterSend(s) \/ WriterAbort(s) \/ SendDone(s) \/ SendFail(s)

\* Everyone has hung up and every coroutine has returned.
Quiet ==
    /\ \A s \in Sessions : ses[s].pc = "ended" /\ wr[s].pc = "done"
    /\ \A c \in 1..nchans : chan[c].listener = "done"
    /\ UNCHANGED vars

Next ==
    \/ \E s \in Sessions : Client(s) \/ Session(s) \/ Writer(s)
    \/ \E c \in ChanIds : Listener(c)
    \/ Quiet

Spec == Init /\ [][Next]_vars

\* The threads of the io_context run every coroutine that is ready, and a
\* send on a destroyed socket completes, in one way or the other.  Clients owe nothing: they need not
\* send, need not hang up and need not take what is sent to them.
Fairness ==
    /\ \A s \in Sessions :
          /\ WF_vars(Session(s))
          /\ WF_vars(WriterSend(s) \/ WriterAbort(s))
          /\ WF_vars(ses[s].pc = "ended" /\ (SendDone(s) \/ SendFail(s)))
    /\ \A c \in ChanIds : WF_vars(Listener(c))

FairSpec == Spec /\ Fairness
-----------------------------------------------------------------------------
(* Properties *)

\* A room's channel takes the room's messages in the order of the broadcasts,
\* each at most once, none from before the subscription and none of the
\* subscriber's own, however many sessions broadcast and subscribe at a time.
DeliveredInOrder ==
    \A c \in 1..nchans :
        LET p   == chan[c].pushed
            log == rooms[chan[c].room].log
        IN  /\ \A i, j \in 1..Len(p) : i < j => p[i] < p[j]
            /\ \A i \in 1..Len(p) : /\ p[i] \in (chan[c].joined + 1)..Len(log)
                                    /\ log[p[i]] # chan[c].owner

\* A broadcast that has begun will still come to channel c.
Coming(c, n) ==
    \E s \in Sessions :
        /\ ses[s].pc = "bcast"
        /\ ses[s].room = chan[c].room
        /\ n = Len(rooms[chan[c].room].log)
        /\ \E j \in ses[s].next..Len(rooms[chan[c].room].connections) :
              rooms[chan[c].room].connections[j] = c

\* Every message that was broadcast in a room while c was open, by anyone but
\* the subscriber, was put into c or will be before the mutex is released;
\* and what a closed channel took has no gaps.
DeliveredToAll ==
    \A c \in 1..nchans :
        LET p   == chan[c].pushed
            log == rooms[chan[c].room].log
        IN  \A n \in (chan[c].joined + 1)..Len(log) :
                \/ log[n] = chan[c].owner
                \/ \E i \in 1..Len(p) : p[i] = n
                \/ Coming(c, n)
                \/ chan[c].closed /\ \A i \in 1..Len(p) : p[i] < n

\* The room's latest message is on its way to c and will be put into it.
OnItsWay(c) ==
    LET n == Len(rooms[chan[c].room].log)
    IN  /\ c <= nchans /\ ~chan[c].closed
        /\ Coming(c, n)
        /\ rooms[chan[c].room].log[n] # chan[c].owner

\* A message that the mutex admitted counts as posted to all, although some
\* channels have yet to take it.
Posted(c) == IF OnItsWay(c) THEN Append(chan[c].pushed, Len(rooms[chan[c].room].log))
                            ELSE chan[c].pushed

Logs == [r \in 1..Len(rooms) |-> rooms[r].log]

Box == [c \in ChanIds |->
          [owner |-> chan[c].owner, room |-> chan[c].room, in |-> Posted(c),
           out |-> chan[c].popped, open |-> ~chan[c].closed]]

M == INSTANCE Multicast WITH Boxes <- ChanIds, logs <- Logs, box <- Box

\* The rooms implement the multicast: to the subscribers a broadcast is one
\* step, although it writes to one channel after the other while others
\* subscribe, leave, read and wait for the mutex.
ImplementsMulticast == M!Spec

\* Only who is subscribed to a room broadcasts in it: the sender of a message
\* had joined the room before the message was admitted.
OnlySubscribersBroadcast ==
    \A r \in 1..Len(rooms) : \A n \in 1..Len(rooms[r].log) :
        \E c \in 1..nchans : /\ chan[c].owner = rooms[r].log[n]
                             /\ chan[c].room = r
                             /\ chan[c].joined < n

\* Concurrent sub and csub requests never give two rooms the same id nor a
\* session two channels in one room (it would get every message twice).
SubscribedOnce ==
    /\ \A r, t \in 1..Len(rooms) : rooms[r].id = rooms[t].id => r = t
    /\ \A c, d \in 1..nchans :
          chan[c].owner = chan[d].owner /\ chan[c].room = chan[d].room => c = d

\* A session that has returned left none of its channels open: cleanup() finds
\* every channel that the session ever put into a room, so nothing is queued
\* for it any more, and its listeners and its writer are told to stop.
NothingLeftOpen ==
    \A s \in Sessions :
        ses[s].pc = "ended" => /\ wr[s].closed
                               /\ \A c \in 1..nchans : chan[c].owner = s => chan[c].closed

IsMessage(l) == l.type = "message"
Distinguished(n) == \A r, t \in 1..Len(rooms) :
                        rooms[r].name = n /\ rooms[t].name = n => r = t

\* The messages of a room (of one that shares its name with no other) are
\* written to a client in the order of the broadcasts.
WireOrder ==
    \A s \in Sessions : \A i, j \in 1..Len(wr[s].pushed) :
        LET k == wr[s].pushed[i]
            l == wr[s].pushed[j]
        IN  i < j /\ IsMessage(k) /\ IsMessage(l) /\ k.grp_name = l.grp_name
              /\ Distinguished(k.grp_name) => k.data < l.data

\* A client hears sub_ok or csub_ok of a room before any message of the room.
ConfirmedFirst ==
    \A s \in Sessions : \A j \in 1..Len(wr[s].pushed) :
        IsMessage(wr[s].pushed[j]) =>
            \E i \in 1..(j - 1) :
                /\ wr[s].pushed[i].type \in {"sub_ok", "csub_ok"}
                /\ wr[s].pushed[i].grp_name = wr[s].pushed[j].grp_name

\* What is broadcast to a subscriber gets to its write channel, unless the
\* session ends.
BroadcastsForwarded ==
    \A c \in ChanIds : \A n \in 1..Cardinality(Sessions) :
        Len(chan[c].pushed) >= n ~> (chan[c].popped >= n \/ chan[c].closed)

\* When a session is over its coroutines all come to an end: no listener and
\* no writer is left behind.
SessionsUnwind ==
    \A s \in Sessions :
        ses[s].pc = "cleanup" ~>
            /\ ses[s].pc = "ended" /\ wr[s].pc = "done"
            /\ \A c \in 1..nchans : chan[c].owner = s => chan[c].listener = "done"

\* socket_writer sends on the socket of a session that has not returned.
NoSendAfterReturn ==
    \A s \in Sessions : wr[s].pc = "sending" => ses[s].pc # "ended"
=============================================================================
