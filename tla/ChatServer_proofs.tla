-------------------------- MODULE ChatServer_proofs --------------------------
(***************************************************************************)
(* Theorems about the TCP chat server, for any number of connections,      *)
(* rooms, requests and threads: its types, and who is subscribed to what   *)
(* through sub, csub and the end of a session.                             *)
(***************************************************************************)
EXTENDS ChatServer, SequenceTheorems, TLAPS

\* A session that is busy with a room, and a channel that was made, refer to a
\* room that exists; a broadcast has begun with the first connection.
References ==
    /\ \A s \in Sessions :
          ses[s].pc \in {"sub_lock", "sub_reply", "msg_lock", "bcast"}
              => ses[s].room \in 1..Len(rooms)
    /\ \A s \in Sessions : ses[s].pc = "bcast" => ses[s].next >= 1
    /\ \A s \in Sessions : ses[s].pc = "sub_reply" => ses[s].chan \in 1..nchans
    /\ \A c \in ChanIds : c <= nchans => chan[c].room \in 1..Len(rooms)
    /\ \A c \in ChanIds : chan[c].listener # "none" => c <= nchans

TypeInv == TypeOK /\ References

\* write() on a write channel keeps its type.
LEMMA WriteType ==
  ASSUME TypeOK, NEW s, NEW line \in Replies, Write(s, line)
  PROVE  /\ wr' \in [Sessions -> WriterType]
         /\ \A t \in Sessions : wr'[t].popped <= Len(wr'[t].pushed)
<1>1. CASE s \in Sessions
  <2>1. wr[s] \in WriterType /\ wr[s].popped <= Len(wr[s].pushed)
    BY <1>1 DEF TypeOK
  <2> DEFINE q == IF wr[s].closed THEN wr[s].pushed ELSE Append(wr[s].pushed, line)
  <2>2. q \in Seq(Replies) /\ wr[s].popped <= Len(q)
    <3>1. wr[s].pushed \in Seq(Replies) /\ wr[s].popped \in Nat
      BY <2>1 DEF WriterType
    <3> QED
      BY <2>1, <3>1, AppendProperties
  <2> HIDE DEF q
  <2>3. wr' = [wr EXCEPT ![s] = [wr[s] EXCEPT !.pushed = q]]
    BY DEF Write, q
  <2>4. [wr[s] EXCEPT !.pushed = q] \in WriterType
    BY <2>1, <2>2 DEF WriterType
  <2>5. /\ [wr[s] EXCEPT !.pushed = q].pushed = q
        /\ [wr[s] EXCEPT !.pushed = q].popped = wr[s].popped
    BY <2>1 DEF WriterType
  <2> QED
    BY <1>1, <2>2, <2>3, <2>4, <2>5 DEF TypeOK
<1>2. CASE s \notin Sessions
  <2>1. wr' = wr
    BY <1>2 DEF Write, TypeOK
  <2> QED
    BY <2>1 DEF TypeOK
<1> QED
  BY <1>1, <1>2

\* The server starts in a state of the right type.
LEMMA InitType == Init => TypeInv
<1> SUFFICES ASSUME Init PROVE TypeInv
  OBVIOUS
<1>1. /\ rooms \in Seq(RoomType) /\ <<>> \in Seq(Nat) /\ <<>> \in Seq(Replies)
      /\ Len(<<>>) = 0
  BY EmptySeq DEF Init
<1>2. chan \in [ChanIds -> ChanType]
  BY <1>1 DEF Init, ChanType, ListenerStates
<1>3. ses \in [Sessions -> SessionType]
  BY DEF Init, SessionType, SessionStates
<1>4. wr \in [Sessions -> WriterType]
  BY <1>1 DEF Init, WriterType, WriterStates
<1>5. TypeOK
  <2>1. nchans \in 0..MaxChans
    BY ServerAssumption DEF Init
  <2>2. \A c \in ChanIds : chan[c].popped <= Len(chan[c].pushed)
    BY <1>1 DEF Init
  <2>3. \A s \in Sessions : wr[s].popped <= Len(wr[s].pushed)
    BY <1>1 DEF Init
  <2> QED
    BY <1>1, <1>2, <1>3, <1>4, <2>1, <2>2, <2>3 DEF TypeOK
<1>6. References
  BY ServerAssumption DEF Init, References, ChanIds
<1> QED
  BY <1>5, <1>6 DEF TypeInv

\* A session that moves to another pc, and changes nothing that its type or its
\* references depend on, keeps both.
LEMMA SessionMoves ==
  ASSUME TypeInv,
         NEW s \in Sessions, NEW v \in SessionType,
         ses' = [ses EXCEPT ![s] = v],
         v.pc \in {"sub_lock", "sub_reply", "msg_lock", "bcast"} => v.room \in 1..Len(rooms),
         v.pc = "bcast" => v.next >= 1,
         v.pc = "sub_reply" => v.chan \in 1..nchans,
         UNCHANGED <<rooms, nchans, chan>>,
         wr' \in [Sessions -> WriterType],
         \A t \in Sessions : wr'[t].popped <= Len(wr'[t].pushed)
  PROVE  TypeInv'
<1>1. /\ ses' \in [Sessions -> SessionType]
      /\ \A t \in Sessions : ses'[t] = IF t = s THEN v ELSE ses[t]
  BY DEF TypeInv, TypeOK
<1>2. TypeOK'
  BY <1>1 DEF TypeInv, TypeOK
<1>3. References'
  BY <1>1 DEF TypeInv, References
<1> QED
  BY <1>2, <1>3 DEF TypeInv

\* A channel that changes, and stays with the room it is in, keeps its type.
LEMMA ChannelMoves ==
  ASSUME TypeInv,
         NEW c \in ChanIds, NEW v \in ChanType,
         chan' = [chan EXCEPT ![c] = v],
         v.room = chan[c].room,
         v.listener # "none" => chan[c].listener # "none" \/ c <= nchans,
         v.popped <= Len(v.pushed),
         UNCHANGED <<rooms, nchans, ses>>,
         wr' \in [Sessions -> WriterType],
         \A t \in Sessions : wr'[t].popped <= Len(wr'[t].pushed)
  PROVE  TypeInv'
<1>1. /\ chan' \in [ChanIds -> ChanType]
      /\ \A d \in ChanIds : chan'[d] = IF d = c THEN v ELSE chan[d]
  BY DEF TypeInv, TypeOK
<1>2. TypeOK'
  BY <1>1 DEF TypeInv, TypeOK
<1>3. References'
  BY <1>1 DEF TypeInv, References
<1> QED
  BY <1>2, <1>3 DEF TypeInv

\* Writers that are left alone keep their type.
LEMMA UnchangedWriters ==
  ASSUME TypeInv, UNCHANGED wr
  PROVE  /\ wr' \in [Sessions -> WriterType]
         /\ \A t \in Sessions : wr'[t].popped <= Len(wr'[t].pushed)
BY DEF TypeInv, TypeOK

\* A writer that changes keeps its type.
LEMMA WriterMoves ==
  ASSUME TypeInv,
         NEW s \in Sessions, NEW v \in WriterType,
         wr' = [wr EXCEPT ![s] = v],
         v.popped <= Len(v.pushed)
  PROVE  /\ wr' \in [Sessions -> WriterType]
         /\ \A t \in Sessions : wr'[t].popped <= Len(wr'[t].pushed)
BY DEF TypeInv, TypeOK

\* The lines a session reads, up to the room's mutex.
LEMMA ReceiveType ==
  ASSUME TypeInv, NEW s \in Sessions, NEW q \in Requests[s],
         ReceiveEmpty(s, q) \/ ReceiveUnknown(s, q) \/ ReceiveDesub(s, q)
           \/ ReceiveSub(s, q) \/ ReceiveMsg(s, q)
  PROVE  TypeInv'
<1>0. ses[s] \in SessionType
  BY DEF TypeInv, TypeOK
<1>1. ASSUME NEW pc \in {"reading", "cleanup"}, GoOn(s, pc), UNCHANGED <<rooms, nchans, chan>>,
             UNCHANGED wr \/ Write(s, ErrorLine)
      PROVE  TypeInv'
  <2> DEFINE v == [ses[s] EXCEPT !.lines = @ + 1, !.pc = pc]
  <2>1. v \in SessionType /\ v.pc = pc
    <3>1. ses[s].lines + 1 \in Nat /\ pc \in SessionStates
      BY <1>0 DEF SessionType, SessionStates
    <3> QED
      BY <1>0, <3>1 DEF SessionType
  <2>2. ses' = [ses EXCEPT ![s] = v]
    BY <1>1 DEF GoOn, TypeInv, TypeOK
  <2>3. ErrorLine \in Replies
    BY DEF ErrorLine, Replies
  <2>4. /\ wr' \in [Sessions -> WriterType]
        /\ \A t \in Sessions : wr'[t].popped <= Len(wr'[t].pushed)
    BY <1>1, <2>3, WriteType, UnchangedWriters DEF TypeInv
  <2> HIDE DEF v
  <2> QED
    BY <1>1, <2>1, <2>2, <2>4, SessionMoves
<1>2. ASSUME NEW pc \in {"sub_lock", "msg_lock"}, NEW r \in 1..Len(rooms),
             NEW reply \in {"sub_ok", "csub_ok"}, GoOnWith(s, pc, r, reply),
             UNCHANGED <<rooms, nchans, chan, wr>>
      PROVE  TypeInv'
  <2> DEFINE v == [ses[s] EXCEPT !.lines = @ + 1, !.pc = pc, !.room = r, !.reply = reply]
  <2>1. v \in SessionType /\ v.pc = pc /\ v.room = r
    <3>1. ses[s].lines + 1 \in Nat /\ pc \in SessionStates /\ r \in Nat
      BY <1>0 DEF SessionType, SessionStates
    <3> QED
      BY <1>0, <3>1 DEF SessionType
  <2>2. ses' = [ses EXCEPT ![s] = v]
    BY <1>2 DEF GoOnWith, TypeInv, TypeOK
  <2> HIDE DEF v
  <2> QED
    BY <1>2, <2>1, <2>2, SessionMoves, UnchangedWriters
<1>3. CASE ReceiveEmpty(s, q) \/ ReceiveUnknown(s, q) \/ ReceiveDesub(s, q)
  BY <1>1, <1>3 DEF ReceiveEmpty, ReceiveUnknown, ReceiveDesub, Refuse
<1>4. CASE ReceiveSub(s, q)
  BY <1>1, <1>2, <1>4 DEF ReceiveSub, Refuse, FindRoom
<1>5. CASE ReceiveMsg(s, q)
  <2>1. ses[s].reply \in {"sub_ok", "csub_ok"}
    BY <1>0 DEF SessionType
  <2> QED
    BY <1>1, <1>2, <1>5, <2>1 DEF ReceiveMsg, Refuse, FindRoom
<1> QED
  BY <1>3, <1>4, <1>5

\* A session that only moves to a pc at which it is busy with no room.
LEMMA PcMoves ==
  ASSUME TypeInv, NEW s \in Sessions,
         NEW pc \in SessionStates \ {"sub_lock", "sub_reply", "msg_lock", "bcast"},
         ses' = [ses EXCEPT ![s].pc = pc],
         UNCHANGED <<rooms, nchans, chan>>,
         wr' \in [Sessions -> WriterType],
         \A t \in Sessions : wr'[t].popped <= Len(wr'[t].pushed)
  PROVE  TypeInv'
<1> DEFINE v == [ses[s] EXCEPT !.pc = pc]
<1>1. v \in SessionType /\ v.pc = pc
  BY DEF TypeInv, TypeOK, SessionType
<1>2. ses' = [ses EXCEPT ![s] = v]
  OBVIOUS
<1> HIDE DEF v
<1> QED
  BY <1>1, <1>2, SessionMoves

\* The first steps of tcp_accept keep the type.
LEMMA AcceptType ==
  ASSUME TypeInv, NEW s \in Sessions, Accept(s) PROVE TypeInv'
<1> DEFINE w == [wr[s] EXCEPT !.pc = "read"]
<1>1. w \in WriterType /\ w.popped <= Len(w.pushed)
  BY DEF TypeInv, TypeOK, WriterType, WriterStates
<1>2. wr' = [wr EXCEPT ![s] = w]
  BY DEF Accept
<1> HIDE DEF w
<1>3. /\ wr' \in [Sessions -> WriterType]
      /\ \A t \in Sessions : wr'[t].popped <= Len(wr'[t].pushed)
  BY <1>1, <1>2, WriterMoves
<1> QED
  BY <1>3, PcMoves DEF Accept, SessionStates

\* handle_create_and_sub keeps the type when it makes a room.
LEMMA ReceiveCsubType ==
  ASSUME TypeInv, NEW s \in Sessions, NEW q \in Requests[s], ReceiveCsub(s, q)
  PROVE  TypeInv'
<1>0. ses[s] \in SessionType /\ rooms \in Seq(RoomType)
  BY DEF TypeInv, TypeOK
<1>1. CASE Refuse(s)
  <2> DEFINE v == [ses[s] EXCEPT !.lines = @ + 1, !.pc = "reading"]
  <2>1. v \in SessionType /\ v.pc = "reading"
    <3>1. ses[s].lines + 1 \in Nat /\ "reading" \in SessionStates
      BY <1>0 DEF SessionType, SessionStates
    <3> QED
      BY <1>0, <3>1 DEF SessionType
  <2>2. ses' = [ses EXCEPT ![s] = v]
    BY <1>1 DEF Refuse, GoOn, TypeInv, TypeOK
  <2>3. /\ wr' \in [Sessions -> WriterType]
        /\ \A t \in Sessions : wr'[t].popped <= Len(wr'[t].pushed)
    <3>1. ErrorLine \in Replies
      BY DEF ErrorLine, Replies
    <3> QED
      BY <1>1, <3>1, WriteType DEF TypeInv, Refuse
  <2> HIDE DEF v
  <2> QED
    BY <1>1, <2>1, <2>2, <2>3, SessionMoves DEF Refuse
<1>2. CASE ~Refuse(s)
  <2> DEFINE r == Len(rooms) + 1
             room == [id |-> r, name |-> q.grp_name, connections |-> <<>>, log |-> <<>>]
             v == [ses[s] EXCEPT !.lines = @ + 1, !.pc = "sub_lock", !.room = r,
                                 !.reply = "csub_ok"]
  <2>1. /\ q.grp_name \in Names
        /\ rooms' = Append(rooms, room)
        /\ ses' = [ses EXCEPT ![s] = v]
        /\ UNCHANGED <<nchans, chan, wr>>
    BY <1>2 DEF ReceiveCsub, GoOnWith
  <2>2. room \in RoomType
    BY <2>1, <1>0, EmptySeq DEF RoomType
  <2>3. rooms' \in Seq(RoomType) /\ Len(rooms') = Len(rooms) + 1 /\ Len(rooms) \in Nat
    BY <2>1, <2>2, <1>0, AppendProperties
  <2>4. v \in SessionType /\ v.pc = "sub_lock" /\ v.room = r
    <3>1. ses[s].lines + 1 \in Nat /\ "sub_lock" \in SessionStates /\ r \in Nat
      BY <1>0, <2>3 DEF SessionType, SessionStates
    <3> QED
      BY <1>0, <3>1 DEF SessionType
  <2> HIDE DEF v
  <2>5. /\ ses' \in [Sessions -> SessionType]
        /\ \A t \in Sessions : ses'[t] = IF t = s THEN v ELSE ses[t]
    BY <2>1, <2>4 DEF TypeInv, TypeOK
  <2>6. TypeOK'
    BY <2>1, <2>3, <2>5 DEF TypeInv, TypeOK
  <2>7. References'
    BY <2>1, <2>3, <2>4, <2>5 DEF TypeInv, References
  <2> QED
    BY <2>6, <2>7 DEF TypeInv
<1> QED
  BY <1>1, <1>2

\* sub_to_room keeps the type when it makes a channel.
LEMMA SubToRoomType ==
  ASSUME TypeInv, NEW s \in Sessions, SubToRoom(s)
  PROVE  TypeInv'
<1> DEFINE r == ses[s].room
           c == nchans + 1
           room == [rooms[r] EXCEPT !.connections = Append(@, c)]
           ch == [chan[c] EXCEPT !.owner = s, !.room = r, !.joined = Len(rooms[r].log),
                                 !.listener = "spawned"]
           v == [ses[s] EXCEPT !.pc = "sub_reply", !.chan = c]
<1>1. /\ ses[s] \in SessionType /\ r \in 1..Len(rooms) /\ rooms[r] \in RoomType
      /\ rooms \in Seq(RoomType)
  BY DEF TypeInv, TypeOK, References, SubToRoom
<1>2. c \in ChanIds /\ c \in Nat /\ nchans \in Nat /\ chan[c] \in ChanType /\ c \in 0..MaxChans
  BY ServerAssumption DEF TypeInv, TypeOK, SubToRoom, ChanIds
<1>3. room \in RoomType
  <2>1. Append(rooms[r].connections, c) \in Seq(ChanIds)
    BY <1>1, <1>2, AppendProperties DEF RoomType
  <2> QED
    BY <1>1, <2>1 DEF RoomType
<1>4. rooms' \in Seq(RoomType) /\ Len(rooms') = Len(rooms)
  <2>1. rooms' = [rooms EXCEPT ![r] = room]
    BY DEF SubToRoom
  <2> HIDE DEF room, r
  <2> QED
    BY <2>1, <1>1, <1>3, ExceptSeq
<1>5. /\ ch \in ChanType /\ ch.room = r
      /\ ch.popped = chan[c].popped /\ ch.pushed = chan[c].pushed
  <2>1. Len(rooms[r].log) \in Nat /\ r \in Nat
    <3>1. rooms[r].log \in Seq(Sessions)
      BY <1>1 DEF RoomType
    <3> QED
      BY <1>1, <3>1
  <2> QED
    BY <1>2, <2>1 DEF ChanType, ListenerStates
<1>6. v \in SessionType /\ v.chan = c /\ v.pc = "sub_reply" /\ v.room = r
  BY <1>1, <1>2 DEF SessionType, SessionStates
<1>7. chan' = [chan EXCEPT ![c] = ch] /\ ses' = [ses EXCEPT ![s] = v] /\ nchans' = c /\ wr' = wr
  BY DEF SubToRoom
<1> HIDE DEF ch, v, r, room
<1>8. /\ chan' \in [ChanIds -> ChanType]
      /\ \A d \in ChanIds : chan'[d] = IF d = c THEN ch ELSE chan[d]
  BY <1>2, <1>5, <1>7 DEF TypeInv, TypeOK
<1>9. /\ ses' \in [Sessions -> SessionType]
      /\ \A t \in Sessions : ses'[t] = IF t = s THEN v ELSE ses[t]
  BY <1>6, <1>7 DEF TypeInv, TypeOK
<1>10. TypeOK'
  BY <1>2, <1>4, <1>5, <1>7, <1>8, <1>9 DEF TypeInv, TypeOK
<1>11. References'
  BY <1>1, <1>2, <1>4, <1>5, <1>6, <1>7, <1>8, <1>9 DEF TypeInv, References, ChanIds
<1> QED
  BY <1>10, <1>11 DEF TypeInv

\* The reply to a sub or a csub keeps the type.
LEMMA SubReplyType ==
  ASSUME TypeInv, NEW s \in Sessions, SubReply(s)
  PROVE  TypeInv'
<1> DEFINE c == ses[s].chan
           r == ses[s].room
           subs == IF \E d \in ses[s].subs : chan[d].room = r
                   THEN ses[s].subs ELSE ses[s].subs \cup {c}
           v == [ses[s] EXCEPT !.pc = "reading", !.subs = subs]
           line == [type |-> ses[s].reply, grp |-> rooms[r].id, grp_name |-> rooms[r].name]
<1>1. /\ ses[s] \in SessionType /\ r \in 1..Len(rooms) /\ rooms[r] \in RoomType
      /\ c \in ChanIds
  BY ServerAssumption DEF TypeInv, TypeOK, References, SubReply, ChanIds
<1>2. v \in SessionType /\ v.pc = "reading"
  <2>1. subs \in SUBSET ChanIds
    BY <1>1 DEF SessionType
  <2> HIDE DEF subs
  <2> QED
    BY <1>1, <2>1 DEF SessionType, SessionStates
<1>3. line \in Replies
  BY <1>1 DEF Replies, RoomType, SessionType
<1>4. Write(s, line) /\ ses' = [ses EXCEPT ![s] = v] /\ UNCHANGED <<rooms, nchans, chan>>
  BY DEF SubReply, Confirmation
<1> HIDE DEF v, line
<1> QED
  BY <1>2, <1>3, <1>4, WriteType, SessionMoves DEF TypeInv

\* The msg request under the room's mutex.
LEMMA MsgType ==
  ASSUME TypeInv, NEW s \in Sessions, MsgReject(s) \/ MsgLock(s) \/ Broadcast(s) \/ MsgUnlock(s)
  PROVE  TypeInv'
<1>0. /\ ses[s] \in SessionType /\ rooms \in Seq(RoomType)
      /\ ses[s].pc \in {"msg_lock", "bcast"} => ses[s].room \in 1..Len(rooms)
  BY DEF TypeInv, TypeOK, References
<1>1. CASE MsgReject(s)
  <2>1. ErrorLine \in Replies
    BY DEF ErrorLine, Replies
  <2> QED
    BY <1>1, <2>1, PcMoves, WriteType DEF MsgReject, TypeInv, SessionStates
<1>2. CASE MsgLock(s)
  <2> DEFINE r == ses[s].room
             room == [rooms[r] EXCEPT !.log = Append(@, s)]
             v == [ses[s] EXCEPT !.pc = "bcast", !.next = 1]
  <2>1. r \in 1..Len(rooms) /\ rooms[r] \in RoomType
    BY <1>0, <1>2 DEF MsgLock
  <2>2. room \in RoomType
    <3>1. Append(rooms[r].log, s) \in Seq(Sessions)
      BY <2>1, AppendProperties DEF RoomType
    <3> QED
      BY <2>1, <3>1 DEF RoomType
  <2>3. rooms' = [rooms EXCEPT ![r] = room] /\ ses' = [ses EXCEPT ![s] = v]
        /\ UNCHANGED <<nchans, chan, wr>>
    BY <1>2 DEF MsgLock
  <2>4. v \in SessionType /\ v.pc = "bcast" /\ v.next = 1 /\ v.room = r
    BY <1>0 DEF SessionType, SessionStates
  <2> HIDE DEF room, v, r
  <2>5. rooms' \in Seq(RoomType) /\ Len(rooms') = Len(rooms)
    BY <1>0, <2>1, <2>2, <2>3, ExceptSeq
  <2>6. /\ ses' \in [Sessions -> SessionType]
        /\ \A t \in Sessions : ses'[t] = IF t = s THEN v ELSE ses[t]
    BY <2>3, <2>4 DEF TypeInv, TypeOK
  <2>7. TypeOK'
    BY <2>3, <2>5, <2>6 DEF TypeInv, TypeOK
  <2>8. References'
    BY <2>1, <2>3, <2>4, <2>5, <2>6 DEF TypeInv, References
  <2> QED
    BY <2>7, <2>8 DEF TypeInv
<1>3. CASE Broadcast(s)
  <2> DEFINE room == rooms[ses[s].room]
             c == room.connections[ses[s].next]
             v == [ses[s] EXCEPT !.next = @ + 1]
             ch == [chan[c] EXCEPT !.pushed = Append(@, Len(room.log))]
  <2>1. /\ room \in RoomType /\ ses[s].next \in 1..Len(room.connections)
        /\ ses[s].pc = "bcast" /\ ses[s].room \in 1..Len(rooms)
    <3>1. ses[s].next \in Nat /\ ses[s].next >= 1
      BY <1>0, <1>3 DEF SessionType, TypeInv, References, Broadcast
    <3>2. ses[s].pc = "bcast" /\ ~(ses[s].next > Len(room.connections))
      BY <1>3 DEF Broadcast, BroadcastOver
    <3>3. ses[s].room \in 1..Len(rooms) /\ room \in RoomType
      BY <1>0, <3>2, ElementOfSeq
    <3>4. room.connections \in Seq(ChanIds)
      BY <3>3 DEF RoomType
    <3>5. Len(room.connections) \in Nat
      BY <3>4
    <3> HIDE DEF room
    <3> QED
      BY <3>1, <3>2, <3>3, <3>5
  <2>2. c \in ChanIds /\ chan[c] \in ChanType /\ Len(room.log) \in Nat
    <3>1. room.connections \in Seq(ChanIds) /\ room.log \in Seq(Sessions)
      BY <2>1 DEF RoomType
    <3> QED
      BY <2>1, <3>1, ElementOfSeq DEF TypeInv, TypeOK
  <2>3. v \in SessionType /\ v.pc = "bcast" /\ v.next >= 1 /\ v.room = ses[s].room
    <3>1. ses[s].next + 1 \in Nat /\ ses[s].next + 1 >= 1
      BY <1>0 DEF SessionType
    <3> QED
      BY <1>0, <2>1, <3>1 DEF SessionType
  <2>4. /\ ch \in ChanType /\ ch.room = chan[c].room /\ ch.listener = chan[c].listener
        /\ ch.popped <= Len(ch.pushed)
    <3>1. /\ chan[c].pushed \in Seq(Nat) /\ chan[c].popped \in Nat
          /\ chan[c].popped <= Len(chan[c].pushed)
      BY <2>2 DEF ChanType, TypeInv, TypeOK
    <3>2. /\ Append(chan[c].pushed, Len(room.log)) \in Seq(Nat)
          /\ Len(Append(chan[c].pushed, Len(room.log))) = Len(chan[c].pushed) + 1
      <4> HIDE DEF c, room, ch, v
      <4> QED
        BY <2>2, <3>1, AppendProperties
    <3>3. ch.pushed = Append(chan[c].pushed, Len(room.log)) /\ ch.popped = chan[c].popped
      BY <2>2 DEF ChanType
    <3>4. ch \in ChanType /\ ch.room = chan[c].room /\ ch.listener = chan[c].listener
      <4> DEFINE p == Append(chan[c].pushed, Len(room.log))
      <4>1. p \in Seq(Nat) /\ ch = [chan[c] EXCEPT !.pushed = p]
        BY <3>2
      <4> HIDE DEF p, c, ch
      <4> QED
        BY <2>2, <4>1 DEF ChanType
    <3> HIDE DEF ch, c, room
    <3>5. Len(chan[c].pushed) \in Nat
      BY <3>1
    <3> QED
      BY <3>1, <3>2, <3>3, <3>4, <3>5
  <2>5. /\ chan' = chan \/ chan' = [chan EXCEPT ![c] = ch]
        /\ ses' = [ses EXCEPT ![s] = v] /\ UNCHANGED <<rooms, nchans, wr>>
    BY <1>3 DEF Broadcast
  <2> HIDE DEF v, ch, c, room
  <2>6. /\ ses' \in [Sessions -> SessionType]
        /\ \A t \in Sessions : ses'[t] = IF t = s THEN v ELSE ses[t]
    BY <2>3, <2>5 DEF TypeInv, TypeOK
  <2>7. /\ chan' \in [ChanIds -> ChanType]
        /\ \A d \in ChanIds : /\ chan'[d].room = chan[d].room
                              /\ chan'[d].listener = chan[d].listener
                              /\ chan'[d].popped <= Len(chan'[d].pushed)
    BY <2>2, <2>4, <2>5 DEF TypeInv, TypeOK
  <2>8. TypeOK'
    BY <2>5, <2>6, <2>7 DEF TypeInv, TypeOK
  <2>9. References'
    BY <2>1, <2>3, <2>5, <2>6, <2>7 DEF TypeInv, References
  <2> QED
    BY <2>8, <2>9 DEF TypeInv
<1>4. CASE MsgUnlock(s)
  BY <1>4, PcMoves, UnchangedWriters DEF MsgUnlock, SessionStates
<1> QED
  BY <1>1, <1>2, <1>3, <1>4

\* The end of a session.
LEMMA EndType ==
  ASSUME TypeInv, NEW s \in Sessions,
         ReceiveError(s) \/ CloseSubscription(s) \/ CloseWriteChan(s) \/ Return(s)
  PROVE  TypeInv'
<1>1. CASE ReceiveError(s)
  BY <1>1, PcMoves, UnchangedWriters DEF ReceiveError, SessionStates
<1>2. CASE CloseSubscription(s)
  <2>1. PICK c \in ses[s].subs : chan' = [chan EXCEPT ![c].closed = TRUE]
    BY <1>2 DEF CloseSubscription, OpenSubscriptions
  <2>2. c \in ChanIds /\ chan[c] \in ChanType /\ UNCHANGED <<rooms, nchans, ses, wr>>
    BY <1>2 DEF TypeInv, TypeOK, SessionType, CloseSubscription
  <2> DEFINE v == [chan[c] EXCEPT !.closed = TRUE]
  <2>3. /\ v \in ChanType /\ v.room = chan[c].room /\ v.listener = chan[c].listener
        /\ v.popped <= Len(v.pushed)
    BY <2>2 DEF TypeInv, TypeOK, ChanType
  <2>4. chan' = [chan EXCEPT ![c] = v]
    BY <2>1
  <2> HIDE DEF v
  <2> QED
    BY <2>2, <2>3, <2>4, ChannelMoves, UnchangedWriters
<1>3. CASE CloseWriteChan(s)
  <2> DEFINE w == [wr[s] EXCEPT !.closed = TRUE]
  <2>1. w \in WriterType /\ w.popped <= Len(w.pushed)
    BY DEF TypeInv, TypeOK, WriterType
  <2>2. wr' = [wr EXCEPT ![s] = w]
    BY <1>3 DEF CloseWriteChan
  <2> HIDE DEF w
  <2> QED
    BY <1>3, <2>1, <2>2, WriterMoves, PcMoves DEF CloseWriteChan, SessionStates
<1>4. CASE Return(s)
  <2> DEFINE w == [wr[s] EXCEPT !.pc = IF @ = "sending" THEN "done" ELSE @]
  <2>1. w \in WriterType /\ w.popped <= Len(w.pushed)
    BY DEF TypeInv, TypeOK, WriterType, WriterStates
  <2>2. wr' = [wr EXCEPT ![s] = w]
    BY <1>4 DEF Return
  <2> HIDE DEF w
  <2> QED
    BY <1>4, <2>1, <2>2, WriterMoves, PcMoves DEF Return, SessionStates
<1> QED
  BY <1>1, <1>2, <1>3, <1>4

\* The steps of spawn_listener keep the type.
LEMMA ListenerType ==
  ASSUME TypeInv, NEW c \in ChanIds, Listener(c)
  PROVE  TypeInv'
<1>0. chan[c] \in ChanType /\ chan[c].popped <= Len(chan[c].pushed)
  BY DEF TypeInv, TypeOK
<1>1. ASSUME NEW l \in {"read", "done"}, chan' = [chan EXCEPT ![c].listener = l],
             chan[c].listener # "none", UNCHANGED <<rooms, nchans, ses, wr>>
      PROVE  TypeInv'
  <2> DEFINE v == [chan[c] EXCEPT !.listener = l]
  <2>1. v \in ChanType /\ v.room = chan[c].room /\ v.popped <= Len(v.pushed)
    BY <1>0 DEF ChanType, ListenerStates
  <2>2. chan' = [chan EXCEPT ![c] = v]
    BY <1>1
  <2> HIDE DEF v
  <2> QED
    BY <1>1, <2>1, <2>2, ChannelMoves, UnchangedWriters
<1>2. CASE ListenStart(c)
  BY <1>1, <1>2 DEF ListenStart, LoopHead
<1>3. CASE ListenAbort(c)
  BY <1>1, <1>3 DEF ListenAbort
<1>4. CASE ListenForward(c)
  <2> DEFINE l == IF chan[c].closed THEN "done" ELSE "read"
             v == [chan[c] EXCEPT !.popped = @ + 1, !.listener = l]
             n == chan[c].pushed[chan[c].popped + 1]
             room == rooms[chan[c].room]
             line == [type |-> "message", data |-> n, grp_name |-> room.name]
  <2>1. /\ chan[c].listener = "read" /\ chan[c].popped < Len(chan[c].pushed)
        /\ Write(chan[c].owner, line)
        /\ chan' = [chan EXCEPT ![c] = v] /\ UNCHANGED <<rooms, nchans, ses>>
    BY <1>4 DEF ListenForward, NextMessage, LoopHead
  <2>2. chan[c].popped \in Nat /\ chan[c].pushed \in Seq(Nat)
    BY <1>0 DEF ChanType
  <2>3. chan[c].popped + 1 \in 1..Len(chan[c].pushed)
    BY <2>1, <2>2
  <2>4. n \in Nat
    BY <2>2, <2>3, ElementOfSeq
  <2>5. room \in RoomType
    <3>1. chan[c].room \in 1..Len(rooms) /\ rooms \in Seq(RoomType)
      BY <2>1 DEF TypeInv, TypeOK, References
    <3> QED
      BY <3>1, ElementOfSeq
  <2>6. line \in Replies
    BY <2>4, <2>5 DEF Replies, RoomType
  <2>7. l \in ListenerStates /\ chan[c].popped + 1 \in Nat
    BY <2>2 DEF ListenerStates
  <2> HIDE DEF l, line
  <2>8. /\ v \in ChanType /\ v.room = chan[c].room
        /\ v.popped = chan[c].popped + 1 /\ v.pushed = chan[c].pushed
    BY <1>0, <2>7 DEF ChanType
  <2>9. v.popped <= Len(v.pushed)
    BY <2>3, <2>8
  <2> HIDE DEF v
  <2>10. /\ wr' \in [Sessions -> WriterType]
         /\ \A t \in Sessions : wr'[t].popped <= Len(wr'[t].pushed)
    BY <2>1, <2>6, WriteType DEF TypeInv
  <2> QED
    BY <2>1, <2>8, <2>9, <2>10, ChannelMoves
<1> QED
  BY <1>2, <1>3, <1>4 DEF Listener

\* A step of a writer changes nothing but the writer.
LEMMA WriterStep ==
  ASSUME TypeInv, UNCHANGED <<rooms, nchans, chan, ses>>,
         wr' \in [Sessions -> WriterType],
         \A t \in Sessions : wr'[t].popped <= Len(wr'[t].pushed)
  PROVE  TypeInv'
BY DEF TypeInv, TypeOK, References

\* The steps of socket_writer keep the type of the whole state.
LEMMA WriterTypeStep ==
  ASSUME TypeInv, NEW s \in Sessions, Writer(s)
  PROVE  TypeInv'
<1>0. /\ wr[s] \in WriterType /\ wr[s].popped <= Len(wr[s].pushed)
      /\ UNCHANGED <<rooms, nchans, chan, ses>>
  BY DEF TypeInv, TypeOK, Writer, WriterSend, WriterAbort, SendDone, SendFail
<1>1. ASSUME NEW pc \in {"read", "done"}, wr' = [wr EXCEPT ![s].pc = pc]
      PROVE  TypeInv'
  <2> DEFINE w == [wr[s] EXCEPT !.pc = pc]
  <2>1. w \in WriterType /\ w.popped <= Len(w.pushed)
    BY <1>0 DEF WriterType, WriterStates
  <2>2. wr' = [wr EXCEPT ![s] = w]
    BY <1>1
  <2> HIDE DEF w
  <2> QED
    BY <1>0, <2>1, <2>2, WriterMoves, WriterStep
<1>2. CASE WriterAbort(s) \/ SendFail(s)
  BY <1>1, <1>2 DEF WriterAbort, SendFail
<1>3. CASE SendDone(s)
  BY <1>1, <1>3 DEF SendDone
<1>4. CASE WriterSend(s)
  <2> DEFINE w == [wr[s] EXCEPT !.popped = @ + 1, !.pc = "sending"]
  <2>1. /\ wr[s].popped \in Nat /\ Len(wr[s].pushed) \in Nat
        /\ wr[s].popped < Len(wr[s].pushed)
    BY <1>0, <1>4 DEF WriterType, WriterSend, HasLine
  <2>2. wr[s].popped + 1 \in Nat /\ wr[s].popped + 1 <= Len(wr[s].pushed)
    BY <2>1
  <2>3. w \in WriterType /\ w.popped = wr[s].popped + 1 /\ w.pushed = wr[s].pushed
    BY <1>0, <2>2 DEF WriterType, WriterStates
  <2>4. wr' = [wr EXCEPT ![s] = w]
    BY <1>4 DEF WriterSend
  <2> HIDE DEF w
  <2> QED
    BY <1>0, <2>2, <2>3, <2>4, WriterMoves, WriterStep
<1> QED
  BY <1>2, <1>3, <1>4 DEF Writer

\* Every step of the server keeps the type.
LEMMA NextType == TypeInv /\ [Next]_vars => TypeInv'
<1> SUFFICES ASSUME TypeInv, [Next]_vars PROVE TypeInv'
  OBVIOUS
<1>1. ASSUME NEW s \in Sessions, Client(s) PROVE TypeInv'
  BY <1>1, AcceptType, EndType, ReceiveType, ReceiveCsubType DEF Client
<1>2. ASSUME NEW s \in Sessions, Session(s) PROVE TypeInv'
  BY <1>2, SubToRoomType, SubReplyType, MsgType, EndType DEF Session
<1>3. CASE UNCHANGED vars
  BY <1>3 DEF vars, TypeInv, TypeOK, References
<1> QED
  BY <1>1, <1>2, <1>3, WriterTypeStep, ListenerType DEF Next, Quiet

\* The server's state keeps its type: in particular no coroutine ever takes a
\* message from an empty queue, and no session and no channel refers to a room
\* that is not in chat_rooms.
THEOREM TypeCorrect == Spec => []TypeOK
<1>1. TypeInv => TypeOK
  BY DEF TypeInv
<1> QED
  BY <1>1, InitType, NextType, PTL DEF Spec

\* The type and the references hold throughout: the invariant that every other
\* proof about the server rests on.
LEMMA TypeInvariant == Spec => []TypeInv
BY InitType, NextType, PTL DEF Spec
-----------------------------------------------------------------------------
(* Who is subscribed to what *)

\* Who owns which channel.  Every channel that was made belongs to a session;
\* the session finds it in current_subscriptions, or is about to put it there;
\* and it has no other channel in the same room, nor one in the room it is
\* about to join.
Membership ==
    /\ \A c \in ChanIds : c <= nchans => chan[c].owner \in Sessions
    /\ \A s \in Sessions : \A c \in ses[s].subs : c <= nchans /\ chan[c].owner = s
    /\ \A c \in ChanIds : c <= nchans =>
          \/ c \in ses[chan[c].owner].subs
          \/ ses[chan[c].owner].pc = "sub_reply" /\ ses[chan[c].owner].chan = c
    /\ \A s \in Sessions : ses[s].pc = "sub_lock" =>
          \A c \in ChanIds : c <= nchans /\ chan[c].owner = s => chan[c].room # ses[s].room
    /\ \A s \in Sessions : ses[s].pc = "sub_reply" =>
          /\ chan[ses[s].chan].owner = s
          /\ chan[ses[s].chan].room = ses[s].room
          /\ ses[s].chan \notin ses[s].subs
    /\ \A c, d \in ChanIds :
          /\ c <= nchans /\ d <= nchans
          /\ chan[c].owner = chan[d].owner /\ chan[c].room = chan[d].room
          => c = d

\* What cleanup() has closed by the time the session gets past it.
Closing ==
    /\ \A s \in Sessions : ses[s].pc \in {"returning", "ended"} =>
          wr[s].closed /\ \A c \in ses[s].subs : chan[c].closed

\* A room's id is its place in chat_rooms.
Numbered == \A r \in 1..Len(rooms) : rooms[r].id = r

\* A step that makes no channel, enters no subscription and neither begins nor
\* ends one.
SubsKept ==
    /\ nchans' = nchans
    /\ \A c \in ChanIds : /\ chan'[c].owner = chan[c].owner
                          /\ chan'[c].room = chan[c].room
                          /\ chan'[c].joined = chan[c].joined
                          /\ chan[c].closed => chan'[c].closed
    /\ \A s \in Sessions :
          /\ ses'[s].subs = ses[s].subs
          /\ ses'[s].pc = "sub_lock" <=> ses[s].pc = "sub_lock"
          /\ ses'[s].pc = "sub_reply" <=> ses[s].pc = "sub_reply"
          /\ ses[s].pc \in {"sub_lock", "sub_reply"} =>
                ses'[s].room = ses[s].room /\ ses'[s].chan = ses[s].chan

\* Such a step keeps Membership.
LEMMA MembershipKept ==
  ASSUME TypeInv, Membership, SubsKept
  PROVE  Membership'
<1>1. \A s \in Sessions : ses[s].pc = "sub_reply" => ses[s].chan \in ChanIds
  BY ServerAssumption DEF TypeInv, TypeOK, References, ChanIds
<1>2. \A s \in Sessions : ses[s].subs \subseteq ChanIds
  BY DEF TypeInv, TypeOK, SessionType
<1> QED
  BY <1>1, <1>2 DEF Membership, SubsKept

\* A session that changes its pc, its lines or its progress in a broadcast, but
\* nothing that has to do with its subscriptions.
LEMMA KeptBySession ==
  ASSUME TypeInv, NEW s \in Sessions, NEW v \in SessionType,
         ses' = [ses EXCEPT ![s] = v],
         v.subs = ses[s].subs,
         v.pc \notin {"sub_lock", "sub_reply"},
         ses[s].pc \notin {"sub_lock", "sub_reply"},
         UNCHANGED nchans,
         \A c \in ChanIds : /\ chan'[c].owner = chan[c].owner
                            /\ chan'[c].room = chan[c].room
                            /\ chan'[c].joined = chan[c].joined
                            /\ chan[c].closed => chan'[c].closed
  PROVE  SubsKept
<1>1. \A t \in Sessions : ses'[t] = IF t = s THEN v ELSE ses[t]
  BY DEF TypeInv, TypeOK
<1> QED
  BY <1>1 DEF SubsKept

\* A step of a session that is neither part of a sub nor of a csub.
LEMMA KeptByOthers ==
  ASSUME TypeInv, NEW s \in Sessions,
         \/ Accept(s) \/ ReceiveError(s)
         \/ MsgReject(s) \/ MsgLock(s) \/ Broadcast(s) \/ MsgUnlock(s)
         \/ CloseSubscription(s) \/ CloseWriteChan(s) \/ Return(s)
  PROVE  SubsKept
<1>0. ses[s] \in SessionType /\ chan \in [ChanIds -> ChanType]
  BY DEF TypeInv, TypeOK
<1>1. ASSUME NEW pc \in SessionStates \ {"sub_lock", "sub_reply"},
             ses' = [ses EXCEPT ![s].pc = pc],
             ses[s].pc \notin {"sub_lock", "sub_reply"},
             UNCHANGED nchans,
             \A c \in ChanIds : /\ chan'[c].owner = chan[c].owner
                                /\ chan'[c].room = chan[c].room
                                /\ chan'[c].joined = chan[c].joined
                                /\ chan[c].closed => chan'[c].closed
      PROVE  SubsKept
  <2> DEFINE v == [ses[s] EXCEPT !.pc = pc]
  <2>1. v \in SessionType /\ v.pc = pc /\ v.subs = ses[s].subs
    BY <1>0 DEF SessionType
  <2>2. ses' = [ses EXCEPT ![s] = v]
    BY <1>1
  <2> HIDE DEF v
  <2> QED
    BY <1>1, <2>1, <2>2, KeptBySession
<1>2. CASE Accept(s) \/ ReceiveError(s) \/ MsgReject(s) \/ MsgUnlock(s)
           \/ CloseWriteChan(s) \/ Return(s)
  BY <1>1, <1>2 DEF Accept, ReceiveError, MsgReject, MsgUnlock, CloseWriteChan, Return,
                    SessionStates
<1>3. CASE CloseSubscription(s)
  <2>1. PICK c \in ses[s].subs : chan' = [chan EXCEPT ![c].closed = TRUE]
    BY <1>3 DEF CloseSubscription, OpenSubscriptions
  <2>2. \A d \in ChanIds : \/ chan'[d] = chan[d]
                          \/ chan'[d] = [chan[d] EXCEPT !.closed = TRUE]
    BY <1>0, <2>1
  <2>3. \A d \in ChanIds : /\ chan'[d].owner = chan[d].owner
                           /\ chan'[d].room = chan[d].room
                           /\ chan'[d].joined = chan[d].joined
                           /\ chan[d].closed => chan'[d].closed
    BY <1>0, <2>2 DEF ChanType
  <2>4. UNCHANGED <<nchans, ses>>
    BY <1>3 DEF CloseSubscription
  <2> QED
    BY <2>3, <2>4 DEF SubsKept
<1>4. CASE MsgLock(s)
  <2> DEFINE v == [ses[s] EXCEPT !.pc = "bcast", !.next = 1]
  <2>1. v \in SessionType /\ v.pc = "bcast" /\ v.subs = ses[s].subs
    BY <1>0 DEF SessionType, SessionStates
  <2>2. ses' = [ses EXCEPT ![s] = v] /\ ses[s].pc = "msg_lock" /\ UNCHANGED <<nchans, chan>>
    BY <1>4 DEF MsgLock
  <2> HIDE DEF v
  <2> QED
    BY <2>1, <2>2, KeptBySession
<1>5. CASE Broadcast(s)
  <2> DEFINE v == [ses[s] EXCEPT !.next = @ + 1]
             c == rooms[ses[s].room].connections[ses[s].next]
             n == Len(rooms[ses[s].room].log)
  <2>1. v \in SessionType /\ v.pc = ses[s].pc /\ v.subs = ses[s].subs
    <3>1. ses[s].next + 1 \in Nat
      BY <1>0 DEF SessionType
    <3> QED
      BY <1>0, <3>1 DEF SessionType
  <2>2. /\ ses' = [ses EXCEPT ![s] = v] /\ ses[s].pc = "bcast" /\ UNCHANGED nchans
        /\ chan' = chan \/ chan' = [chan EXCEPT ![c] = [chan[c] EXCEPT !.pushed = Append(@, n)]]
    BY <1>5 DEF Broadcast
  <2> HIDE DEF v, c, n
  <2>3. \A d \in ChanIds : /\ chan'[d].owner = chan[d].owner
                           /\ chan'[d].room = chan[d].room
                           /\ chan'[d].joined = chan[d].joined
                           /\ chan[d].closed => chan'[d].closed
    <3> TAKE d \in ChanIds
    <3>1. chan[d] \in ChanType
      BY <1>0
    <3>2. \/ chan'[d] = chan[d]
          \/ chan'[d] = [chan[d] EXCEPT !.pushed = Append(chan[d].pushed, n)]
      BY <1>0, <2>2
    <3> QED
      BY <3>1, <3>2 DEF ChanType
  <2> QED
    BY <2>1, <2>2, <2>3, KeptBySession
<1> QED
  BY <1>2, <1>3, <1>4, <1>5

\* A step of a listener or of a writer.
LEMMA KeptByServants ==
  ASSUME TypeInv,
         \/ \E c \in ChanIds : Listener(c)
         \/ \E s \in Sessions : Writer(s)
         \/ UNCHANGED vars
  PROVE  SubsKept
<1>1. ASSUME NEW c \in ChanIds, Listener(c) PROVE SubsKept
  <2>0. chan[c] \in ChanType /\ chan \in [ChanIds -> ChanType]
    BY DEF TypeInv, TypeOK
  <2>1. UNCHANGED <<nchans, ses>>
    BY <1>1 DEF Listener, ListenStart, ListenForward, ListenAbort
  <2>2. \A d \in ChanIds : d # c => chan'[d] = chan[d]
    BY <1>1, <2>0 DEF Listener, ListenStart, ListenForward, ListenAbort
  <2>3. /\ chan'[c].owner = chan[c].owner /\ chan'[c].room = chan[c].room
        /\ chan'[c].closed = chan[c].closed /\ chan'[c].joined = chan[c].joined
    <3>1. CASE ListenStart(c)
      BY <2>0, <3>1 DEF ListenStart, ChanType
    <3>2. CASE ListenForward(c)
      BY <2>0, <3>2 DEF ListenForward, ChanType
    <3>3. CASE ListenAbort(c)
      BY <2>0, <3>3 DEF ListenAbort, ChanType
    <3> QED
      BY <1>1, <3>1, <3>2, <3>3 DEF Listener
  <2> QED
    BY <2>1, <2>2, <2>3 DEF SubsKept
<1>2. ASSUME NEW s \in Sessions, Writer(s) PROVE SubsKept
  BY <1>2 DEF Writer, WriterSend, WriterAbort, SendDone, SendFail, SubsKept
<1>3. CASE UNCHANGED vars
  BY <1>3 DEF vars, SubsKept
<1> QED
  BY <1>1, <1>2, <1>3

\* A session begins to join a room in which it has no channel.
LEMMA JoinBegins ==
  ASSUME TypeInv, Membership, NEW s \in Sessions, NEW v \in SessionType,
         ses' = [ses EXCEPT ![s] = v],
         v.subs = ses[s].subs, v.pc = "sub_lock", ses[s].pc = "reading",
         \A c \in ses[s].subs : chan[c].room # v.room,
         UNCHANGED <<nchans, chan>>
  PROVE  Membership'
<1>1. \A t \in Sessions : ses'[t] = IF t = s THEN v ELSE ses[t]
  BY DEF TypeInv, TypeOK
<1>2. \A c \in ChanIds : c <= nchans /\ chan[c].owner = s => c \in ses[s].subs
  BY DEF Membership
<1> QED
  BY <1>1, <1>2 DEF Membership

\* The lines that tcp_accept reads keep Membership: a sub that passes the check
\* of handle_sub, and a csub, begin to join a room that is new to the session.
LEMMA MembershipReceive ==
  ASSUME TypeInv, Membership, NEW s \in Sessions, NEW q \in Requests[s],
         ReceiveEmpty(s, q) \/ ReceiveUnknown(s, q) \/ ReceiveDesub(s, q)
           \/ ReceiveSub(s, q) \/ ReceiveCsub(s, q) \/ ReceiveMsg(s, q)
  PROVE  Membership'
<1>0. ses[s] \in SessionType /\ ses[s].pc = "reading" /\ rooms \in Seq(RoomType)
  BY DEF TypeInv, TypeOK, ReceiveEmpty, ReceiveUnknown, ReceiveDesub, ReceiveSub,
         ReceiveCsub, ReceiveMsg, GetsLine
<1>1. ASSUME NEW pc \in {"reading", "cleanup"}, GoOn(s, pc), UNCHANGED <<nchans, chan>>
      PROVE  Membership'
  <2> DEFINE v == [ses[s] EXCEPT !.lines = @ + 1, !.pc = pc]
  <2>1. v \in SessionType /\ v.pc = pc /\ v.subs = ses[s].subs
    <3>1. ses[s].lines + 1 \in Nat /\ pc \in SessionStates
      BY <1>0 DEF SessionType, SessionStates
    <3> QED
      BY <1>0, <3>1 DEF SessionType
  <2>2. ses' = [ses EXCEPT ![s] = v]
    BY <1>1 DEF GoOn
  <2> HIDE DEF v
  <2> QED
    BY <1>0, <1>1, <2>1, <2>2, KeptBySession, MembershipKept
<1>2. ASSUME NEW pc \in {"sub_lock", "msg_lock"}, NEW r \in Nat,
             NEW reply \in {"sub_ok", "csub_ok"}, GoOnWith(s, pc, r, reply),
             pc = "sub_lock" => \A c \in ses[s].subs : chan[c].room # r,
             UNCHANGED <<nchans, chan>>
      PROVE  Membership'
  <2> DEFINE v == [ses[s] EXCEPT !.lines = @ + 1, !.pc = pc, !.room = r, !.reply = reply]
  <2>1. v \in SessionType /\ v.pc = pc /\ v.room = r /\ v.subs = ses[s].subs
    <3>1. ses[s].lines + 1 \in Nat /\ pc \in SessionStates
      BY <1>0 DEF SessionType, SessionStates
    <3> QED
      BY <1>0, <3>1 DEF SessionType
  <2>2. ses' = [ses EXCEPT ![s] = v]
    BY <1>2 DEF GoOnWith
  <2> HIDE DEF v
  <2>3. CASE pc = "sub_lock"
    BY <1>0, <1>2, <2>1, <2>2, <2>3, JoinBegins
  <2>4. CASE pc = "msg_lock"
    BY <1>0, <1>2, <2>1, <2>2, <2>4, KeptBySession, MembershipKept
  <2> QED
    BY <2>3, <2>4
<1>3. CASE ReceiveEmpty(s, q) \/ ReceiveUnknown(s, q) \/ ReceiveDesub(s, q)
  BY <1>1, <1>3 DEF ReceiveEmpty, ReceiveUnknown, ReceiveDesub, Refuse
<1>4. CASE ReceiveSub(s, q)
  <2>1. CASE SubRefused(s, q)
    BY <1>1, <1>4, <2>1 DEF ReceiveSub, Refuse
  <2>2. CASE ~SubRefused(s, q)
    <3>1. PICK r \in FindRoom(q.grp) : GoOnWith(s, "sub_lock", r, "sub_ok")
      BY <1>4, <2>2 DEF ReceiveSub
    <3>2. r \in Nat /\ rooms[r].id = ParseId(q.grp)
      BY <3>1 DEF FindRoom
    <3>3. \A c \in ses[s].subs : chan[c].room # r
      BY <2>2, <3>2 DEF SubRefused, AlreadySubscribed
    <3> QED
      BY <1>2, <1>4, <2>2, <3>1, <3>2, <3>3 DEF ReceiveSub
  <2> QED
    BY <2>1, <2>2
<1>5. CASE ReceiveCsub(s, q)
  <2>1. CASE Refuse(s)
    BY <1>1, <2>1 DEF Refuse
  <2>2. CASE ~Refuse(s)
    <3> DEFINE r == Len(rooms) + 1
    <3>1. GoOnWith(s, "sub_lock", r, "csub_ok") /\ UNCHANGED <<nchans, chan>>
      BY <1>5, <2>2 DEF ReceiveCsub
    <3>2. \A c \in ses[s].subs : c \in ChanIds /\ c <= nchans
      BY <1>0 DEF Membership, SessionType
    <3>3. \A c \in ses[s].subs : chan[c].room \in 1..Len(rooms)
      BY <3>2 DEF TypeInv, References
    <3>4. r \in Nat /\ \A c \in ses[s].subs : chan[c].room # r
      BY <1>0, <3>3
    <3> HIDE DEF r
    <3> QED
      BY <1>2, <3>1, <3>4
  <2> QED
    BY <2>1, <2>2
<1>6. CASE ReceiveMsg(s, q)
  <2>1. ses[s].reply \in {"sub_ok", "csub_ok"}
    BY <1>0 DEF SessionType
  <2>2. \A r \in FindRoom(q.grp) : r \in Nat
    BY DEF FindRoom
  <2> QED
    BY <1>1, <1>2, <1>6, <2>1, <2>2 DEF ReceiveMsg, Refuse
<1> QED
  BY <1>3, <1>4, <1>5, <1>6

\* sub_to_room makes the channel.
LEMMA MembershipSubToRoom ==
  ASSUME TypeInv, Membership, NEW s \in Sessions, SubToRoom(s)
  PROVE  Membership'
<1> DEFINE r == ses[s].room
           c == nchans + 1
           n == Len(rooms[r].log)
           ch == [chan[c] EXCEPT !.owner = s, !.room = r, !.joined = n, !.listener = "spawned"]
           v == [ses[s] EXCEPT !.pc = "sub_reply", !.chan = c]
<1>1. ses[s] \in SessionType /\ ses[s].pc = "sub_lock"
  BY DEF TypeInv, TypeOK, SubToRoom
<1>2. c \in ChanIds /\ c \in Nat /\ nchans \in Nat /\ chan[c] \in ChanType
  BY ServerAssumption DEF TypeInv, TypeOK, SubToRoom, ChanIds
<1>3. ch.owner = s /\ ch.room = r
  BY <1>2 DEF ChanType
<1>4. v.pc = "sub_reply" /\ v.chan = c /\ v.room = r /\ v.subs = ses[s].subs
  BY <1>1 DEF SessionType
<1>5. chan' = [chan EXCEPT ![c] = ch] /\ ses' = [ses EXCEPT ![s] = v] /\ nchans' = nchans + 1
  BY DEF SubToRoom
<1>6. \A t \in Sessions : ses[t].subs \subseteq ChanIds
  BY DEF TypeInv, TypeOK, SessionType
<1>7. \A t \in Sessions : ses[t].pc = "sub_reply" => ses[t].chan \in 1..nchans
  BY DEF TypeInv, References
<1> HIDE DEF ch, v, r, n
<1>8. \A d \in ChanIds : chan'[d] = IF d = c THEN ch ELSE chan[d]
  BY <1>2, <1>5 DEF TypeInv, TypeOK
<1>9. \A t \in Sessions : ses'[t] = IF t = s THEN v ELSE ses[t]
  BY <1>5 DEF TypeInv, TypeOK
<1>10. \A d \in ChanIds : d <= nchans' <=> (d <= nchans \/ d = c)
  BY <1>2, <1>5 DEF ChanIds
<1>11. \A d \in ChanIds : d <= nchans => d # c
  BY <1>2 DEF ChanIds
<1>12. \A d \in ChanIds : d <= nchans /\ chan[d].owner = s => chan[d].room # r
  BY <1>1 DEF Membership, r
<1>13. \A t \in Sessions : \A d \in ses'[t].subs : d <= nchans' /\ chan'[d].owner = t
  BY <1>4, <1>6, <1>8, <1>9, <1>10, <1>11 DEF Membership
<1>14. \A d \in ChanIds : d <= nchans' =>
          /\ chan'[d].owner \in Sessions
          /\ \/ d \in ses'[chan'[d].owner].subs
             \/ ses'[chan'[d].owner].pc = "sub_reply" /\ ses'[chan'[d].owner].chan = d
  BY <1>1, <1>3, <1>4, <1>8, <1>9, <1>10, <1>11 DEF Membership
<1>15. \A t \in Sessions : ses'[t].pc = "sub_lock" =>
          \A d \in ChanIds : d <= nchans' /\ chan'[d].owner = t => chan'[d].room # ses'[t].room
  BY <1>3, <1>4, <1>8, <1>9, <1>10, <1>11 DEF Membership
<1>16. ASSUME NEW t \in Sessions, ses'[t].pc = "sub_reply"
       PROVE  /\ chan'[ses'[t].chan].owner = t
              /\ chan'[ses'[t].chan].room = ses'[t].room
              /\ ses'[t].chan \notin ses'[t].subs
  <2>1. CASE t = s
    BY <1>2, <1>3, <1>4, <1>6, <1>8, <1>9, <1>11, <2>1 DEF Membership
  <2>2. CASE t # s
    <3>1. ses'[t] = ses[t] /\ ses[t].chan \in 1..nchans
      BY <1>7, <1>9, <1>16, <2>2
    <3>2. ses[t].chan \in ChanIds /\ ses[t].chan <= nchans
      BY <3>1, ServerAssumption DEF ChanIds, TypeInv, TypeOK
    <3> QED
      BY <1>8, <1>11, <1>16, <3>1, <3>2 DEF Membership
  <2> QED
    BY <2>1, <2>2
<1>17. \A d, e \in ChanIds :
          /\ d <= nchans' /\ e <= nchans'
          /\ chan'[d].owner = chan'[e].owner /\ chan'[d].room = chan'[e].room
          => d = e
  BY <1>3, <1>8, <1>10, <1>11, <1>12 DEF Membership
<1> QED
  BY <1>13, <1>14, <1>15, <1>16, <1>17 DEF Membership

\* The session enters the channel into current_subscriptions.
LEMMA MembershipSubReply ==
  ASSUME TypeInv, Membership, NEW s \in Sessions, SubReply(s)
  PROVE  Membership'
<1> DEFINE c == ses[s].chan
           r == ses[s].room
           v == [ses[s] EXCEPT !.pc = "reading", !.subs = ses[s].subs \cup {c}]
<1>1. ses[s] \in SessionType /\ ses[s].pc = "sub_reply" /\ UNCHANGED <<nchans, chan>>
  BY DEF TypeInv, TypeOK, SubReply
<1>2. c \in ChanIds /\ c <= nchans /\ chan[c].owner = s /\ chan[c].room = r /\ c \notin ses[s].subs
  BY <1>1, ServerAssumption DEF Membership, TypeInv, TypeOK, References, ChanIds
<1>3. ses[s].subs \subseteq ChanIds
  BY <1>1 DEF SessionType
<1>4. ~ \E d \in ses[s].subs : chan[d].room = r
  BY <1>2, <1>3 DEF Membership
<1>5. ses' = [ses EXCEPT ![s] = v]
  BY <1>4 DEF SubReply
<1>6. v.pc = "reading" /\ v.subs = ses[s].subs \cup {c}
  BY <1>1 DEF SessionType
<1> HIDE DEF v
<1>7. \A t \in Sessions : ses'[t] = IF t = s THEN v ELSE ses[t]
  BY <1>5 DEF TypeInv, TypeOK
<1> HIDE DEF c, r
<1>8. \A d \in ChanIds : d <= nchans =>
          \/ d \in ses'[chan[d].owner].subs
          \/ ses'[chan[d].owner].pc = "sub_reply" /\ ses'[chan[d].owner].chan = d
  BY <1>1, <1>6, <1>7 DEF Membership, c
<1> QED
  BY <1>1, <1>2, <1>6, <1>7, <1>8 DEF Membership

\* Every step of the server keeps Membership.
LEMMA MembershipStep == TypeInv /\ Membership /\ [Next]_vars => Membership'
<1> SUFFICES ASSUME TypeInv, Membership, [Next]_vars PROVE Membership'
  OBVIOUS
<1>1. ASSUME NEW s \in Sessions, Client(s) PROVE Membership'
  BY <1>1, KeptByOthers, MembershipKept, MembershipReceive DEF Client
<1>2. ASSUME NEW s \in Sessions, Session(s) PROVE Membership'
  BY <1>2, KeptByOthers, MembershipKept, MembershipSubToRoom, MembershipSubReply DEF Session
<1> QED
  BY <1>1, <1>2, KeptByServants, MembershipKept DEF Next, Quiet

\* Membership holds throughout.
LEMMA MembershipInvariant == Spec => []Membership
<1>1. Init => Membership
  BY ServerAssumption DEF Init, Membership, ChanIds
<1> QED
  BY <1>1, MembershipStep, TypeInvariant, PTL DEF Spec
-----------------------------------------------------------------------------
(* What cleanup() closes *)

CleanedUp == {"returning", "ended"}

\* A closed channel, of a room or of a writer, stays closed.
ClosedStays ==
    /\ \A c \in ChanIds : chan[c].closed => chan'[c].closed
    /\ \A s \in Sessions : wr[s].closed => wr'[s].closed

\* write() closes and opens nothing.
LEMMA WriteKeepsClosed ==
  ASSUME TypeInv, NEW s, NEW line, Write(s, line), NEW t \in Sessions
  PROVE  wr'[t].closed = wr[t].closed
<1>1. wr[t] \in WriterType /\ wr \in [Sessions -> WriterType]
  BY DEF TypeInv, TypeOK
<1>2. CASE t = s
  <2> DEFINE p == IF wr[t].closed THEN wr[t].pushed ELSE Append(wr[t].pushed, line)
  <2>1. wr'[t] = [wr[t] EXCEPT !.pushed = p]
    BY <1>1, <1>2 DEF Write
  <2> HIDE DEF p
  <2> QED
    BY <1>1, <2>1 DEF WriterType
<1>3. CASE t # s
  BY <1>1, <1>3 DEF Write
<1> QED
  BY <1>2, <1>3

\* No step of the server opens what is closed.
LEMMA ClosedForGood == ASSUME TypeInv, [Next]_vars PROVE ClosedStays
<1>0. /\ chan \in [ChanIds -> ChanType] /\ wr \in [Sessions -> WriterType]
      /\ \A t \in Sessions : wr[t] \in WriterType
  BY DEF TypeInv, TypeOK
<1>1. ASSUME NEW s \in Sessions, Client(s) PROVE ClosedStays
  <2>1. CASE Accept(s)
    <3>1. \A t \in Sessions : wr'[t] = wr[t] \/ wr'[t] = [wr[t] EXCEPT !.pc = "read"]
      BY <1>0, <2>1 DEF Accept
    <3> QED
      BY <1>0, <2>1, <3>1 DEF Accept, ClosedStays, WriterType
  <2>2. CASE ReceiveError(s)
    BY <2>2 DEF ReceiveError, ClosedStays
  <2>3. ASSUME NEW q \in Requests[s],
               ReceiveEmpty(s, q) \/ ReceiveUnknown(s, q) \/ ReceiveDesub(s, q)
                 \/ ReceiveSub(s, q) \/ ReceiveCsub(s, q) \/ ReceiveMsg(s, q)
        PROVE  ClosedStays
    <3>1. UNCHANGED chan /\ (UNCHANGED wr \/ Write(s, ErrorLine))
      BY <2>3 DEF ReceiveEmpty, ReceiveUnknown, ReceiveDesub, ReceiveSub, ReceiveCsub,
                  ReceiveMsg, Refuse
    <3> QED
      BY <3>1, WriteKeepsClosed DEF ClosedStays
  <2> QED
    BY <1>1, <2>1, <2>2, <2>3 DEF Client
<1>2. ASSUME NEW s \in Sessions, Session(s) PROVE ClosedStays
  <2>1. CASE SubToRoom(s)
    <3> DEFINE c == nchans + 1
               ch == [chan[c] EXCEPT !.owner = s, !.room = ses[s].room,
                                     !.joined = Len(rooms[ses[s].room].log),
                                     !.listener = "spawned"]
    <3>1. c \in ChanIds /\ chan[c] \in ChanType
      BY <1>0, <2>1, ServerAssumption DEF SubToRoom, ChanIds, TypeInv, TypeOK
    <3>2. chan' = [chan EXCEPT ![c] = ch] /\ UNCHANGED wr
      BY <2>1 DEF SubToRoom
    <3>3. ch.closed = chan[c].closed
      BY <3>1 DEF ChanType
    <3> HIDE DEF c, ch
    <3> QED
      BY <1>0, <3>1, <3>2, <3>3 DEF ClosedStays
  <2>2. CASE SubReply(s)
    BY <2>2, WriteKeepsClosed DEF SubReply, ClosedStays
  <2>3. CASE MsgReject(s)
    BY <2>3, WriteKeepsClosed DEF MsgReject, ClosedStays
  <2>4. CASE MsgLock(s) \/ Broadcast(s) \/ MsgUnlock(s) \/ CloseSubscription(s)
    <3>1. UNCHANGED wr
      BY <2>4 DEF MsgLock, Broadcast, MsgUnlock, CloseSubscription
    <3> QED
      BY <2>4, <3>1, KeptByOthers DEF SubsKept, ClosedStays
  <2>5. CASE CloseWriteChan(s)
    <3>1. \A t \in Sessions : wr'[t] = wr[t] \/ wr'[t] = [wr[t] EXCEPT !.closed = TRUE]
      BY <1>0, <2>5 DEF CloseWriteChan
    <3> QED
      BY <1>0, <2>5, <3>1 DEF CloseWriteChan, ClosedStays, WriterType
  <2>6. CASE Return(s)
    <3>1. \A t \in Sessions : wr'[t] = wr[t] \/ \E x : wr'[t] = [wr[t] EXCEPT !.pc = x]
      BY <1>0, <2>6 DEF Return
    <3> QED
      BY <1>0, <2>6, <3>1 DEF Return, ClosedStays, WriterType
  <2> QED
    BY <1>2, <2>1, <2>2, <2>3, <2>4, <2>5, <2>6 DEF Session
<1>3. ASSUME NEW s \in Sessions, Writer(s) PROVE ClosedStays
  <2>1. \A t \in Sessions : t # s => wr'[t] = wr[t]
    BY <1>0, <1>3 DEF Writer, WriterSend, WriterAbort, SendDone, SendFail
  <2>2. wr'[s].closed = wr[s].closed
    <3>1. CASE WriterSend(s)
      BY <1>0, <3>1 DEF WriterSend, WriterType
    <3>2. CASE WriterAbort(s) \/ SendFail(s)
      BY <1>0, <3>2 DEF WriterAbort, SendFail, WriterType
    <3>3. CASE SendDone(s)
      BY <1>0, <3>3 DEF SendDone, WriterType
    <3> QED
      BY <1>3, <3>1, <3>2, <3>3 DEF Writer
  <2>3. UNCHANGED chan
    BY <1>3 DEF Writer, WriterSend, WriterAbort, SendDone, SendFail
  <2> QED
    BY <2>1, <2>2, <2>3 DEF ClosedStays
<1>4. ASSUME NEW c \in ChanIds, Listener(c) PROVE ClosedStays
  <2>1. UNCHANGED wr \/ \E line : Write(chan[c].owner, line)
    BY <1>4 DEF Listener, ListenStart, ListenForward, ListenAbort
  <2>2. \A t \in Sessions : wr'[t].closed = wr[t].closed
    BY <2>1, WriteKeepsClosed
  <2> QED
    BY <1>4, <2>2, KeptByServants DEF SubsKept, ClosedStays
<1>5. CASE UNCHANGED vars
  BY <1>5 DEF vars, ClosedStays
<1> QED
  BY <1>1, <1>2, <1>3, <1>4, <1>5 DEF Next, Quiet

\* A session gets past cleanup() only when its subscriptions and its write
\* channel are closed.
LEMMA ClosingStep ==
  ASSUME TypeInv, Closing, [Next]_vars
  PROVE  Closing'
<1>0. ClosedStays
  BY ClosedForGood
<1>1. /\ ses \in [Sessions -> SessionType] /\ \A t \in Sessions : ses[t] \in SessionType
      /\ \A t \in Sessions : ses[t].subs \subseteq ChanIds
      /\ wr \in [Sessions -> WriterType] /\ \A t \in Sessions : wr[t] \in WriterType
      /\ \A c \in ChanIds : chan[c] \in ChanType
  BY DEF TypeInv, TypeOK, SessionType
<1>2. ASSUME \A t \in Sessions : ses'[t].pc \in CleanedUp => ses'[t] = ses[t]
      PROVE  Closing'
  BY <1>0, <1>1, <1>2 DEF Closing, ClosedStays, CleanedUp
<1>3. ASSUME NEW s \in Sessions, NEW pc \in CleanedUp, NEW v,
             v = [ses[s] EXCEPT !.pc = pc], ses' = [ses EXCEPT ![s] = v],
             \A c \in ses[s].subs : chan'[c].closed,
             wr'[s].closed
      PROVE  Closing'
  <2>1. v.pc = pc /\ v.subs = ses[s].subs
    BY <1>1, <1>3 DEF SessionType
  <2>2. \A t \in Sessions : ses'[t] = IF t = s THEN v ELSE ses[t]
    BY <1>1, <1>3
  <2> QED
    BY <1>0, <1>1, <1>3, <2>1, <2>2 DEF Closing, ClosedStays, CleanedUp
<1>4. ASSUME NEW s \in Sessions, Client(s) PROVE Closing'
  <2>1. PICK pc \in {"reading", "cleanup", "sub_lock", "msg_lock"} :
            ses'[s].pc = pc /\ \A t \in Sessions : t # s => ses'[t] = ses[t]
    <3>1. CASE Accept(s) \/ ReceiveError(s)
      BY <1>1, <3>1 DEF Accept, ReceiveError, SessionType
    <3>2. ASSUME NEW x \in {"reading", "cleanup", "sub_lock", "msg_lock"},
                 GoOn(s, x) \/ \E r, reply : GoOnWith(s, x, r, reply)
          PROVE  ses'[s].pc = x /\ \A t \in Sessions : t # s => ses'[t] = ses[t]
      <4>1. CASE GoOn(s, x)
        BY <1>1, <4>1 DEF GoOn, SessionType
      <4>2. ASSUME NEW r, NEW reply, GoOnWith(s, x, r, reply)
            PROVE  ses'[s].pc = x /\ \A t \in Sessions : t # s => ses'[t] = ses[t]
        <5>1. ses' = [ses EXCEPT ![s] = [ses[s] EXCEPT !.lines = ses[s].lines + 1, !.pc = x,
                                                       !.room = r, !.reply = reply]]
          BY <4>2 DEF GoOnWith
        <5> QED
          BY <1>1, <5>1 DEF SessionType
      <4> QED
        BY <3>2, <4>1, <4>2
    <3>3. ASSUME NEW q \in Requests[s],
                 ReceiveEmpty(s, q) \/ ReceiveUnknown(s, q) \/ ReceiveDesub(s, q)
                   \/ ReceiveSub(s, q) \/ ReceiveCsub(s, q) \/ ReceiveMsg(s, q)
          PROVE  \E x \in {"reading", "cleanup", "sub_lock", "msg_lock"} :
                    GoOn(s, x) \/ \E r, reply : GoOnWith(s, x, r, reply)
      BY <3>3 DEF ReceiveEmpty, ReceiveUnknown, ReceiveDesub, ReceiveSub, ReceiveCsub,
                  ReceiveMsg, Refuse
    <3> QED
      BY <1>4, <3>1, <3>2, <3>3 DEF Client
  <2> QED
    BY <1>2, <2>1 DEF CleanedUp
<1>5. ASSUME NEW s \in Sessions, Session(s) PROVE Closing'
  <2>1. CASE SubToRoom(s) \/ SubReply(s) \/ MsgReject(s) \/ MsgLock(s) \/ MsgUnlock(s)
    <3>1. \A t \in Sessions : t # s => ses'[t] = ses[t]
      BY <1>1, <2>1 DEF SubToRoom, SubReply, MsgReject, MsgLock, MsgUnlock
    <3>2. ses'[s].pc \in {"sub_reply", "reading", "bcast"}
      <4>1. CASE SubToRoom(s)
        BY <1>1, <4>1 DEF SubToRoom, SessionType
      <4>2. CASE SubReply(s)
        BY <1>1, <4>2 DEF SubReply, SessionType
      <4>3. CASE MsgReject(s) \/ MsgLock(s) \/ MsgUnlock(s)
        BY <1>1, <4>3 DEF MsgReject, MsgLock, MsgUnlock, SessionType
      <4> QED
        BY <2>1, <4>1, <4>2, <4>3
    <3> QED
      BY <1>2, <3>1, <3>2 DEF CleanedUp
  <2>2. CASE Broadcast(s)
    <3>1. /\ ses[s].pc = "bcast"
          /\ \A t \in Sessions : t # s => ses'[t] = ses[t]
          /\ ses'[s] = [ses[s] EXCEPT !.next = ses[s].next + 1]
      BY <1>1, <2>2 DEF Broadcast
    <3>2. ses'[s].pc = "bcast"
      BY <1>1, <3>1 DEF SessionType
    <3> QED
      BY <1>2, <3>1, <3>2 DEF CleanedUp
  <2>3. CASE CloseSubscription(s)
    BY <1>2, <2>3 DEF CloseSubscription, CleanedUp
  <2>4. CASE CloseWriteChan(s)
    <3>1. wr'[s].closed
      BY <1>1, <2>4 DEF CloseWriteChan, WriterType
    <3>2. \A c \in ses[s].subs : chan[c] \in ChanType /\ (chan[c].closed \/ ~chan[c].closed)
      BY <1>1 DEF SessionType
    <3>3. \A c \in ses[s].subs : chan'[c].closed
      BY <2>4, <3>2 DEF CloseWriteChan, OpenSubscriptions
    <3> QED
      BY <1>3, <2>4, <3>1, <3>3 DEF CloseWriteChan, CleanedUp
  <2>5. CASE Return(s)
    <3>1. wr'[s].closed /\ \A c \in ses[s].subs : chan'[c].closed
      BY <1>0, <2>5 DEF Return, Closing, ClosedStays
    <3> QED
      BY <1>3, <2>5, <3>1 DEF Return, CleanedUp
  <2> QED
    BY <1>5, <2>1, <2>2, <2>3, <2>4, <2>5 DEF Session
<1>6. CASE UNCHANGED ses
  BY <1>2, <1>6
<1>7. ASSUME NEW s \in Sessions, Writer(s) PROVE UNCHANGED ses
  BY <1>7 DEF Writer, WriterSend, WriterAbort, SendDone, SendFail
<1>8. ASSUME NEW c \in ChanIds, Listener(c) PROVE UNCHANGED ses
  BY <1>8 DEF Listener, ListenStart, ListenForward, ListenAbort
<1> QED
  BY <1>4, <1>5, <1>6, <1>7, <1>8 DEF Next, Quiet, vars

\* A session that has returned left none of its channels open (cleanup() in
\* tcp_accept): what was put into a room under its mutex is always found in
\* current_subscriptions when the session ends, on whatever path it ends.
THEOREM EndedSessionsClosed == Spec => []NothingLeftOpen
<1>1. Init => Closing
  BY DEF Init, Closing
<1>2. TypeInv /\ Closing /\ [Next]_vars => Closing'
  BY ClosingStep
<1>3. TypeInv /\ Membership /\ Closing => NothingLeftOpen
  <2> SUFFICES ASSUME TypeInv, Membership, Closing,
                      NEW s \in Sessions, ses[s].pc = "ended"
               PROVE  wr[s].closed /\ \A c \in 1..nchans : chan[c].owner = s => chan[c].closed
    BY DEF NothingLeftOpen
  <2>1. \A c \in 1..nchans : c \in ChanIds /\ c <= nchans
    BY ServerAssumption DEF TypeInv, TypeOK, ChanIds
  <2>2. \A c \in 1..nchans : chan[c].owner = s => c \in ses[s].subs
    BY <2>1 DEF Membership
  <2> QED
    BY <2>2 DEF Closing
<1> QED
  BY <1>1, <1>2, <1>3, TypeInvariant, MembershipInvariant, PTL DEF Spec
-----------------------------------------------------------------------------
(* The rooms *)

\* A step that makes no room and admits no message.
RoomsKept ==
    /\ Len(rooms') = Len(rooms)
    /\ \A r \in 1..Len(rooms) : rooms'[r].id = rooms[r].id /\ rooms'[r].log = rooms[r].log

\* handle_create_and_sub makes a room, sub_to_room enters a connection, msg
\* admits a message; nothing else touches the rooms.
LEMMA RoomSteps ==
  ASSUME TypeInv, [Next]_vars
  PROVE  \/ RoomsKept
         \/ \E s \in Sessions : \E n \in Names :
               /\ rooms' = Append(rooms, [id |-> Len(rooms) + 1, name |-> n,
                                          connections |-> <<>>, log |-> <<>>])
               /\ UNCHANGED <<nchans, chan>>
         \/ \E s \in Sessions : MsgLock(s)
<1>0. rooms \in Seq(RoomType)
  BY DEF TypeInv, TypeOK
<1>1. CASE UNCHANGED rooms
  BY <1>1 DEF RoomsKept
<1>2. ASSUME NEW s \in Sessions, SubToRoom(s) PROVE RoomsKept
  <2> DEFINE r == ses[s].room
             x == Append(rooms[r].connections, nchans + 1)
  <2>1. r \in 1..Len(rooms) /\ rooms[r] \in RoomType
    BY <1>0, <1>2 DEF SubToRoom, TypeInv, References
  <2>2. rooms' = [rooms EXCEPT ![r] = [rooms[r] EXCEPT !.connections = x]]
    BY <1>2 DEF SubToRoom
  <2> HIDE DEF r, x
  <2>3. /\ [rooms[r] EXCEPT !.connections = x].id = rooms[r].id
        /\ [rooms[r] EXCEPT !.connections = x].log = rooms[r].log
    BY <2>1 DEF RoomType
  <2>4. Len(rooms') = Len(rooms)
    BY <1>0, <2>1, <2>2
  <2> QED
    BY <1>0, <2>1, <2>2, <2>3, <2>4 DEF RoomsKept
<1>3. ASSUME NEW s \in Sessions, NEW q \in Requests[s], ReceiveCsub(s, q), ~UNCHANGED rooms
      PROVE  \E n \in Names :
               /\ rooms' = Append(rooms, [id |-> Len(rooms) + 1, name |-> n,
                                          connections |-> <<>>, log |-> <<>>])
               /\ UNCHANGED <<nchans, chan>>
  BY <1>3 DEF ReceiveCsub, Refuse
<1>4. ASSUME NEW s \in Sessions, Client(s), ~UNCHANGED rooms
      PROVE  \E q \in Requests[s] : ReceiveCsub(s, q)
  BY <1>4 DEF Client, Accept, ReceiveError, ReceiveEmpty, ReceiveUnknown, ReceiveDesub,
              ReceiveSub, ReceiveMsg, Refuse
<1>5. ASSUME NEW s \in Sessions, Session(s), ~UNCHANGED rooms
      PROVE  SubToRoom(s) \/ MsgLock(s)
  BY <1>5 DEF Session, SubReply, MsgReject, Broadcast, MsgUnlock, CloseSubscription,
              CloseWriteChan, Return
<1>6. ASSUME NEW s \in Sessions, Writer(s) PROVE UNCHANGED rooms
  BY <1>6 DEF Writer, WriterSend, WriterAbort, SendDone, SendFail
<1>7. ASSUME NEW c \in ChanIds, Listener(c) PROVE UNCHANGED rooms
  BY <1>7 DEF Listener, ListenStart, ListenForward, ListenAbort
<1> QED
  BY <1>1, <1>2, <1>3, <1>4, <1>5, <1>6, <1>7 DEF Next, Quiet, vars

\* What MsgLock does to the rooms.
LEMMA MsgLockRooms ==
  ASSUME TypeInv, NEW s \in Sessions, MsgLock(s)
  PROVE  LET r == ses[s].room
         IN  /\ r \in 1..Len(rooms)
             /\ Len(rooms') = Len(rooms)
             /\ \A t \in 1..Len(rooms) : /\ rooms'[t].id = rooms[t].id
                                         /\ t # r => rooms'[t].log = rooms[t].log
             /\ rooms'[r].log = Append(rooms[r].log, s)
<1> DEFINE r == ses[s].room
           x == Append(rooms[r].log, s)
<1>1. rooms \in Seq(RoomType) /\ r \in 1..Len(rooms) /\ rooms[r] \in RoomType
  BY DEF TypeInv, TypeOK, References, MsgLock
<1>2. rooms' = [rooms EXCEPT ![r] = [rooms[r] EXCEPT !.log = x]]
  BY DEF MsgLock
<1> HIDE DEF r, x
<1>3. [rooms[r] EXCEPT !.log = x].id = rooms[r].id /\ [rooms[r] EXCEPT !.log = x].log = x
  BY <1>1 DEF RoomType
<1>4. /\ Len(rooms') = Len(rooms)
      /\ \A t \in 1..Len(rooms) : /\ rooms'[t].id = rooms[t].id
                                  /\ t # r => rooms'[t].log = rooms[t].log
      /\ rooms'[r].log = x
  BY <1>1, <1>2, <1>3
<1> QED
  BY <1>1, <1>4 DEF r, x

\* Every step of the server keeps the numbers of the rooms.
LEMMA NumberedStep == ASSUME TypeInv, Numbered, [Next]_vars PROVE Numbered'
<1>1. CASE RoomsKept
  BY <1>1 DEF RoomsKept, Numbered
<1>2. ASSUME NEW n \in Names,
             rooms' = Append(rooms, [id |-> Len(rooms) + 1, name |-> n,
                                     connections |-> <<>>, log |-> <<>>])
      PROVE  Numbered'
  <2> DEFINE new == [id |-> Len(rooms) + 1, name |-> n, connections |-> <<>>, log |-> <<>>]
  <2>1. rooms \in Seq(RoomType) /\ new.id = Len(rooms) + 1
    BY DEF TypeInv, TypeOK
  <2> HIDE DEF new
  <2>2. /\ Len(rooms') = Len(rooms) + 1 /\ rooms'[Len(rooms) + 1] = new
        /\ \A r \in 1..Len(rooms) : rooms'[r] = rooms[r]
    BY <1>2, <2>1 DEF new
  <2> QED
    BY <2>1, <2>2 DEF Numbered
<1>3. ASSUME NEW s \in Sessions, MsgLock(s) PROVE Numbered'
  BY <1>3, MsgLockRooms DEF Numbered
<1> QED
  BY <1>1, <1>2, <1>3, RoomSteps

\* However sub and csub requests interleave, no two rooms get the same id and
\* no session gets two channels in one room: the check for a subscription in
\* handle_sub and the entry of the channel in sub_to_room are apart, under no
\* common lock, and still nothing comes between them.
THEOREM SubscriptionsUnique == Spec => []SubscribedOnce
<1>1. Init => Numbered
  BY DEF Init, Numbered
<1>2. TypeInv /\ Numbered /\ [Next]_vars => Numbered'
  BY NumberedStep
<1>3. TypeInv /\ Membership /\ Numbered => SubscribedOnce
  <2> SUFFICES ASSUME TypeInv, Membership, Numbered PROVE SubscribedOnce
    OBVIOUS
  <2>1. \A c \in 1..nchans : c \in ChanIds /\ c <= nchans
    BY ServerAssumption DEF TypeInv, TypeOK, ChanIds
  <2> QED
    BY <2>1 DEF Membership, Numbered, SubscribedOnce
<1> QED
  BY <1>1, <1>2, <1>3, TypeInvariant, MembershipInvariant, PTL DEF Spec
-----------------------------------------------------------------------------
(* Who broadcasts *)

\* No channel joined its room after a message that is not there yet; and only
\* subscribers have broadcast.
Admitted ==
    /\ \A c \in ChanIds : c <= nchans => chan[c].joined <= Len(rooms[chan[c].room].log)
    /\ OnlySubscribersBroadcast

\* The channels that were made stay what they were.
ChannelsKept ==
    /\ nchans' >= nchans
    /\ \A c \in ChanIds : c <= nchans =>
          /\ chan'[c].owner = chan[c].owner
          /\ chan'[c].room = chan[c].room
          /\ chan'[c].joined = chan[c].joined

\* sub_to_room makes a channel, and nothing else does.
LEMMA ChannelSteps ==
  ASSUME TypeInv, [Next]_vars
  PROVE  \/ ChannelsKept /\ nchans' = nchans
         \/ \E s \in Sessions : SubToRoom(s)
<1>1. nchans \in Nat
  BY ServerAssumption DEF TypeInv, TypeOK
<1>2. SubsKept => ChannelsKept /\ nchans' = nchans
  BY <1>1 DEF SubsKept, ChannelsKept
<1>3. UNCHANGED <<nchans, chan>> => ChannelsKept /\ nchans' = nchans
  BY <1>1 DEF ChannelsKept
<1>4. ASSUME NEW s \in Sessions, Client(s) PROVE SubsKept \/ UNCHANGED <<nchans, chan>>
  BY <1>4, KeptByOthers DEF Client, ReceiveEmpty, ReceiveUnknown, ReceiveDesub, ReceiveSub,
                            ReceiveCsub, ReceiveMsg, Refuse
<1>5. ASSUME NEW s \in Sessions, Session(s)
      PROVE  SubsKept \/ UNCHANGED <<nchans, chan>> \/ SubToRoom(s)
  BY <1>5, KeptByOthers DEF Session, SubReply
<1> QED
  BY <1>2, <1>3, <1>4, <1>5, KeptByServants DEF Next, Quiet

\* Subscribers who have broadcast stay the subscribers they were.
LEMMA KeptBroadcasts ==
  ASSUME Admitted, ChannelsKept, RoomsKept, nchans \in Nat, nchans' \in Nat,
         \A c \in 1..nchans : c \in ChanIds /\ c <= nchans
  PROVE  OnlySubscribersBroadcast'
<1> SUFFICES ASSUME NEW r \in 1..Len(rooms'), NEW n \in 1..Len(rooms'[r].log)
             PROVE  \E c \in 1..nchans' : /\ chan'[c].owner = rooms'[r].log[n]
                                          /\ chan'[c].room = r
                                          /\ chan'[c].joined < n
  BY DEF OnlySubscribersBroadcast
<1>0. r \in 1..Len(rooms) /\ rooms'[r].log = rooms[r].log /\ n \in 1..Len(rooms[r].log)
  <2>1. r \in 1..Len(rooms)
    BY DEF RoomsKept
  <2>2. rooms'[r].log = rooms[r].log
    BY <2>1 DEF RoomsKept
  <2> QED
    BY <2>1, <2>2
<1>1. PICK c \in 1..nchans :
         chan[c].owner = rooms[r].log[n] /\ chan[c].room = r /\ chan[c].joined < n
  BY <1>0 DEF Admitted, OnlySubscribersBroadcast
<1>2. c \in 1..nchans'
  BY DEF ChannelsKept
<1> QED
  BY <1>0, <1>1, <1>2 DEF ChannelsKept

\* Every step of the server keeps Admitted: msg finds the sender's channel in
\* current_subscriptions, and that channel has joined the room already.
LEMMA AdmittedStep == ASSUME TypeInv, Membership, Admitted, [Next]_vars PROVE Admitted'
<1>0. /\ rooms \in Seq(RoomType) /\ nchans \in Nat
      /\ \A r \in 1..Len(rooms) : rooms[r].log \in Seq(Sessions)
      /\ \A c \in ChanIds : chan[c].joined \in Nat
      /\ \A c \in 1..nchans : c \in ChanIds /\ c <= nchans
      /\ \A c \in ChanIds : c <= nchans => c \in 1..nchans
  <2>1. rooms \in Seq(RoomType) /\ chan \in [ChanIds -> ChanType]
    BY DEF TypeInv, TypeOK
  <2>2. nchans \in 0..MaxChans /\ MaxChans \in Nat
    BY ServerAssumption DEF TypeInv, TypeOK
  <2>3. \A r \in 1..Len(rooms) : rooms[r].log \in Seq(Sessions)
    <3>1. \A r \in 1..Len(rooms) : rooms[r] \in RoomType
      BY <2>1
    <3> QED
      BY <3>1 DEF RoomType
  <2>4. \A c \in ChanIds : chan[c].joined \in Nat
    BY <2>1 DEF ChanType
  <2> QED
    BY <2>1, <2>2, <2>3, <2>4 DEF ChanIds
<1>1. \A c \in ChanIds : c <= nchans => chan[c].room \in 1..Len(rooms)
  BY DEF TypeInv, References
<1>2. CASE ChannelsKept /\ nchans' = nchans /\ RoomsKept
  <2>1. \A c \in ChanIds : c <= nchans => chan'[c].joined <= Len(rooms'[chan'[c].room].log)
    BY <1>1, <1>2 DEF Admitted, ChannelsKept, RoomsKept
  <2>2. OnlySubscribersBroadcast'
    BY <1>0, <1>2, KeptBroadcasts
  <2> QED
    BY <1>2, <2>1, <2>2 DEF Admitted
<1>3. ASSUME NEW n \in Names,
             rooms' = Append(rooms, [id |-> Len(rooms) + 1, name |-> n,
                                     connections |-> <<>>, log |-> <<>>]),
             UNCHANGED <<nchans, chan>>
      PROVE  Admitted'
  <2> DEFINE new == [id |-> Len(rooms) + 1, name |-> n, connections |-> <<>>, log |-> <<>>]
  <2>1. Len(new.log) = 0
    OBVIOUS
  <2> HIDE DEF new
  <2>2. /\ Len(rooms') = Len(rooms) + 1 /\ rooms'[Len(rooms) + 1] = new
        /\ \A r \in 1..Len(rooms) : rooms'[r] = rooms[r]
    BY <1>0, <1>3 DEF new
  <2> QED
    BY <1>0, <1>1, <1>3, <2>1, <2>2 DEF Admitted, OnlySubscribersBroadcast
<1>4. ASSUME NEW s \in Sessions, MsgLock(s) PROVE Admitted'
  <2> DEFINE r == ses[s].room
  <2>1. /\ r \in 1..Len(rooms) /\ Len(rooms') = Len(rooms)
        /\ \A t \in 1..Len(rooms) : t # r => rooms'[t].log = rooms[t].log
        /\ rooms'[r].log = Append(rooms[r].log, s)
    BY <1>4, MsgLockRooms
  <2>2. UNCHANGED <<nchans, chan>>
    BY <1>4 DEF MsgLock
  <2>3. PICK c \in ses[s].subs : chan[c].room = r
    BY <1>4 DEF MsgLock, CurrChan, Subscribed
  <2>4. c \in ChanIds /\ c <= nchans /\ chan[c].owner = s
    BY <2>3 DEF Membership, TypeInv, TypeOK, SessionType
  <2> HIDE DEF r
  <2>5. /\ Len(rooms'[r].log) = Len(rooms[r].log) + 1
        /\ rooms'[r].log[Len(rooms[r].log) + 1] = s
        /\ \A n \in 1..Len(rooms[r].log) : rooms'[r].log[n] = rooms[r].log[n]
    BY <1>0, <2>1
  <2>6. \A d \in ChanIds : d <= nchans => chan[d].joined <= Len(rooms'[chan[d].room].log)
    <3> SUFFICES ASSUME NEW d \in ChanIds, d <= nchans
                 PROVE  chan[d].joined <= Len(rooms'[chan[d].room].log)
      OBVIOUS
    <3>1. chan[d].joined <= Len(rooms[chan[d].room].log) /\ chan[d].joined \in Nat
      BY <1>0 DEF Admitted
    <3>2. CASE chan[d].room = r
      <4>1. Len(rooms[r].log) \in Nat
        BY <1>0, <2>1
      <4> QED
        BY <2>5, <3>1, <3>2, <4>1
    <3>3. CASE chan[d].room # r
      <4>1. rooms'[chan[d].room].log = rooms[chan[d].room].log
        BY <1>1, <2>1, <3>3
      <4> QED
        BY <3>1, <4>1
    <3> QED
      BY <3>2, <3>3
  <2>7. chan[c].joined < Len(rooms[r].log) + 1
    BY <1>0, <2>1, <2>3, <2>4 DEF Admitted
  <2>8. OnlySubscribersBroadcast'
    <3> SUFFICES ASSUME NEW t \in 1..Len(rooms), NEW n \in 1..Len(rooms'[t].log)
                 PROVE  \E d \in 1..nchans : /\ chan[d].owner = rooms'[t].log[n]
                                             /\ chan[d].room = t
                                             /\ chan[d].joined < n
      BY <2>1, <2>2 DEF OnlySubscribersBroadcast
    <3>1. CASE t = r /\ n = Len(rooms[r].log) + 1
      BY <1>0, <2>3, <2>4, <2>5, <2>7, <3>1
    <3>2. CASE t = r /\ n \in 1..Len(rooms[r].log)
      BY <2>5, <3>2 DEF Admitted, OnlySubscribersBroadcast
    <3>3. CASE t # r
      <4>1. rooms'[t].log = rooms[t].log
        BY <2>1, <3>3
      <4>2. n \in 1..Len(rooms[t].log)
        BY <4>1
      <4>3. \E d \in 1..nchans : /\ chan[d].owner = rooms[t].log[n]
                                /\ chan[d].room = t
                                /\ chan[d].joined < n
        BY <4>2 DEF Admitted, OnlySubscribersBroadcast
      <4> QED
        BY <4>1, <4>3
    <3> QED
      BY <1>0, <2>1, <2>5, <3>1, <3>2, <3>3
  <2> QED
    BY <2>2, <2>6, <2>8 DEF Admitted
<1>5. ASSUME NEW s \in Sessions, SubToRoom(s), RoomsKept PROVE Admitted'
  <2> DEFINE r == ses[s].room
             c == nchans + 1
             n == Len(rooms[r].log)
             ch == [chan[c] EXCEPT !.owner = s, !.room = r, !.joined = n, !.listener = "spawned"]
  <2>1. c \in ChanIds /\ chan[c] \in ChanType /\ r \in 1..Len(rooms)
    BY <1>5, ServerAssumption DEF SubToRoom, TypeInv, TypeOK, References, ChanIds
  <2>2. ch.room = r /\ ch.joined = n
    BY <2>1 DEF ChanType
  <2>3. chan' = [chan EXCEPT ![c] = ch] /\ nchans' = c
    BY <1>5 DEF SubToRoom
  <2>4. /\ chan'[c].room = r /\ chan'[c].joined = n
        /\ \A d \in ChanIds : d # c => chan'[d] = chan[d]
    BY <2>1, <2>2, <2>3 DEF TypeInv, TypeOK
  <2>5. \A d \in ChanIds : d <= c <=> (d <= nchans \/ d = c)
    BY <1>0 DEF ChanIds
  <2>6. \A d \in ChanIds : d <= nchans => d # c
    BY <1>0
  <2>7. n \in Nat
    BY <1>0, <2>1
  <2> HIDE DEF r, ch
  <2>8. \A d \in ChanIds : d <= c => chan'[d].joined <= Len(rooms'[chan'[d].room].log)
    <3> SUFFICES ASSUME NEW d \in ChanIds, d <= c
                 PROVE  chan'[d].joined <= Len(rooms'[chan'[d].room].log)
      OBVIOUS
    <3>1. CASE d = c
      BY <1>5, <2>1, <2>4, <2>7, <3>1 DEF RoomsKept
    <3>2. CASE d <= nchans
      BY <1>1, <1>5, <2>4, <2>6, <3>2 DEF RoomsKept, Admitted
    <3> QED
      BY <2>5, <3>1, <3>2
  <2>9. OnlySubscribersBroadcast'
    <3>1. ChannelsKept /\ nchans' \in Nat
      BY <1>0, <2>3, <2>4, <2>6 DEF ChannelsKept
    <3> QED
      BY <1>0, <1>5, <3>1, KeptBroadcasts
  <2> QED
    BY <2>3, <2>8, <2>9 DEF Admitted
<1>6. ASSUME NEW s \in Sessions, SubToRoom(s) PROVE RoomsKept
  <2>1. ~UNCHANGED nchans
    BY <1>0, <1>6 DEF SubToRoom
  <2>2. ~ \E t \in Sessions : MsgLock(t)
    BY <2>1 DEF MsgLock
  <2> QED
    BY <2>1, <2>2, RoomSteps
<1> QED
  BY <1>2, <1>3, <1>4, <1>5, <1>6, ChannelSteps, RoomSteps

\* A message is admitted to a room only from a session that had joined it
\* before (the check of current_subscriptions under the room's mutex in
\* tcp_accept), whatever else happens to the room in between.
THEOREM BroadcastersSubscribed == Spec => []OnlySubscribersBroadcast
<1>1. Init => Admitted
  BY ServerAssumption DEF Init, Admitted, OnlySubscribersBroadcast, ChanIds
<1>2. TypeInv /\ Membership /\ Admitted /\ [Next]_vars => Admitted'
  BY AdmittedStep
<1>3. Admitted => OnlySubscribersBroadcast
  BY DEF Admitted
<1> QED
  BY <1>1, <1>2, <1>3, TypeInvariant, MembershipInvariant, PTL DEF Spec
=============================================================================
