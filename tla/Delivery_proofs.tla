--------------------------- MODULE Delivery_proofs ---------------------------
(***************************************************************************)
(* What a broadcast delivers: theorems about the order and completeness of *)
(* what the channels of a room take, for any number of connections, rooms, *)
(* requests and threads.                                                   *)
(***************************************************************************)
EXTENDS ChatServer_proofs

\* A room's list of connections holds the channels that were made for it, each
\* once; and a channel that was not made yet has taken nothing.
Connected ==
    /\ \A r \in 1..Len(rooms) : \A i \in 1..Len(rooms[r].connections) :
          /\ rooms[r].connections[i] \in 1..nchans
          /\ chan[rooms[r].connections[i]].room = r
    /\ \A r \in 1..Len(rooms) : \A i, j \in 1..Len(rooms[r].connections) :
          rooms[r].connections[i] = rooms[r].connections[j] => i = j
    /\ \A c \in 1..nchans : \E i \in 1..Len(rooms[chan[c].room].connections) :
          rooms[chan[c].room].connections[i] = c
    /\ \A c \in ChanIds : c \notin 1..nchans => chan[c].pushed = <<>>

\* The mutex of a room: one session at a time broadcasts in it, its message is
\* the latest of the log, and nobody has joined since it was admitted.
Broadcasting ==
    /\ \A s, t \in Sessions :
          ses[s].pc = "bcast" /\ ses[t].pc = "bcast" /\ ses[s].room = ses[t].room => s = t
    /\ \A s \in Sessions : ses[s].pc = "bcast" =>
          /\ Len(rooms[ses[s].room].log) >= 1
          /\ rooms[ses[s].room].log[Len(rooms[ses[s].room].log)] = s
    /\ \A s \in Sessions : \A c \in 1..nchans :
          ses[s].pc = "bcast" /\ chan[c].room = ses[s].room =>
              chan[c].joined < Len(rooms[ses[s].room].log)

\* A channel that the loop of a broadcast has yet to come to has not taken the
\* message.
Untaken ==
    \A c \in 1..nchans :
        Coming(c, Len(rooms[chan[c].room].log)) =>
            \A i \in 1..Len(chan[c].pushed) : chan[c].pushed[i] < Len(rooms[chan[c].room].log)

\* DeliveredInOrder for one channel, of what it took, joined and belongs to.
InOrder(p, log, joined, owner) ==
    /\ \A i, j \in 1..Len(p) : i < j => p[i] < p[j]
    /\ \A i \in 1..Len(p) : p[i] \in (joined + 1)..Len(log) /\ log[p[i]] # owner

AllInOrder ==
    \A c \in 1..nchans :
        InOrder(chan[c].pushed, rooms[chan[c].room].log, chan[c].joined, chan[c].owner)

\* The inductive invariant of delivery.
Delivery == Connected /\ Broadcasting /\ Untaken /\ AllInOrder /\ DeliveredToAll

\* The types of what Delivery talks about.
LEMMA Typed ==
  ASSUME TypeInv
  PROVE  /\ nchans \in Nat /\ 1..nchans \subseteq ChanIds
         /\ Len(rooms) \in Nat
         /\ \A r \in 1..Len(rooms) :
               /\ rooms[r] \in RoomType
               /\ rooms[r].log \in Seq(Sessions) /\ rooms[r].connections \in Seq(ChanIds)
               /\ Len(rooms[r].log) \in Nat /\ Len(rooms[r].connections) \in Nat
         /\ \A c \in ChanIds : /\ chan[c] \in ChanType
                               /\ chan[c].pushed \in Seq(Nat) /\ Len(chan[c].pushed) \in Nat
                               /\ chan[c].joined \in Nat
         /\ \A c \in 1..nchans : c \in ChanIds /\ c <= nchans /\ chan[c].room \in 1..Len(rooms)
         /\ \A s \in Sessions : /\ ses[s] \in SessionType /\ ses[s].next \in Nat
                                /\ ses[s].pc = "bcast" => ses[s].room \in 1..Len(rooms)
<1>1. /\ nchans \in 0..MaxChans /\ MaxChans \in Nat /\ rooms \in Seq(RoomType)
      /\ chan \in [ChanIds -> ChanType] /\ ses \in [Sessions -> SessionType]
  BY ServerAssumption DEF TypeInv, TypeOK
<1>2. nchans \in Nat /\ 1..nchans \subseteq ChanIds /\ \A c \in 1..nchans : c <= nchans
  BY <1>1 DEF ChanIds
<1>3. ASSUME NEW r \in 1..Len(rooms)
      PROVE  /\ rooms[r] \in RoomType
             /\ rooms[r].log \in Seq(Sessions) /\ rooms[r].connections \in Seq(ChanIds)
             /\ Len(rooms[r].log) \in Nat /\ Len(rooms[r].connections) \in Nat
  <2>1. rooms[r] \in RoomType
    BY <1>1
  <2>2. rooms[r].log \in Seq(Sessions) /\ rooms[r].connections \in Seq(ChanIds)
    BY <2>1 DEF RoomType
  <2> QED
    BY <2>1, <2>2
<1>4. ASSUME NEW c \in ChanIds
      PROVE  /\ chan[c] \in ChanType /\ chan[c].joined \in Nat
             /\ chan[c].pushed \in Seq(Nat) /\ Len(chan[c].pushed) \in Nat
  <2>1. chan[c] \in ChanType
    BY <1>1
  <2>2. chan[c].pushed \in Seq(Nat) /\ chan[c].joined \in Nat
    BY <2>1 DEF ChanType
  <2> QED
    BY <2>1, <2>2
<1>5. \A s \in Sessions : ses[s] \in SessionType /\ ses[s].next \in Nat
  BY <1>1 DEF SessionType
<1>6. \A s \in Sessions : ses[s].pc = "bcast" => ses[s].room \in 1..Len(rooms)
  BY DEF TypeInv, References
<1>7. \A c \in 1..nchans : chan[c].room \in 1..Len(rooms)
  BY <1>2 DEF TypeInv, References
<1>8. Len(rooms) \in Nat
  BY <1>1
<1> QED
  BY <1>2, <1>3, <1>4, <1>5, <1>6, <1>7, <1>8

\* A step that delivers nothing: it may make rooms, which are empty, and close
\* channels, but enters no connection, admits no message, and neither begins,
\* goes on with nor ends a broadcast.
DeliveryKept ==
    /\ nchans' = nchans
    /\ Len(rooms') \in Nat /\ Len(rooms) <= Len(rooms')
    /\ \A r \in 1..Len(rooms) : rooms'[r] = rooms[r]
    /\ \A r \in 1..Len(rooms') :
          r \in 1..Len(rooms) \/ rooms'[r].connections = <<>>
    /\ \A c \in ChanIds : /\ chan'[c].owner = chan[c].owner
                          /\ chan'[c].room = chan[c].room
                          /\ chan'[c].joined = chan[c].joined
                          /\ chan'[c].pushed = chan[c].pushed
                          /\ chan[c].closed => chan'[c].closed
    /\ \A s \in Sessions :
          \/ ses'[s].pc # "bcast" /\ ses[s].pc # "bcast"
          \/ ses'[s] = ses[s]

\* Such a step begins and ends no broadcast.
LEMMA ComingKept ==
  ASSUME TypeInv, DeliveryKept, NEW c \in 1..nchans, NEW n
  PROVE  Coming(c, n)' <=> Coming(c, n)
<1>1. chan'[c].room = chan[c].room /\ rooms'[chan[c].room] = rooms[chan[c].room]
  BY Typed DEF DeliveryKept
<1>2. \A s \in Sessions : ses'[s].pc = "bcast" \/ ses[s].pc = "bcast" => ses'[s] = ses[s]
  BY DEF DeliveryKept
<1> QED
  BY <1>1, <1>2 DEF Coming

\* Such a step keeps Delivery.
LEMMA DeliveryKeeps ==
  ASSUME TypeInv, Delivery, DeliveryKept
  PROVE  Delivery'
<1>1. ASSUME NEW c \in 1..nchans
      PROVE  /\ c \in ChanIds /\ chan[c].room \in 1..Len(rooms)
             /\ chan'[c].owner = chan[c].owner /\ chan'[c].room = chan[c].room
             /\ chan'[c].joined = chan[c].joined /\ chan'[c].pushed = chan[c].pushed
             /\ chan[c].closed => chan'[c].closed
             /\ rooms'[chan'[c].room] = rooms[chan[c].room]
  BY Typed DEF DeliveryKept
<1>2. ASSUME NEW s \in Sessions, ses'[s].pc = "bcast"
      PROVE  /\ ses'[s] = ses[s] /\ ses[s].room \in 1..Len(rooms)
             /\ rooms'[ses'[s].room] = rooms[ses[s].room]
  <2>1. ses'[s] = ses[s]
    BY <1>2 DEF DeliveryKept
  <2>2. ses[s].room \in 1..Len(rooms)
    BY <1>2, <2>1, Typed
  <2> QED
    BY <2>1, <2>2 DEF DeliveryKept
<1>3. nchans' = nchans
  BY DEF DeliveryKept
<1>4. ASSUME NEW r \in 1..Len(rooms'), NEW i \in 1..Len(rooms'[r].connections)
      PROVE  r \in 1..Len(rooms) /\ rooms'[r] = rooms[r]
  <2>1. CASE rooms'[r].connections = <<>>
    BY <1>4, <2>1
  <2>2. CASE r \in 1..Len(rooms)
    BY <2>2 DEF DeliveryKept
  <2> QED
    BY <2>1, <2>2 DEF DeliveryKept
<1>5. Connected'
  <2>1. ASSUME NEW r \in 1..Len(rooms'), NEW i \in 1..Len(rooms'[r].connections)
        PROVE  /\ rooms'[r].connections[i] \in 1..nchans'
               /\ chan'[rooms'[r].connections[i]].room = r
    <3>1. r \in 1..Len(rooms) /\ rooms'[r] = rooms[r]
      BY <1>4
    <3>2. rooms[r].connections[i] \in 1..nchans /\ chan[rooms[r].connections[i]].room = r
      BY <3>1 DEF Delivery, Connected
    <3> QED
      BY <1>1, <1>3, <3>1, <3>2
  <2>2. ASSUME NEW r \in 1..Len(rooms'), NEW i \in 1..Len(rooms'[r].connections),
               NEW j \in 1..Len(rooms'[r].connections),
               rooms'[r].connections[i] = rooms'[r].connections[j]
        PROVE  i = j
    BY <1>4, <2>2 DEF Delivery, Connected
  <2>3. ASSUME NEW c \in 1..nchans'
        PROVE  \E i \in 1..Len(rooms'[chan'[c].room].connections) :
                  rooms'[chan'[c].room].connections[i] = c
    BY <1>1, <1>3 DEF Delivery, Connected
  <2>4. ASSUME NEW c \in ChanIds, c \notin 1..nchans' PROVE chan'[c].pushed = <<>>
    BY <1>3, <2>4 DEF Delivery, Connected, DeliveryKept
  <2> QED
    BY <2>1, <2>2, <2>3, <2>4 DEF Connected
<1>6. Broadcasting'
  BY <1>1, <1>2, <1>3 DEF Delivery, Broadcasting
<1>7. \A c \in 1..nchans : \A n : Coming(c, n)' <=> Coming(c, n)
  BY ComingKept
<1>8. Untaken'
  BY <1>1, <1>3, <1>7 DEF Delivery, Untaken
<1>9. AllInOrder'
  BY <1>1, <1>3 DEF Delivery, AllInOrder
<1>10. DeliveredToAll'
  <2>1. DeliveredToAll
    BY DEF Delivery
  <2> QED
    BY <1>1, <1>3, <1>7, <2>1, SMTT(30) DEF DeliveredToAll
<1> QED
  BY <1>5, <1>6, <1>8, <1>9, <1>10 DEF Delivery

\* Every other step is one of these.
LEMMA DeliverySteps ==
  ASSUME TypeInv, [Next]_vars
  PROVE  \/ DeliveryKept
         \/ \E s \in Sessions : SubToRoom(s) \/ MsgLock(s) \/ Broadcast(s) \/ MsgUnlock(s)
<1> DEFINE RoomsGrown ==
             /\ Len(rooms') \in Nat /\ Len(rooms) <= Len(rooms')
             /\ \A r \in 1..Len(rooms) : rooms'[r] = rooms[r]
             /\ \A r \in 1..Len(rooms') : r \in 1..Len(rooms) \/ rooms'[r].connections = <<>>
           ChansQuiet ==
             \A c \in ChanIds : /\ chan'[c].owner = chan[c].owner
                                /\ chan'[c].room = chan[c].room
                                /\ chan'[c].joined = chan[c].joined
                                /\ chan'[c].pushed = chan[c].pushed
                                /\ chan[c].closed => chan'[c].closed
           SesQuiet ==
             \A s \in Sessions : \/ ses'[s].pc # "bcast" /\ ses[s].pc # "bcast"
                                 \/ ses'[s] = ses[s]
<1>0. /\ rooms \in Seq(RoomType) /\ Len(rooms) \in Nat /\ chan \in [ChanIds -> ChanType]
      /\ ses \in [Sessions -> SessionType]
  BY DEF TypeInv, TypeOK
<1>1. UNCHANGED rooms => RoomsGrown
  BY <1>0
<1>2. UNCHANGED chan => ChansQuiet
  OBVIOUS
<1>3. UNCHANGED ses => SesQuiet
  OBVIOUS
<1>4. ASSUME NEW s \in Sessions, NEW v, ses' = [ses EXCEPT ![s] = v],
             v.pc # "bcast", ses[s].pc # "bcast"
      PROVE  SesQuiet
  BY <1>0, <1>4
<1>5. UNCHANGED nchans /\ RoomsGrown /\ ChansQuiet /\ SesQuiet => DeliveryKept
  BY DEF DeliveryKept
<1>6. ASSUME NEW s \in Sessions, NEW pc, pc # "bcast", ses[s].pc # "bcast",
             ses' = [ses EXCEPT ![s].pc = pc]
      PROVE  SesQuiet
  <2> DEFINE v == [ses[s] EXCEPT !.pc = pc]
  <2>1. v.pc = pc /\ ses' = [ses EXCEPT ![s] = v]
    BY <1>0, <1>6 DEF SessionType
  <2> HIDE DEF v, SesQuiet
  <2> QED
    BY <1>4, <1>6, <2>1
<1>7. ASSUME NEW s \in Sessions, NEW pc, pc # "bcast", ses[s].pc # "bcast", GoOn(s, pc)
      PROVE  SesQuiet
  <2> DEFINE v == [ses[s] EXCEPT !.lines = @ + 1, !.pc = pc]
  <2>1. v.pc = pc /\ ses' = [ses EXCEPT ![s] = v]
    BY <1>0, <1>7 DEF SessionType, GoOn
  <2> HIDE DEF v, SesQuiet
  <2> QED
    BY <1>4, <1>7, <2>1
<1>8. ASSUME NEW s \in Sessions, NEW pc, NEW r, NEW reply, pc # "bcast", ses[s].pc # "bcast",
             GoOnWith(s, pc, r, reply)
      PROVE  SesQuiet
  <2> DEFINE v == [ses[s] EXCEPT !.lines = @ + 1, !.pc = pc, !.room = r, !.reply = reply]
  <2>1. v.pc = pc /\ ses' = [ses EXCEPT ![s] = v]
    BY <1>0, <1>8 DEF SessionType, GoOnWith
  <2> HIDE DEF v, SesQuiet
  <2> QED
    BY <1>4, <1>8, <2>1
<1>9. ASSUME NEW s \in Sessions, SubReply(s) PROVE SesQuiet
  <2> DEFINE u == IF \E d \in ses[s].subs : chan[d].room = ses[s].room
                  THEN ses[s].subs ELSE ses[s].subs \cup {ses[s].chan}
             v == [ses[s] EXCEPT !.pc = "reading", !.subs = u]
  <2>1. ses' = [ses EXCEPT ![s] = v] /\ ses[s].pc = "sub_reply"
    BY <1>9 DEF SubReply
  <2> HIDE DEF u
  <2>2. v.pc = "reading"
    BY <1>0 DEF SessionType
  <2> HIDE DEF v, SesQuiet
  <2> QED
    BY <1>4, <2>1, <2>2
<1>10. ASSUME NEW n \in Names,
              rooms' = Append(rooms, [id |-> Len(rooms) + 1, name |-> n,
                                      connections |-> <<>>, log |-> <<>>])
       PROVE  RoomsGrown
  <2> DEFINE new == [id |-> Len(rooms) + 1, name |-> n, connections |-> <<>>, log |-> <<>>]
  <2>1. new.connections = <<>>
    OBVIOUS
  <2> HIDE DEF new
  <2>2. /\ Len(rooms') = Len(rooms) + 1 /\ rooms'[Len(rooms) + 1] = new
        /\ \A r \in 1..Len(rooms) : rooms'[r] = rooms[r]
    BY <1>0, <1>10 DEF new
  <2> QED
    BY <1>0, <2>1, <2>2
<1>11. ASSUME NEW s \in Sessions, CloseSubscription(s) PROVE ChansQuiet
  <2>1. PICK c \in ses[s].subs : chan' = [chan EXCEPT ![c].closed = TRUE]
    BY <1>11 DEF CloseSubscription, OpenSubscriptions
  <2>2. \A d \in ChanIds : \/ chan'[d] = chan[d]
                           \/ chan'[d] = [chan[d] EXCEPT !.closed = TRUE]
    BY <1>0, <2>1
  <2> QED
    BY <1>0, <2>2, ZenonT(60) DEF ChanType
<1>12. ASSUME NEW c \in ChanIds, Listener(c) PROVE ChansQuiet
  <2>0. chan[c] \in ChanType
    BY <1>0
  <2>1. \A d \in ChanIds : d # c => chan'[d] = chan[d]
    BY <1>0, <1>12 DEF Listener, ListenStart, ListenForward, ListenAbort
  <2>2. /\ chan'[c].owner = chan[c].owner /\ chan'[c].room = chan[c].room
        /\ chan'[c].joined = chan[c].joined /\ chan'[c].pushed = chan[c].pushed
        /\ chan'[c].closed = chan[c].closed
    <3>1. CASE ListenStart(c)
      BY <1>0, <2>0, <3>1 DEF ListenStart, ChanType
    <3>2. CASE ListenForward(c)
      BY <1>0, <2>0, <3>2 DEF ListenForward, ChanType
    <3>3. CASE ListenAbort(c)
      BY <1>0, <2>0, <3>3 DEF ListenAbort, ChanType
    <3> QED
      BY <1>12, <3>1, <3>2, <3>3 DEF Listener
  <2> QED
    BY <2>1, <2>2
<1> HIDE DEF RoomsGrown, ChansQuiet, SesQuiet
<1>13. ASSUME NEW s \in Sessions, Client(s) PROVE DeliveryKept
  <2>1. CASE Accept(s) \/ ReceiveError(s)
    BY <1>1, <1>2, <1>5, <1>6, <2>1 DEF Accept, ReceiveError
  <2>2. ASSUME NEW q \in Requests[s], ReceiveEmpty(s, q) \/ ReceiveUnknown(s, q) \/ ReceiveDesub(s, q)
        PROVE  DeliveryKept
    <3>1. ses[s].pc # "bcast" /\ UNCHANGED <<rooms, nchans, chan>>
      BY <2>2 DEF ReceiveEmpty, ReceiveUnknown, ReceiveDesub, Refuse, GetsLine
    <3>2. GoOn(s, "reading") \/ GoOn(s, "cleanup")
      BY <2>2 DEF ReceiveEmpty, ReceiveUnknown, ReceiveDesub, Refuse
    <3> QED
      BY <1>1, <1>2, <1>5, <1>7, <3>1, <3>2
  <2>3. ASSUME NEW q \in Requests[s], ReceiveSub(s, q) \/ ReceiveMsg(s, q)
        PROVE  DeliveryKept
    <3>1. ses[s].pc # "bcast" /\ UNCHANGED <<rooms, nchans, chan>>
      BY <2>3 DEF ReceiveSub, ReceiveMsg, Refuse, GetsLine
    <3>2. \/ GoOn(s, "reading") \/ GoOn(s, "cleanup")
          \/ \E r \in FindRoom(q.grp) : \/ GoOnWith(s, "sub_lock", r, "sub_ok")
                                        \/ GoOnWith(s, "msg_lock", r, ses[s].reply)
      BY <2>3 DEF ReceiveSub, ReceiveMsg, Refuse
    <3> QED
      BY <1>1, <1>2, <1>5, <1>7, <1>8, <3>1, <3>2
  <2>4. ASSUME NEW q \in Requests[s], ReceiveCsub(s, q) PROVE DeliveryKept
    <3>1. ses[s].pc # "bcast" /\ UNCHANGED <<nchans, chan>>
      BY <2>4 DEF ReceiveCsub, Refuse, GetsLine
    <3>2. CASE Refuse(s)
      BY <1>1, <1>2, <1>5, <1>7, <3>1, <3>2 DEF Refuse
    <3>3. CASE ~Refuse(s)
      <4>1. /\ q.grp_name \in Names
            /\ rooms' = Append(rooms, [id |-> Len(rooms) + 1, name |-> q.grp_name,
                                       connections |-> <<>>, log |-> <<>>])
            /\ GoOnWith(s, "sub_lock", Len(rooms) + 1, "csub_ok")
        BY <2>4, <3>3 DEF ReceiveCsub
      <4>2. RoomsGrown
        BY <1>10, <4>1
      <4>3. SesQuiet
        BY <1>8, <3>1, <4>1
      <4> QED
        BY <1>2, <1>5, <3>1, <4>2, <4>3
    <3> QED
      BY <3>2, <3>3
  <2> QED
    BY <1>13, <2>1, <2>2, <2>3, <2>4 DEF Client
<1>14. ASSUME NEW s \in Sessions, Session(s)
       PROVE  DeliveryKept \/ SubToRoom(s) \/ MsgLock(s) \/ Broadcast(s) \/ MsgUnlock(s)
  <2>1. CASE SubReply(s)
    BY <1>1, <1>2, <1>5, <1>9, <2>1 DEF SubReply
  <2>2. CASE MsgReject(s) \/ CloseWriteChan(s) \/ Return(s)
    BY <1>1, <1>2, <1>5, <1>6, <2>2 DEF MsgReject, CloseWriteChan, Return
  <2>3. CASE CloseSubscription(s)
    BY <1>1, <1>3, <1>5, <1>11, <2>3 DEF CloseSubscription
  <2> QED
    BY <1>14, <2>1, <2>2, <2>3 DEF Session
<1>15. ASSUME NEW s \in Sessions, Writer(s) PROVE DeliveryKept
  BY <1>1, <1>2, <1>3, <1>5, <1>15 DEF Writer, WriterSend, WriterAbort, SendDone, SendFail
<1>16. ASSUME NEW c \in ChanIds, Listener(c) PROVE DeliveryKept
  <2>1. UNCHANGED <<rooms, nchans, ses>>
    BY <1>16 DEF Listener, ListenStart, ListenForward, ListenAbort
  <2> QED
    BY <1>1, <1>3, <1>5, <1>12, <1>16, <2>1
<1>17. CASE UNCHANGED vars
  BY <1>1, <1>2, <1>3, <1>5, <1>17 DEF vars
<1> QED
  BY <1>13, <1>14, <1>15, <1>16, <1>17 DEF Next, Quiet

\* The broadcast is over: it was coming to nobody any more.
LEMMA ComingMsgUnlock ==
  ASSUME TypeInv, NEW s \in Sessions, MsgUnlock(s)
  PROVE  \A c \in 1..nchans : \A n : Coming(c, n)' <=> Coming(c, n)
<1> DEFINE v == [ses[s] EXCEPT !.pc = "reading"]
<1>1. /\ UNCHANGED <<rooms, nchans, chan>> /\ ses[s].pc = "bcast"
      /\ ses[s].next > Len(rooms[ses[s].room].connections)
  BY DEF MsgUnlock, BroadcastOver
<1>2. v.pc = "reading" /\ ses' = [ses EXCEPT ![s] = v]
  BY DEF TypeInv, TypeOK, MsgUnlock, SessionType
<1> HIDE DEF v
<1>3. \A t \in Sessions : ses'[t].pc = "bcast" => t # s /\ ses'[t] = ses[t]
  BY <1>2 DEF TypeInv, TypeOK
<1>4. \A t \in Sessions : t # s => ses'[t] = ses[t]
  BY <1>2 DEF TypeInv, TypeOK
<1>5. ASSUME NEW c \in 1..nchans, NEW n
      PROVE  Coming(c, n)' <=> Coming(c, n)
  <2>1. Coming(c, n)' => Coming(c, n)
    BY <1>1, <1>3 DEF Coming
  <2>2. ASSUME Coming(c, n) PROVE Coming(c, n)'
    <3>1. PICK t \in Sessions :
                 /\ ses[t].pc = "bcast" /\ ses[t].room = chan[c].room
                 /\ n = Len(rooms[chan[c].room].log)
                 /\ \E j \in ses[t].next..Len(rooms[chan[c].room].connections) :
                       rooms[chan[c].room].connections[j] = c
      BY <2>2 DEF Coming
    <3>2. t # s
      <4>1. CASE t = s
        <5>1. PICK j \in ses[s].next..Len(rooms[ses[s].room].connections) : TRUE
          BY <3>1, <4>1
        <5>2. ses[s].next \in Nat /\ Len(rooms[ses[s].room].connections) \in Nat
          BY <1>1, Typed
        <5> QED
          BY <1>1, <5>1, <5>2
      <4> QED
        BY <4>1
    <3> QED
      BY <1>1, <1>4, <3>1, <3>2 DEF Coming
  <2> QED
    BY <2>1, <2>2
<1> QED
  BY <1>5

\* The end of a broadcast keeps Delivery.
LEMMA DeliveryMsgUnlock ==
  ASSUME TypeInv, Delivery, NEW s \in Sessions, MsgUnlock(s)
  PROVE  Delivery'
<1> DEFINE v == [ses[s] EXCEPT !.pc = "reading"]
<1>1. /\ UNCHANGED <<rooms, nchans, chan>> /\ ses[s].pc = "bcast"
      /\ ses[s].next > Len(rooms[ses[s].room].connections)
  BY DEF MsgUnlock, BroadcastOver
<1>2. v.pc = "reading" /\ ses' = [ses EXCEPT ![s] = v]
  BY DEF TypeInv, TypeOK, MsgUnlock, SessionType
<1> HIDE DEF v
<1>3. \A t \in Sessions : ses'[t].pc = "bcast" => t # s /\ ses'[t] = ses[t]
  BY <1>2 DEF TypeInv, TypeOK
<1>5. \A c \in 1..nchans : \A n : Coming(c, n)' <=> Coming(c, n)
  BY ComingMsgUnlock
<1>6. Connected'
  <2>1. Connected
    BY DEF Delivery
  <2> QED
    BY <1>1, <2>1, ZenonT(60) DEF Connected
<1>7. Broadcasting'
  BY <1>1, <1>3 DEF Delivery, Broadcasting
<1>8. Untaken'
  BY <1>1, <1>5 DEF Delivery, Untaken
<1>9. AllInOrder'
  BY <1>1 DEF Delivery, AllInOrder
<1>10. DeliveredToAll'
  BY <1>1, <1>5 DEF Delivery, DeliveredToAll
<1> QED
  BY <1>6, <1>7, <1>8, <1>9, <1>10 DEF Delivery

\* What MsgLock does to the room whose mutex it takes.
LEMMA MsgLockFacts ==
  ASSUME TypeInv, NEW s \in Sessions, MsgLock(s)
  PROVE  LET r == ses[s].room
         IN  /\ UNCHANGED <<nchans, chan>>
             /\ r \in 1..Len(rooms) /\ Len(rooms') = Len(rooms)
             /\ \A t \in 1..Len(rooms) :
                   /\ rooms'[t].connections = rooms[t].connections
                   /\ rooms'[t].name = rooms[t].name
                   /\ t # r => rooms'[t] = rooms[t]
             /\ rooms'[r].log = Append(rooms[r].log, s)
             /\ \A t \in Sessions : ses[t].pc = "bcast" => t # s /\ ses[t].room # r
             /\ \A t \in Sessions : t # s => ses'[t] = ses[t]
             /\ ses[s].pc = "msg_lock"
             /\ ses'[s].pc = "bcast" /\ ses'[s].room = r /\ ses'[s].next = 1
             /\ ses'[s].subs = ses[s].subs
<1> DEFINE r == ses[s].room
           x == Append(rooms[r].log, s)
           v == [ses[s] EXCEPT !.pc = "bcast", !.next = 1]
<1>1. rooms \in Seq(RoomType) /\ r \in 1..Len(rooms) /\ rooms[r] \in RoomType
  BY DEF TypeInv, TypeOK, References, MsgLock
<1>2. rooms' = [rooms EXCEPT ![r] = [rooms[r] EXCEPT !.log = x]]
  BY DEF MsgLock
<1>3. ses' = [ses EXCEPT ![s] = v] /\ UNCHANGED <<nchans, chan>> /\ ses[s].pc = "msg_lock"
  BY DEF MsgLock
<1>4. v.pc = "bcast" /\ v.room = r /\ v.next = 1 /\ v.subs = ses[s].subs
  BY DEF TypeInv, TypeOK, SessionType
<1>5. \A t \in Sessions : ses[t].pc = "bcast" => t # s /\ ses[t].room # r
  BY DEF MsgLock, Unlocked
<1> HIDE DEF r, x, v
<1>6. /\ [rooms[r] EXCEPT !.log = x].connections = rooms[r].connections
      /\ [rooms[r] EXCEPT !.log = x].name = rooms[r].name
      /\ [rooms[r] EXCEPT !.log = x].log = x
  BY <1>1 DEF RoomType
<1>7. /\ Len(rooms') = Len(rooms)
      /\ \A t \in 1..Len(rooms) : /\ rooms'[t].connections = rooms[t].connections
                                  /\ rooms'[t].name = rooms[t].name
                                  /\ t # r => rooms'[t] = rooms[t]
      /\ rooms'[r].log = x
  BY <1>1, <1>2, <1>6
<1>8. ses'[s] = v /\ \A t \in Sessions : t # s => ses'[t] = ses[t]
  BY <1>3 DEF TypeInv, TypeOK
<1> QED
  BY <1>1, <1>3, <1>4, <1>5, <1>7, <1>8 DEF r, x

\* The room's mutex admits a message: it is coming to every channel of the room,
\* to which nothing was coming before.
LEMMA ComingMsgLock ==
  ASSUME TypeInv, Delivery, NEW s \in Sessions, MsgLock(s), NEW c \in 1..nchans, NEW n
  PROVE  /\ chan[c].room # ses[s].room => (Coming(c, n)' <=> Coming(c, n))
         /\ chan[c].room = ses[s].room =>
               ~Coming(c, n) /\ (n = Len(rooms[ses[s].room].log) + 1 => Coming(c, n)')
<1> DEFINE r == ses[s].room
           m == Len(rooms[r].log)
<1>1. /\ UNCHANGED <<nchans, chan>> /\ r \in 1..Len(rooms) /\ Len(rooms') = Len(rooms)
      /\ \A t \in 1..Len(rooms) : /\ rooms'[t].connections = rooms[t].connections
                                  /\ t # r => rooms'[t] = rooms[t]
      /\ rooms'[r].log = Append(rooms[r].log, s)
      /\ \A t \in Sessions : ses[t].pc = "bcast" => t # s /\ ses[t].room # r
      /\ \A t \in Sessions : t # s => ses'[t] = ses[t]
      /\ ses'[s].pc = "bcast" /\ ses'[s].room = r /\ ses'[s].next = 1
  BY MsgLockFacts
<1>2. rooms[r].log \in Seq(Sessions) /\ m \in Nat
  BY <1>1, Typed
<1> HIDE DEF r
<1>3. /\ Len(rooms'[r].log) = m + 1 /\ rooms'[r].log[m + 1] = s
      /\ \A k \in 1..m : rooms'[r].log[k] = rooms[r].log[k]
  BY <1>1, <1>2
<1>5. chan[c].room \in 1..Len(rooms)
  BY Typed
<1>8. ASSUME chan[c].room # r
      PROVE  Coming(c, n)' <=> Coming(c, n)
  <2>1. rooms'[chan[c].room] = rooms[chan[c].room]
    BY <1>1, <1>5, <1>8
  <2>2. \A t \in Sessions :
           ses'[t].pc = "bcast" /\ ses'[t].room = chan[c].room
             <=> ses[t].pc = "bcast" /\ ses[t].room = chan[c].room
    BY <1>1, <1>8
  <2>3. \A t \in Sessions : ses'[t].pc = "bcast" /\ ses'[t].room = chan[c].room
             => ses'[t] = ses[t]
    BY <1>1, <1>8
  <2> QED
    BY <1>1, <2>1, <2>2, <2>3, ZenonT(60) DEF Coming
<1>9. ASSUME chan[c].room = r
      PROVE  ~Coming(c, n)
  BY <1>1, <1>9 DEF Coming
<1>10. ASSUME n = m + 1, chan[c].room = r
       PROVE  Coming(c, n)'
  <2>1. PICK i \in 1..Len(rooms[r].connections) : rooms[r].connections[i] = c
    BY <1>10 DEF Delivery, Connected
  <2>2. rooms'[r].connections = rooms[r].connections
    BY <1>1
  <2>3. i \in ses'[s].next..Len(rooms'[r].connections) /\ rooms'[r].connections[i] = c
    BY <1>1, <2>1, <2>2
  <2> QED
    BY <1>1, <1>3, <1>10, <2>3 DEF Coming
<1> QED
  BY <1>8, <1>9, <1>10 DEF r

\* The beginning of a broadcast keeps Delivery.
LEMMA DeliveryMsgLock ==
  ASSUME TypeInv, Admitted, Delivery, NEW s \in Sessions, MsgLock(s)
  PROVE  Delivery'
<1> DEFINE r == ses[s].room
           m == Len(rooms[r].log)
<1>1. /\ UNCHANGED <<nchans, chan>> /\ r \in 1..Len(rooms) /\ Len(rooms') = Len(rooms)
      /\ \A t \in 1..Len(rooms) : /\ rooms'[t].connections = rooms[t].connections
                                  /\ t # r => rooms'[t] = rooms[t]
      /\ rooms'[r].log = Append(rooms[r].log, s)
      /\ \A t \in Sessions : ses[t].pc = "bcast" => t # s /\ ses[t].room # r
      /\ \A t \in Sessions : t # s => ses'[t] = ses[t]
      /\ ses'[s].pc = "bcast" /\ ses'[s].room = r /\ ses'[s].next = 1
  BY MsgLockFacts
<1>2. rooms[r].log \in Seq(Sessions) /\ m \in Nat
  BY <1>1, Typed
<1> HIDE DEF r
<1>3. /\ Len(rooms'[r].log) = m + 1 /\ rooms'[r].log[m + 1] = s
      /\ \A n \in 1..m : rooms'[r].log[n] = rooms[r].log[n]
  BY <1>1, <1>2
<1>4. ASSUME NEW t \in Sessions, ses'[t].pc = "bcast", t # s
      PROVE  /\ ses'[t] = ses[t] /\ ses[t].room # r /\ ses[t].room \in 1..Len(rooms)
             /\ rooms'[ses[t].room] = rooms[ses[t].room]
  <2>1. ses'[t] = ses[t] /\ ses[t].room # r
    BY <1>1, <1>4
  <2>2. ses[t].room \in 1..Len(rooms)
    BY <1>4, <2>1, Typed
  <2> QED
    BY <1>1, <2>1, <2>2
<1>5. ASSUME NEW c \in 1..nchans
      PROVE  /\ c \in ChanIds /\ chan[c].room \in 1..Len(rooms) /\ chan[c].joined \in Nat
             /\ chan[c].joined <= Len(rooms[chan[c].room].log)
             /\ chan[c].room # r => rooms'[chan[c].room] = rooms[chan[c].room]
  BY <1>1, Typed DEF Admitted
<1>6. Connected'
  <2>1. \A t \in 1..Len(rooms') : /\ t \in 1..Len(rooms)
                                  /\ rooms'[t].connections = rooms[t].connections
    BY <1>1
  <2>2. ASSUME NEW c \in 1..nchans
        PROVE  rooms'[chan[c].room].connections = rooms[chan[c].room].connections
    BY <1>1, <1>5
  <2>3. ASSUME NEW t \in 1..Len(rooms'), NEW i \in 1..Len(rooms'[t].connections)
        PROVE  rooms'[t].connections[i] \in 1..nchans /\ chan[rooms'[t].connections[i]].room = t
    BY <2>1 DEF Delivery, Connected
  <2>4. ASSUME NEW t \in 1..Len(rooms'), NEW i \in 1..Len(rooms'[t].connections),
               NEW j \in 1..Len(rooms'[t].connections),
               rooms'[t].connections[i] = rooms'[t].connections[j]
        PROVE  i = j
    BY <2>1, <2>4 DEF Delivery, Connected
  <2>5. ASSUME NEW c \in 1..nchans
        PROVE  \E i \in 1..Len(rooms'[chan[c].room].connections) :
                  rooms'[chan[c].room].connections[i] = c
    BY <2>2 DEF Delivery, Connected
  <2>6. \A c \in ChanIds : c \notin 1..nchans => chan[c].pushed = <<>>
    BY DEF Delivery, Connected
  <2> QED
    BY <1>1, <2>3, <2>4, <2>5, <2>6 DEF Connected
<1>7. Broadcasting'
  <2>1. ASSUME NEW t \in Sessions, NEW u \in Sessions, ses'[t].pc = "bcast", ses'[u].pc = "bcast",
               ses'[t].room = ses'[u].room
        PROVE  t = u
    BY <1>1, <1>4, <2>1 DEF Delivery, Broadcasting
  <2>2. ASSUME NEW t \in Sessions, ses'[t].pc = "bcast"
        PROVE  /\ Len(rooms'[ses'[t].room].log) >= 1
               /\ rooms'[ses'[t].room].log[Len(rooms'[ses'[t].room].log)] = t
    <3>1. CASE t = s
      BY <1>1, <1>2, <1>3, <3>1
    <3>2. CASE t # s
      BY <1>4, <2>2, <3>2 DEF Delivery, Broadcasting
    <3> QED
      BY <3>1, <3>2
  <2>3. ASSUME NEW t \in Sessions, NEW c \in 1..nchans, ses'[t].pc = "bcast",
               chan[c].room = ses'[t].room
        PROVE  chan[c].joined < Len(rooms'[ses'[t].room].log)
    <3>1. CASE t = s
      <4>1. Len(rooms'[ses'[t].room].log) = m + 1 /\ chan[c].room = r
        BY <1>1, <1>3, <2>3, <3>1
      <4> QED
        BY <1>2, <1>5, <4>1, SMTT(30)
    <3>2. CASE t # s
      BY <1>4, <2>3, <3>2 DEF Delivery, Broadcasting
    <3> QED
      BY <3>1, <3>2
  <2> QED
    BY <1>1, <2>1, <2>2, <2>3 DEF Broadcasting
<1>8. \A c \in 1..nchans : \A n : chan[c].room # r => (Coming(c, n)' <=> Coming(c, n))
  BY ComingMsgLock DEF r
<1>9. \A c \in 1..nchans : \A n : chan[c].room = r => ~Coming(c, n)
  BY ComingMsgLock DEF r
<1>10. \A c \in 1..nchans : \A n : n = m + 1 /\ chan[c].room = r => Coming(c, n)'
  BY ComingMsgLock DEF r
<1>11. ASSUME NEW c \in 1..nchans
       PROVE  /\ \A i \in 1..Len(chan[c].pushed) : chan[c].pushed[i] \in Nat
              /\ chan[c].room = r => \A i \in 1..Len(chan[c].pushed) : chan[c].pushed[i] <= m
  <2>1. InOrder(chan[c].pushed, rooms[chan[c].room].log, chan[c].joined, chan[c].owner)
    BY DEF Delivery, AllInOrder
  <2>2. chan[c].pushed \in Seq(Nat)
    BY Typed
  <2> QED
    BY <1>2, <1>5, <2>1, <2>2, SMTT(30) DEF InOrder
<1>12. Untaken'
  <2> SUFFICES ASSUME NEW c \in 1..nchans, NEW i \in 1..Len(chan[c].pushed),
                      Coming(c, Len(rooms[chan[c].room].log))'
               PROVE  chan[c].pushed[i] < Len(rooms'[chan[c].room].log)
    BY <1>1 DEF Untaken
  <2>1. CASE chan[c].room = r
    BY <1>2, <1>3, <1>11, <2>1
  <2>2. CASE chan[c].room # r
    <3>1. rooms'[chan[c].room] = rooms[chan[c].room]
      BY <1>5, <2>2
    <3>2. Coming(c, Len(rooms[chan[c].room].log))
      BY <1>1, <1>8, <2>2, <3>1
    <3> QED
      BY <3>1, <3>2 DEF Delivery, Untaken
  <2> QED
    BY <2>1, <2>2
<1>13. AllInOrder'
  <2> SUFFICES ASSUME NEW c \in 1..nchans
               PROVE  InOrder(chan[c].pushed, rooms'[chan[c].room].log, chan[c].joined, chan[c].owner)
    BY <1>1 DEF AllInOrder
  <2>1. InOrder(chan[c].pushed, rooms[chan[c].room].log, chan[c].joined, chan[c].owner)
    BY DEF Delivery, AllInOrder
  <2>2. CASE chan[c].room = r
    <3>1. ASSUME NEW i \in 1..Len(chan[c].pushed)
          PROVE  /\ chan[c].pushed[i] \in (chan[c].joined + 1)..(m + 1)
                 /\ rooms'[r].log[chan[c].pushed[i]] # chan[c].owner
      <4>1. /\ chan[c].pushed[i] \in (chan[c].joined + 1)..m
            /\ rooms[r].log[chan[c].pushed[i]] # chan[c].owner
        BY <2>1, <2>2 DEF InOrder
      <4>2. chan[c].pushed[i] \in 1..m
        BY <1>2, <1>5, <4>1
      <4>3. chan[c].pushed[i] \in (chan[c].joined + 1)..(m + 1)
        BY <1>2, <1>5, <4>1
      <4> QED
        BY <1>3, <4>1, <4>2, <4>3
    <3> QED
      BY <1>3, <2>1, <2>2, <3>1 DEF InOrder
  <2>3. CASE chan[c].room # r
    BY <1>5, <2>1, <2>3
  <2> QED
    BY <2>2, <2>3
<1>14. DeliveredToAll'
  <2> SUFFICES ASSUME NEW c \in 1..nchans,
                      NEW n \in (chan[c].joined + 1)..Len(rooms'[chan[c].room].log)
               PROVE  \/ rooms'[chan[c].room].log[n] = chan[c].owner
                      \/ \E i \in 1..Len(chan[c].pushed) : chan[c].pushed[i] = n
                      \/ Coming(c, n)'
                      \/ chan[c].closed /\ \A i \in 1..Len(chan[c].pushed) : chan[c].pushed[i] < n
    BY <1>1 DEF DeliveredToAll
  <2>1. CASE chan[c].room # r
    <3>1. rooms'[chan[c].room] = rooms[chan[c].room]
      BY <1>5, <2>1
    <3> QED
      BY <1>8, <2>1, <3>1 DEF Delivery, DeliveredToAll
  <2>2. CASE chan[c].room = r /\ n = m + 1
    BY <1>10, <2>2
  <2>3. CASE chan[c].room = r /\ n # m + 1
    <3>1. n \in (chan[c].joined + 1)..m /\ n \in 1..m
      BY <1>2, <1>3, <1>5, <2>3
    <3>2. \/ rooms[r].log[n] = chan[c].owner
          \/ \E i \in 1..Len(chan[c].pushed) : chan[c].pushed[i] = n
          \/ Coming(c, n)
          \/ chan[c].closed /\ \A i \in 1..Len(chan[c].pushed) : chan[c].pushed[i] < n
      BY <2>3, <3>1 DEF Delivery, DeliveredToAll
    <3> QED
      BY <1>3, <1>9, <2>3, <3>1, <3>2
  <2> QED
    BY <2>1, <2>2, <2>3
<1> QED
  BY <1>6, <1>7, <1>12, <1>13, <1>14 DEF Delivery

\* One turn of the loop: the channel it comes to takes the message, or is
\* closed, or is the sender's own.
LEMMA BroadcastFacts ==
  ASSUME TypeInv, Membership, Delivery, NEW s \in Sessions, Broadcast(s)
  PROVE  LET r == ses[s].room
             k == ses[s].next
             c == rooms[r].connections[k]
             n == Len(rooms[r].log)
         IN  /\ UNCHANGED <<rooms, nchans>>
             /\ ses[s].pc = "bcast" /\ r \in 1..Len(rooms) /\ k \in 1..Len(rooms[r].connections)
             /\ c \in 1..nchans /\ chan[c].room = r
             /\ \A t \in Sessions : t # s => ses'[t] = ses[t]
             /\ ses'[s].pc = "bcast" /\ ses'[s].room = r /\ ses'[s].next = k + 1
             /\ ses'[s].subs = ses[s].subs
             /\ \A d \in ChanIds :
                   /\ chan'[d].owner = chan[d].owner /\ chan'[d].room = chan[d].room
                   /\ chan'[d].joined = chan[d].joined /\ chan'[d].closed = chan[d].closed
                   /\ chan'[d].popped = chan[d].popped
                   /\ chan'[d].listener = chan[d].listener
                   /\ d # c => chan'[d].pushed = chan[d].pushed
             /\ \/ /\ ~chan[c].closed /\ chan[c].owner # s
                   /\ chan'[c].pushed = Append(chan[c].pushed, n)
                \/ /\ chan[c].closed \/ chan[c].owner = s
                   /\ chan'[c].pushed = chan[c].pushed
<1> DEFINE r == ses[s].room
           k == ses[s].next
           c == rooms[r].connections[k]
           n == Len(rooms[r].log)
           p == Append(chan[c].pushed, n)
           v == [ses[s] EXCEPT !.next = k + 1]
<1>1. /\ ses[s].pc = "bcast" /\ UNCHANGED <<rooms, nchans>>
      /\ ~(k > Len(rooms[r].connections))
      /\ chan' = IF chan[c].closed \/ c \in CurrChan(s)
                 THEN chan ELSE [chan EXCEPT ![c] = [chan[c] EXCEPT !.pushed = p]]
      /\ ses' = [ses EXCEPT ![s] = v]
  BY DEF Broadcast, BroadcastOver
<1>2. r \in 1..Len(rooms) /\ k >= 1 /\ k \in Nat
  BY <1>1, Typed DEF TypeInv, References
<1>3. k \in 1..Len(rooms[r].connections)
  <2>1. Len(rooms[r].connections) \in Nat
    BY <1>2, Typed
  <2>2. ~(k > Len(rooms[r].connections))
    BY <1>1
  <2> HIDE DEF k, r
  <2> QED
    BY <1>2, <2>1, <2>2
<1>4. c \in 1..nchans /\ chan[c].room = r
  BY <1>2, <1>3 DEF Delivery, Connected
<1>5. v.pc = "bcast" /\ v.room = r /\ v.next = k + 1 /\ v.subs = ses[s].subs
  BY <1>1 DEF TypeInv, TypeOK, SessionType
<1>6. ses'[s] = v /\ \A t \in Sessions : t # s => ses'[t] = ses[t]
  BY <1>1 DEF TypeInv, TypeOK
<1>7. c \in CurrChan(s) <=> chan[c].owner = s
  <2>1. c \in ChanIds /\ c <= nchans
    BY <1>4, Typed
  <2>2. chan[c].owner = s => c \in ses[s].subs
    BY <1>1, <2>1 DEF Membership
  <2> QED
    BY <1>4, <2>2, ZenonT(60) DEF Membership, CurrChan
<1>8. c \in ChanIds /\ chan \in [ChanIds -> ChanType] /\ chan[c] \in ChanType
  BY <1>4, Typed DEF TypeInv, TypeOK
<1> HIDE DEF r, k, c, n, p, v
<1>9. /\ [chan[c] EXCEPT !.pushed = p].owner = chan[c].owner
      /\ [chan[c] EXCEPT !.pushed = p].room = chan[c].room
      /\ [chan[c] EXCEPT !.pushed = p].joined = chan[c].joined
      /\ [chan[c] EXCEPT !.pushed = p].closed = chan[c].closed
      /\ [chan[c] EXCEPT !.pushed = p].popped = chan[c].popped
      /\ [chan[c] EXCEPT !.pushed = p].listener = chan[c].listener
      /\ [chan[c] EXCEPT !.pushed = p].pushed = p
  BY <1>8 DEF ChanType
<1>10. \A d \in ChanIds :
          /\ chan'[d].owner = chan[d].owner /\ chan'[d].room = chan[d].room
          /\ chan'[d].joined = chan[d].joined /\ chan'[d].closed = chan[d].closed
          /\ chan'[d].popped = chan[d].popped
          /\ chan'[d].listener = chan[d].listener
          /\ d # c => chan'[d].pushed = chan[d].pushed
  BY <1>1, <1>8, <1>9
<1>11. \/ ~chan[c].closed /\ chan[c].owner # s /\ chan'[c].pushed = p
       \/ (chan[c].closed \/ chan[c].owner = s) /\ chan'[c].pushed = chan[c].pushed
  BY <1>1, <1>7, <1>8, <1>9
<1> QED
  BY <1>1, <1>2, <1>3, <1>4, <1>5, <1>6, <1>10, <1>11 DEF r, k, c, n, p

\* It was coming to that channel, and is no more; for all others it is as before.
LEMMA ComingBroadcast ==
  ASSUME TypeInv, Membership, Delivery, NEW s \in Sessions, Broadcast(s)
  PROVE  LET c == rooms[ses[s].room].connections[ses[s].next]
         IN  /\ Coming(c, Len(rooms[ses[s].room].log))
             /\ \A d \in 1..nchans : \A m : Coming(d, m)' => Coming(d, m) /\ d # c
             /\ \A d \in 1..nchans : \A m : Coming(d, m) /\ d # c => Coming(d, m)'
<1> DEFINE r == ses[s].room
           k == ses[s].next
           c == rooms[r].connections[k]
           n == Len(rooms[r].log)
<1>1. /\ UNCHANGED <<rooms, nchans>>
      /\ ses[s].pc = "bcast" /\ r \in 1..Len(rooms) /\ k \in 1..Len(rooms[r].connections)
      /\ c \in 1..nchans /\ chan[c].room = r
      /\ \A t \in Sessions : t # s => ses'[t] = ses[t]
      /\ ses'[s].pc = "bcast" /\ ses'[s].room = r /\ ses'[s].next = k + 1
      /\ \A d \in ChanIds :
            /\ chan'[d].owner = chan[d].owner /\ chan'[d].room = chan[d].room
            /\ chan'[d].joined = chan[d].joined /\ chan'[d].closed = chan[d].closed
            /\ d # c => chan'[d].pushed = chan[d].pushed
      /\ \/ /\ ~chan[c].closed /\ chan[c].owner # s
            /\ chan'[c].pushed = Append(chan[c].pushed, n)
         \/ /\ chan[c].closed \/ chan[c].owner = s
            /\ chan'[c].pushed = chan[c].pushed
  BY BroadcastFacts
<1>2. k \in Nat /\ Len(rooms[r].connections) \in Nat
  BY <1>1, Typed
<1>3. \A i \in 1..Len(rooms[r].connections) : rooms[r].connections[i] = c => i = k
  BY <1>1 DEF Delivery, Connected
<1>4. \A t \in Sessions : ses[t].pc = "bcast" /\ ses[t].room = r => t = s
  BY <1>1 DEF Delivery, Broadcasting
<1>5. ASSUME NEW d \in 1..nchans
      PROVE  /\ d \in ChanIds /\ chan'[d].owner = chan[d].owner /\ chan'[d].room = chan[d].room
             /\ chan'[d].joined = chan[d].joined /\ chan'[d].closed = chan[d].closed
             /\ d # c => chan'[d].pushed = chan[d].pushed
  BY <1>1, Typed
<1> HIDE DEF r, k, c, n
<1>6. Coming(c, n)
  <2>0. k \in 1..Len(rooms[r].connections)
    BY <1>1
  <2>1. k \in k..Len(rooms[r].connections) /\ rooms[r].connections[k] = c
    BY <1>2, <2>0 DEF c
  <2>2. ses[s].room = r /\ ses[s].next = k /\ n = Len(rooms[r].log)
    BY DEF r, k, n
  <2> QED
    BY <1>1, <2>1, <2>2 DEF Coming
<1>8. \A t \in Sessions : ses'[t].pc = ses[t].pc /\ ses'[t].room = ses[t].room
  BY <1>1 DEF r
<1>9. ASSUME NEW d \in 1..nchans, NEW m, Coming(d, m)' PROVE Coming(d, m) /\ d # c
  <2>1. PICK t \in Sessions :
               /\ ses'[t].pc = "bcast" /\ ses'[t].room = chan'[d].room
               /\ m = Len(rooms'[chan'[d].room].log)
               /\ \E j \in ses'[t].next..Len(rooms'[chan'[d].room].connections) :
                     rooms'[chan'[d].room].connections[j] = d
    BY <1>9 DEF Coming
  <2>2. PICK j \in ses'[t].next..Len(rooms[chan[d].room].connections) :
               rooms[chan[d].room].connections[j] = d
    BY <1>1, <1>5, <2>1
  <2>3. /\ ses[t].pc = "bcast" /\ ses[t].room = chan[d].room
        /\ m = Len(rooms[chan[d].room].log)
    BY <1>1, <1>5, <1>8, <2>1
  <2>4. CASE t = s
    <3>1. chan[d].room = r /\ j \in (k + 1)..Len(rooms[r].connections)
      BY <1>1, <2>2, <2>3, <2>4 DEF r
    <3>2. j \in k..Len(rooms[r].connections) /\ j \in 1..Len(rooms[r].connections) /\ j # k
      BY <1>2, <1>1, <3>1
    <3>3. d # c
      BY <1>3, <2>2, <3>1, <3>2
    <3> QED
      BY <2>2, <2>3, <2>4, <3>1, <3>2, <3>3 DEF Coming, k
  <2>5. CASE t # s
    <3>1. ses'[t] = ses[t] /\ chan[d].room # r
      BY <1>1, <1>4, <2>3, <2>5
    <3> QED
      BY <1>1, <2>2, <2>3, <3>1 DEF Coming
  <2> QED
    BY <2>4, <2>5
<1>10. ASSUME NEW d \in 1..nchans, NEW m, Coming(d, m), d # c PROVE Coming(d, m)'
  <2>1. PICK t \in Sessions :
               /\ ses[t].pc = "bcast" /\ ses[t].room = chan[d].room
               /\ m = Len(rooms[chan[d].room].log)
               /\ \E j \in ses[t].next..Len(rooms[chan[d].room].connections) :
                     rooms[chan[d].room].connections[j] = d
    BY <1>10 DEF Coming
  <2>2. PICK j \in ses[t].next..Len(rooms[chan[d].room].connections) :
               rooms[chan[d].room].connections[j] = d
    BY <2>1
  <2>3. j \in ses'[t].next..Len(rooms[chan[d].room].connections)
    <3>1. CASE t = s
      <4>1. ses[s].next = k /\ ses'[s].next = k + 1 /\ chan[d].room = r
        BY <1>1, <2>1, <3>1 DEF k, r
      <4>2. j # k
        BY <1>10, <2>2, <4>1 DEF c
      <4> QED
        BY <1>2, <2>2, <3>1, <4>1, <4>2
    <3>2. CASE t # s
      BY <1>1, <2>2, <3>2
    <3> QED
      BY <3>1, <3>2
  <2> QED
    BY <1>1, <1>5, <1>8, <2>1, <2>2, <2>3 DEF Coming
<1> QED
  BY <1>6, <1>9, <1>10 DEF r, k, c, n

\* A turn of the loop keeps Delivery.
LEMMA DeliveryBroadcast ==
  ASSUME TypeInv, Membership, Delivery, NEW s \in Sessions, Broadcast(s)
  PROVE  Delivery'
<1> DEFINE r == ses[s].room
           k == ses[s].next
           c == rooms[r].connections[k]
           n == Len(rooms[r].log)
<1>1. /\ UNCHANGED <<rooms, nchans>>
      /\ ses[s].pc = "bcast" /\ r \in 1..Len(rooms) /\ k \in 1..Len(rooms[r].connections)
      /\ c \in 1..nchans /\ chan[c].room = r
      /\ \A t \in Sessions : t # s => ses'[t] = ses[t]
      /\ ses'[s].pc = "bcast" /\ ses'[s].room = r /\ ses'[s].next = k + 1
      /\ \A d \in ChanIds :
            /\ chan'[d].owner = chan[d].owner /\ chan'[d].room = chan[d].room
            /\ chan'[d].joined = chan[d].joined /\ chan'[d].closed = chan[d].closed
            /\ d # c => chan'[d].pushed = chan[d].pushed
      /\ \/ /\ ~chan[c].closed /\ chan[c].owner # s
            /\ chan'[c].pushed = Append(chan[c].pushed, n)
         \/ /\ chan[c].closed \/ chan[c].owner = s
            /\ chan'[c].pushed = chan[c].pushed
  BY BroadcastFacts
<1>2. /\ n \in Nat /\ n >= 1 /\ k \in Nat /\ rooms[r].log[n] = s /\ chan[c].joined < n
      /\ rooms[r].log \in Seq(Sessions) /\ chan[c].joined \in Nat /\ chan[c].pushed \in Seq(Nat)
      /\ Len(rooms[r].connections) \in Nat
  BY <1>1, Typed DEF Delivery, Broadcasting
<1>5. ASSUME NEW d \in 1..nchans
      PROVE  /\ d \in ChanIds /\ chan'[d].owner = chan[d].owner /\ chan'[d].room = chan[d].room
             /\ chan'[d].joined = chan[d].joined /\ chan'[d].closed = chan[d].closed
             /\ d # c => chan'[d].pushed = chan[d].pushed
  BY <1>1, Typed
<1> HIDE DEF r, k, c, n
<1>6. Coming(c, n)
  BY ComingBroadcast DEF c, k, r, n
<1>7. \A i \in 1..Len(chan[c].pushed) : chan[c].pushed[i] < n
  BY <1>1, <1>6 DEF Delivery, Untaken, n
<1>8. \A t \in Sessions : ses'[t].pc = ses[t].pc /\ ses'[t].room = ses[t].room
  BY <1>1 DEF r
<1>9. \A d \in 1..nchans : \A m : Coming(d, m)' => Coming(d, m) /\ d # c
  BY ComingBroadcast DEF c, k, r
<1>10. \A d \in 1..nchans : \A m : Coming(d, m) /\ d # c => Coming(d, m)'
  BY ComingBroadcast DEF c, k, r
<1>11. Connected'
  <2>1. ASSUME NEW t \in 1..Len(rooms), NEW i \in 1..Len(rooms[t].connections)
        PROVE  /\ rooms[t].connections[i] \in 1..nchans
               /\ chan'[rooms[t].connections[i]].room = t
    BY <1>5 DEF Delivery, Connected
  <2>2. ASSUME NEW d \in 1..nchans
        PROVE  \E i \in 1..Len(rooms[chan'[d].room].connections) :
                  rooms[chan'[d].room].connections[i] = d
    BY <1>5 DEF Delivery, Connected
  <2>3. ASSUME NEW d \in ChanIds, d \notin 1..nchans PROVE chan'[d].pushed = <<>>
    BY <1>1, <2>3 DEF Delivery, Connected
  <2>4. \A t \in 1..Len(rooms) : \A i, j \in 1..Len(rooms[t].connections) :
           rooms[t].connections[i] = rooms[t].connections[j] => i = j
    BY DEF Delivery, Connected
  <2>5. UNCHANGED <<rooms, nchans>>
    BY <1>1
  <2> QED
    <3>1. \A t \in 1..Len(rooms') : \A i \in 1..Len(rooms'[t].connections) :
             /\ rooms'[t].connections[i] \in 1..nchans'
             /\ chan'[rooms'[t].connections[i]].room = t
      BY <2>1, <2>5
    <3>2. \A t \in 1..Len(rooms') : \A i, j \in 1..Len(rooms'[t].connections) :
             rooms'[t].connections[i] = rooms'[t].connections[j] => i = j
      BY <2>4, <2>5
    <3>3. \A d \in 1..nchans' : \E i \in 1..Len(rooms'[chan'[d].room].connections) :
             rooms'[chan'[d].room].connections[i] = d
      BY <2>2, <2>5
    <3> QED
      BY <2>3, <2>5, <3>1, <3>2, <3>3 DEF Connected
<1>12. Broadcasting'
  <2>1. /\ \A t, u \in Sessions :
              ses'[t].pc = "bcast" /\ ses'[u].pc = "bcast" /\ ses'[t].room = ses'[u].room => t = u
        /\ \A t \in Sessions : ses'[t].pc = "bcast" =>
              /\ Len(rooms[ses'[t].room].log) >= 1
              /\ rooms[ses'[t].room].log[Len(rooms[ses'[t].room].log)] = t
    BY <1>8 DEF Delivery, Broadcasting
  <2>2. ASSUME NEW t \in Sessions, NEW d \in 1..nchans, ses'[t].pc = "bcast",
               chan'[d].room = ses'[t].room
        PROVE  chan'[d].joined < Len(rooms[ses'[t].room].log)
    BY <1>5, <1>8, <2>2 DEF Delivery, Broadcasting
  <2> QED
    BY <1>1, <2>1, <2>2 DEF Broadcasting
<1>13. Untaken'
  <2> SUFFICES ASSUME NEW d \in 1..nchans, Coming(d, Len(rooms[chan[d].room].log))'
               PROVE  \A i \in 1..Len(chan'[d].pushed) :
                         chan'[d].pushed[i] < Len(rooms[chan'[d].room].log)
    BY <1>1 DEF Untaken
  <2>1. Coming(d, Len(rooms[chan[d].room].log)) /\ d # c
    BY <1>1, <1>5, <1>9
  <2> QED
    BY <1>5, <2>1 DEF Delivery, Untaken
<1>14. AllInOrder'
  <2> SUFFICES ASSUME NEW d \in 1..nchans
               PROVE  InOrder(chan'[d].pushed, rooms[chan[d].room].log, chan[d].joined, chan[d].owner)
    BY <1>1, <1>5 DEF AllInOrder
  <2>1. InOrder(chan[d].pushed, rooms[chan[d].room].log, chan[d].joined, chan[d].owner)
    BY DEF Delivery, AllInOrder
  <2>2. CASE chan'[d].pushed = chan[d].pushed
    BY <2>1, <2>2
  <2>3. CASE chan'[d].pushed # chan[d].pushed
    <3>1. d = c /\ chan[c].owner # s /\ chan'[c].pushed = Append(chan[c].pushed, n)
      BY <1>1, <1>5, <2>3
    <3> DEFINE p == chan[c].pushed
               q == Append(p, n)
    <3>2. /\ Len(q) = Len(p) + 1 /\ q[Len(p) + 1] = n /\ Len(p) \in Nat
          /\ \A i \in 1..Len(p) : q[i] = p[i] /\ p[i] \in Nat /\ p[i] < n
      <4>1. p \in Seq(Nat) /\ n \in Nat /\ \A i \in 1..Len(p) : p[i] < n
        BY <1>2, <1>7
      <4> HIDE DEF p
      <4> QED
        BY <4>1
    <3>3. /\ \A i, j \in 1..Len(p) : i < j => p[i] < p[j]
          /\ \A i \in 1..Len(p) : /\ p[i] \in (chan[c].joined + 1)..n
                                  /\ rooms[r].log[p[i]] # chan[c].owner
      BY <1>1, <2>1, <3>1 DEF InOrder, n
    <3> HIDE DEF p, q
    <3>4. \A i \in 1..Len(q) : i \in 1..Len(p) \/ i = Len(p) + 1
      BY <3>2
    <3>5. ASSUME NEW i \in 1..Len(q), NEW j \in 1..Len(q), i < j PROVE q[i] < q[j]
      <4>1. i \in 1..Len(p)
        BY <3>2, <3>5
      <4> QED
        BY <3>2, <3>3, <3>4, <3>5, <4>1
    <3>6. ASSUME NEW i \in 1..Len(q)
          PROVE  q[i] \in (chan[c].joined + 1)..n /\ rooms[r].log[q[i]] # chan[c].owner
      <4>1. CASE i \in 1..Len(p)
        BY <3>2, <3>3, <4>1
      <4>2. CASE i = Len(p) + 1
        BY <1>2, <3>1, <3>2, <4>2
      <4> QED
        BY <3>4, <4>1, <4>2
    <3>7. InOrder(q, rooms[r].log, chan[c].joined, chan[c].owner)
      BY <3>5, <3>6 DEF InOrder, n
    <3> QED
      BY <1>1, <3>1, <3>7 DEF p, q
  <2> QED
    BY <2>2, <2>3
<1>15. DeliveredToAll'
  <2> SUFFICES ASSUME NEW d \in 1..nchans, NEW m \in (chan[d].joined + 1)..Len(rooms[chan[d].room].log)
               PROVE  \/ rooms[chan[d].room].log[m] = chan[d].owner
                      \/ \E i \in 1..Len(chan'[d].pushed) : chan'[d].pushed[i] = m
                      \/ Coming(d, m)'
                      \/ chan[d].closed /\ \A i \in 1..Len(chan'[d].pushed) : chan'[d].pushed[i] < m
    BY <1>1, <1>5, SMTT(30) DEF DeliveredToAll
  <2>1. \/ rooms[chan[d].room].log[m] = chan[d].owner
        \/ \E i \in 1..Len(chan[d].pushed) : chan[d].pushed[i] = m
        \/ Coming(d, m)
        \/ chan[d].closed /\ \A i \in 1..Len(chan[d].pushed) : chan[d].pushed[i] < m
    BY DEF Delivery, DeliveredToAll
  <2>2. CASE d # c
    BY <1>5, <1>10, <2>1, <2>2
  <2>3. CASE d = c /\ chan'[c].pushed = chan[c].pushed
    <3>1. CASE Coming(c, m)
      <4>1. m = n
        BY <1>1, <3>1 DEF Coming, n
      <4> QED
        BY <1>1, <1>2, <1>7, <2>3, <4>1
    <3> QED
      BY <2>1, <2>3, <3>1
  <2>4. CASE d = c /\ chan'[c].pushed # chan[c].pushed
    <3>1. ~chan[c].closed /\ chan'[c].pushed = Append(chan[c].pushed, n)
      BY <1>1, <2>4
    <3>2. /\ Len(chan'[c].pushed) = Len(chan[c].pushed) + 1 /\ Len(chan[c].pushed) \in Nat
          /\ chan'[c].pushed[Len(chan[c].pushed) + 1] = n
          /\ \A i \in 1..Len(chan[c].pushed) : chan'[c].pushed[i] = chan[c].pushed[i]
      BY <1>2, <3>1
    <3>3. Coming(c, m) => m = n
      BY <1>1 DEF Coming, n
    <3>4. \A i \in 1..Len(chan[c].pushed) : i \in 1..Len(chan'[c].pushed)
      BY <3>2
    <3>5. Len(chan[c].pushed) + 1 \in 1..Len(chan'[c].pushed)
      BY <3>2
    <3> QED
      BY <2>1, <2>4, <3>1, <3>2, <3>3, <3>4, <3>5
  <2> QED
    BY <2>2, <2>3, <2>4
<1> QED
  BY <1>11, <1>12, <1>13, <1>14, <1>15 DEF Delivery

\* What sub_to_room does to the room and to the new channel.
LEMMA SubToRoomFacts ==
  ASSUME TypeInv, NEW s \in Sessions, SubToRoom(s)
  PROVE  LET r == ses[s].room
             c == nchans + 1
         IN  /\ c \in ChanIds /\ c \notin 1..nchans /\ nchans' = c
             /\ \A d \in 1..nchans' : d \in 1..nchans \/ d = c
             /\ r \in 1..Len(rooms) /\ Len(rooms') = Len(rooms)
             /\ \A t \in 1..Len(rooms) : /\ rooms'[t].log = rooms[t].log
                                         /\ rooms'[t].name = rooms[t].name
                                         /\ t # r => rooms'[t] = rooms[t]
             /\ rooms'[r].connections = Append(rooms[r].connections, c)
             /\ \A d \in ChanIds : d # c => chan'[d] = chan[d]
             /\ chan'[c].owner = s /\ chan'[c].room = r /\ chan'[c].joined = Len(rooms[r].log)
             /\ chan'[c].pushed = chan[c].pushed /\ chan'[c].popped = chan[c].popped
             /\ chan'[c].closed = chan[c].closed /\ chan'[c].listener = "spawned"
             /\ \A t \in Sessions : t # s => ses'[t] = ses[t]
             /\ ses[s].pc = "sub_lock"
             /\ ses'[s].pc = "sub_reply" /\ ses'[s].room = r /\ ses'[s].chan = c
             /\ ses'[s].subs = ses[s].subs
             /\ \A t \in Sessions : ses[t].pc = "bcast" => t # s /\ ses[t].room # r
             /\ UNCHANGED wr
<1> DEFINE r == ses[s].room
           c == nchans + 1
           n == Len(rooms[r].log)
           x == Append(rooms[r].connections, c)
           ch == [chan[c] EXCEPT !.owner = s, !.room = r, !.joined = n, !.listener = "spawned"]
           v == [ses[s] EXCEPT !.pc = "sub_reply", !.chan = c]
<1>1. /\ ses[s].pc = "sub_lock" /\ nchans' = c /\ nchans < MaxChans
      /\ rooms' = [rooms EXCEPT ![r] = [rooms[r] EXCEPT !.connections = x]]
      /\ chan' = [chan EXCEPT ![c] = ch] /\ ses' = [ses EXCEPT ![s] = v]
      /\ \A t \in Sessions : ses[t].pc = "bcast" => t # s /\ ses[t].room # r
      /\ UNCHANGED wr
  BY DEF SubToRoom, Unlocked
<1>2. /\ rooms \in Seq(RoomType) /\ r \in 1..Len(rooms) /\ rooms[r] \in RoomType
      /\ chan \in [ChanIds -> ChanType] /\ ses \in [Sessions -> SessionType]
  BY <1>1 DEF TypeInv, TypeOK, References
<1>3. /\ nchans \in Nat /\ MaxChans \in Nat
  BY ServerAssumption DEF TypeInv, TypeOK
<1>4. /\ c \in ChanIds /\ c \notin 1..nchans /\ chan[c] \in ChanType
      /\ \A d \in 1..c : d \in 1..nchans \/ d = c
  BY <1>1, <1>2, <1>3 DEF ChanIds
<1>5. v.pc = "sub_reply" /\ v.room = r /\ v.chan = c /\ v.subs = ses[s].subs
  BY <1>2 DEF SessionType
<1> HIDE DEF r, c, n, x
<1>6. /\ ch.owner = s /\ ch.room = r /\ ch.joined = n /\ ch.pushed = chan[c].pushed
      /\ ch.popped = chan[c].popped /\ ch.closed = chan[c].closed /\ ch.listener = "spawned"
  BY <1>4 DEF ChanType
<1> HIDE DEF v, ch
<1>7. /\ [rooms[r] EXCEPT !.connections = x].log = rooms[r].log
      /\ [rooms[r] EXCEPT !.connections = x].name = rooms[r].name
      /\ [rooms[r] EXCEPT !.connections = x].connections = x
  BY <1>2 DEF RoomType
<1>8. /\ Len(rooms') = Len(rooms)
      /\ \A t \in 1..Len(rooms) : /\ rooms'[t].log = rooms[t].log
                                  /\ rooms'[t].name = rooms[t].name
                                  /\ t # r => rooms'[t] = rooms[t]
      /\ rooms'[r].connections = x
  BY <1>1, <1>2, <1>7
<1>9. chan'[c] = ch /\ \A d \in ChanIds : d # c => chan'[d] = chan[d]
  BY <1>1, <1>2, <1>4
<1>10. ses'[s] = v /\ \A t \in Sessions : t # s => ses'[t] = ses[t]
  BY <1>1, <1>2
<1> QED
  BY <1>1, <1>2, <1>4, <1>5, <1>6, <1>8, <1>9, <1>10 DEF r, c, n, x

\* Nothing is coming to a room that somebody enters.
LEMMA ComingSubToRoom ==
  ASSUME TypeInv, NEW s \in Sessions, SubToRoom(s)
  PROVE  \A d \in 1..nchans : \A n : Coming(d, n)' <=> Coming(d, n)
<1> DEFINE r == ses[s].room
           c == nchans + 1
<1>1. /\ c \in ChanIds /\ c \notin 1..nchans /\ nchans' = c
      /\ \A d \in 1..nchans' : d \in 1..nchans \/ d = c
      /\ r \in 1..Len(rooms) /\ Len(rooms') = Len(rooms)
      /\ \A t \in 1..Len(rooms) : /\ rooms'[t].log = rooms[t].log
                                  /\ t # r => rooms'[t] = rooms[t]
      /\ rooms'[r].connections = Append(rooms[r].connections, c)
      /\ \A d \in ChanIds : d # c => chan'[d] = chan[d]
  BY SubToRoomFacts
<1>3. /\ \A t \in Sessions : t # s => ses'[t] = ses[t]
      /\ ses[s].pc # "bcast" /\ ses'[s].pc # "bcast"
      /\ \A t \in Sessions : ses[t].pc = "bcast" => ses[t].room # r
  BY SubToRoomFacts
<1> HIDE DEF r
<1>7. ASSUME NEW d \in 1..nchans
      PROVE  /\ d \in ChanIds /\ d # c /\ chan'[d] = chan[d]
             /\ chan[d].room \in 1..Len(rooms)
             /\ rooms'[chan[d].room].log = rooms[chan[d].room].log
             /\ chan[d].room # r => rooms'[chan[d].room] = rooms[chan[d].room]
  BY <1>1, Typed
<1>8. ASSUME NEW t \in Sessions, ses'[t].pc = "bcast"
      PROVE  /\ ses'[t] = ses[t] /\ ses[t].pc = "bcast" /\ ses[t].room # r
             /\ ses[t].room \in 1..Len(rooms)
             /\ rooms'[ses[t].room] = rooms[ses[t].room]
  <2>1. ses'[t] = ses[t] /\ ses[t].pc = "bcast" /\ ses[t].room # r
    BY <1>3, <1>8
  <2>2. ses[t].room \in 1..Len(rooms)
    BY <2>1, Typed
  <2> QED
    BY <1>1, <2>1, <2>2
<1> HIDE DEF c
<1>11. ASSUME NEW d \in 1..nchans, NEW n
       PROVE  Coming(d, n)' <=> Coming(d, n)
  <2>1. chan'[d] = chan[d] /\ (chan[d].room # r => rooms'[chan[d].room] = rooms[chan[d].room])
    BY <1>7
  <2>2. CASE chan[d].room # r
    <3>1. rooms'[chan[d].room] = rooms[chan[d].room]
      BY <2>1, <2>2
    <3>2. \A t \in Sessions : ses[t].pc = "bcast" => ses'[t] = ses[t]
      BY <1>3
    <3> QED
      BY <1>8, <2>1, <3>1, <3>2 DEF Coming
  <2>3. CASE chan[d].room = r
    <3>1. ~Coming(d, n)
      BY <1>3, <2>3 DEF Coming
    <3>2. ~Coming(d, n)'
      BY <1>8, <2>1, <2>3 DEF Coming
    <3> QED
      BY <3>1, <3>2
  <2> QED
    BY <2>2, <2>3
<1> QED
  BY <1>11

\* A channel enters the room: it has missed nothing, and nothing is coming.
LEMMA DeliverySubToRoom ==
  ASSUME TypeInv, Delivery, NEW s \in Sessions, SubToRoom(s)
  PROVE  Delivery'
<1> DEFINE r == ses[s].room
           c == nchans + 1
           k == Len(rooms[r].connections)
<1>1. /\ c \in ChanIds /\ c \notin 1..nchans /\ nchans' = c
      /\ \A d \in 1..nchans' : d \in 1..nchans \/ d = c
      /\ r \in 1..Len(rooms) /\ Len(rooms') = Len(rooms)
      /\ \A t \in 1..Len(rooms) : /\ rooms'[t].log = rooms[t].log
                                  /\ t # r => rooms'[t] = rooms[t]
      /\ rooms'[r].connections = Append(rooms[r].connections, c)
      /\ \A d \in ChanIds : d # c => chan'[d] = chan[d]
  BY SubToRoomFacts
<1>2. /\ chan'[c].owner = s /\ chan'[c].room = r /\ chan'[c].joined = Len(rooms[r].log)
      /\ chan'[c].pushed = chan[c].pushed
  BY SubToRoomFacts
<1>3. /\ \A t \in Sessions : t # s => ses'[t] = ses[t]
      /\ ses[s].pc # "bcast" /\ ses'[s].pc # "bcast"
      /\ \A t \in Sessions : ses[t].pc = "bcast" => ses[t].room # r
  BY SubToRoomFacts
<1>4. /\ rooms[r].connections \in Seq(ChanIds) /\ k \in Nat /\ nchans \in Nat
      /\ Len(rooms[r].log) \in Nat
  BY <1>1, Typed
<1>5. chan'[c].pushed = <<>>
  BY <1>1, <1>2 DEF Delivery, Connected
<1> HIDE DEF r
<1>6. /\ Len(rooms'[r].connections) = k + 1 /\ rooms'[r].connections[k + 1] = c
      /\ \A i \in 1..k : rooms'[r].connections[i] = rooms[r].connections[i]
  <2> HIDE DEF c
  <2> QED
    BY <1>1, <1>4
<1>7. ASSUME NEW d \in 1..nchans
      PROVE  /\ d \in ChanIds /\ d # c /\ chan'[d] = chan[d]
             /\ chan[d].room \in 1..Len(rooms)
             /\ rooms'[chan[d].room].log = rooms[chan[d].room].log
             /\ chan[d].room # r => rooms'[chan[d].room] = rooms[chan[d].room]
  BY <1>1, Typed
<1>8. ASSUME NEW t \in Sessions, ses'[t].pc = "bcast"
      PROVE  /\ ses'[t] = ses[t] /\ ses[t].pc = "bcast" /\ ses[t].room # r
             /\ ses[t].room \in 1..Len(rooms)
             /\ rooms'[ses[t].room] = rooms[ses[t].room]
  <2>1. ses'[t] = ses[t] /\ ses[t].pc = "bcast" /\ ses[t].room # r
    BY <1>3, <1>8
  <2>2. ses[t].room \in 1..Len(rooms)
    BY <2>1, Typed
  <2> QED
    BY <1>1, <2>1, <2>2
<1> HIDE DEF c, k
<1>9. Connected'
  <2>1. ASSUME NEW t \in 1..Len(rooms'), NEW i \in 1..Len(rooms'[t].connections)
        PROVE  /\ rooms'[t].connections[i] \in 1..nchans'
               /\ chan'[rooms'[t].connections[i]].room = t
    <3>0. 1..nchans \subseteq 1..nchans' /\ c \in 1..nchans'
      BY <1>1, <1>4 DEF c
    <3>1. CASE t # r
      <4>1. t \in 1..Len(rooms) /\ rooms'[t] = rooms[t]
        BY <1>1, <3>1
      <4>2. rooms[t].connections[i] \in 1..nchans /\ chan[rooms[t].connections[i]].room = t
        BY <4>1 DEF Delivery, Connected
      <4> QED
        BY <1>7, <3>0, <4>1, <4>2
    <3>2. CASE t = r /\ i = k + 1
      BY <1>2, <1>6, <3>0, <3>2
    <3>3. CASE t = r /\ i # k + 1
      <4>1. i \in 1..k /\ rooms'[r].connections[i] = rooms[r].connections[i]
        BY <1>4, <1>6, <3>3
      <4>2. rooms[r].connections[i] \in 1..nchans /\ chan[rooms[r].connections[i]].room = r
        BY <1>1, <4>1 DEF Delivery, Connected, k
      <4> QED
        BY <1>7, <3>0, <3>3, <4>1, <4>2
    <3> QED
      BY <3>1, <3>2, <3>3
  <2>2. ASSUME NEW t \in 1..Len(rooms'), NEW i \in 1..Len(rooms'[t].connections),
               NEW j \in 1..Len(rooms'[t].connections),
               rooms'[t].connections[i] = rooms'[t].connections[j]
        PROVE  i = j
    <3>1. CASE t # r
      <4>1. t \in 1..Len(rooms) /\ rooms'[t] = rooms[t]
        BY <1>1, <3>1
      <4> QED
        BY <2>2, <4>1 DEF Delivery, Connected
    <3>2. CASE t = r
      <4>1. \A h \in 1..k : rooms[r].connections[h] \in 1..nchans
        BY <1>1 DEF Delivery, Connected, k
      <4>2. \A h \in 1..k : rooms'[r].connections[h] # c
        BY <1>1, <1>6, <4>1
      <4>3. i \in 1..(k + 1) /\ j \in 1..(k + 1)
        BY <1>6, <2>2, <3>2
      <4>4. i \in 1..k <=> j \in 1..k
        BY <1>4, <1>6, <2>2, <3>2, <4>2, <4>3
      <4>5. CASE i \in 1..k /\ j \in 1..k
        <5>1. rooms[r].connections[i] = rooms[r].connections[j]
          BY <1>6, <2>2, <3>2, <4>5
        <5> QED
          BY <1>1, <4>5, <5>1 DEF Delivery, Connected, k
      <4>6. CASE i \notin 1..k /\ j \notin 1..k
        BY <1>4, <4>3, <4>6
      <4> QED
        BY <4>4, <4>5, <4>6
    <3> QED
      BY <3>1, <3>2
  <2>3. ASSUME NEW d \in 1..nchans'
        PROVE  \E i \in 1..Len(rooms'[chan'[d].room].connections) :
                  rooms'[chan'[d].room].connections[i] = d
    <3>1. CASE d = c
      BY <1>2, <1>4, <1>6, <3>1
    <3>2. CASE d \in 1..nchans
      <4>1. chan'[d] = chan[d]
        BY <1>7, <3>2
      <4>2. PICK i \in 1..Len(rooms[chan[d].room].connections) :
                   rooms[chan[d].room].connections[i] = d
        BY <3>2 DEF Delivery, Connected
      <4>3. CASE chan[d].room # r
        BY <1>7, <3>2, <4>1, <4>2, <4>3
      <4>4. CASE chan[d].room = r
        <5>1. i \in 1..k /\ i \in 1..(k + 1)
          BY <1>4, <4>2, <4>4 DEF k
        <5> QED
          BY <1>6, <4>1, <4>2, <4>4, <5>1
      <4> QED
        BY <4>3, <4>4
    <3> QED
      BY <1>1, <3>1, <3>2
  <2>4. ASSUME NEW d \in ChanIds, d \notin 1..nchans' PROVE chan'[d].pushed = <<>>
    <3>1. d # c /\ d \notin 1..nchans
      BY <1>1, <1>4, <2>4 DEF c
    <3> QED
      BY <1>1, <3>1 DEF Delivery, Connected
  <2> QED
    BY <2>1, <2>2, <2>3, <2>4 DEF Connected
<1>10. Broadcasting'
  <2>1. ASSUME NEW t \in Sessions, NEW u \in Sessions, ses'[t].pc = "bcast", ses'[u].pc = "bcast",
               ses'[t].room = ses'[u].room
        PROVE  t = u
    BY <1>8, <2>1 DEF Delivery, Broadcasting
  <2>2. ASSUME NEW t \in Sessions, ses'[t].pc = "bcast"
        PROVE  /\ Len(rooms'[ses'[t].room].log) >= 1
               /\ rooms'[ses'[t].room].log[Len(rooms'[ses'[t].room].log)] = t
    BY <1>8, <2>2 DEF Delivery, Broadcasting
  <2>3. ASSUME NEW t \in Sessions, NEW d \in 1..nchans', ses'[t].pc = "bcast",
               chan'[d].room = ses'[t].room
        PROVE  chan'[d].joined < Len(rooms'[ses'[t].room].log)
    <3>1. d \in 1..nchans
      BY <1>1, <1>2, <1>8, <2>3
    <3>2. chan'[d] = chan[d]
      BY <1>7, <3>1
    <3> QED
      BY <1>8, <2>3, <3>1, <3>2 DEF Delivery, Broadcasting
  <2> QED
    BY <2>1, <2>2, <2>3 DEF Broadcasting
<1>11. \A d \in 1..nchans : \A n : Coming(d, n)' <=> Coming(d, n)
  BY ComingSubToRoom
<1>12. Untaken'
  <2> SUFFICES ASSUME NEW d \in 1..nchans', Coming(d, Len(rooms[chan[d].room].log))'
               PROVE  \A i \in 1..Len(chan'[d].pushed) :
                         chan'[d].pushed[i] < Len(rooms'[chan'[d].room].log)
    BY DEF Untaken
  <2>1. CASE d = c
    BY <1>5, <2>1
  <2>2. CASE d \in 1..nchans
    <3>1. chan'[d] = chan[d] /\ rooms'[chan[d].room].log = rooms[chan[d].room].log
      BY <1>7, <2>2
    <3>2. Coming(d, Len(rooms[chan[d].room].log))
      BY <1>11, <2>2, <3>1
    <3> QED
      BY <2>2, <3>1, <3>2 DEF Delivery, Untaken
  <2> QED
    BY <1>1, <2>1, <2>2
<1>13. AllInOrder'
  <2> SUFFICES ASSUME NEW d \in 1..nchans'
               PROVE  InOrder(chan'[d].pushed, rooms'[chan'[d].room].log,
                              chan'[d].joined, chan'[d].owner)
    BY DEF AllInOrder
  <2>1. CASE d = c
    BY <1>5, <2>1 DEF InOrder
  <2>2. CASE d \in 1..nchans
    BY <1>7, <2>2 DEF Delivery, AllInOrder
  <2> QED
    BY <1>1, <2>1, <2>2
<1>14. DeliveredToAll'
  <2> SUFFICES ASSUME NEW d \in 1..nchans',
                      NEW n \in (chan'[d].joined + 1)..Len(rooms'[chan'[d].room].log)
               PROVE  \/ rooms'[chan'[d].room].log[n] = chan'[d].owner
                      \/ \E i \in 1..Len(chan'[d].pushed) : chan'[d].pushed[i] = n
                      \/ Coming(d, n)'
                      \/ /\ chan'[d].closed
                         /\ \A i \in 1..Len(chan'[d].pushed) : chan'[d].pushed[i] < n
    BY DEF DeliveredToAll
  <2>1. CASE d = c
    <3>1. rooms'[r].log = rooms[r].log
      BY <1>1
    <3> QED
      BY <1>2, <1>4, <2>1, <3>1
  <2>2. CASE d \in 1..nchans
    <3>1. DeliveredToAll
      BY DEF Delivery
    <3> QED
      BY <1>7, <1>11, <2>2, <3>1, SMTT(30) DEF DeliveredToAll
  <2> QED
    BY <1>1, <2>1, <2>2
<1> QED
  BY <1>9, <1>10, <1>12, <1>13, <1>14 DEF Delivery

\* Every step of the server keeps Delivery.
LEMMA DeliveryStep ==
  ASSUME TypeInv, Membership, Admitted, Delivery, [Next]_vars
  PROVE  Delivery'
BY DeliverySteps, DeliveryKeeps, DeliverySubToRoom, DeliveryMsgLock, DeliveryBroadcast,
   DeliveryMsgUnlock

\* Delivery holds throughout.
LEMMA DeliveryInvariant == Spec => []Delivery
<1>1. Init => Admitted
  BY ServerAssumption DEF Init, Admitted, OnlySubscribersBroadcast, ChanIds
<1>2. TypeInv /\ Membership /\ Admitted /\ [Next]_vars => Admitted'
  BY AdmittedStep
<1>3. Init => Delivery
  BY DEF Init, Delivery, Connected, Broadcasting, Untaken, AllInOrder, DeliveredToAll
<1>4. TypeInv /\ Membership /\ Admitted /\ Delivery /\ [Next]_vars => Delivery'
  BY DeliveryStep
<1> QED
  BY <1>1, <1>2, <1>3, <1>4, TypeInvariant, MembershipInvariant, PTL DEF Spec

\* Whatever the sessions do at the same time, the channel of a subscriber takes
\* the messages of its room in the order in which the room's mutex admitted
\* them, none twice, none from before the subscription and none of its own.
THEOREM InOrderDelivery == Spec => []DeliveredInOrder
<1>1. Delivery => DeliveredInOrder
  BY DEF Delivery, AllInOrder, InOrder, DeliveredInOrder
<1> QED
  BY <1>1, DeliveryInvariant, PTL

\* The loop over the room's connections leaves nobody out: a message misses a
\* channel only if it is the subscriber's own or the channel was closed.
THEOREM CompleteDelivery == Spec => []DeliveredToAll
<1>1. Delivery => DeliveredToAll
  BY DEF Delivery
<1> QED
  BY <1>1, DeliveryInvariant, PTL
=============================================================================
