-------------------------- MODULE Multicast_proofs --------------------------
(***************************************************************************)
(* What the subscribers get.  The chat rooms implement the multicast: each *)
(* step of the server is a step of module Multicast or leaves its state    *)
(* alone.  And what the server writes to a client: messages of a room in   *)
(* their order, and after the confirmation when there is one thread.       *)
(***************************************************************************)
EXTENDS Delivery_proofs, FiniteSetTheorems

\* A channel that was not made yet is as Init left it.
Fresh ==
    \A c \in ChanIds : c \notin 1..nchans =>
        /\ chan[c].owner = NoSession /\ chan[c].room = 0 /\ chan[c].pushed = <<>>
        /\ chan[c].popped = 0 /\ chan[c].closed = FALSE

\* The states of a session that has begun to clean up.
Leaving == {"cleanup", "returning", "ended"}

\* A session that still serves its client has all its channels open.
OpenWhileServing ==
    \A c \in 1..nchans : chan[c].closed => ses[chan[c].owner].pc \in Leaving

\* sub_to_room, a broadcast, cleanup() and a listener change channels.
LEMMA ChanSteps ==
  ASSUME TypeInv, [Next]_vars
  PROVE  \/ UNCHANGED <<chan, nchans>>
         \/ \E c \in ChanIds : Listener(c)
         \/ \E s \in Sessions : SubToRoom(s) \/ Broadcast(s) \/ CloseSubscription(s)
<1>1. ASSUME NEW s \in Sessions, Client(s) PROVE UNCHANGED <<chan, nchans>>
  BY <1>1 DEF Client, Accept, ReceiveError, ReceiveEmpty, ReceiveUnknown, ReceiveDesub,
              ReceiveSub, ReceiveCsub, ReceiveMsg, Refuse
<1>2. ASSUME NEW s \in Sessions, Session(s)
      PROVE  UNCHANGED <<chan, nchans>> \/ SubToRoom(s) \/ Broadcast(s) \/ CloseSubscription(s)
  BY <1>2 DEF Session, SubReply, MsgReject, MsgLock, MsgUnlock, CloseWriteChan, Return
<1>3. ASSUME NEW s \in Sessions, Writer(s) PROVE UNCHANGED <<chan, nchans>>
  BY <1>3 DEF Writer, WriterSend, WriterAbort, SendDone, SendFail
<1>4. CASE UNCHANGED vars
  BY <1>4 DEF vars
<1> QED
  BY <1>1, <1>2, <1>3, <1>4 DEF Next, Quiet

\* Session s closes its channel c.
Closes(s, c) ==
    /\ c \in ChanIds /\ chan[c].owner = s /\ ses[s].pc = "cleanup" /\ ~chan[c].closed
    /\ UNCHANGED <<rooms, nchans, ses, wr>>
    /\ \A d \in ChanIds :
          /\ chan'[d].owner = chan[d].owner /\ chan'[d].room = chan[d].room
          /\ chan'[d].joined = chan[d].joined /\ chan'[d].pushed = chan[d].pushed
          /\ chan'[d].popped = chan[d].popped
          /\ d # c => chan'[d] = chan[d]
    /\ chan'[c].closed = TRUE

\* cleanup() closes one channel that the session made.
LEMMA CloseFacts ==
  ASSUME TypeInv, Membership, NEW s \in Sessions, CloseSubscription(s)
  PROVE  \E c \in 1..nchans : Closes(s, c)
<1>1. PICK c \in ses[s].subs : ~chan[c].closed /\ chan' = [chan EXCEPT ![c].closed = TRUE]
  BY DEF CloseSubscription, OpenSubscriptions
<1>2. /\ ses[s].pc = "cleanup" /\ UNCHANGED <<rooms, nchans, ses, wr>>
  BY DEF CloseSubscription
<1>3. c \in ChanIds /\ c <= nchans /\ chan[c].owner = s
  BY DEF TypeInv, TypeOK, SessionType, Membership
<1>4. c \in 1..nchans
  BY <1>3, Typed DEF ChanIds
<1>5. chan \in [ChanIds -> ChanType] /\ chan[c] \in ChanType
  BY <1>3 DEF TypeInv, TypeOK
<1>6. /\ [chan[c] EXCEPT !.closed = TRUE].owner = chan[c].owner
      /\ [chan[c] EXCEPT !.closed = TRUE].room = chan[c].room
      /\ [chan[c] EXCEPT !.closed = TRUE].joined = chan[c].joined
      /\ [chan[c] EXCEPT !.closed = TRUE].pushed = chan[c].pushed
      /\ [chan[c] EXCEPT !.closed = TRUE].popped = chan[c].popped
      /\ [chan[c] EXCEPT !.closed = TRUE].closed = TRUE
  BY <1>5 DEF ChanType
<1>7. \A d \in ChanIds : chan'[d] = IF d = c THEN [chan[c] EXCEPT !.closed = TRUE] ELSE chan[d]
  BY <1>1, <1>3, <1>5
<1> QED
  BY <1>1, <1>2, <1>3, <1>4, <1>6, <1>7 DEF Closes

\* A listener takes at most one message from a channel that was made.
LEMMA ListenFacts ==
  ASSUME TypeInv, NEW c \in ChanIds, Listener(c)
  PROVE  /\ UNCHANGED <<rooms, nchans, ses>> /\ c \in 1..nchans
         /\ \A d \in ChanIds :
               /\ chan'[d].owner = chan[d].owner /\ chan'[d].room = chan[d].room
               /\ chan'[d].joined = chan[d].joined /\ chan'[d].pushed = chan[d].pushed
               /\ chan'[d].closed = chan[d].closed
               /\ d # c => chan'[d] = chan[d]
         /\ \/ chan'[c].popped = chan[c].popped
            \/ chan[c].popped < Len(chan[c].pushed) /\ chan'[c].popped = chan[c].popped + 1
<1>1. chan \in [ChanIds -> ChanType] /\ chan[c] \in ChanType
  BY DEF TypeInv, TypeOK
<1>2. UNCHANGED <<rooms, nchans, ses>> /\ chan[c].listener # "none"
  BY DEF Listener, ListenStart, ListenForward, ListenAbort
<1>3. c \in 1..nchans
  BY <1>2, Typed DEF TypeInv, References, ChanIds
<1>4. \A d \in ChanIds : d # c => chan'[d] = chan[d]
  BY <1>1 DEF Listener, ListenStart, ListenForward, ListenAbort
<1>5. /\ chan'[c].owner = chan[c].owner /\ chan'[c].room = chan[c].room
      /\ chan'[c].joined = chan[c].joined /\ chan'[c].pushed = chan[c].pushed
      /\ chan'[c].closed = chan[c].closed
      /\ \/ chan'[c].popped = chan[c].popped
         \/ chan[c].popped < Len(chan[c].pushed) /\ chan'[c].popped = chan[c].popped + 1
  <2>1. CASE ListenStart(c)
    BY <1>1, <2>1 DEF ListenStart, ChanType
  <2>2. CASE ListenForward(c)
    BY <1>1, <2>2 DEF ListenForward, ChanType
  <2>3. CASE ListenAbort(c)
    BY <1>1, <2>3 DEF ListenAbort, ChanType
  <2> QED
    BY <2>1, <2>2, <2>3 DEF Listener
<1> QED
  BY <1>2, <1>3, <1>4, <1>5

\* A session that has begun to clean up does nothing else any more.
LEMMA LeavingStays ==
  ASSUME TypeInv, [Next]_vars, NEW t \in Sessions, ses[t].pc \in Leaving
  PROVE  ses'[t].pc \in Leaving
<1>0. ses \in [Sessions -> SessionType] /\ ses[t] \in SessionType
  BY DEF TypeInv, TypeOK
<1>1. ASSUME NEW s \in Sessions, Client(s) PROVE ses'[t] = ses[t]
  <2>1. ses[s].pc \in {"new", "reading"}
    BY <1>1 DEF Client, Accept, ReceiveError, ReceiveEmpty, ReceiveUnknown, ReceiveDesub,
                ReceiveSub, ReceiveCsub, ReceiveMsg, GetsLine
  <2>2. \E v : ses' = [ses EXCEPT ![s] = v]
    <3>1. CASE Accept(s) \/ ReceiveError(s)
      BY <3>1 DEF Accept, ReceiveError
    <3>2. ASSUME NEW pc, GoOn(s, pc) PROVE \E v : ses' = [ses EXCEPT ![s] = v]
      BY <3>2 DEF GoOn
    <3>3. ASSUME NEW pc, NEW r, NEW reply, GoOnWith(s, pc, r, reply)
          PROVE  \E v : ses' = [ses EXCEPT ![s] = v]
      BY <3>3 DEF GoOnWith
    <3>4. ASSUME NEW q \in Requests[s],
                 ReceiveEmpty(s, q) \/ ReceiveUnknown(s, q) \/ ReceiveDesub(s, q)
                   \/ ReceiveSub(s, q) \/ ReceiveCsub(s, q) \/ ReceiveMsg(s, q)
          PROVE  \E pc : GoOn(s, pc) \/ \E r, reply : GoOnWith(s, pc, r, reply)
      BY <3>4 DEF ReceiveEmpty, ReceiveUnknown, ReceiveDesub, ReceiveSub, ReceiveCsub,
                  ReceiveMsg, Refuse
    <3> QED
      BY <1>1, <3>1, <3>2, <3>3, <3>4 DEF Client
  <2> QED
    BY <1>0, <2>1, <2>2 DEF Leaving
<1>2. ASSUME NEW s \in Sessions, Session(s) PROVE ses'[t].pc \in Leaving
  <2>1. CASE SubToRoom(s) \/ SubReply(s) \/ MsgReject(s) \/ MsgLock(s) \/ Broadcast(s)
             \/ MsgUnlock(s)
    <3>1. s # t
      BY <2>1 DEF SubToRoom, SubReply, MsgReject, MsgLock, Broadcast, MsgUnlock, Leaving
    <3>2. \E v : ses' = [ses EXCEPT ![s] = v]
      BY <2>1 DEF SubToRoom, SubReply, MsgReject, MsgLock, Broadcast, MsgUnlock
    <3> QED
      BY <1>0, <3>1, <3>2
  <2>2. CASE CloseSubscription(s)
    BY <2>2 DEF CloseSubscription
  <2>3. CASE CloseWriteChan(s) \/ Return(s)
    <3>1. PICK pc \in Leaving : ses' = [ses EXCEPT ![s].pc = pc]
      BY <2>3 DEF CloseWriteChan, Return, Leaving
    <3>2. ses'[t] = ses[t] \/ ses'[t] = [ses[t] EXCEPT !.pc = pc]
      BY <1>0, <3>1
    <3> QED
      BY <1>0, <3>2 DEF SessionType
  <2> QED
    BY <1>2, <2>1, <2>2, <2>3 DEF Session
<1>3. ASSUME NEW s \in Sessions, Writer(s) PROVE UNCHANGED ses
  BY <1>3 DEF Writer, WriterSend, WriterAbort, SendDone, SendFail
<1>4. ASSUME NEW c \in ChanIds, Listener(c) PROVE UNCHANGED ses
  BY <1>4, ListenFacts
<1>5. CASE UNCHANGED vars
  BY <1>5 DEF vars
<1> QED
  BY <1>1, <1>2, <1>3, <1>4, <1>5 DEF Next, Quiet

\* Every step keeps both.
LEMMA FreshStep ==
  ASSUME TypeInv, Membership, Delivery, Fresh, [Next]_vars
  PROVE  Fresh'
<1>1. ASSUME \A c \in ChanIds : c \notin 1..nchans => chan'[c] = chan[c], nchans' = nchans
      PROVE  Fresh'
  BY <1>1 DEF Fresh
<1>2. ASSUME NEW c \in ChanIds, Listener(c) PROVE Fresh'
  BY <1>1, <1>2, ListenFacts
<1>3. ASSUME NEW s \in Sessions, CloseSubscription(s) PROVE Fresh'
  BY <1>1, <1>3, CloseFacts DEF Closes
<1>4. ASSUME NEW s \in Sessions, Broadcast(s) PROVE Fresh'
  <2> DEFINE c == rooms[ses[s].room].connections[ses[s].next]
  <2>1. /\ c \in 1..nchans /\ nchans' = nchans
        /\ \A d \in ChanIds :
              /\ chan'[d].owner = chan[d].owner /\ chan'[d].room = chan[d].room
              /\ chan'[d].closed = chan[d].closed /\ chan'[d].popped = chan[d].popped
              /\ d # c => chan'[d].pushed = chan[d].pushed
    BY <1>4, BroadcastFacts
  <2> HIDE DEF c
  <2> QED
    BY <2>1 DEF Fresh
<1>5. ASSUME NEW s \in Sessions, SubToRoom(s) PROVE Fresh'
  <2> DEFINE c == nchans + 1
  <2>1. nchans \in Nat /\ nchans' = c /\ \A d \in ChanIds : d # c => chan'[d] = chan[d]
    BY <1>5, SubToRoomFacts, Typed
  <2>2. \A d \in ChanIds : d \notin 1..nchans' => d # c /\ d \notin 1..nchans
    BY <2>1
  <2> HIDE DEF c
  <2> QED
    BY <2>1, <2>2 DEF Fresh
<1> QED
  BY <1>1, <1>2, <1>3, <1>4, <1>5, ChanSteps

\* Only cleanup() closes a channel, so the invariant stays.
LEMMA OpenStep ==
  ASSUME TypeInv, Membership, Delivery, Fresh, OpenWhileServing, [Next]_vars
  PROVE  OpenWhileServing'
<1>0. ASSUME NEW c \in 1..nchans
      PROVE  c \in ChanIds /\ chan[c].owner \in Sessions
  BY Typed DEF Membership
<1>1. \A s \in Sessions : ses[s].pc \in Leaving => ses'[s].pc \in Leaving
  BY LeavingStays
<1>2. ASSUME nchans' = nchans,
             \A c \in 1..nchans : /\ chan'[c].owner = chan[c].owner
                                  /\ \/ chan'[c].closed = chan[c].closed
                                     \/ ses[chan[c].owner].pc \in Leaving
      PROVE  OpenWhileServing'
  BY <1>0, <1>1, <1>2 DEF OpenWhileServing
<1>3. ASSUME NEW c \in ChanIds, Listener(c) PROVE OpenWhileServing'
  BY <1>0, <1>2, <1>3, ListenFacts
<1>4. ASSUME NEW s \in Sessions, CloseSubscription(s) PROVE OpenWhileServing'
  <2>1. PICK c \in 1..nchans : Closes(s, c)
    BY <1>4, CloseFacts
  <2> QED
    BY <1>0, <1>2, <2>1 DEF Leaving, Closes
<1>5. ASSUME NEW s \in Sessions, Broadcast(s) PROVE OpenWhileServing'
  <2>1. /\ nchans' = nchans
        /\ \A d \in ChanIds : /\ chan'[d].owner = chan[d].owner
                              /\ chan'[d].closed = chan[d].closed
    BY <1>5, BroadcastFacts
  <2> QED
    BY <1>0, <1>2, <2>1
<1>6. ASSUME NEW s \in Sessions, SubToRoom(s) PROVE OpenWhileServing'
  <2> DEFINE c == nchans + 1
  <2>1. /\ c \in ChanIds /\ c \notin 1..nchans
        /\ \A d \in 1..nchans' : d \in 1..nchans \/ d = c
        /\ \A d \in ChanIds : d # c => chan'[d] = chan[d]
        /\ chan'[c].closed = chan[c].closed
    BY <1>6, SubToRoomFacts
  <2>2. chan'[c].closed = FALSE
    BY <2>1 DEF Fresh
  <2> HIDE DEF c
  <2> QED
    BY <1>0, <1>1, <2>1, <2>2 DEF OpenWhileServing
<1>7. CASE UNCHANGED <<chan, nchans>>
  BY <1>2, <1>7
<1> QED
  BY <1>3, <1>4, <1>5, <1>6, <1>7, ChanSteps
-----------------------------------------------------------------------------
(* The steps of the multicast *)

\* The fields of a box.
LEMMA BoxFields ==
  ASSUME NEW c \in ChanIds
  PROVE  /\ Box[c] = [owner |-> chan[c].owner, room |-> chan[c].room, in |-> Posted(c),
                      out |-> chan[c].popped, open |-> ~chan[c].closed]
         /\ Box[c].owner = chan[c].owner /\ Box[c].room = chan[c].room
         /\ Box[c].in = Posted(c) /\ Box[c].out = chan[c].popped
         /\ Box[c].open = ~chan[c].closed
BY DEF Box

\* The same after a step.
LEMMA BoxFieldsPrimed ==
  ASSUME NEW c \in ChanIds
  PROVE  Box'[c] = [owner |-> chan'[c].owner, room |-> chan'[c].room, in |-> Posted(c)',
                    out |-> chan'[c].popped, open |-> ~chan'[c].closed]
BY DEF Box

\* A box changes only if one of its parts does.
LEMMA BoxSame ==
  ASSUME NEW c \in ChanIds,
         chan'[c].owner = chan[c].owner, chan'[c].room = chan[c].room,
         chan'[c].popped = chan[c].popped, chan'[c].closed = chan[c].closed,
         Posted(c)' = Posted(c)
  PROVE  Box'[c] = Box[c]
BY BoxFields, BoxFieldsPrimed

\* All boxes but one stay as they are.
LEMMA BoxExcept ==
  ASSUME NEW c \in ChanIds, NEW x, Box'[c] = x,
         \A d \in ChanIds : d # c => Box'[d] = Box[d]
  PROVE  Box' = [Box EXCEPT ![c] = x]
<1>1. Box' = [d \in ChanIds |-> Box'[d]] /\ Box = [d \in ChanIds |-> Box[d]]
  BY DEF Box
<1> QED
  BY <1>1

\* All boxes stay as they are.
LEMMA BoxUnchanged ==
  ASSUME \A d \in ChanIds : Box'[d] = Box[d]
  PROVE  Box' = Box
<1>1. Box' = [d \in ChanIds |-> Box'[d]] /\ Box = [d \in ChanIds |-> Box[d]]
  BY DEF Box
<1> QED
  BY <1>1

\* A step that keeps the rooms' logs.
LEMMA LogsUnchanged ==
  ASSUME Len(rooms') = Len(rooms), \A r \in 1..Len(rooms) : rooms'[r].log = rooms[r].log
  PROVE  Logs' = Logs
BY DEF Logs

\* Nothing is on its way to a channel that was not made.
LEMMA NothingOnItsWay ==
  ASSUME TypeInv, NEW c \in ChanIds, c \notin 1..nchans
  PROVE  Posted(c) = chan[c].pushed
<1>1. ~(c <= nchans)
  BY Typed DEF ChanIds
<1> QED
  BY <1>1 DEF Posted, OnItsWay

\* The same after a step.
LEMMA NothingOnItsWayPrimed ==
  ASSUME TypeInv', NEW c \in ChanIds, c \notin 1..nchans'
  PROVE  Posted(c)' = chan'[c].pushed
<1>1. ~(c <= nchans')
  <2>1. nchans' \in 0..MaxChans /\ MaxChans \in Nat
    BY ServerAssumption DEF TypeInv, TypeOK
  <2> QED
    BY <2>1 DEF ChanIds
<1> QED
  BY <1>1 DEF Posted, OnItsWay

\* What counts as posted stays what it was when the channel, its room's log
\* and the broadcasts that are coming to it do.
LEMMA PostedSame ==
  ASSUME NEW c \in ChanIds,
         c <= nchans' <=> c <= nchans,
         chan'[c].room = chan[c].room, chan'[c].owner = chan[c].owner,
         chan'[c].closed = chan[c].closed, chan'[c].pushed = chan[c].pushed,
         rooms'[chan[c].room].log = rooms[chan[c].room].log,
         \A n : Coming(c, n)' <=> Coming(c, n)
  PROVE  Posted(c)' = Posted(c)
<1> DEFINE n == Len(rooms[chan[c].room].log)
<1>1. /\ OnItsWay(c) <=> /\ c <= nchans /\ ~chan[c].closed
                         /\ Coming(c, n)
                         /\ rooms[chan[c].room].log[n] # chan[c].owner
      /\ Posted(c) = IF OnItsWay(c) THEN Append(chan[c].pushed, n) ELSE chan[c].pushed
  BY DEF OnItsWay, Posted
<1>2. ASSUME NEW m, m = n
      PROVE  /\ OnItsWay(c)' <=> /\ c <= nchans' /\ ~chan'[c].closed
                                 /\ Coming(c, m)'
                                 /\ rooms'[chan'[c].room].log[m] # chan'[c].owner
             /\ Posted(c)' = IF OnItsWay(c)' THEN Append(chan'[c].pushed, m) ELSE chan'[c].pushed
  <2>1. Len(rooms'[chan'[c].room].log) = m
    BY <1>2
  <2>2. Coming(c, Len(rooms[chan[c].room].log))' <=> Coming(c, m)'
    BY <2>1 DEF Coming
  <2> QED
    BY <2>1, <2>2 DEF OnItsWay, Posted
<1> QED
  BY <1>1, <1>2

\* A step that delivers nothing posts nothing.
LEMMA PostedKept ==
  ASSUME TypeInv, DeliveryKept, NEW c \in ChanIds, chan'[c].closed = chan[c].closed
  PROVE  Posted(c)' = Posted(c)
<1>1. /\ nchans' = nchans /\ chan'[c].room = chan[c].room /\ chan'[c].owner = chan[c].owner
      /\ chan'[c].pushed = chan[c].pushed
  BY DEF DeliveryKept
<1>2. CASE c \in 1..nchans
  <2>1. rooms'[chan[c].room].log = rooms[chan[c].room].log
    BY <1>2, Typed DEF DeliveryKept
  <2>2. \A n : Coming(c, n)' <=> Coming(c, n)
    BY <1>2, ComingKept
  <2> QED
    BY <1>1, <2>1, <2>2, PostedSame
<1>3. CASE c \notin 1..nchans
  <2>1. ~(c <= nchans) /\ ~(c <= nchans')
    BY <1>1, <1>3, Typed DEF ChanIds
  <2>2. Posted(c)' = chan'[c].pushed /\ Posted(c) = chan[c].pushed
    BY <2>1 DEF Posted, OnItsWay
  <2> QED
    BY <1>1, <2>2
<1> QED
  BY <1>2, <1>3

\* csub opens a room; whatever else leaves the channels alone and is no part of
\* a broadcast is nothing to the subscribers.
LEMMA MulticastQuiet ==
  ASSUME TypeInv, [Next]_vars, DeliveryKept, UNCHANGED <<chan, nchans>>
  PROVE  [M!Next]_M!multicastVars
<1>1. Box' = Box
  <2>1. \A c \in ChanIds : Posted(c)' = Posted(c)
    BY PostedKept
  <2>2. \A c \in ChanIds : Box'[c] = Box[c]
    BY <2>1, BoxSame
  <2> QED
    BY <2>2, BoxUnchanged
<1>2. CASE RoomsKept
  <2>1. Logs' = Logs
    BY <1>2, LogsUnchanged DEF RoomsKept
  <2> QED
    BY <1>1, <2>1 DEF M!multicastVars
<1>3. ASSUME NEW n \in Names,
             rooms' = Append(rooms, [id |-> Len(rooms) + 1, name |-> n,
                                     connections |-> <<>>, log |-> <<>>])
      PROVE  M!Open
  <2> DEFINE new == [id |-> Len(rooms) + 1, name |-> n, connections |-> <<>>, log |-> <<>>]
  <2>1. rooms \in Seq(RoomType) /\ Len(rooms) \in Nat /\ new.log = <<>>
    BY DEF TypeInv, TypeOK
  <2> HIDE DEF new
  <2>2. /\ Len(rooms') = Len(rooms) + 1 /\ rooms'[Len(rooms) + 1] = new
        /\ \A r \in 1..Len(rooms) : rooms'[r] = rooms[r]
    BY <1>3, <2>1 DEF new
  <2>3. Logs' = [r \in 1..(Len(rooms) + 1) |->
                    IF r = Len(rooms) + 1 THEN <<>> ELSE rooms[r].log]
    BY <2>1, <2>2 DEF Logs
  <2>4. Append(Logs, <<>>) = [r \in 1..(Len(rooms) + 1) |->
                                IF r = Len(rooms) + 1 THEN <<>> ELSE rooms[r].log]
    BY <2>1 DEF Logs
  <2> QED
    BY <1>1, <2>3, <2>4 DEF M!Open
<1>4. ASSUME NEW s \in Sessions, MsgLock(s) PROVE FALSE
  BY <1>4, MsgLockFacts DEF DeliveryKept
<1> QED
  BY <1>2, <1>3, <1>4, RoomSteps DEF M!Next

\* A listener takes a message out of its box.
LEMMA MulticastListen ==
  ASSUME TypeInv, DeliveryKept, NEW c \in ChanIds, Listener(c)
  PROVE  [M!Next]_M!multicastVars
<1>1. /\ UNCHANGED <<rooms, nchans, ses>> /\ c \in 1..nchans
      /\ \A d \in ChanIds :
            /\ chan'[d].owner = chan[d].owner /\ chan'[d].room = chan[d].room
            /\ chan'[d].closed = chan[d].closed
            /\ d # c => chan'[d] = chan[d]
      /\ \/ chan'[c].popped = chan[c].popped
         \/ chan[c].popped < Len(chan[c].pushed) /\ chan'[c].popped = chan[c].popped + 1
  BY ListenFacts
<1>2. \A d \in ChanIds : Posted(d)' = Posted(d)
  BY <1>1, PostedKept
<1>3. Logs' = Logs
  BY <1>1 DEF Logs
<1>4. \A d \in ChanIds : d # c => Box'[d] = Box[d]
  BY <1>1, <1>2, BoxSame
<1>5. CASE chan'[c].popped = chan[c].popped
  <2>1. Box'[c] = Box[c]
    BY <1>1, <1>2, <1>5, BoxSame
  <2>2. Box' = Box
    BY <1>4, <2>1, BoxUnchanged
  <2> QED
    BY <1>3, <2>2 DEF M!multicastVars
<1>6. CASE chan[c].popped < Len(chan[c].pushed) /\ chan'[c].popped = chan[c].popped + 1
  <2>1. Box[c].out < Len(Box[c].in)
    <3>1. /\ chan[c].popped \in Nat /\ chan[c].pushed \in Seq(Nat)
          /\ Len(rooms[chan[c].room].log) \in Nat
      BY <1>1, Typed DEF TypeInv, TypeOK, ChanType
    <3>2. Len(Posted(c)) = Len(chan[c].pushed) \/ Len(Posted(c)) = Len(chan[c].pushed) + 1
      BY <3>1 DEF Posted
    <3>3. Len(chan[c].pushed) \in Nat
      BY <3>1
    <3>4. Box[c].out = chan[c].popped /\ Box[c].in = Posted(c)
      BY BoxFields
    <3> QED
      BY <1>6, <3>1, <3>2, <3>3, <3>4
  <2>2. Box'[c] = [Box[c] EXCEPT !.out = @ + 1]
    <3>1. Box[c] = [owner |-> chan[c].owner, room |-> chan[c].room, in |-> Posted(c),
                    out |-> chan[c].popped, open |-> ~chan[c].closed]
      BY BoxFields
    <3>2. Box'[c] = [owner |-> chan'[c].owner, room |-> chan'[c].room, in |-> Posted(c)',
                     out |-> chan'[c].popped, open |-> ~chan'[c].closed]
      BY BoxFieldsPrimed
    <3>3. Box'[c] = [owner |-> chan[c].owner, room |-> chan[c].room, in |-> Posted(c),
                     out |-> chan[c].popped + 1, open |-> ~chan[c].closed]
      BY <1>1, <1>2, <1>6, <3>2
    <3> QED
      BY <3>1, <3>3
  <2>3. Box' = [Box EXCEPT ![c].out = @ + 1]
    BY <1>4, <2>2, BoxExcept
  <2>4. M!Take(c)
    BY <2>1, <2>3 DEF M!Take
  <2> QED
    BY <1>3, <2>4 DEF M!Next
<1> QED
  BY <1>1, <1>5, <1>6

\* cleanup() closes a channel: the subscriber leaves, perhaps without the
\* message that is on its way.
LEMMA MulticastClose ==
  ASSUME TypeInv, Membership, DeliveryKept, NEW s \in Sessions, CloseSubscription(s)
  PROVE  [M!Next]_M!multicastVars
<1>1. PICK c \in 1..nchans : Closes(s, c)
  BY CloseFacts
<1>2. /\ c \in ChanIds /\ chan[c].owner = s /\ ~chan[c].closed /\ UNCHANGED <<rooms, nchans>>
      /\ chan'[c].owner = chan[c].owner /\ chan'[c].room = chan[c].room
      /\ chan'[c].popped = chan[c].popped /\ chan'[c].pushed = chan[c].pushed
      /\ chan'[c].closed = TRUE
      /\ \A d \in ChanIds : d # c => chan'[d] = chan[d]
  BY <1>1 DEF Closes
<1>3. Logs' = Logs
  BY <1>2 DEF Logs
<1>4. \A d \in ChanIds : d # c => Box'[d] = Box[d]
  BY <1>2, PostedKept, BoxSame
<1>5. Posted(c)' = chan[c].pushed
  BY <1>2 DEF Posted, OnItsWay
<1>6. Box'[c] = [owner |-> chan[c].owner, room |-> chan[c].room, in |-> chan[c].pushed,
                 out |-> chan[c].popped, open |-> FALSE]
  BY <1>2, <1>5, BoxFieldsPrimed
<1>7. Box[c] = [owner |-> chan[c].owner, room |-> chan[c].room, in |-> Posted(c),
                out |-> chan[c].popped, open |-> TRUE]
  BY <1>2, BoxFields
<1> DEFINE yes == TRUE
           no == FALSE
           shut == [Box[c] EXCEPT !.open = no]
<1>8. Box[c] = [owner |-> chan[c].owner, room |-> chan[c].room, in |-> Posted(c),
                 out |-> chan[c].popped, open |-> yes]
  BY <1>7
<1> HIDE DEF yes, no
<1>9. shut = [owner |-> chan[c].owner, room |-> chan[c].room, in |-> Posted(c),
               out |-> chan[c].popped, open |-> no]
  BY <1>8
<1>10. [Box[c] EXCEPT !.open = no, !.in = chan[c].pushed] = [shut EXCEPT !.in = chan[c].pushed]
  OBVIOUS
<1> HIDE DEF shut
<1>11. [shut EXCEPT !.in = chan[c].pushed]
         = [owner |-> chan[c].owner, room |-> chan[c].room, in |-> chan[c].pushed,
            out |-> chan[c].popped, open |-> no]
  BY <1>9
<1>12. Box[c].owner # NoSession /\ Box[c].open
  BY <1>2, <1>7, ServerAssumption
<1>13. CASE ~OnItsWay(c)
  <2>1. Posted(c) = chan[c].pushed
    BY <1>13 DEF Posted
  <2>2. Box'[c] = [Box[c] EXCEPT !.open = FALSE]
    BY <1>6, <1>9, <2>1 DEF shut, no
  <2>3. Box' = [Box EXCEPT ![c].open = FALSE]
    BY <1>2, <1>4, <2>2, BoxExcept
  <2>4. M!Leave(c)
    BY <1>12, <2>3 DEF M!Leave
  <2> QED
    BY <1>2, <1>3, <2>4 DEF M!Next
<1>14. CASE OnItsWay(c)
  <2> DEFINE p == chan[c].pushed
             m == Len(rooms[chan[c].room].log)
             in == Append(p, m)
             n == Len(in)
  <2>1. /\ chan[c].popped \in Nat /\ p \in Seq(Nat) /\ chan[c].room \in 1..Len(rooms)
        /\ m \in Nat /\ chan[c].popped <= Len(p)
    BY <1>2, Typed DEF TypeInv, TypeOK, ChanType
  <2>2. Posted(c) = in
    BY <1>14 DEF Posted
  <2>3. Logs[chan[c].room] = rooms[chan[c].room].log
    BY <2>1 DEF Logs
  <2> HIDE DEF m, p
  <2>4. n = Len(p) + 1 /\ in[n] = m /\ n > chan[c].popped /\ n - 1 = Len(p) /\ Len(p) \in Nat
    BY <2>1
  <2>5. SubSeq(in, 1, n - 1) = p
    <3>1. \A i \in 1..Len(p) : in[i] = p[i]
      BY <2>1
    <3>2. in \in Seq(Nat)
      BY <2>1
    <3>3. SubSeq(in, 1, Len(p)) = [i \in 1..Len(p) |-> in[i]]
      BY <2>4, <3>2
    <3> QED
      BY <2>1, <2>4, <3>1, <3>3
  <2> HIDE DEF in, n
  <2>6. Box'[c] = [Box[c] EXCEPT !.open = FALSE, !.in = p]
    <3>1. Box'[c] = [Box[c] EXCEPT !.open = no, !.in = chan[c].pushed]
      BY <1>6, <1>10, <1>11 DEF no
    <3> QED
      BY <3>1 DEF p, no
  <2>7. Box' = [Box EXCEPT ![c] = [Box[c] EXCEPT !.open = FALSE, !.in = p]]
    BY <1>2, <1>4, <2>6, BoxExcept
  <2>8. Box[c].in = in /\ Box[c].out = chan[c].popped /\ Box[c].room = chan[c].room
    BY <1>7, <2>2
  <2>9. Box' = [Box EXCEPT ![c].open = FALSE, ![c].in = SubSeq(in, 1, n - 1)]
    <3>1. Box = [d \in ChanIds |-> Box[d]]
      BY DEF Box
    <3> HIDE DEF p
    <3> QED
      BY <1>2, <2>5, <2>7, <3>1
  <2>10. in[n] = Len(Logs[Box[c].room])
    BY <2>3, <2>4, <2>8 DEF m
  <2>11. M!Leave(c)
    BY <1>12, <2>4, <2>8, <2>9, <2>10 DEF M!Leave, n
  <2> QED
    BY <1>2, <1>3, <2>11 DEF M!Next
<1> QED
  BY <1>13, <1>14

\* sub_to_room: a session that is not in the room joins it.
LEMMA MulticastSubToRoom ==
  ASSUME TypeInv, Membership, Delivery, Fresh, NEW s \in Sessions, SubToRoom(s)
  PROVE  [M!Next]_M!multicastVars
<1> DEFINE r == ses[s].room
<1>0. PICK c \in ChanIds : c = nchans + 1
  BY SubToRoomFacts
<1>1. /\ c \in ChanIds /\ c \notin 1..nchans /\ nchans' = c /\ ses[s].pc = "sub_lock"
      /\ r \in 1..Len(rooms) /\ Len(rooms') = Len(rooms)
      /\ \A t \in 1..Len(rooms) : rooms'[t].log = rooms[t].log
      /\ \A d \in ChanIds : d # c => chan'[d] = chan[d]
      /\ chan'[c].owner = s /\ chan'[c].room = r
      /\ chan'[c].pushed = chan[c].pushed /\ chan'[c].popped = chan[c].popped
      /\ chan'[c].closed = chan[c].closed
      /\ ses'[s].pc = "sub_reply"
      /\ \A t \in Sessions : t # s => ses'[t] = ses[t]
      /\ \A t \in Sessions : ses[t].pc = "bcast" => t # s /\ ses[t].room # r
  BY <1>0, SubToRoomFacts
<1>2. /\ chan[c].owner = NoSession /\ chan[c].room = 0 /\ chan[c].pushed = <<>>
      /\ chan[c].popped = 0 /\ chan[c].closed = FALSE
  BY <1>1 DEF Fresh
<1>3. Logs' = Logs
  BY <1>1, LogsUnchanged
<1>4. r \in 1..Len(Logs) /\ r \in Nat /\ nchans \in Nat
  <2>1. Len(rooms) \in Nat /\ nchans \in Nat
    BY Typed
  <2> QED
    BY <1>1, <2>1 DEF Logs
<1>5. \A d \in ChanIds : d # c => (d <= nchans' <=> d <= nchans)
  BY <1>0, <1>1, <1>4 DEF ChanIds
<1> HIDE DEF r
<1>6. ASSUME NEW d \in ChanIds, d # c PROVE Posted(d)' = Posted(d)
  <2>1. CASE d \in 1..nchans
    <3>1. chan[d].room \in 1..Len(rooms)
      BY <2>1, Typed
    <3>2. \A n : Coming(d, n)' <=> Coming(d, n)
      BY <2>1, ComingSubToRoom
    <3> QED
      BY <1>1, <1>5, <1>6, <3>1, <3>2, PostedSame
  <2>2. CASE d \notin 1..nchans
    <3>1. ~(d <= nchans) /\ ~(d <= nchans')
      BY <1>4, <1>5, <1>6, <2>2 DEF ChanIds
    <3>2. chan'[d] = chan[d]
      BY <1>1, <1>6
    <3> QED
      BY <3>1, <3>2 DEF Posted, OnItsWay
  <2> QED
    BY <2>1, <2>2
<1>7. Posted(c)' = <<>>
  <2>1. \A t \in Sessions : ~(ses'[t].pc = "bcast" /\ ses'[t].room = chan'[c].room)
    BY <1>1
  <2>2. ~OnItsWay(c)'
    BY <2>1 DEF OnItsWay, Coming
  <2>3. Posted(c)' = chan'[c].pushed
    BY <1>1, <2>2 DEF Posted
  <2> QED
    BY <1>1, <1>2, <2>3
<1>8. Posted(c) = <<>>
  BY <1>1, <1>2, NothingOnItsWay
<1>9. \A d \in ChanIds : d # c => Box'[d] = Box[d]
  BY <1>1, <1>6, BoxSame
<1>10. Box[c] = M!Unused
  <2>1. Box[c] = [owner |-> chan[c].owner, room |-> chan[c].room, in |-> Posted(c),
                  out |-> chan[c].popped, open |-> ~chan[c].closed]
    BY <1>1, BoxFields
  <2> QED
    BY <1>2, <1>8, <2>1 DEF M!Unused
<1>11. Box'[c] = [owner |-> s, room |-> r, in |-> <<>>, out |-> 0, open |-> TRUE]
  <2>1. Box'[c] = [owner |-> chan'[c].owner, room |-> chan'[c].room, in |-> Posted(c)',
                   out |-> chan'[c].popped, open |-> ~chan'[c].closed]
    BY <1>1, BoxFieldsPrimed
  <2> QED
    BY <1>1, <1>2, <1>7, <2>1
<1> DEFINE joined == [Box[c] EXCEPT !.owner = s]
<1>12. Box'[c] = [Box[c] EXCEPT !.owner = s, !.room = r]
  <2> DEFINE yes == TRUE
             none == <<>>
  <2>1. Box[c] = [owner |-> NoSession, room |-> 0, in |-> none, out |-> 0, open |-> yes]
    BY <1>10 DEF M!Unused
  <2>2. [Box[c] EXCEPT !.owner = s, !.room = r] = [joined EXCEPT !.room = r]
    OBVIOUS
  <2>3. Box'[c] = [owner |-> s, room |-> r, in |-> none, out |-> 0, open |-> yes]
    BY <1>11
  <2> HIDE DEF yes, none
  <2>4. joined = [owner |-> s, room |-> 0, in |-> none, out |-> 0, open |-> yes]
    BY <2>1
  <2> HIDE DEF joined
  <2>5. [joined EXCEPT !.room = r] = [owner |-> s, room |-> r, in |-> none, out |-> 0, open |-> yes]
    BY <2>4
  <2> QED
    BY <2>2, <2>3, <2>5
<1> HIDE DEF joined
<1>13. Box' = [Box EXCEPT ![c] = [Box[c] EXCEPT !.owner = s, !.room = r]]
  BY <1>1, <1>9, <1>12, BoxExcept
<1>14. Box' = [Box EXCEPT ![c].owner = s, ![c].room = r]
  <2>1. Box = [d \in ChanIds |-> Box[d]]
    BY DEF Box
  <2> QED
    BY <1>1, <1>13, <2>1
<1>15. \A a \in M!Members(r) : Box[a].owner # s
  <2> SUFFICES ASSUME NEW a \in ChanIds, Box[a].room = r PROVE Box[a].owner # s
    BY DEF M!Members
  <2>1. Box[a].room = chan[a].room /\ Box[a].owner = chan[a].owner
    BY BoxFields
  <2>2. CASE a \in 1..nchans
    <3>1. a <= nchans
      BY <1>4, <2>2
    <3> QED
      <4>1. chan[a].owner = s => chan[a].room # ses[s].room
        BY <1>1, <3>1 DEF Membership
      <4> QED
        BY <2>1, <4>1 DEF r
  <2>3. CASE a \notin 1..nchans
    BY <2>1, <2>3, ServerAssumption DEF Fresh
  <2> QED
    BY <2>2, <2>3
<1>16. M!Join(c)
  BY <1>4, <1>10, <1>14, <1>15 DEF M!Join
<1> QED
  BY <1>1, <1>3, <1>16 DEF M!Next

\* The room's mutex admits a message: it is posted to all others in the room.
LEMMA MulticastMsgLock ==
  ASSUME TypeInv, Membership, Delivery, Fresh, OpenWhileServing, NEW s \in Sessions, MsgLock(s)
  PROVE  [M!Next]_M!multicastVars
<1>0. PICK r : r = ses[s].room
  OBVIOUS
<1>1. /\ UNCHANGED <<nchans, chan>> /\ r \in 1..Len(rooms) /\ Len(rooms') = Len(rooms)
      /\ \A t \in 1..Len(rooms) : t # r => rooms'[t] = rooms[t]
      /\ rooms'[r].log = Append(rooms[r].log, s)
      /\ ses[s].pc = "msg_lock"
  BY <1>0, MsgLockFacts
<1>2. PICK m : m = Len(rooms[r].log)
  OBVIOUS
<1>3. rooms[r].log \in Seq(Sessions) /\ m \in Nat /\ Len(rooms) \in Nat
  BY <1>1, <1>2, Typed
<1>4. Len(rooms'[r].log) = m + 1 /\ rooms'[r].log[m + 1] = s
  BY <1>1, <1>2, <1>3
<1>5. Logs' = [Logs EXCEPT ![r] = Append(@, s)] /\ Logs[r] = rooms[r].log /\ r \in 1..Len(Logs)
  <2>1. Logs' = [t \in 1..Len(rooms) |-> rooms'[t].log]
    BY <1>1 DEF Logs
  <2>2. Logs = [t \in 1..Len(rooms) |-> rooms[t].log]
    BY DEF Logs
  <2>3. Logs[r] = rooms[r].log /\ r \in 1..Len(Logs)
    BY <1>1, <1>3, <2>2
  <2>4. \A t \in 1..Len(rooms) :
           rooms'[t].log = IF t = r THEN Append(rooms[r].log, s) ELSE rooms[t].log
    BY <1>1
  <2> QED
    BY <1>1, <2>1, <2>2, <2>3, <2>4
<1>6. ASSUME NEW c \in ChanIds, ~(c \in 1..nchans /\ chan[c].room = r)
      PROVE  Posted(c)' = Posted(c)
  <2>1. CASE c \in 1..nchans
    <3>1. rooms'[chan[c].room].log = rooms[chan[c].room].log
      BY <1>1, <1>6, <2>1, Typed
    <3>2. \A n : Coming(c, n)' <=> Coming(c, n)
      BY <1>0, <1>6, <2>1, ComingMsgLock
    <3> QED
      BY <1>1, <3>1, <3>2, PostedSame
  <2>2. CASE c \notin 1..nchans
    <3>1. ~(c <= nchans) /\ ~(c <= nchans')
      BY <1>1, <2>2, Typed DEF ChanIds
    <3> QED
      BY <1>1, <3>1 DEF Posted, OnItsWay
  <2> QED
    BY <2>1, <2>2
<1>7. ASSUME NEW c \in 1..nchans, chan[c].room = r
      PROVE  /\ Posted(c) = chan[c].pushed
             /\ Posted(c)' = IF ~chan[c].closed /\ chan[c].owner # s
                             THEN Append(chan[c].pushed, m + 1) ELSE chan[c].pushed
  <2>1. ~Coming(c, m)
    BY <1>0, <1>7, ComingMsgLock
  <2>2. Posted(c) = chan[c].pushed
    BY <1>2, <1>7, <2>1 DEF Posted, OnItsWay
  <2>3. PICK n : n = m + 1
    OBVIOUS
  <2>4. Coming(c, n)'
    BY <1>0, <1>2, <1>7, <2>3, ComingMsgLock
  <2>5. c <= nchans' /\ Len(rooms'[chan'[c].room].log) = n /\ rooms'[chan'[c].room].log[n] = s
    BY <1>1, <1>4, <1>7, <2>3, Typed
  <2>6. Coming(c, Len(rooms[chan[c].room].log))'
    BY <2>4, <2>5 DEF Coming
  <2>7. OnItsWay(c)' <=> ~chan[c].closed /\ chan[c].owner # s
    BY <1>1, <2>5, <2>6 DEF OnItsWay
  <2> QED
    BY <1>1, <2>2, <2>3, <2>5, <2>7 DEF Posted
<1>8. ASSUME NEW c \in ChanIds
      PROVE  /\ c \in M!Members(r) <=> c \in 1..nchans /\ chan[c].room = r /\ ~chan[c].closed
             /\ Box[c].owner = chan[c].owner
  <2>1. /\ Box[c].room = chan[c].room /\ Box[c].owner = chan[c].owner
        /\ Box[c].open <=> ~chan[c].closed
    BY BoxFields
  <2>2. c \notin 1..nchans => chan[c].room # r
    BY <1>1 DEF Fresh
  <2> QED
    BY <2>1, <2>2 DEF M!Members
<1>9. ASSUME NEW c \in ChanIds
      PROVE  Box'[c] = IF c \in M!Members(r) /\ Box[c].owner # s
                       THEN [Box[c] EXCEPT !.in = Append(@, m + 1)] ELSE Box[c]
  <2>1. Box[c] = [owner |-> chan[c].owner, room |-> chan[c].room, in |-> Posted(c),
                  out |-> chan[c].popped, open |-> ~chan[c].closed]
    BY BoxFields
  <2>2. Box'[c] = [owner |-> chan[c].owner, room |-> chan[c].room, in |-> Posted(c)',
                   out |-> chan[c].popped, open |-> ~chan[c].closed]
    BY <1>1, BoxFieldsPrimed
  <2>3. CASE c \in M!Members(r) /\ Box[c].owner # s
    <3>1. Posted(c)' = Append(Posted(c), m + 1)
      BY <1>7, <1>8, <2>3
    <3> DEFINE o == ~chan[c].closed
               p == Append(Posted(c), m + 1)
    <3>2. Box'[c] = [owner |-> chan[c].owner, room |-> chan[c].room, in |-> p,
                     out |-> chan[c].popped, open |-> o]
      BY <2>2, <3>1
    <3>3. Box[c] = [owner |-> chan[c].owner, room |-> chan[c].room, in |-> Posted(c),
                    out |-> chan[c].popped, open |-> o] /\ Append(Box[c].in, m + 1) = p
      BY <2>1
    <3> HIDE DEF o, p
    <3>4. Box'[c] = [Box[c] EXCEPT !.in = p]
      BY <3>2, <3>3
    <3> QED
      BY <2>3, <3>3, <3>4
  <2>4. CASE ~(c \in M!Members(r) /\ Box[c].owner # s)
    <3>1. Posted(c)' = Posted(c)
      BY <1>6, <1>7, <1>8, <2>4
    <3>2. Box'[c] = Box[c]
      BY <2>1, <2>2, <3>1
    <3> QED
      BY <2>4, <3>2
  <2> QED
    BY <2>3, <2>4
<1>10. Box' = [c \in ChanIds |-> IF c \in M!Members(r) /\ Box[c].owner # s
                                 THEN [Box[c] EXCEPT !.in = Append(@, m + 1)] ELSE Box[c]]
  <2>1. Box' = [d \in ChanIds |-> Box'[d]]
    BY DEF Box
  <2> QED
    BY <1>9, <2>1
<1>11. \E b \in M!Members(r) : Box[b].owner = s
  <2>1. PICK c \in ses[s].subs : chan[c].room = r
    BY <1>0 DEF MsgLock, Subscribed, CurrChan
  <2>2. c \in ChanIds /\ c <= nchans /\ chan[c].owner = s
    BY <2>1 DEF Membership, TypeInv, TypeOK, SessionType
  <2>3. c \in 1..nchans
    BY <2>2, Typed DEF ChanIds
  <2>4. ~chan[c].closed
    BY <1>1, <2>2, <2>3 DEF OpenWhileServing, Leaving
  <2> QED
    BY <1>8, <2>1, <2>2, <2>3, <2>4
<1>12. M!Post(s, r)
  BY <1>2, <1>5, <1>10, <1>11 DEF M!Post
<1> QED
  BY <1>5, <1>12 DEF M!Next

\* The turns of the loop and its end are nothing to the subscribers.
LEMMA MulticastBroadcast ==
  ASSUME TypeInv, Membership, Delivery, NEW s \in Sessions, Broadcast(s) \/ MsgUnlock(s)
  PROVE  [M!Next]_M!multicastVars
<1>1. UNCHANGED <<rooms, nchans>>
  BY DEF Broadcast, MsgUnlock
<1>2. Logs' = Logs
  BY <1>1 DEF Logs
<1>3. ASSUME NEW d \in ChanIds, d \notin 1..nchans, chan'[d].pushed = chan[d].pushed
      PROVE  Posted(d)' = Posted(d)
  <2>1. ~(d <= nchans) /\ ~(d <= nchans')
    BY <1>1, <1>3, Typed DEF ChanIds
  <2> QED
    BY <1>3, <2>1 DEF Posted, OnItsWay
<1>4. CASE MsgUnlock(s)
  <2>1. UNCHANGED chan
    BY <1>4 DEF MsgUnlock
  <2>2. \A d \in ChanIds : Posted(d)' = Posted(d)
    <3> SUFFICES ASSUME NEW d \in ChanIds, d \in 1..nchans PROVE Posted(d)' = Posted(d)
      BY <1>3, <2>1
    <3>1. \A n : Coming(d, n)' <=> Coming(d, n)
      BY <1>4, ComingMsgUnlock
    <3> QED
      BY <1>1, <2>1, <3>1, PostedSame
  <2>3. Box' = Box
    BY <2>1, <2>2, BoxSame, BoxUnchanged
  <2> QED
    BY <1>2, <2>3 DEF M!multicastVars
<1>5. CASE Broadcast(s)
  <2>0. PICK r, k, c, n : /\ r = ses[s].room /\ k = ses[s].next
                          /\ c = rooms[r].connections[k] /\ n = Len(rooms[r].log)
    OBVIOUS
  <2>1. /\ c \in 1..nchans /\ chan[c].room = r /\ ses[s].pc = "bcast"
        /\ \A d \in ChanIds :
              /\ chan'[d].owner = chan[d].owner /\ chan'[d].room = chan[d].room
              /\ chan'[d].closed = chan[d].closed /\ chan'[d].popped = chan[d].popped
              /\ d # c => chan'[d].pushed = chan[d].pushed
        /\ \/ /\ ~chan[c].closed /\ chan[c].owner # s
              /\ chan'[c].pushed = Append(chan[c].pushed, n)
           \/ /\ chan[c].closed \/ chan[c].owner = s
              /\ chan'[c].pushed = chan[c].pushed
    BY <1>5, <2>0, BroadcastFacts
  <2>2. c \in ChanIds /\ c <= nchans
    BY <2>1, Typed
  <2>3. /\ Coming(c, n)
        /\ \A d \in 1..nchans : \A m : Coming(d, m)' => Coming(d, m) /\ d # c
        /\ \A d \in 1..nchans : \A m : Coming(d, m) /\ d # c => Coming(d, m)'
    BY <1>5, <2>0, ComingBroadcast
  <2>4. rooms[r].log[n] = s
    BY <2>0, <2>1 DEF Delivery, Broadcasting
  <2>5. ASSUME NEW d \in ChanIds, d # c PROVE Posted(d)' = Posted(d)
    <3>1. CASE d \in 1..nchans
      <4>1. \A m : Coming(d, m)' <=> Coming(d, m)
        BY <2>3, <2>5, <3>1
      <4> QED
        BY <1>1, <2>1, <2>5, <4>1, PostedSame
    <3>2. CASE d \notin 1..nchans
      BY <1>3, <2>1, <2>5, <3>2
    <3> QED
      BY <3>1, <3>2
  <2>6. Posted(c)' = Posted(c)
    <3>1. Posted(c)' = chan'[c].pushed
      <4>1. \A m : ~Coming(c, m)'
        BY <2>1, <2>3
      <4>2. ~Coming(c, Len(rooms[chan[c].room].log))'
        <5>1. PICK m : m = Len(rooms'[chan'[c].room].log)
          OBVIOUS
        <5>2. ~Coming(c, m)'
          BY <4>1
        <5> QED
          BY <5>1, <5>2 DEF Coming
      <4> QED
        BY <4>2 DEF Posted, OnItsWay
    <3>2. OnItsWay(c) <=> ~chan[c].closed /\ chan[c].owner # s
      BY <2>0, <2>1, <2>2, <2>3, <2>4 DEF OnItsWay
    <3>3. Posted(c) = IF OnItsWay(c) THEN Append(chan[c].pushed, n) ELSE chan[c].pushed
      BY <2>0, <2>1 DEF Posted
    <3> QED
      BY <2>1, <3>1, <3>2, <3>3
  <2>7. \A d \in ChanIds : Posted(d)' = Posted(d)
    BY <2>5, <2>6
  <2>8. Box' = Box
    BY <2>1, <2>7, BoxSame, BoxUnchanged
  <2> QED
    BY <1>2, <2>8 DEF M!multicastVars
<1> QED
  BY <1>4, <1>5

\* Every step of the server is a step of the multicast or none.
LEMMA MulticastStep ==
  ASSUME TypeInv, Membership, Delivery, Fresh, OpenWhileServing, [Next]_vars
  PROVE  [M!Next]_M!multicastVars
<1>1. CASE \E s \in Sessions : SubToRoom(s) \/ MsgLock(s) \/ Broadcast(s) \/ MsgUnlock(s)
  BY <1>1, MulticastSubToRoom, MulticastMsgLock, MulticastBroadcast
<1>2. CASE DeliveryKept
  <2>1. CASE UNCHANGED <<chan, nchans>>
    BY <1>2, <2>1, MulticastQuiet
  <2>2. CASE \E c \in ChanIds : Listener(c)
    BY <1>2, <2>2, MulticastListen
  <2>3. CASE \E s \in Sessions : CloseSubscription(s)
    BY <1>2, <2>3, MulticastClose
  <2>4. CASE \E s \in Sessions : SubToRoom(s) \/ Broadcast(s)
    BY <1>1, <2>4
  <2> QED
    BY <2>1, <2>2, <2>3, <2>4, ChanSteps
<1> QED
  BY <1>1, <1>2, DeliverySteps

\* The rooms implement the multicast for any number of connections, rooms and
\* threads: the loop of a broadcast under the room's mutex, with others joining,
\* leaving and reading meanwhile, looks to the subscribers like one step that
\* posts the message to everyone who is in the room.
THEOREM RefinesMulticast == Spec => ImplementsMulticast
<1>1. Init => M!Init
  <2> SUFFICES ASSUME Init PROVE M!Init
    OBVIOUS
  <2>1. Logs = <<>>
    BY DEF Init, Logs
  <2>2. ASSUME NEW c \in ChanIds PROVE Box[c] = M!Unused
    <3>1. /\ chan[c].owner = NoSession /\ chan[c].room = 0 /\ chan[c].pushed = <<>>
          /\ chan[c].popped = 0 /\ chan[c].closed = FALSE /\ nchans = 0
      BY DEF Init
    <3>2. ~(c <= nchans)
      BY <3>1, ServerAssumption DEF ChanIds
    <3>3. Posted(c) = <<>>
      BY <3>1, <3>2 DEF Posted, OnItsWay
    <3>4. Box[c] = [owner |-> chan[c].owner, room |-> chan[c].room, in |-> Posted(c),
                    out |-> chan[c].popped, open |-> ~chan[c].closed]
      BY BoxFields
    <3> QED
      BY <3>1, <3>3, <3>4 DEF M!Unused
  <2>3. Box = [c \in ChanIds |-> Box[c]]
    BY DEF Box
  <2> QED
    BY <2>1, <2>2, <2>3 DEF M!Init
<1>2. Init => Fresh /\ OpenWhileServing
  BY DEF Init, Fresh, OpenWhileServing
<1>3. TypeInv /\ Membership /\ Delivery /\ Fresh /\ [Next]_vars => Fresh'
  BY FreshStep
<1>4. TypeInv /\ Membership /\ Delivery /\ Fresh /\ OpenWhileServing /\ [Next]_vars
        => OpenWhileServing'
  BY OpenStep
<1>5. TypeInv /\ Membership /\ Delivery /\ Fresh /\ OpenWhileServing /\ [Next]_vars
        => [M!Next]_M!multicastVars
  BY MulticastStep
<1> QED
  BY <1>1, <1>2, <1>3, <1>4, <1>5, TypeInvariant, MembershipInvariant, DeliveryInvariant, PTL
  DEF Spec, ImplementsMulticast, M!Spec
-----------------------------------------------------------------------------
(* What is written to a client *)

\* write() appends its line to one write channel, or does nothing if that is
\* closed.
LEMMA WriteLines ==
  ASSUME TypeInv, NEW s, NEW line, Write(s, line), NEW t \in Sessions
  PROVE  \/ wr'[t].pushed = wr[t].pushed
         \/ t = s /\ ~wr[t].closed /\ wr'[t].pushed = Append(wr[t].pushed, line)
<1>1. wr[t] \in WriterType /\ wr \in [Sessions -> WriterType]
  BY DEF TypeInv, TypeOK
<1>2. CASE t = s
  <2> DEFINE p == IF wr[t].closed THEN wr[t].pushed ELSE Append(wr[t].pushed, line)
  <2>1. wr'[t] = [wr[t] EXCEPT !.pushed = p]
    BY <1>1, <1>2 DEF Write
  <2>2. \/ p = wr[t].pushed
        \/ ~wr[t].closed /\ p = Append(wr[t].pushed, line)
    OBVIOUS
  <2> HIDE DEF p
  <2>3. wr'[t].pushed = p
    BY <1>1, <2>1 DEF WriterType
  <2> QED
    BY <1>2, <2>2, <2>3
<1>3. CASE t # s
  BY <1>1, <1>3 DEF Write
<1> QED
  BY <1>2, <1>3

\* The line that a listener writes.
Forwarded(c) == [type |-> "message", data |-> NextMessage(c), grp_name |-> rooms[chan[c].room].name]

\* What can happen to a write channel: an error line, the confirmation of a
\* subscription, or a message that a listener forwards.
LEMMA WriteSteps ==
  ASSUME TypeInv, [Next]_vars, NEW t \in Sessions
  PROVE  \/ wr'[t].pushed = wr[t].pushed
         \/ wr'[t].pushed = Append(wr[t].pushed, ErrorLine)
         \/ SubReply(t) /\ wr'[t].pushed = Append(wr[t].pushed, Confirmation(t))
         \/ \E c \in ChanIds : /\ ListenForward(c) /\ chan[c].owner = t /\ ~wr[t].closed
                               /\ wr'[t].pushed = Append(wr[t].pushed, Forwarded(c))
<1>0. wr \in [Sessions -> WriterType] /\ wr[t] \in WriterType
  BY DEF TypeInv, TypeOK
<1>1. ASSUME NEW s, Write(s, ErrorLine)
      PROVE  wr'[t].pushed = wr[t].pushed \/ wr'[t].pushed = Append(wr[t].pushed, ErrorLine)
  BY <1>1, WriteLines
<1>2. ASSUME NEW s \in Sessions, Client(s)
      PROVE  wr'[t].pushed = wr[t].pushed \/ wr'[t].pushed = Append(wr[t].pushed, ErrorLine)
  <2>1. CASE Accept(s)
    <3>1. wr'[t] = wr[t] \/ wr'[t] = [wr[t] EXCEPT !.pc = "read"]
      BY <1>0, <2>1 DEF Accept
    <3> QED
      BY <1>0, <3>1 DEF WriterType
  <2>2. CASE ~Accept(s)
    <3>1. UNCHANGED wr \/ Write(s, ErrorLine)
      BY <1>2, <2>2 DEF Client, ReceiveError, ReceiveEmpty, ReceiveUnknown, ReceiveDesub,
                        ReceiveSub, ReceiveCsub, ReceiveMsg, Refuse
    <3> QED
      BY <1>1, <3>1
  <2> QED
    BY <2>1, <2>2
<1>3. ASSUME NEW s \in Sessions, Session(s)
      PROVE  \/ wr'[t].pushed = wr[t].pushed
             \/ wr'[t].pushed = Append(wr[t].pushed, ErrorLine)
             \/ SubReply(t) /\ wr'[t].pushed = Append(wr[t].pushed, Confirmation(t))
  <2>1. CASE SubReply(s)
    <3>1. Write(s, Confirmation(s))
      BY <2>1 DEF SubReply
    <3>2. \/ wr'[t].pushed = wr[t].pushed
          \/ t = s /\ ~wr[t].closed /\ wr'[t].pushed = Append(wr[t].pushed, Confirmation(s))
      BY <3>1, WriteLines
    <3> QED
      BY <2>1, <3>2
  <2>2. CASE MsgReject(s)
    BY <1>1, <2>2 DEF MsgReject
  <2>3. CASE CloseWriteChan(s)
    <3>1. wr'[t] = wr[t] \/ wr'[t] = [wr[t] EXCEPT !.closed = TRUE]
      BY <1>0, <2>3 DEF CloseWriteChan
    <3> QED
      BY <1>0, <3>1 DEF WriterType
  <2>4. CASE Return(s)
    <3>1. wr'[t] = wr[t] \/ \E x : wr'[t] = [wr[t] EXCEPT !.pc = x]
      BY <1>0, <2>4 DEF Return
    <3> QED
      BY <1>0, <3>1 DEF WriterType
  <2>5. CASE SubToRoom(s) \/ MsgLock(s) \/ Broadcast(s) \/ MsgUnlock(s) \/ CloseSubscription(s)
    BY <2>5 DEF SubToRoom, MsgLock, Broadcast, MsgUnlock, CloseSubscription
  <2> QED
    BY <1>3, <2>1, <2>2, <2>3, <2>4, <2>5 DEF Session
<1>4. ASSUME NEW s \in Sessions, Writer(s) PROVE wr'[t].pushed = wr[t].pushed
  <2>1. CASE WriterSend(s)
    <3>1. wr'[t] = wr[t] \/ wr'[t] = [wr[t] EXCEPT !.popped = @ + 1, !.pc = "sending"]
      BY <1>0, <2>1 DEF WriterSend
    <3> QED
      BY <1>0, <3>1 DEF WriterType
  <2>2. CASE WriterAbort(s) \/ SendDone(s) \/ SendFail(s)
    <3>1. wr'[t] = wr[t] \/ \E x : wr'[t] = [wr[t] EXCEPT !.pc = x]
      BY <1>0, <2>2, ZenonT(60) DEF WriterAbort, SendDone, SendFail
    <3> QED
      BY <1>0, <3>1 DEF WriterType
  <2> QED
    BY <1>4, <2>1, <2>2 DEF Writer
<1>5. ASSUME NEW c \in ChanIds, Listener(c)
      PROVE  \/ wr'[t].pushed = wr[t].pushed
             \/ /\ ListenForward(c) /\ chan[c].owner = t /\ ~wr[t].closed
                /\ wr'[t].pushed = Append(wr[t].pushed, Forwarded(c))
  <2>1. CASE ListenForward(c)
    <3>1. Write(chan[c].owner, Forwarded(c))
      BY <2>1 DEF ListenForward, Forwarded
    <3>2. \/ wr'[t].pushed = wr[t].pushed
          \/ /\ t = chan[c].owner /\ ~wr[t].closed
             /\ wr'[t].pushed = Append(wr[t].pushed, Forwarded(c))
      BY <3>1, WriteLines
    <3> QED
      BY <2>1, <3>2
  <2>2. CASE ListenStart(c) \/ ListenAbort(c)
    BY <2>2 DEF ListenStart, ListenAbort
  <2> QED
    BY <1>5, <2>1, <2>2 DEF Listener
<1>6. CASE UNCHANGED vars
  BY <1>6 DEF vars
<1> QED
  BY <1>2, <1>3, <1>4, <1>5, <1>6 DEF Next, Quiet

\* Rooms are added and keep their names; channels are added, keep owner and
\* room, and what they took stays taken.
Grown ==
    /\ Len(rooms') \in Nat /\ Len(rooms) <= Len(rooms')
    /\ \A r \in 1..Len(rooms) : rooms'[r].name = rooms[r].name
    /\ nchans' \in Nat /\ nchans <= nchans'
    /\ \A c \in 1..nchans :
          /\ chan'[c].owner = chan[c].owner /\ chan'[c].room = chan[c].room
          /\ chan'[c].popped \in Nat /\ chan[c].popped <= chan'[c].popped
          /\ \A k \in 1..Len(chan[c].pushed) : chan'[c].pushed[k] = chan[c].pushed[k]

\* Every step only adds.
LEMMA AlwaysGrown ==
  ASSUME TypeInv, Membership, Delivery, [Next]_vars
  PROVE  Grown
<1>0. ASSUME NEW c \in 1..nchans
      PROVE  c \in ChanIds /\ chan[c].popped \in Nat /\ chan[c].pushed \in Seq(Nat)
  BY Typed DEF ChanType
<1>1. nchans \in Nat /\ Len(rooms) \in Nat
  BY Typed
<1>2. ASSUME UNCHANGED chan, UNCHANGED nchans
      PROVE  /\ nchans' \in Nat /\ nchans <= nchans'
             /\ \A c \in 1..nchans :
                   /\ chan'[c].owner = chan[c].owner /\ chan'[c].room = chan[c].room
                   /\ chan'[c].popped \in Nat /\ chan[c].popped <= chan'[c].popped
                   /\ \A k \in 1..Len(chan[c].pushed) : chan'[c].pushed[k] = chan[c].pushed[k]
  BY <1>0, <1>1, <1>2
<1>3. CASE \E s \in Sessions : SubToRoom(s)
  <2>1. PICK s \in Sessions : SubToRoom(s)
    BY <1>3
  <2>2. PICK c : c = nchans + 1
    OBVIOUS
  <2>3. /\ c \notin 1..nchans /\ nchans' = c /\ Len(rooms') = Len(rooms)
        /\ \A t \in 1..Len(rooms) : rooms'[t].name = rooms[t].name
        /\ \A d \in ChanIds : d # c => chan'[d] = chan[d]
    BY <2>1, <2>2, SubToRoomFacts
  <2>4. \A d \in 1..nchans : chan'[d] = chan[d]
    BY <1>0, <2>3
  <2>5. nchans' \in Nat /\ nchans <= nchans'
    BY <1>1, <2>2, <2>3
  <2> QED
    BY <1>0, <1>1, <2>3, <2>4, <2>5 DEF Grown
<1>4. CASE \E s \in Sessions : MsgLock(s)
  <2>1. PICK s \in Sessions : MsgLock(s)
    BY <1>4
  <2>2. /\ UNCHANGED <<nchans, chan>> /\ Len(rooms') = Len(rooms)
        /\ \A t \in 1..Len(rooms) : rooms'[t].name = rooms[t].name
    BY <2>1, MsgLockFacts
  <2> QED
    BY <1>1, <1>2, <2>2 DEF Grown
<1>5. CASE \E s \in Sessions : Broadcast(s)
  <2>1. PICK s \in Sessions : Broadcast(s)
    BY <1>5
  <2>2. PICK c, n : /\ c = rooms[ses[s].room].connections[ses[s].next]
                    /\ n = Len(rooms[ses[s].room].log)
    OBVIOUS
  <2>3. /\ UNCHANGED <<rooms, nchans>>
        /\ \A d \in ChanIds :
              /\ chan'[d].owner = chan[d].owner /\ chan'[d].room = chan[d].room
              /\ chan'[d].popped = chan[d].popped
              /\ d # c => chan'[d].pushed = chan[d].pushed
        /\ \/ chan'[c].pushed = Append(chan[c].pushed, n)
           \/ chan'[c].pushed = chan[c].pushed
    BY <2>1, <2>2, BroadcastFacts
  <2>4. ASSUME NEW d \in 1..nchans
        PROVE  /\ chan'[d].owner = chan[d].owner /\ chan'[d].room = chan[d].room
               /\ chan'[d].popped \in Nat /\ chan[d].popped <= chan'[d].popped
               /\ \A k \in 1..Len(chan[d].pushed) : chan'[d].pushed[k] = chan[d].pushed[k]
    <3>1. \/ chan'[d].pushed = Append(chan[d].pushed, n)
          \/ chan'[d].pushed = chan[d].pushed
      BY <1>0, <2>3
    <3> QED
      BY <1>0, <2>3, <3>1
  <2> QED
    BY <1>1, <2>3, <2>4 DEF Grown
<1>6. CASE DeliveryKept
  <2>1. /\ Len(rooms') \in Nat /\ Len(rooms) <= Len(rooms')
        /\ \A r \in 1..Len(rooms) : rooms'[r].name = rooms[r].name
        /\ nchans' = nchans
    BY <1>6 DEF DeliveryKept
  <2>2. ASSUME NEW d \in 1..nchans
        PROVE  /\ chan'[d].owner = chan[d].owner /\ chan'[d].room = chan[d].room
               /\ \A k \in 1..Len(chan[d].pushed) : chan'[d].pushed[k] = chan[d].pushed[k]
    BY <1>0, <1>6 DEF DeliveryKept
  <2>3. ASSUME NEW d \in 1..nchans
        PROVE  chan'[d].popped \in Nat /\ chan[d].popped <= chan'[d].popped
    <3>1. ASSUME NEW c \in ChanIds, Listener(c)
          PROVE  chan'[d].popped \in Nat /\ chan[d].popped <= chan'[d].popped
      <4>1. \/ chan'[d].popped = chan[d].popped
            \/ chan'[d].popped = chan[d].popped + 1
        BY <1>0, <3>1, ListenFacts
      <4> QED
        BY <1>0, <4>1
    <3>2. ASSUME NEW s \in Sessions, CloseSubscription(s)
          PROVE  chan'[d].popped \in Nat /\ chan[d].popped <= chan'[d].popped
      <4>1. PICK c : Closes(s, c)
        BY <3>2, CloseFacts
      <4>2. chan'[d].popped = chan[d].popped
        BY <1>0, <4>1 DEF Closes
      <4> QED
        BY <1>0, <4>2
    <3>3. CASE \E s \in Sessions : SubToRoom(s) \/ Broadcast(s)
      BY <1>3, <1>5, <3>3 DEF Grown
    <3>4. CASE UNCHANGED chan
      BY <1>0, <3>4
    <3> QED
      BY <3>1, <3>2, <3>3, <3>4, ChanSteps
  <2> QED
    BY <1>1, <2>1, <2>2, <2>3 DEF Grown
<1>7. CASE \E s \in Sessions : MsgUnlock(s)
  <2>1. UNCHANGED <<rooms, nchans, chan>>
    BY <1>7 DEF MsgUnlock
  <2> QED
    BY <1>1, <1>2, <2>1 DEF Grown
<1> QED
  BY <1>3, <1>4, <1>5, <1>6, <1>7, DeliverySteps

\* A message line of session s was read from a channel of the session, of a
\* room with the line's name.
FromChannel(s, l) ==
    \E c \in 1..nchans : \E k \in 1..chan[c].popped :
        /\ chan[c].owner = s
        /\ rooms[chan[c].room].name = l.grp_name
        /\ chan[c].pushed[k] = l.data

Wire ==
    \A s \in Sessions : \A j \in 1..Len(wr[s].pushed) :
        IsMessage(wr[s].pushed[j]) => FromChannel(s, wr[s].pushed[j])

\* A line that came from a channel has come from it for good.
LEMMA FromChannelKept ==
  ASSUME TypeInv, Grown, NEW s, NEW l, FromChannel(s, l)
  PROVE  FromChannel(s, l)'
<1>0. PICK c \in 1..nchans : \E k \in 1..chan[c].popped :
          /\ chan[c].owner = s
          /\ rooms[chan[c].room].name = l.grp_name
          /\ chan[c].pushed[k] = l.data
  BY DEF FromChannel
<1>1. PICK k \in 1..chan[c].popped :
          /\ chan[c].owner = s
          /\ rooms[chan[c].room].name = l.grp_name
          /\ chan[c].pushed[k] = l.data
  BY <1>0
<1>2. /\ chan[c].popped \in Nat /\ chan[c].popped <= Len(chan[c].pushed)
      /\ chan[c].pushed \in Seq(Nat) /\ chan[c].room \in 1..Len(rooms)
  BY Typed DEF ChanType, TypeInv, TypeOK
<1>3. k \in 1..Len(chan[c].pushed) /\ c \in 1..nchans'
  BY <1>2, Typed DEF Grown
<1>4. /\ chan'[c].owner = s /\ chan'[c].room = chan[c].room
      /\ chan'[c].pushed[k] = l.data /\ k \in 1..chan'[c].popped
  BY <1>1, <1>2, <1>3, SMTT(30) DEF Grown
<1>5. rooms'[chan'[c].room].name = l.grp_name
  BY <1>1, <1>2, <1>4 DEF Grown
<1> QED
  BY <1>3, <1>4, <1>5 DEF FromChannel

\* The listener's line comes from its channel.
LEMMA ForwardedLine ==
  ASSUME TypeInv, Grown, NEW c \in ChanIds, ListenForward(c)
  PROVE  /\ c \in 1..nchans /\ chan[c].popped \in Nat
         /\ chan[c].popped < Len(chan[c].pushed)
         /\ Forwarded(c).grp_name = rooms[chan[c].room].name
         /\ Forwarded(c).data = chan[c].pushed[chan[c].popped + 1]
         /\ \A s, l : s = chan[c].owner /\ l = Forwarded(c) => FromChannel(s, l)'
<1>1. c \in 1..nchans /\ UNCHANGED rooms
  BY ListenFacts DEF Listener
<1>2. chan[c].popped \in Nat /\ chan[c] \in ChanType /\ chan \in [ChanIds -> ChanType]
  BY Typed, <1>1 DEF TypeInv, TypeOK, ChanType
<1>3. /\ chan[c].popped < Len(chan[c].pushed)
      /\ chan' = [chan EXCEPT ![c].popped = chan[c].popped + 1, ![c].listener = LoopHead(c)]
  BY DEF ListenForward
<1>4. chan'[c].popped = chan[c].popped + 1
  <2> DEFINE h == LoopHead(c)
  <2>1. chan'[c] = [chan[c] EXCEPT !.popped = chan[c].popped + 1, !.listener = h]
    BY <1>2, <1>3
  <2> HIDE DEF h
  <2> QED
    BY <1>2, <2>1 DEF ChanType
<1>5. /\ Forwarded(c).grp_name = rooms[chan[c].room].name
      /\ Forwarded(c).data = chan[c].pushed[chan[c].popped + 1]
  BY DEF Forwarded, NextMessage
<1>6. chan[c].pushed \in Seq(Nat) /\ chan[c].room \in 1..Len(rooms)
  BY <1>1, Typed DEF ChanType
<1>7. PICK k : k = chan[c].popped + 1
  OBVIOUS
<1>8. k \in 1..Len(chan[c].pushed) /\ k \in 1..chan'[c].popped /\ c \in 1..nchans'
  BY <1>1, <1>2, <1>3, <1>4, <1>6, <1>7, Typed DEF Grown
<1> QED
  <2>1. SUFFICES ASSUME NEW s, NEW l, s = chan[c].owner, l = Forwarded(c)
                 PROVE  FromChannel(s, l)'
    BY <1>1, <1>2, <1>3, <1>5
  <2>2. /\ l.grp_name = rooms[chan[c].room].name
        /\ l.data = chan[c].pushed[k]
    BY <1>5, <1>7, <2>1
  <2>3. /\ chan'[c].owner = chan[c].owner /\ chan'[c].room = chan[c].room
        /\ chan'[c].pushed[k] = chan[c].pushed[k]
    BY <1>1, <1>8 DEF Grown
  <2> QED
    BY <1>1, <1>8, <2>1, <2>2, <2>3 DEF FromChannel

\* What a step adds to a write channel, if anything: a line that is no message,
\* or the next message of one of the session's channels.
LEMMA LineSteps ==
  ASSUME TypeInv, [Next]_vars, NEW t \in Sessions
  PROVE  \/ wr'[t].pushed = wr[t].pushed
         \/ \E l : /\ wr'[t].pushed = Append(wr[t].pushed, l)
                   /\ \/ ~IsMessage(l)
                      \/ \E c \in ChanIds : /\ ListenForward(c) /\ chan[c].owner = t
                                            /\ l = Forwarded(c) /\ ~wr[t].closed
<1>1. ~IsMessage(ErrorLine)
  BY DEF IsMessage, ErrorLine
<1>2. ~IsMessage(Confirmation(t))
  <2>1. ses[t].reply \in {"sub_ok", "csub_ok"}
    BY DEF TypeInv, TypeOK, SessionType
  <2>2. Confirmation(t).type = ses[t].reply
    BY DEF Confirmation
  <2> QED
    BY <2>1, <2>2 DEF IsMessage
<1>3. CASE wr'[t].pushed = Append(wr[t].pushed, ErrorLine)
  BY <1>1, <1>3
<1>4. CASE wr'[t].pushed = Append(wr[t].pushed, Confirmation(t))
  BY <1>2, <1>4
<1>5. CASE \E c \in ChanIds : /\ ListenForward(c) /\ chan[c].owner = t /\ ~wr[t].closed
                              /\ wr'[t].pushed = Append(wr[t].pushed, Forwarded(c))
  BY <1>5
<1> QED
  BY <1>3, <1>4, <1>5, WriteSteps

\* Every step keeps Wire.
LEMMA WireStep ==
  ASSUME TypeInv, Membership, Delivery, Wire, [Next]_vars
  PROVE  Wire'
<1>1. Grown
  BY AlwaysGrown
<1>2. SUFFICES ASSUME NEW t \in Sessions, NEW j \in 1..Len(wr'[t].pushed),
                      NEW l, l = wr'[t].pushed[j], IsMessage(l)
               PROVE  FromChannel(t, l)'
  BY DEF Wire
<1>3. wr[t].pushed \in Seq(Replies)
  BY DEF TypeInv, TypeOK, WriterType
<1>4. CASE j \in 1..Len(wr[t].pushed) /\ l = wr[t].pushed[j]
  BY <1>1, <1>2, <1>4, FromChannelKept DEF Wire
<1>5. ASSUME NEW m, wr'[t].pushed = Append(wr[t].pushed, m)
      PROVE  \/ j \in 1..Len(wr[t].pushed) /\ l = wr[t].pushed[j]
             \/ l = m
  BY <1>2, <1>3, <1>5
<1>6. CASE wr'[t].pushed = wr[t].pushed
  BY <1>2, <1>4, <1>6
<1>7. CASE \E m : /\ wr'[t].pushed = Append(wr[t].pushed, m)
                  /\ ~IsMessage(m)
  BY <1>2, <1>4, <1>5, <1>7
<1>8. ASSUME NEW c \in ChanIds, ListenForward(c), chan[c].owner = t,
             wr'[t].pushed = Append(wr[t].pushed, Forwarded(c))
      PROVE  FromChannel(t, l)'
  <2>1. CASE l = Forwarded(c)
    BY <1>1, <1>8, <2>1, ForwardedLine
  <2> QED
    BY <1>4, <1>5, <1>8, <2>1
<1> QED
  BY <1>6, <1>7, <1>8, LineSteps

\* Names that are distinguished were before.
LEMMA DistinguishedBefore ==
  ASSUME TypeInv, Grown, NEW n, Distinguished(n)'
  PROVE  Distinguished(n)
<1>1. SUFFICES ASSUME NEW r \in 1..Len(rooms), NEW t \in 1..Len(rooms),
                      rooms[r].name = n, rooms[t].name = n
               PROVE  r = t
  BY DEF Distinguished
<1>2. r \in 1..Len(rooms') /\ t \in 1..Len(rooms')
  BY Typed DEF Grown
<1>3. rooms'[r].name = n /\ rooms'[t].name = n
  BY <1>1 DEF Grown
<1> QED
  BY <1>2, <1>3 DEF Distinguished

\* Two lines of a client, the second one a message that its listener forwards.
LEMMA ForwardedLast ==
  ASSUME TypeInv, Membership, Delivery, Wire, NEW t \in Sessions,
         NEW c \in 1..nchans, chan[c].owner = t,
         chan[c].popped < Len(chan[c].pushed),
         NEW k, FromChannel(t, k),
         k.grp_name = rooms[chan[c].room].name, Distinguished(k.grp_name)
  PROVE  k.data < chan[c].pushed[chan[c].popped + 1]
<1>1. PICK d \in 1..nchans : \E h \in 1..chan[d].popped :
          /\ chan[d].owner = t
          /\ rooms[chan[d].room].name = k.grp_name
          /\ chan[d].pushed[h] = k.data
  BY DEF FromChannel
<1>2. PICK h \in 1..chan[d].popped :
          /\ chan[d].owner = t
          /\ rooms[chan[d].room].name = k.grp_name
          /\ chan[d].pushed[h] = k.data
  BY <1>1
<1>3. /\ chan[c].room \in 1..Len(rooms) /\ chan[d].room \in 1..Len(rooms)
      /\ c \in ChanIds /\ d \in ChanIds /\ c <= nchans /\ d <= nchans
      /\ chan[c].popped \in Nat /\ chan[c].pushed \in Seq(Nat)
  BY Typed DEF ChanType
<1>4. chan[c].room = chan[d].room
  BY <1>2, <1>3 DEF Distinguished
<1>5. c = d
  BY <1>2, <1>3, <1>4 DEF Membership
<1>6. /\ h \in 1..Len(chan[c].pushed) /\ chan[c].popped + 1 \in 1..Len(chan[c].pushed)
      /\ h < chan[c].popped + 1
  <2>1. h \in 1..chan[c].popped /\ Len(chan[c].pushed) \in Nat
    BY <1>3, <1>5
  <2>2. ASSUME NEW p \in Nat, NEW q \in Nat, NEW x \in 1..p, p < q
        PROVE  x \in 1..q /\ p + 1 \in 1..q /\ x < p + 1
    BY <2>2
  <2> QED
    BY <1>3, <2>1, <2>2
<1>7. \A i, j \in 1..Len(chan[c].pushed) : i < j => chan[c].pushed[i] < chan[c].pushed[j]
  BY DEF Delivery, AllInOrder, InOrder
<1> QED
  BY <1>2, <1>5, <1>6, <1>7

\* Every step keeps the order of the lines.
LEMMA WireOrderStep ==
  ASSUME TypeInv, Membership, Delivery, Wire, WireOrder, [Next]_vars
  PROVE  WireOrder'
<1>1. Grown
  BY AlwaysGrown
<1>2. SUFFICES ASSUME NEW t \in Sessions,
                      NEW i \in 1..Len(wr'[t].pushed), NEW j \in 1..Len(wr'[t].pushed),
                      NEW k, k = wr'[t].pushed[i], NEW l, l = wr'[t].pushed[j],
                      i < j, IsMessage(k), IsMessage(l), k.grp_name = l.grp_name,
                      Distinguished(k.grp_name)'
               PROVE  k.data < l.data
  BY DEF WireOrder
<1>3. wr[t].pushed \in Seq(Replies)
  BY DEF TypeInv, TypeOK, WriterType
<1>4. Distinguished(k.grp_name)
  BY <1>1, <1>2, DistinguishedBefore
<1>5. CASE /\ i \in 1..Len(wr[t].pushed) /\ k = wr[t].pushed[i]
           /\ j \in 1..Len(wr[t].pushed) /\ l = wr[t].pushed[j]
  BY <1>2, <1>4, <1>5 DEF WireOrder
<1>6. ASSUME NEW m, wr'[t].pushed = Append(wr[t].pushed, m)
      PROVE  \/ /\ i \in 1..Len(wr[t].pushed) /\ k = wr[t].pushed[i]
                /\ j \in 1..Len(wr[t].pushed) /\ l = wr[t].pushed[j]
             \/ /\ i \in 1..Len(wr[t].pushed) /\ k = wr[t].pushed[i]
                /\ l = m
  BY <1>2, <1>3, <1>6
<1>7. CASE wr'[t].pushed = wr[t].pushed
  BY <1>2, <1>5, <1>7
<1>8. CASE \E m : /\ wr'[t].pushed = Append(wr[t].pushed, m)
                  /\ ~IsMessage(m)
  BY <1>2, <1>5, <1>6, <1>8
<1>9. ASSUME NEW c \in ChanIds, ListenForward(c), chan[c].owner = t,
             wr'[t].pushed = Append(wr[t].pushed, Forwarded(c))
      PROVE  k.data < l.data
  <2>1. CASE i \in 1..Len(wr[t].pushed) /\ k = wr[t].pushed[i] /\ l = Forwarded(c)
    <3>1. FromChannel(t, k)
      BY <1>2, <2>1 DEF Wire
    <3>2. /\ c \in 1..nchans /\ chan[c].popped < Len(chan[c].pushed)
          /\ l.grp_name = rooms[chan[c].room].name
          /\ l.data = chan[c].pushed[chan[c].popped + 1]
      BY <1>1, <1>9, <2>1, ForwardedLine
    <3>3. k.data < chan[c].pushed[chan[c].popped + 1]
      BY <1>2, <1>4, <1>9, <3>1, <3>2, ForwardedLast
    <3> QED
      BY <3>2, <3>3
  <2> QED
    BY <1>5, <1>6, <1>9, <2>1
<1> QED
  BY <1>7, <1>8, <1>9, LineSteps

\* WireOrder: spawn_listener passes on what it reads before it reads again, so
\* the messages of a room reach the client's write channel, and its socket, in
\* the order in which the room's mutex admitted them.
THEOREM InOrderOnTheWire == Spec => []WireOrder
<1>1. Init => Wire /\ WireOrder
  BY DEF Init, Wire, WireOrder
<1>2. /\ TypeInv /\ Membership /\ Delivery /\ Wire /\ WireOrder /\ [Next]_vars
      => Wire' /\ WireOrder'
  BY WireStep, WireOrderStep
<1> QED
  BY <1>1, <1>2, TypeInvariant, MembershipInvariant, DeliveryInvariant, PTL DEF Spec
-----------------------------------------------------------------------------
(* The confirmation before the messages, on one thread *)

\* What a step does to the sessions: one of them moves, which runs already or
\* takes a free thread, and only SubReply enters a subscription.
LEMMA SessionSteps ==
  ASSUME TypeInv, [Next]_vars
  PROVE  \/ UNCHANGED ses
         \/ \E s \in Sessions :
               /\ ThreadFree \/ s \in Running
               /\ \A t \in Sessions \ {s} : ses'[t] = ses[t]
               /\ SubReply(s) \/ ses'[s].subs = ses[s].subs
<1>0. ses \in [Sessions -> SessionType]
  BY DEF TypeInv, TypeOK
<1>1. ASSUME NEW s \in Sessions, NEW pc, ses' = [ses EXCEPT ![s].pc = pc]
      PROVE  /\ \A t \in Sessions \ {s} : ses'[t] = ses[t]
             /\ ses'[s].subs = ses[s].subs
  <2>1. ses'[s] = [ses[s] EXCEPT !.pc = pc]
    BY <1>0, <1>1
  <2> QED
    BY <1>0, <1>1, <2>1 DEF SessionType
<1>2. ASSUME NEW s \in Sessions, NEW pc, GoOn(s, pc)
      PROVE  /\ \A t \in Sessions \ {s} : ses'[t] = ses[t]
             /\ ses'[s].subs = ses[s].subs
  <2>1. ses'[s] = [ses[s] EXCEPT !.lines = ses[s].lines + 1, !.pc = pc]
    BY <1>0, <1>2 DEF GoOn
  <2> QED
    BY <1>0, <1>2, <2>1 DEF SessionType, GoOn
<1>3. ASSUME NEW s \in Sessions, NEW pc, NEW r, NEW reply, GoOnWith(s, pc, r, reply)
      PROVE  /\ \A t \in Sessions \ {s} : ses'[t] = ses[t]
             /\ ses'[s].subs = ses[s].subs
  <2>1. ses'[s] = [ses[s] EXCEPT !.lines = ses[s].lines + 1, !.pc = pc, !.room = r,
                                 !.reply = reply]
    BY <1>0, <1>3 DEF GoOnWith
  <2> QED
    BY <1>0, <1>3, <2>1 DEF SessionType, GoOnWith
<1>4. ASSUME NEW s \in Sessions, Client(s)
      PROVE  /\ ThreadFree
             /\ \A t \in Sessions \ {s} : ses'[t] = ses[t]
             /\ ses'[s].subs = ses[s].subs
  <2>1. CASE Accept(s) \/ ReceiveError(s)
    BY <1>1, <2>1 DEF Accept, ReceiveError
  <2>2. ASSUME NEW q \in Requests[s],
               \/ ReceiveEmpty(s, q) \/ ReceiveUnknown(s, q) \/ ReceiveDesub(s, q)
               \/ ReceiveSub(s, q) \/ ReceiveCsub(s, q) \/ ReceiveMsg(s, q)
        PROVE  /\ ThreadFree
               /\ \/ \E pc : GoOn(s, pc)
                  \/ \E pc, r, reply : GoOnWith(s, pc, r, reply)
    <3>1. CASE ReceiveEmpty(s, q) \/ ReceiveUnknown(s, q) \/ ReceiveDesub(s, q)
      BY <3>1 DEF ReceiveEmpty, ReceiveUnknown, ReceiveDesub, Refuse, GetsLine
    <3>2. CASE ReceiveSub(s, q)
      BY <3>2 DEF ReceiveSub, Refuse, GetsLine
    <3>3. CASE ReceiveCsub(s, q)
      BY <3>3 DEF ReceiveCsub, Refuse, GetsLine
    <3>4. CASE ReceiveMsg(s, q)
      BY <3>4 DEF ReceiveMsg, Refuse, GetsLine
    <3> QED
      BY <2>2, <3>1, <3>2, <3>3, <3>4
  <2> QED
    BY <1>2, <1>3, <1>4, <2>1, <2>2 DEF Client
<1>5. ASSUME NEW s \in Sessions, Session(s)
      PROVE  \/ UNCHANGED ses
             \/ /\ s \in Running
                /\ \A t \in Sessions \ {s} : ses'[t] = ses[t]
                /\ SubReply(s) \/ ses'[s].subs = ses[s].subs
  <2>1. CASE MsgReject(s) \/ MsgUnlock(s) \/ CloseWriteChan(s) \/ Return(s)
    BY <1>1, <2>1 DEF MsgReject, MsgUnlock, CloseWriteChan, Return, Running
  <2>2. CASE SubToRoom(s)
    <3>1. /\ ses[s].pc = "sub_lock"
          /\ ses' = [ses EXCEPT ![s].pc = "sub_reply", ![s].chan = nchans + 1]
      BY <2>2 DEF SubToRoom
    <3>2. ses'[s] = [ses[s] EXCEPT !.pc = "sub_reply", !.chan = nchans + 1]
      BY <1>0, <3>1
    <3> QED
      BY <1>0, <3>1, <3>2 DEF SessionType, Running
  <2>3. CASE SubReply(s)
    BY <1>0, <2>3 DEF SubReply, Running
  <2>4. CASE MsgLock(s)
    <3>1. /\ ses[s].pc = "msg_lock"
          /\ ses' = [ses EXCEPT ![s].pc = "bcast", ![s].next = 1]
      BY <2>4 DEF MsgLock
    <3>2. ses'[s] = [ses[s] EXCEPT !.pc = "bcast", !.next = 1]
      BY <1>0, <3>1
    <3> QED
      BY <1>0, <3>1, <3>2 DEF SessionType, Running
  <2>5. CASE Broadcast(s)
    <3>1. /\ ses[s].pc = "bcast"
          /\ ses' = [ses EXCEPT ![s].next = ses[s].next + 1]
      BY <2>5 DEF Broadcast
    <3>2. ses'[s] = [ses[s] EXCEPT !.next = ses[s].next + 1]
      BY <1>0, <3>1
    <3> QED
      BY <1>0, <3>1, <3>2 DEF SessionType, Running
  <2>6. CASE CloseSubscription(s)
    BY <2>6 DEF CloseSubscription
  <2> QED
    BY <1>5, <2>1, <2>2, <2>3, <2>4, <2>5, <2>6 DEF Session
<1>6. ASSUME NEW s \in Sessions, Writer(s) PROVE UNCHANGED ses
  BY <1>6 DEF Writer, WriterSend, WriterAbort, SendDone, SendFail
<1>7. ASSUME NEW c \in ChanIds, Listener(c) PROVE UNCHANGED ses
  BY <1>7 DEF Listener, ListenStart, ListenForward, ListenAbort
<1>8. CASE UNCHANGED vars
  BY <1>8 DEF vars
<1> QED
  BY <1>4, <1>5, <1>6, <1>7, <1>8 DEF Next, Quiet

\* On one thread, at most one session is between two suspension points.
OneRunning == \A s, t \in Running : s = t

\* Nobody is when a thread is free.
LEMMA NobodyRuns ==
  ASSUME Threads = 1, OneRunning, ThreadFree
  PROVE  Running = {}
<1>1. ASSUME NEW s \in Running PROVE FALSE
  <2>1. Running = {s}
    BY DEF OneRunning
  <2>2. Cardinality(Running) = 1
    BY <2>1, FS_Singleton
  <2> QED
    BY <2>2 DEF ThreadFree
<1> QED
  BY <1>1

\* Every step keeps it that way.
LEMMA OneRunningStep ==
  ASSUME Threads = 1, TypeInv, OneRunning, [Next]_vars
  PROVE  OneRunning'
<1>1. CASE UNCHANGED ses
  BY <1>1 DEF OneRunning, Running
<1>2. ASSUME NEW s \in Sessions, ThreadFree \/ s \in Running,
             \A t \in Sessions \ {s} : ses'[t] = ses[t]
      PROVE  OneRunning'
  <2>1. Running \subseteq {s}
    BY <1>2, NobodyRuns DEF OneRunning
  <2>2. Running' \subseteq Running \cup {s}
    BY <1>2 DEF Running
  <2> QED
    BY <2>1, <2>2 DEF OneRunning
<1> QED
  BY <1>1, <1>2, SessionSteps

\* The client of s was told that it is subscribed to a room of that name.
Confirmed(s, n) ==
    \E i \in 1..Len(wr[s].pushed) :
        wr[s].pushed[i].type \in {"sub_ok", "csub_ok"} /\ wr[s].pushed[i].grp_name = n

\* It was told of every subscription that is entered, unless its write channel
\* is closed.
AllConfirmed ==
    \A s \in Sessions : \A c \in ses[s].subs :
        wr[s].closed \/ Confirmed(s, rooms[chan[c].room].name)

\* What was written stays written.
LEMMA WrittenStays ==
  ASSUME TypeInv, [Next]_vars, NEW t \in Sessions
  PROVE  /\ Len(wr[t].pushed) <= Len(wr'[t].pushed)
         /\ \A i \in 1..Len(wr[t].pushed) : /\ i \in 1..Len(wr'[t].pushed)
                                            /\ wr'[t].pushed[i] = wr[t].pushed[i]
<1>1. wr[t].pushed \in Seq(Replies)
  BY DEF TypeInv, TypeOK, WriterType
<1>2. \/ wr'[t].pushed = wr[t].pushed
      \/ \E l : wr'[t].pushed = Append(wr[t].pushed, l)
  BY WriteSteps
<1> QED
  BY <1>1, <1>2

\* So what is confirmed stays confirmed.
LEMMA ConfirmedStays ==
  ASSUME TypeInv, [Next]_vars, NEW t \in Sessions, NEW n, Confirmed(t, n)
  PROVE  Confirmed(t, n)'
BY WrittenStays DEF Confirmed

\* SubReply writes the confirmation.
LEMMA SubReplyConfirms ==
  ASSUME TypeInv, NEW s \in Sessions, SubReply(s), NEW n, n = rooms[ses[s].room].name
  PROVE  wr[s].closed \/ Confirmed(s, n)'
<1>1. wr[s] \in WriterType /\ wr \in [Sessions -> WriterType] /\ ses[s] \in SessionType
  BY DEF TypeInv, TypeOK
<1>2. wr' = [wr EXCEPT ![s].pushed = IF wr[s].closed THEN wr[s].pushed
                                     ELSE Append(wr[s].pushed, Confirmation(s))]
  BY DEF SubReply, Write
<1>3. ASSUME wr[s].closed = FALSE
      PROVE  Confirmed(s, n)'
  <2> DEFINE k == Confirmation(s)
             p == Append(wr[s].pushed, k)
  <2>1. wr'[s] = [wr[s] EXCEPT !.pushed = p]
    BY <1>1, <1>2, <1>3
  <2>2. k.type \in {"sub_ok", "csub_ok"} /\ k.grp_name = n
    BY <1>1 DEF Confirmation, SessionType
  <2>3. wr[s].pushed \in Seq(Replies)
    BY <1>1 DEF WriterType
  <2> HIDE DEF k
  <2>4. Len(wr[s].pushed) + 1 \in 1..Len(p) /\ p[Len(wr[s].pushed) + 1] = k
    BY <2>3
  <2> HIDE DEF p
  <2>5. wr'[s].pushed = p
    BY <1>1, <2>1 DEF WriterType
  <2> QED
    BY <2>2, <2>4, <2>5 DEF Confirmed
<1> QED
  BY <1>1, <1>3 DEF WriterType

\* Every step keeps AllConfirmed.
LEMMA AllConfirmedStep ==
  ASSUME TypeInv, Membership, Delivery, AllConfirmed, [Next]_vars
  PROVE  AllConfirmed'
<1>1. SUFFICES ASSUME NEW s \in Sessions, NEW c \in ses'[s].subs, NEW n,
                      n = rooms'[chan'[c].room].name
               PROVE  wr'[s].closed \/ Confirmed(s, n)'
  BY DEF AllConfirmed
<1>2. Grown /\ ClosedStays
  BY AlwaysGrown, ClosedForGood
<1>3. CASE c \in ses[s].subs
  <2>1. c \in 1..nchans
    <3>1. c \in ChanIds /\ c <= nchans
      BY <1>3 DEF Membership, TypeInv, TypeOK, SessionType
    <3> QED
      BY <3>1, Typed DEF ChanIds
  <2>2. n = rooms[chan[c].room].name
    BY <1>1, <1>2, <2>1, Typed DEF Grown
  <2> QED
    BY <1>2, <1>3, <2>2, ConfirmedStays DEF AllConfirmed, ClosedStays
<1>4. CASE c \notin ses[s].subs
  <2>1. SubReply(s)
    BY <1>4, SessionSteps
  <2>2. c = ses[s].chan
    <3>1. ses' = [ses EXCEPT ![s].pc = "reading",
                             ![s].subs = IF \E d \in ses[s].subs : chan[d].room = ses[s].room
                                         THEN ses[s].subs ELSE ses[s].subs \cup {ses[s].chan}]
      BY <2>1 DEF SubReply
    <3> DEFINE b == IF \E d \in ses[s].subs : chan[d].room = ses[s].room
                    THEN ses[s].subs ELSE ses[s].subs \cup {ses[s].chan}
    <3>2. b \subseteq ses[s].subs \cup {ses[s].chan}
      OBVIOUS
    <3>3. ses \in [Sessions -> SessionType]
      BY DEF TypeInv, TypeOK
    <3>4. ses'[s] = [ses[s] EXCEPT !.pc = "reading", !.subs = b]
      BY <3>1, <3>3
    <3> HIDE DEF b
    <3>5. ses'[s].subs = b
      BY <3>3, <3>4 DEF SessionType
    <3> QED
      BY <1>4, <3>2, <3>5
  <2>3. UNCHANGED <<rooms, chan>> /\ chan[c].room = ses[s].room
    BY <2>1, <2>2 DEF SubReply, Membership
  <2> QED
    BY <1>1, <1>2, <2>1, <2>3, SubReplyConfirms DEF ClosedStays
<1> QED
  BY <1>3, <1>4

\* What a listener forwards belongs to a subscription that was confirmed.
LEMMA ConfirmedBefore ==
  ASSUME Threads = 1, TypeInv, Membership, OneRunning, AllConfirmed,
         NEW c \in ChanIds, ListenForward(c), ~wr[chan[c].owner].closed
  PROVE  Confirmed(chan[c].owner, rooms[chan[c].room].name)
<1>1. c \in 1..nchans
  BY ListenFacts DEF Listener
<1>2. Running = {}
  BY NobodyRuns DEF ListenForward
<1>3. c <= nchans
  BY <1>1, Typed
<1>4. chan[c].owner \in Sessions
  BY <1>3 DEF Membership
<1>5. ses[chan[c].owner].pc # "sub_reply"
  BY <1>2, <1>4 DEF Running
<1>6. c \in ses[chan[c].owner].subs
  BY <1>3, <1>5 DEF Membership
<1> QED
  BY <1>4, <1>6 DEF AllConfirmed

\* Every step keeps ConfirmedFirst.
LEMMA ConfirmedFirstStep ==
  ASSUME Threads = 1, TypeInv, Membership, Delivery, OneRunning, AllConfirmed,
         ConfirmedFirst, [Next]_vars
  PROVE  ConfirmedFirst'
<1> DEFINE Early(t, j, n) ==
             \E i \in 1..(j - 1) : /\ wr[t].pushed[i].type \in {"sub_ok", "csub_ok"}
                                   /\ wr[t].pushed[i].grp_name = n
<1>1. SUFFICES ASSUME NEW t \in Sessions, NEW j \in 1..Len(wr'[t].pushed),
                      NEW l, l = wr'[t].pushed[j], IsMessage(l)
               PROVE  \E i \in 1..(j - 1) :
                         /\ wr'[t].pushed[i].type \in {"sub_ok", "csub_ok"}
                         /\ wr'[t].pushed[i].grp_name = l.grp_name
  BY DEF ConfirmedFirst
<1>2. wr[t].pushed \in Seq(Replies)
  BY DEF TypeInv, TypeOK, WriterType
<1>3. /\ Len(wr[t].pushed) \in Nat /\ Len(wr[t].pushed) <= Len(wr'[t].pushed)
      /\ \A i \in 1..Len(wr[t].pushed) : wr'[t].pushed[i] = wr[t].pushed[i]
  BY <1>2, WrittenStays
<1>4. SUFFICES j - 1 <= Len(wr[t].pushed) /\ Early(t, j, l.grp_name)
  <2>1. PICK i \in 1..(j - 1) : /\ wr[t].pushed[i].type \in {"sub_ok", "csub_ok"}
                                /\ wr[t].pushed[i].grp_name = l.grp_name
    BY <1>4
  <2>2. i \in 1..Len(wr[t].pushed)
    BY <1>3, <1>4
  <2>3. wr'[t].pushed[i] = wr[t].pushed[i]
    BY <1>3, <2>2
  <2> QED
    BY <2>1, <2>3
<1>5. CASE j \in 1..Len(wr[t].pushed)
  <2>1. l = wr[t].pushed[j]
    BY <1>1, <1>3, <1>5
  <2> QED
    BY <1>1, <1>2, <1>5, <2>1 DEF ConfirmedFirst
<1>6. CASE j \notin 1..Len(wr[t].pushed)
  <2>1. PICK m : /\ wr'[t].pushed = Append(wr[t].pushed, m)
                 /\ \/ ~IsMessage(m)
                    \/ \E c \in ChanIds : /\ ListenForward(c) /\ chan[c].owner = t
                                          /\ m = Forwarded(c) /\ ~wr[t].closed
    BY <1>6, LineSteps
  <2>2. j = Len(wr[t].pushed) + 1 /\ l = m
    BY <1>1, <1>2, <1>6, <2>1
  <2>3. PICK c \in ChanIds : /\ ListenForward(c) /\ chan[c].owner = t
                             /\ l = Forwarded(c) /\ ~wr[t].closed
    BY <1>1, <2>1, <2>2
  <2>4. l.grp_name = rooms[chan[c].room].name
    BY <2>3 DEF Forwarded
  <2>5. Confirmed(t, l.grp_name)
    BY <2>3, <2>4, ConfirmedBefore
  <2> QED
    BY <1>3, <2>2, <2>5 DEF Confirmed
<1> QED
  BY <1>5, <1>6

\* ConfirmedFirst on a server with one thread: between sub_to_room and the
\* reply no listener gets to run, so sub_ok or csub_ok is the first that the
\* client hears of a room.
THEOREM ConfirmedFirstOneThread ==
  ASSUME Threads = 1
  PROVE  Spec => []ConfirmedFirst
<1> DEFINE I == OneRunning /\ AllConfirmed /\ ConfirmedFirst
<1>1. Init => I
  BY DEF Init, OneRunning, Running, AllConfirmed, ConfirmedFirst
<1>2. TypeInv /\ Membership /\ Delivery /\ I /\ [Next]_vars => I'
  BY OneRunningStep, AllConfirmedStep, ConfirmedFirstStep
<1> QED
  BY <1>1, <1>2, TypeInvariant, MembershipInvariant, DeliveryInvariant, PTL DEF Spec
=============================================================================
