-------------------------- MODULE ChatClient_proofs --------------------------
(***************************************************************************)
(* The desktop client: theorems about what is shown, for any number of     *)
(* clicks, connections, rooms and messages, any capacity of the channels   *)
(* and connections that fail or break at any time.                         *)
(***************************************************************************)
EXTENDS ChatClient, Retain_proofs, SequenceTheorems

\* A step that makes v of connection k and changes no other.
Moves(k, v) ==
    /\ net' = [net EXCEPT ![k] = v]
    /\ v \in Connection
    /\ Len(v.cmds) <= CmdCap /\ Len(v.events) <= EventCap

\* Such a step keeps the types.
LEMMA MovesType ==
  ASSUME TypeOK, NEW k \in Conns, NEW v, Moves(k, v)
  PROVE  /\ net' \in [Conns -> Connection]
         /\ \A j \in Conns : Len(net'[j].cmds) <= CmdCap /\ Len(net'[j].events) <= EventCap
         /\ net'[k] = v
         /\ \A j \in Conns : j # k => net'[j] = net[j]
<1>1. net \in [Conns -> Connection] /\ v \in Connection
  BY DEF TypeOK, Moves
<1>2. ASSUME NEW j \in Conns PROVE net'[j] = IF j = k THEN v ELSE net[j]
  BY <1>1 DEF Moves
<1>3. ASSUME NEW j \in Conns
      PROVE  Len(net'[j].cmds) <= CmdCap /\ Len(net'[j].events) <= EventCap
  BY <1>2 DEF TypeOK, Moves
<1> QED
  BY <1>1, <1>2, <1>3 DEF Moves

\* The parts of a connection that decide what is shown.
Same(k, v) ==
    /\ v.task = net[k].task /\ v.reader = net[k].reader
    /\ v.events = net[k].events /\ v.down = net[k].down

\* What an event channel holds after a send.
LEMMA EmittedType ==
  ASSUME TypeOK, NEW k \in Conns, NEW evs \in Seq(Events), Emit(k, evs)
  PROVE  Emitted(k, evs) \in Seq(Events) /\ Len(Emitted(k, evs)) <= EventCap
<1>1. net[k].events \in Seq(Events) /\ EventCap \in Nat
  BY ClientAssumption DEF TypeOK, Connection
<1>2. CASE k = cur
  BY <1>1, <1>2, ConcatProperties DEF Emit, Emitted
<1>3. CASE k # cur
  BY <1>1, <1>3, EmptySeq DEF Emitted
<1> QED
  BY <1>2, <1>3

\* The task that sends a command.
LEMMA SendCommandMoves ==
  ASSUME TypeOK, NEW k \in Conns, SendCommand(k)
  PROVE  \E v : Moves(k, v) /\ Same(k, v)
<1>1. net[k] \in Connection /\ Len(net[k].cmds) <= CmdCap /\ Len(net[k].events) <= EventCap
  BY DEF TypeOK
<1>2. PICK s \in net[k].spawned :
          IF net[k].task = "done"
          THEN net' = [net EXCEPT ![k].spawned = @ \ {s}]
          ELSE /\ Len(net[k].cmds) < CmdCap
               /\ net' = [net EXCEPT ![k].spawned = @ \ {s}, ![k].cmds = Append(@, s.cmd)]
  BY DEF SendCommand
<1> DEFINE p == net[k].spawned \ {s}
           q == Append(net[k].cmds, s.cmd)
<1>3. s.cmd \in Commands /\ p \in SUBSET [n : 1..MaxClicks, cmd : Commands]
  BY <1>1 DEF Connection
<1>4. /\ net[k].cmds \in Seq(Commands) /\ q \in Seq(Commands)
      /\ Len(q) = Len(net[k].cmds) + 1 /\ CmdCap \in Nat
  BY <1>1, <1>3, ClientAssumption DEF Connection
<1>5. CASE net[k].task = "done"
  <2> DEFINE v == [net[k] EXCEPT !.spawned = p]
  <2>1. net' = [net EXCEPT ![k] = v]
    BY <1>2, <1>5
  <2> HIDE DEF p
  <2>2. v \in Connection /\ v.cmds = net[k].cmds /\ Same(k, v)
    BY <1>1, <1>3 DEF Connection, Same
  <2> HIDE DEF v
  <2> QED
    BY <1>1, <2>1, <2>2 DEF Moves, Same
<1>6. CASE net[k].task # "done"
  <2> DEFINE v == [net[k] EXCEPT !.spawned = p, !.cmds = q]
  <2>1. net' = [net EXCEPT ![k] = v] /\ Len(net[k].cmds) < CmdCap
    BY <1>2, <1>6
  <2> HIDE DEF p, q
  <2>2. v \in Connection /\ v.cmds = q /\ Same(k, v)
    BY <1>1, <1>3, <1>4 DEF Connection, Same
  <2>3. Len(q) <= CmdCap
    BY <1>4, <2>1
  <2> HIDE DEF v
  <2> QED
    BY <1>1, <2>1, <2>2, <2>3 DEF Moves, Same
<1> QED
  BY <1>5, <1>6

\* The connection task begins, and fails to.
LEMMA TaskBeginsMoves ==
  ASSUME TypeOK, NEW k \in Conns, TaskConnects(k) \/ TaskRefused(k)
  PROVE  /\ net[k].task = "connecting"
         /\ \E v : /\ Moves(k, v) /\ v.down = net[k].down
                   /\ \/ /\ v.task = "looping" /\ v.reader = "reading"
                         /\ v.events = Emitted(k, <<[type |-> "connected"]>>)
                      \/ /\ v.task = "done" /\ v.reader = net[k].reader
                         /\ v.events = Emitted(k, <<[type |-> "error"], [type |-> "disconnected"]>>)
<1>1. net[k] \in Connection /\ Len(net[k].cmds) <= CmdCap
  BY DEF TypeOK
<1>2. net[k].task = "connecting"
  BY DEF TaskConnects, TaskRefused
<1> DEFINE up   == <<[type |-> "connected"]>>
           down == <<[type |-> "error"], [type |-> "disconnected"]>>
<1>3. up \in Seq(Events) /\ down \in Seq(Events)
  BY DEF Events, Lines
<1>4. CASE TaskConnects(k)
  <2> DEFINE e == Emitted(k, up)
             v == [net[k] EXCEPT !.task = "looping", !.reader = "reading",
                                 !.session = "open", !.events = e]
  <2>1. net' = [net EXCEPT ![k] = v] /\ Emit(k, up)
    BY <1>4 DEF TaskConnects
  <2>2. e \in Seq(Events) /\ Len(e) <= EventCap
    BY <1>3, <2>1, EmittedType
  <2> HIDE DEF e
  <2>3. /\ v \in Connection /\ v.cmds = net[k].cmds /\ v.events = e
        /\ v.task = "looping" /\ v.reader = "reading" /\ v.down = net[k].down
    BY <1>1, <2>2 DEF Connection
  <2> HIDE DEF v
  <2> QED
    BY <1>1, <1>2, <2>1, <2>2, <2>3 DEF Moves, e
<1>5. CASE TaskRefused(k)
  <2> DEFINE e == Emitted(k, down)
             v == [net[k] EXCEPT !.task = "done", !.events = e]
  <2>1. net' = [net EXCEPT ![k] = v] /\ Emit(k, down)
    BY <1>5 DEF TaskRefused
  <2>2. e \in Seq(Events) /\ Len(e) <= EventCap
    BY <1>3, <2>1, EmittedType
  <2> HIDE DEF e
  <2>3. /\ v \in Connection /\ v.cmds = net[k].cmds /\ v.events = e
        /\ v.task = "done" /\ v.reader = net[k].reader /\ v.down = net[k].down
    BY <1>1, <2>2 DEF Connection
  <2> HIDE DEF v
  <2> QED
    BY <1>1, <1>2, <2>1, <2>2, <2>3 DEF Moves, e
<1> QED
  BY <1>4, <1>5

\* The loop of the connection task is left, and the reader told to stop.
LoopLeft(k, v) ==
    /\ net[k].task = "looping" /\ v.task = "ending"
    /\ v.reader = IF net[k].reader = "reading" THEN "aborting" ELSE net[k].reader
    /\ v.events = net[k].events /\ v.down = net[k].down

\* The loop of the connection task: a command, and no more commands.
LEMMA TaskLoopMoves ==
  ASSUME TypeOK, NEW k \in Conns, TaskCommand(k) \/ TaskNone(k)
  PROVE  \E v : Moves(k, v) /\ (Same(k, v) \/ LoopLeft(k, v))
<1>1. /\ net[k] \in Connection /\ Len(net[k].cmds) <= CmdCap /\ Len(net[k].events) <= EventCap
      /\ net \in [Conns -> Connection]
  BY DEF TypeOK
<1>2. net[k].task = "looping"
  BY DEF TaskCommand, TaskNone
<1> DEFINE r == IF net[k].reader = "reading" THEN "aborting" ELSE net[k].reader
<1>3. r \in {"none", "reading", "aborting", "done"}
  BY <1>1 DEF Connection
<1>4. CASE TaskNone(k)
  <2> DEFINE v == [net[k] EXCEPT !.task = "ending", !.reader = r]
  <2>1. net' = [net EXCEPT ![k] = v]
    BY <1>4 DEF TaskNone
  <2> HIDE DEF r
  <2>2. /\ v \in Connection /\ v.cmds = net[k].cmds /\ v.events = net[k].events
        /\ v.task = "ending" /\ v.reader = r /\ v.down = net[k].down
    BY <1>1, <1>3 DEF Connection
  <2> HIDE DEF v
  <2> QED
    BY <1>1, <1>2, <2>1, <2>2 DEF Moves, LoopLeft, r
<1>5. CASE TaskCommand(k)
  <2> DEFINE cmd == Head(net[k].cmds)
             t == Tail(net[k].cmds)
             u == IF net[k].session = "open" THEN Append(net[k].up, cmd) ELSE net[k].up
             w == [net[k] EXCEPT !.cmds = t, !.up = u]
             written == [net EXCEPT ![k].cmds = Tail(@),
                                    ![k].up = IF net[k].session = "open" THEN Append(@, cmd) ELSE @]
             left == [written EXCEPT ![k].task = "ending",
                                     ![k].reader = IF @ = "reading" THEN "aborting" ELSE @]
  <2>1. net[k].cmds # <<>> /\ (net' = written \/ net' = left)
    BY <1>5 DEF TaskCommand
  <2>2. written = [net EXCEPT ![k] = w]
    BY <1>1
  <2>3. net[k].cmds \in Seq(Commands) /\ net[k].up \in Seq(Commands)
    BY <1>1 DEF Connection
  <2>4. t \in Seq(Commands) /\ Len(t) <= CmdCap /\ cmd \in Commands
    BY <1>1, <2>1, <2>3, HeadTailProperties, ClientAssumption
  <2>5. u \in Seq(Commands)
    BY <2>3, <2>4
  <2> HIDE DEF u, t
  <2>6. /\ w \in Connection /\ w.cmds = t /\ w.events = net[k].events
        /\ w.task = net[k].task /\ w.reader = net[k].reader /\ w.down = net[k].down
    BY <1>1, <2>4, <2>5 DEF Connection
  <2> HIDE DEF w, written
  <2>7. CASE net' = written
    BY <1>1, <2>2, <2>4, <2>6, <2>7 DEF Moves, Same
  <2>8. CASE net' = left
    <3> DEFINE v == [w EXCEPT !.task = "ending", !.reader = r]
    <3>1. written \in [Conns -> Connection] /\ written[k] = w
      BY <1>1, <2>2, <2>6
    <3>2. net' = [written EXCEPT ![k] = [w EXCEPT !.task = "ending",
                    !.reader = IF w.reader = "reading" THEN "aborting" ELSE w.reader]]
      BY <2>8, <3>1
    <3>3. net' = [written EXCEPT ![k] = v]
      BY <2>6, <3>2
    <3> HIDE DEF r
    <3>4. /\ v \in Connection /\ v.cmds = t /\ v.events = net[k].events
          /\ v.task = "ending" /\ v.reader = r /\ v.down = net[k].down
      BY <1>3, <2>6 DEF Connection
    <3> HIDE DEF v
    <3>5. net' = [net EXCEPT ![k] = v]
      BY <1>1, <2>2, <3>3
    <3> QED
      BY <1>1, <1>2, <2>4, <3>4, <3>5 DEF Moves, LoopLeft, r
  <2> QED
    BY <2>1, <2>7, <2>8
<1> QED
  BY <1>4, <1>5

\* The connection task returns.
LEMMA TaskEndsMoves ==
  ASSUME TypeOK, NEW k \in Conns, TaskEnds(k)
  PROVE  /\ net[k].task = "ending"
         /\ \E v : /\ Moves(k, v) /\ v.task = "done" /\ v.reader = net[k].reader
                   /\ v.down = net[k].down /\ v.events = Emitted(k, LastWords)
<1>1. net[k] \in Connection
  BY DEF TypeOK
<1>2. LastWords \in Seq(Events)
  BY DEF LastWords, Events
<1> DEFINE e == Emitted(k, LastWords)
           none == <<>>
           v == [net[k] EXCEPT !.task = "done", !.cmds = none, !.events = e]
<1>3. net[k].task = "ending" /\ Emit(k, LastWords) /\ net' = [net EXCEPT ![k] = v]
  BY DEF TaskEnds
<1>4. e \in Seq(Events) /\ Len(e) <= EventCap
  BY <1>2, <1>3, EmittedType
<1>5. none \in Seq(Commands) /\ Len(none) <= CmdCap
  BY ClientAssumption
<1> HIDE DEF e, none
<1>6. /\ v \in Connection /\ v.cmds = none /\ v.events = e
      /\ v.task = "done" /\ v.reader = net[k].reader /\ v.down = net[k].down
  BY <1>1, <1>4, <1>5 DEF Connection
<1> HIDE DEF v
<1> QED
  BY <1>3, <1>4, <1>5, <1>6 DEF Moves, e

\* What classify_server_message makes of a line of this server keeps its fields.
LEMMA ClassifiedLine ==
  ASSUME NEW l \in Lines
  PROVE  Classified(l) = l
BY DEF Classified, Lines, Confirmations

\* The reader task.
LEMMA ReaderMoves ==
  ASSUME TypeOK, NEW k \in Conns, Reader(k)
  PROVE  \E v : /\ Moves(k, v) /\ v.task = net[k].task
                /\ \/ /\ net[k].reader = "aborting" /\ v.reader = "done"
                      /\ v.events = net[k].events /\ v.down = net[k].down
                   \/ /\ net[k].reader = "reading" /\ v.reader = "done"
                      /\ v.events = Emitted(k, LastWords) /\ v.down = net[k].down
                   \/ /\ net[k].down # <<>> /\ v.down = Tail(net[k].down)
                      /\ v.events = Emitted(k, <<Head(net[k].down)>>)
                      /\ \/ net[k].reader = "aborting" /\ v.reader = "done"
                         \/ net[k].reader = "reading" /\ v.reader = "reading"
<1>1. net[k] \in Connection /\ Len(net[k].cmds) <= CmdCap /\ Len(net[k].events) <= EventCap
  BY DEF TypeOK
<1>2. CASE ReadAborted(k)
  <2> DEFINE v == [net[k] EXCEPT !.reader = "done"]
  <2>1. net[k].reader = "aborting" /\ net' = [net EXCEPT ![k] = v]
    BY <1>2 DEF ReadAborted
  <2>2. /\ v \in Connection /\ v.cmds = net[k].cmds /\ v.events = net[k].events
        /\ v.task = net[k].task /\ v.reader = "done" /\ v.down = net[k].down
    BY <1>1 DEF Connection
  <2> HIDE DEF v
  <2> QED
    BY <1>1, <2>1, <2>2 DEF Moves
<1>3. CASE ReadEnd(k)
  <2> DEFINE e == Emitted(k, LastWords)
             v == [net[k] EXCEPT !.reader = "done", !.events = e]
  <2>1. net[k].reader = "reading" /\ Emit(k, LastWords) /\ net' = [net EXCEPT ![k] = v]
    BY <1>3 DEF ReadEnd
  <2>2. LastWords \in Seq(Events)
    BY DEF LastWords, Events
  <2>3. e \in Seq(Events) /\ Len(e) <= EventCap
    BY <2>1, <2>2, EmittedType
  <2> HIDE DEF e
  <2>4. /\ v \in Connection /\ v.cmds = net[k].cmds /\ v.events = e
        /\ v.task = net[k].task /\ v.reader = "done" /\ v.down = net[k].down
    BY <1>1, <2>3 DEF Connection
  <2> HIDE DEF v
  <2> QED
    BY <1>1, <2>1, <2>3, <2>4 DEF Moves, e
<1>4. CASE ReadLine(k)
  <2> DEFINE l == <<Head(net[k].down)>>
             d == Tail(net[k].down)
             e == Emitted(k, l)
             r == IF net[k].reader = "aborting" THEN "done" ELSE net[k].reader
             v == [net[k] EXCEPT !.down = d, !.events = e, !.reader = r]
  <2>0. net[k].down # <<>>
    BY <1>4 DEF ReadLine
  <2>2. d \in Seq(Lines) /\ Head(net[k].down) \in Lines
    BY <1>1, <2>0, HeadTailProperties DEF Connection
  <2>1. /\ net[k].reader \in {"reading", "aborting"} /\ net[k].down # <<>>
        /\ Emit(k, l) /\ net' = [net EXCEPT ![k] = v]
    <3>1. Classified(Head(net[k].down)) = Head(net[k].down)
      BY <2>2, ClassifiedLine
    <3> QED
      BY <1>4, <3>1 DEF ReadLine
  <2>3. l \in Seq(Events)
    BY <2>2 DEF Events
  <2>4. e \in Seq(Events) /\ Len(e) <= EventCap
    BY <2>1, <2>3, EmittedType
  <2>5. /\ r \in {"none", "reading", "aborting", "done"}
        /\ \/ net[k].reader = "aborting" /\ r = "done"
           \/ net[k].reader = "reading" /\ r = "reading"
    BY <2>1
  <2> HIDE DEF e, d, r
  <2>6. /\ v \in Connection /\ v.cmds = net[k].cmds /\ v.events = e
        /\ v.task = net[k].task /\ v.reader = r /\ v.down = d
    BY <1>1, <2>2, <2>4, <2>5 DEF Connection
  <2> HIDE DEF v
  <2>7. Moves(k, v)
    BY <1>1, <2>1, <2>4, <2>6 DEF Moves
  <2> QED
    BY <2>1, <2>5, <2>6, <2>7 DEF e, d
<1> QED
  BY <1>2, <1>3, <1>4 DEF Reader

\* The server writes lines, none of which is a message.
Answered(k, v) ==
    /\ v.task = net[k].task /\ v.reader = net[k].reader /\ v.events = net[k].events
    /\ \E x \in Seq(Lines) : /\ v.down = net[k].down \o x
                             /\ \A i \in 1..Len(x) : x[i].type # "message"

\* The server answers a line, writes a confirmation or ends the session.
LEMMA ServerMoves ==
  ASSUME TypeOK, NEW k \in Conns, Server(k) \/ SessionEnds(k)
  PROVE  /\ \E v : Moves(k, v) /\ (Same(k, v) \/ Answered(k, v))
         /\ srooms' \in Seq(Names)
<1>1. /\ net[k] \in Connection /\ Len(net[k].cmds) <= CmdCap /\ Len(net[k].events) <= EventCap
      /\ net \in [Conns -> Connection] /\ srooms \in Seq(Names) /\ Len(srooms) \in Nat
  BY DEF TypeOK
<1>2. ASSUME NEW v \in Connection, net' = [net EXCEPT ![k] = v],
             v.cmds = net[k].cmds, v.events = net[k].events
      PROVE  Moves(k, v)
  BY <1>1, <1>2 DEF Moves
<1>3. CASE SessionEnds(k)
  <2> DEFINE v == [net[k] EXCEPT !.session = "closed"]
  <2>1. net' = [net EXCEPT ![k] = v] /\ UNCHANGED srooms
    BY <1>3 DEF SessionEnds
  <2>2. v \in Connection /\ v.cmds = net[k].cmds /\ Same(k, v)
    BY <1>1 DEF Connection, Same
  <2> HIDE DEF v
  <2>3. Moves(k, v)
    BY <1>2, <2>1, <2>2 DEF Same
  <2> QED
    BY <1>1, <2>1, <2>2, <2>3
<1>4. CASE Reply(k)
  <2> DEFINE d == net[k].down \o net[k].owed
             none == <<>>
             v == [net[k] EXCEPT !.down = d, !.owed = none]
  <2>1. net' = [net EXCEPT ![k] = v] /\ UNCHANGED srooms
    BY <1>4 DEF Reply
  <2>2. net[k].owed \in Seq(Lines) /\ net[k].down \in Seq(Lines) /\ none \in Seq(Confirmations)
    <3>1. net[k].owed \in Seq(Confirmations) /\ Confirmations \subseteq Lines
      BY <1>1 DEF Connection, Lines
    <3> QED
      BY <1>1, <3>1 DEF Connection
  <2>3. \A i \in 1..Len(net[k].owed) : net[k].owed[i].type # "message"
    <3>1. \A i \in 1..Len(net[k].owed) : net[k].owed[i] \in Confirmations
      BY <1>1 DEF Connection
    <3> QED
      BY <3>1 DEF Confirmations
  <2>4. d \in Seq(Lines)
    BY <2>2, ConcatProperties
  <2> HIDE DEF d, none
  <2>5. /\ v \in Connection /\ v.cmds = net[k].cmds /\ v.events = net[k].events
        /\ v.task = net[k].task /\ v.reader = net[k].reader /\ v.down = d
    BY <1>1, <2>2, <2>4 DEF Connection
  <2> HIDE DEF v
  <2>6. Moves(k, v)
    BY <1>2, <2>1, <2>5
  <2>7. Answered(k, v)
    BY <2>2, <2>3, <2>5 DEF Answered, d
  <2> QED
    BY <1>1, <2>1, <2>6, <2>7
<1>5. CASE Serve(k)
  <2> DEFINE q == Head(net[k].up)
             u == Tail(net[k].up)
             rest == [net EXCEPT ![k].up = Tail(@)]
             w == [net[k] EXCEPT !.up = u]
             ok(type, id, name) ==
                 [rest EXCEPT ![k].subs = @ \cup {id},
                              ![k].owed = <<[type |-> type, grp |-> id, grp_name |-> name]>>]
             err == [type |-> "error"]
             error == [rest EXCEPT ![k].down = Append(@, [type |-> "error"])]
             closed == [rest EXCEPT ![k].session = "closed"]
  <2>1. net[k].up # <<>> /\ net[k].up \in Seq(Commands)
    BY <1>1, <1>5 DEF Serve, Connection
  <2>2. q \in Commands /\ u \in Seq(Commands)
    BY <2>1, HeadTailProperties
  <2>3. rest = [net EXCEPT ![k] = w]
    BY <1>1
  <2> HIDE DEF u
  <2>4. /\ w \in Connection /\ w.cmds = net[k].cmds /\ Same(k, w)
        /\ w.subs = net[k].subs /\ w.down = net[k].down
    BY <1>1, <2>2 DEF Connection, Same
  <2> HIDE DEF w, rest
  <2>5. rest \in [Conns -> Connection] /\ rest[k] = w
    BY <1>1, <2>3, <2>4
  <2>6. ASSUME NEW v, net' = [rest EXCEPT ![k] = v] PROVE net' = [net EXCEPT ![k] = v]
    BY <1>1, <2>3, <2>6
  <2>7. ASSUME net' = rest
        PROVE \E v : Moves(k, v) /\ (Same(k, v) \/ Answered(k, v))
    <3>1. Moves(k, w)
      BY <1>2, <2>3, <2>4, <2>7 DEF Same
    <3> QED
      BY <2>4, <3>1
  <2>8. ASSUME NEW type \in {"sub_ok", "csub_ok"}, NEW id \in Nat, NEW name \in Names,
               net' = ok(type, id, name)
        PROVE  \E v : Moves(k, v) /\ Same(k, v)
    <3> DEFINE b == w.subs \cup {id}
               o == <<[type |-> type, grp |-> id, grp_name |-> name]>>
               v == [w EXCEPT !.subs = b, !.owed = o]
    <3>1. net' = [rest EXCEPT ![k] = v]
      BY <2>5, <2>8
    <3>2. b \in SUBSET Nat /\ o \in Seq(Confirmations)
      BY <2>4, <2>8 DEF Connection, Confirmations
    <3> HIDE DEF b, o
    <3>3. v \in Connection /\ v.cmds = net[k].cmds /\ Same(k, v)
      BY <2>4, <3>2 DEF Connection, Same
    <3> HIDE DEF v
    <3> QED
      BY <1>2, <2>6, <3>1, <3>3 DEF Same
  <2>9. ASSUME net' = error
        PROVE \E v : Moves(k, v) /\ (Same(k, v) \/ Answered(k, v))
    <3> DEFINE d == Append(w.down, err)
               v == [w EXCEPT !.down = d]
    <3>1. net' = [rest EXCEPT ![k] = v]
      BY <2>5, <2>9
    <3>2. err \in Lines /\ err.type # "message" /\ w.down \in Seq(Lines)
      BY <2>4 DEF Lines, Connection
    <3> HIDE DEF err
    <3>3. d \in Seq(Lines) /\ d = net[k].down \o <<err>> /\ <<err>> \in Seq(Lines)
      BY <2>4, <3>2
    <3> HIDE DEF d
    <3>4. /\ v \in Connection /\ v.cmds = net[k].cmds /\ v.events = net[k].events
          /\ v.task = net[k].task /\ v.reader = net[k].reader /\ v.down = d
      BY <2>4, <3>3 DEF Connection, Same
    <3> HIDE DEF v
    <3>5. Answered(k, v)
      <4>1. \A i \in 1..Len(<<err>>) : <<err>>[i] = err
        OBVIOUS
      <4>2. PICK x : x = <<err>>
        OBVIOUS
      <4>3. /\ x \in Seq(Lines) /\ v.down = net[k].down \o x
            /\ \A i \in 1..Len(x) : x[i].type # "message"
        BY <3>2, <3>3, <3>4, <4>1, <4>2
      <4> QED
        BY <3>4, <4>3 DEF Answered
    <3>6. Moves(k, v)
      BY <1>2, <2>6, <3>1, <3>4
    <3> QED
      BY <3>5, <3>6
  <2>10. ASSUME net' = closed
         PROVE \E v : Moves(k, v) /\ (Same(k, v) \/ Answered(k, v))
    <3> DEFINE v == [w EXCEPT !.session = "closed"]
    <3>1. net' = [rest EXCEPT ![k] = v]
      BY <2>5, <2>10
    <3>2. v \in Connection /\ v.cmds = net[k].cmds /\ Same(k, v)
      BY <2>4 DEF Connection, Same
    <3> HIDE DEF v
    <3> QED
      BY <1>2, <2>6, <3>1, <3>2 DEF Same
  <2>11. \/ /\ q.type = "csub" /\ srooms' = Append(srooms, q.name)
            /\ net' = ok("csub_ok", Len(srooms) + 1, q.name)
         \/ /\ q.type = "sub" /\ UNCHANGED srooms
            /\ net' = IF q.grp \in 1..Len(srooms) /\ q.grp \notin net[k].subs
                      THEN ok("sub_ok", q.grp, srooms[q.grp]) ELSE error
         \/ /\ q.type = "msg" /\ UNCHANGED srooms
            /\ net' = IF q.grp \in net[k].subs THEN rest ELSE error
         \/ /\ q.type = "desub" /\ UNCHANGED srooms /\ net' = closed
    BY <1>5 DEF Serve, rest
  <2> HIDE DEF q, ok, error, closed
  <2>12. CASE q.type = "csub" /\ srooms' = Append(srooms, q.name)
              /\ net' = ok("csub_ok", Len(srooms) + 1, q.name)
    <3>1. q.name \in Names
      BY <2>2, <2>12 DEF Commands
    <3> QED
      BY <1>1, <2>8, <2>12, <3>1
  <2>13. CASE /\ q.type = "sub" /\ UNCHANGED srooms
              /\ net' = IF q.grp \in 1..Len(srooms) /\ q.grp \notin net[k].subs
                        THEN ok("sub_ok", q.grp, srooms[q.grp]) ELSE error
    <3>1. CASE q.grp \in 1..Len(srooms) /\ net' = ok("sub_ok", q.grp, srooms[q.grp])
      <4>1. srooms[q.grp] \in Names /\ q.grp \in Nat
        BY <1>1, <3>1
      <4> QED
        BY <1>1, <2>8, <2>13, <3>1, <4>1
    <3> QED
      BY <1>1, <2>9, <2>13, <3>1
  <2>14. CASE /\ q.type = "msg" /\ UNCHANGED srooms
              /\ net' = IF q.grp \in net[k].subs THEN rest ELSE error
    BY <1>1, <2>7, <2>9, <2>14
  <2> QED
    BY <1>1, <2>10, <2>11, <2>12, <2>13, <2>14
<1> QED
  BY <1>3, <1>4, <1>5 DEF Server

\* Others post: a message that is newer than all before is sent to whoever is
\* subscribed.
LEMMA OtherPostsFacts ==
  ASSUME TypeOK, NEW r \in 1..Len(srooms), OtherPosts(r)
  PROVE  /\ posts' = posts + 1 /\ posts' \in 0..MaxPosts
         /\ net' \in [Conns -> Connection]
         /\ \A k \in Conns :
               /\ net'[k].task = net[k].task /\ net'[k].reader = net[k].reader
               /\ net'[k].events = net[k].events /\ net'[k].cmds = net[k].cmds
               /\ \/ net'[k].down = net[k].down
                  \/ \E l \in Lines : /\ net'[k].down = Append(net[k].down, l)
                                      /\ l.data.n = posts + 1
<1>1. net \in [Conns -> Connection] /\ srooms[r] \in Names /\ posts \in 0..MaxPosts /\ r \in Nat
  BY DEF TypeOK
<1>2. posts' = posts + 1 /\ posts < MaxPosts
  BY DEF OtherPosts
<1>3. posts' \in 0..MaxPosts /\ posts + 1 \in Nat
  BY <1>1, <1>2, ClientAssumption
<1> DEFINE l == [type |-> "message", grp_name |-> srooms[r],
                 data |-> [grp |-> r, n |-> posts + 1]]
<1>4. l \in Lines /\ l.data.n = posts + 1
  BY <1>1, <1>3 DEF Lines, Texts
<1>5. net' = [k \in Conns |-> IF net[k].session = "open" /\ r \in net[k].subs
                              THEN [net[k] EXCEPT !.down = Append(@, l)] ELSE net[k]]
  BY DEF OtherPosts
<1> HIDE DEF l
<1>6. ASSUME NEW k \in Conns
      PROVE  /\ net'[k] \in Connection
             /\ net'[k].task = net[k].task /\ net'[k].reader = net[k].reader
             /\ net'[k].events = net[k].events /\ net'[k].cmds = net[k].cmds
             /\ \/ net'[k].down = net[k].down
                \/ net'[k].down = Append(net[k].down, l)
  <2> DEFINE d == Append(net[k].down, l)
             v == [net[k] EXCEPT !.down = d]
  <2>1. net'[k] = net[k] \/ net'[k] = v
    BY <1>5
  <2>2. d \in Seq(Lines) /\ net[k] \in Connection
    BY <1>1, <1>4 DEF Connection
  <2> HIDE DEF d
  <2>3. /\ v \in Connection /\ v.cmds = net[k].cmds /\ v.events = net[k].events
        /\ v.task = net[k].task /\ v.reader = net[k].reader /\ v.down = d
    BY <2>2 DEF Connection
  <2> HIDE DEF v
  <2> QED
    BY <2>1, <2>2, <2>3 DEF d
<1>7. net' \in [Conns -> Connection]
  <2>1. DOMAIN net' = Conns
    BY <1>5
  <2>2. net' = [k \in Conns |-> net'[k]]
    BY <1>5
  <2> QED
    BY <1>6, <2>2
<1> QED
  BY <1>2, <1>3, <1>4, <1>6, <1>7

\* A task that carries a command: nothing that is shown changes.
LEMMA SpawnFacts ==
  ASSUME TypeOK, NEW cmd \in Commands, clicks + 1 \in 1..MaxClicks, Spawn(cmd)
  PROVE  /\ net' \in [Conns -> Connection]
         /\ \A k \in Conns : Same(k, net'[k]) /\ net'[k].cmds = net[k].cmds
<1>1. net \in [Conns -> Connection]
  BY DEF TypeOK
<1>2. net' = [net EXCEPT ![cur].spawned = @ \cup {[n |-> clicks + 1, cmd |-> cmd]}]
  BY DEF Spawn
<1>3. CASE cur \in Conns
  <2> DEFINE p == net[cur].spawned \cup {[n |-> clicks + 1, cmd |-> cmd]}
             v == [net[cur] EXCEPT !.spawned = p]
  <2>1. net' = [net EXCEPT ![cur] = v]
    BY <1>2
  <2>2. net[cur] \in Connection /\ p \in SUBSET [n : 1..MaxClicks, cmd : Commands]
    BY <1>1, <1>3 DEF Connection
  <2> HIDE DEF p
  <2>3. v \in Connection /\ Same(cur, v) /\ v.cmds = net[cur].cmds
    BY <2>2 DEF Connection, Same
  <2> HIDE DEF v
  <2>4. ASSUME NEW k \in Conns PROVE Same(k, net'[k]) /\ net'[k].cmds = net[k].cmds
    <3>1. net'[k] = IF k = cur THEN v ELSE net[k]
      BY <1>1, <2>1
    <3> QED
      BY <2>3, <3>1 DEF Same
  <2> QED
    BY <1>1, <1>3, <2>1, <2>3, <2>4
<1>4. CASE cur \notin Conns
  <2>1. net' = net
    BY <1>1, <1>2, <1>4
  <2> QED
    BY <1>1, <2>1 DEF Same
<1> QED
  BY <1>3, <1>4

\* Connect.
LEMMA ConnectFacts ==
  ASSUME TypeOK, Connect
  PROVE  /\ cur + 1 \in Conns /\ cur' = cur + 1
         /\ net' \in [Conns -> Connection]
         /\ \A k \in Conns : net'[k].cmds = net[k].cmds
         /\ \A k \in Conns : k # cur + 1 => net'[k] = net[k]
         /\ net'[cur + 1].task = "connecting"
         /\ net'[cur + 1].reader = net[cur + 1].reader
         /\ net'[cur + 1].events = net[cur + 1].events
         /\ net'[cur + 1].down = net[cur + 1].down
<1>1. net \in [Conns -> Connection] /\ cur \in 0..MaxConns /\ cur < MaxConns
  BY DEF TypeOK, Connect
<1>2. PICK c : c = cur + 1
  OBVIOUS
<1>3. c \in Conns /\ cur' = c
  BY <1>1, <1>2, ClientAssumption DEF Conns, Connect
<1> DEFINE v == [net[c] EXCEPT !.task = "connecting"]
<1>4. net' = [net EXCEPT ![c] = v]
  BY <1>2 DEF Connect
<1>5. v \in Connection /\ v.task = "connecting" /\ v.reader = net[c].reader
      /\ v.events = net[c].events /\ v.down = net[c].down /\ v.cmds = net[c].cmds
  <2>1. PICK n : n = net[c] /\ n \in Connection
    BY <1>1, <1>3
  <2>2. v = [n EXCEPT !.task = "connecting"]
    BY <2>1
  <2> HIDE DEF v
  <2> QED
    BY <2>1, <2>2 DEF Connection
<1> HIDE DEF v
<1>6. net'[c] = v /\ \A k \in Conns : k # c => net'[k] = net[k]
  BY <1>1, <1>3, <1>4
<1>7. net' \in [Conns -> Connection]
  BY <1>1, <1>4, <1>5
<1> QED
  BY <1>2, <1>3, <1>5, <1>6, <1>7
-----------------------------------------------------------------------------
(* The lists *)

\* The elements of the lists.
LEMMA ListsTyped ==
  ASSUME TypeOK
  PROVE  /\ rooms \in Seq(Room) /\ Len(rooms) \in Nat
         /\ messages \in Seq(Message) /\ Len(messages) \in Nat
         /\ \A i \in 1..Len(rooms) : rooms[i] \in Room /\ rooms[i].id \in Nat
         /\ \A j \in 1..Len(messages) : messages[j] \in Message /\ messages[j].room_id \in Nat
<1>1. /\ rooms \in Seq(Room) /\ Len(rooms) \in Nat
      /\ messages \in Seq(Message) /\ Len(messages) \in Nat
  BY DEF TypeOK
<1>2. /\ \A i \in 1..Len(rooms) : rooms[i] \in Room
      /\ \A j \in 1..Len(messages) : messages[j] \in Message
  BY <1>1
<1> QED
  BY <1>1, <1>2 DEF Room, Message

\* The largest id of the list exists, and the one after it fits.
LEMMA NextIdType == ASSUME TypeOK PROVE NextId \in Nat
<1> DEFINE ids(n) == {rooms[i].id : i \in 1..n} \cup {0}
           T == {n \in Nat : n \in 0..Len(rooms) =>
                                \E m \in ids(n) : \A i \in ids(n) : i <= m}
<1>1. Len(rooms) \in Nat /\ \A i \in 1..Len(rooms) : rooms[i].id \in Nat
  BY ListsTyped
<1>2. 0 \in T
  <2>1. ids(0) = {0}
    OBVIOUS
  <2> QED
    BY <2>1
<1>3. ASSUME NEW n \in Nat, n \in T PROVE n + 1 \in T
  <2>1. SUFFICES ASSUME n + 1 \in 0..Len(rooms)
                 PROVE  \E m \in ids(n + 1) : \A i \in ids(n + 1) : i <= m
    BY <1>3
  <2>2. PICK m \in ids(n) : \A i \in ids(n) : i <= m
    BY <1>1, <1>3, <2>1
  <2>3. ids(n + 1) = ids(n) \cup {rooms[n + 1].id}
    <3>1. \A i : i \in 1..(n + 1) <=> i \in 1..n \/ i = n + 1
      OBVIOUS
    <3> QED
      BY <3>1
  <2>4. rooms[n + 1].id \in Nat /\ m \in Nat /\ \A i \in ids(n) : i \in Nat
    BY <1>1, <2>1
  <2>5. CASE rooms[n + 1].id <= m
    BY <2>2, <2>3, <2>5
  <2>6. CASE ~(rooms[n + 1].id <= m)
    <3>1. \A i \in ids(n) : i <= rooms[n + 1].id
      BY <2>2, <2>4, <2>6
    <3>2. PICK x : x = rooms[n + 1].id
      OBVIOUS
    <3>3. x \in ids(n + 1) /\ \A i \in ids(n + 1) : i <= x
      BY <2>3, <2>4, <3>1, <3>2
    <3> QED
      BY <3>3
  <2> QED
    BY <2>5, <2>6
<1>4. Len(rooms) \in T
  BY <1>1, <1>2, <1>3, Induction
<1>5. \E m \in ids(Len(rooms)) : \A i \in ids(Len(rooms)) : i <= m
  BY <1>1, <1>4
<1> DEFINE max == CHOOSE m \in ids(Len(rooms)) : \A i \in ids(Len(rooms)) : i <= m
<1>6. max \in ids(Len(rooms))
  BY <1>5
<1>7. NextId = (max + 1) % IdModulus
  BY DEF NextId
<1> HIDE DEF max
<1>8. max \in Nat
  BY <1>1, <1>6
<1> QED
  BY <1>7, <1>8, ClientAssumption

\* A message that is shown.
LEMMA SayFacts ==
  ASSUME TypeOK, NEW id \in Nat, NEW who \in {"me", "server", "system"}, NEW text \in Texts,
         Say(id, who, text)
  PROVE  \E m \in Message : /\ messages' = Append(messages, m) /\ messages' \in Seq(Message)
                            /\ m.room_id = id /\ m.sender = who /\ m.text = text
<1> DEFINE m == [room_id |-> id, sender |-> who, text |-> text]
<1>1. m \in Message /\ m.room_id = id /\ m.sender = who /\ m.text = text
  BY DEF Message
<1>2. messages' = Append(messages, m) /\ messages \in Seq(Message)
  BY DEF Say, TypeOK
<1> HIDE DEF m
<1> QED
  BY <1>1, <1>2

\* A room of the list with a new field value, for each of the fields that may
\* change.
LEMMA RoomChanges ==
  ASSUME NEW r \in Room, NEW id \in Nat, NEW name \in Names \cup Nat, NEW n \in Nat
  PROVE  /\ [r EXCEPT !.id = id] \in Room
         /\ [r EXCEPT !.id = id].id = id
         /\ [r EXCEPT !.name = name] \in Room
         /\ [r EXCEPT !.name = name].id = r.id
         /\ [r EXCEPT !.unread = n] \in Room
         /\ [r EXCEPT !.unread = n].id = r.id
BY DEF Room

\* A function on 1..n is a sequence.
LEMMA IsSequence ==
  ASSUME NEW S, NEW n \in Nat, NEW f, f \in [1..n -> S]
  PROVE  f \in Seq(S) /\ Len(f) = n
BY SeqDef

\* csub_ok.
LEMMA RekeyFacts ==
  ASSUME TypeOK, NEW id \in Nat, NEW name, Rekey(id, name)
  PROVE  LET here == Created(id, name)
             old  == {rooms[i].id : i \in here}
         IN  /\ rooms' \in Seq(Room) /\ Len(rooms') = Len(rooms)
             /\ \A i \in 1..Len(rooms) : rooms'[i].id = IF i \in here THEN id ELSE rooms[i].id
             /\ messages' \in Seq(Message) /\ Len(messages') = Len(messages)
             /\ \A j \in 1..Len(messages) :
                   /\ messages'[j].sender = messages[j].sender
                   /\ messages'[j].text = messages[j].text
                   /\ messages'[j].room_id = Moved(messages[j].room_id, old, id)
             /\ active' = Moved(active, old, id)
<1> DEFINE here == Created(id, name)
           old  == {rooms[i].id : i \in here}
<1> HIDE DEF here, old
<1>1. /\ rooms \in Seq(Room) /\ Len(rooms) \in Nat
      /\ messages \in Seq(Message) /\ Len(messages) \in Nat
      /\ \A i \in 1..Len(rooms) : rooms[i] \in Room /\ rooms[i].id \in Nat
      /\ \A j \in 1..Len(messages) : messages[j] \in Message /\ messages[j].room_id \in Nat
  BY ListsTyped
<1>2. /\ rooms' = [i \in 1..Len(rooms) |->
                     [rooms[i] EXCEPT !.id = IF i \in here THEN id ELSE @]]
      /\ messages' = [j \in 1..Len(messages) |->
                        [messages[j] EXCEPT !.room_id = Moved(@, old, id)]]
      /\ active' = Moved(active, old, id)
  BY DEF Rekey, here, old
<1>3. ASSUME NEW i \in 1..Len(rooms)
      PROVE  /\ rooms'[i] \in Room
             /\ rooms'[i].id = IF i \in here THEN id ELSE rooms[i].id
  <2> DEFINE x == IF i \in here THEN id ELSE rooms[i].id
  <2>1. rooms'[i] = [rooms[i] EXCEPT !.id = x] /\ x \in Nat
    BY <1>1, <1>2
  <2> HIDE DEF x
  <2>2. rooms'[i] \in Room /\ rooms'[i].id = x
    BY <1>1, <2>1 DEF Room
  <2> QED
    BY <2>2 DEF x
<1>4. ASSUME NEW j \in 1..Len(messages)
      PROVE  /\ messages'[j] \in Message
             /\ messages'[j].sender = messages[j].sender
             /\ messages'[j].text = messages[j].text
             /\ messages'[j].room_id = Moved(messages[j].room_id, old, id)
  <2> DEFINE x == Moved(messages[j].room_id, old, id)
  <2>1. messages'[j] = [messages[j] EXCEPT !.room_id = x] /\ x \in Nat
    BY <1>1, <1>2 DEF Moved
  <2> HIDE DEF x
  <2>2. /\ messages'[j] \in Message /\ messages'[j].room_id = x
        /\ messages'[j].sender = messages[j].sender /\ messages'[j].text = messages[j].text
    BY <1>1, <2>1 DEF Message
  <2> QED
    BY <2>2 DEF x
<1>5. rooms' \in [1..Len(rooms) -> Room] /\ messages' \in [1..Len(messages) -> Message]
  <2>1. rooms' = [i \in 1..Len(rooms) |-> rooms'[i]]
    BY <1>2
  <2>2. messages' = [j \in 1..Len(messages) |-> messages'[j]]
    BY <1>2
  <2> QED
    BY <1>3, <1>4, <2>1, <2>2
<1>6. /\ rooms' \in Seq(Room) /\ Len(rooms') = Len(rooms)
      /\ messages' \in Seq(Message) /\ Len(messages') = Len(messages)
  BY <1>1, <1>5, IsSequence
<1> QED
  BY <1>2, <1>3, <1>4, <1>6 DEF here, old

\* The list of rooms has the same ids in the same places.
SameIds ==
    /\ rooms' \in Seq(Room) /\ Len(rooms') = Len(rooms)
    /\ \A i \in 1..Len(rooms) : rooms'[i].id = rooms[i].id

\* sub_ok.
LEMMA RenameFacts ==
  ASSUME TypeOK, NEW id, NEW name \in Names, Rename(id, name)
  PROVE  SameIds /\ UNCHANGED <<messages, active>>
<1>1. UNCHANGED <<messages, active>>
  BY DEF Rename
<1>2. rooms' = [i \in 1..Len(rooms) |->
                  [rooms[i] EXCEPT !.name = IF i \in Find("id", id) THEN name ELSE @]]
  BY DEF Rename
<1>3. ASSUME NEW i \in 1..Len(rooms)
      PROVE  rooms'[i] \in Room /\ rooms'[i].id = rooms[i].id
  <2> DEFINE x == IF i \in Find("id", id) THEN name ELSE rooms[i].name
  <2>1. rooms[i] \in Room
    BY ListsTyped
  <2>2. rooms'[i] = [rooms[i] EXCEPT !.name = x] /\ x \in Names \cup Nat
    BY <1>2, <2>1 DEF Room
  <2> HIDE DEF x
  <2> QED
    BY <2>1, <2>2 DEF Room
<1>4. rooms' \in [1..Len(rooms) -> Room]
  <2>1. rooms' = [i \in 1..Len(rooms) |-> rooms'[i]]
    BY <1>2
  <2> QED
    BY <1>3, <2>1
<1> QED
  BY <1>1, <1>3, <1>4, IsSequence, ListsTyped DEF SameIds

\* A count of unread messages changes.
LEMMA UnreadFacts ==
  ASSUME TypeOK, NEW j \in 1..Len(rooms), NEW n \in Nat, rooms' = [rooms EXCEPT ![j].unread = n]
  PROVE  SameIds
<1> DEFINE r == [rooms[j] EXCEPT !.unread = n]
<1>1. rooms[j] \in Room /\ rooms \in Seq(Room) /\ Len(rooms) \in Nat
  BY ListsTyped
<1>2. r \in Room /\ r.id = rooms[j].id
  BY <1>1 DEF Room
<1>3. rooms' = [rooms EXCEPT ![j] = r]
  OBVIOUS
<1> HIDE DEF r
<1>4. rooms' \in Seq(Room) /\ Len(rooms') = Len(rooms)
  BY <1>1, <1>2, <1>3, ExceptSeq
<1>5. \A i \in 1..Len(rooms) : rooms'[i] = IF i = j THEN r ELSE rooms[i]
  BY <1>1, <1>3
<1> QED
  BY <1>2, <1>4, <1>5 DEF SameIds

\* A message of the server.
LEMMA FileFacts ==
  ASSUME TypeOK, NEW text \in Texts, NEW name, File(text, name)
  PROVE  /\ UNCHANGED active /\ SameIds
         /\ \/ UNCHANGED messages
            \/ \E m \in Message, i \in 1..Len(rooms) :
                  /\ messages' = Append(messages, m) /\ messages' \in Seq(Message)
                  /\ m.room_id = rooms[i].id /\ m.sender = "server" /\ m.text = text
<1>1. CASE Find("name", name) = {}
  <2>1. UNCHANGED <<rooms, messages, active>>
    BY <1>1 DEF File
  <2> QED
    BY <2>1, ListsTyped DEF SameIds
<1>2. CASE Find("name", name) # {}
  <2>1. PICK i \in Find("name", name) :
            /\ Say(rooms[i].id, "server", text)
            /\ \E j \in Find("id", rooms[i].id) :
                  rooms' = IF active = rooms[i].id
                           THEN rooms ELSE [rooms EXCEPT ![j].unread = @ + 1]
            /\ UNCHANGED active
    BY <1>2 DEF File
  <2>2. i \in 1..Len(rooms)
    BY DEF Find
  <2>3. PICK j \in Find("id", rooms[i].id) :
            rooms' = IF active = rooms[i].id
                     THEN rooms ELSE [rooms EXCEPT ![j].unread = rooms[j].unread + 1]
    BY <2>1
  <2>4. j \in 1..Len(rooms)
    BY DEF Find
  <2>5. SameIds
    <3>1. CASE rooms' = rooms
      BY <3>1, ListsTyped DEF SameIds
    <3>2. CASE rooms' = [rooms EXCEPT ![j].unread = rooms[j].unread + 1]
      <4>1. rooms[j].unread + 1 \in Nat
        <5>1. rooms[j] \in Room
          BY <2>4, ListsTyped
        <5> QED
          BY <5>1 DEF Room
      <4> QED
        BY <2>4, <3>2, <4>1, UnreadFacts
    <3> QED
      BY <2>3, <3>1, <3>2
  <2>6. \E m \in Message : /\ messages' = Append(messages, m) /\ messages' \in Seq(Message)
                           /\ m.room_id = rooms[i].id /\ m.sender = "server" /\ m.text = text
    <3>1. rooms[i].id \in Nat
      BY <2>2, ListsTyped
    <3> QED
      BY <2>1, <3>1, SayFacts
  <2> QED
    BY <2>1, <2>2, <2>5, <2>6
<1> QED
  BY <1>1, <1>2

\* What a click that neither connects nor unsubscribes does to the lists: a
\* room may be added, and a line of the user's or of the client's own.
LEMMA ClickFacts ==
  ASSUME TypeOK,
         \/ DoSend \/ Disconnect
         \/ \E name \in Names : DoCreate(name)
         \/ \E id \in TypedIds : DoSubscribe(id)
         \/ \E i \in 1..Len(rooms) : Select(i)
  PROVE  /\ status = "connected" /\ status' \in {"connected", "disconnected"}
         /\ clicks' \in 0..MaxClicks /\ UNCHANGED <<cur, srooms, posts>>
         /\ net' \in [Conns -> Connection]
         /\ \A k \in Conns : Same(k, net'[k]) /\ net'[k].cmds = net[k].cmds
         /\ \/ SameIds
            \/ \E r \in Room : rooms' = Append(rooms, r) /\ rooms' \in Seq(Room)
         /\ \/ UNCHANGED messages
            \/ \E m \in Message, i \in 1..Len(rooms') :
                  /\ messages' = Append(messages, m) /\ messages' \in Seq(Message)
                  /\ m.room_id = rooms'[i].id /\ m.sender # "server"
         /\ \/ UNCHANGED active
            \/ \E i \in 1..Len(rooms) : active' = rooms[i].id
<1>0. Click /\ NoText \in Texts
  BY DEF DoSend, Disconnect, DoCreate, DoSubscribe, Select, NoText, Texts
<1>1. /\ status = "connected" /\ clicks' \in 0..MaxClicks /\ clicks + 1 \in 1..MaxClicks
      /\ UNCHANGED <<cur, srooms, posts>>
  BY <1>0, ClientAssumption DEF Click, TypeOK
<1>2. ASSUME UNCHANGED net
      PROVE  /\ net' \in [Conns -> Connection]
             /\ \A k \in Conns : Same(k, net'[k]) /\ net'[k].cmds = net[k].cmds
  BY <1>2 DEF TypeOK, Same
<1>3. ASSUME NEW id \in Nat, NEW name \in Names \cup Nat,
             rooms' = Append(rooms, [id |-> id, name |-> name, unread |-> 0]),
             Say(id, "system", NoText)
      PROVE  /\ \E r \in Room : rooms' = Append(rooms, r) /\ rooms' \in Seq(Room)
             /\ \E m \in Message, i \in 1..Len(rooms') :
                   /\ messages' = Append(messages, m) /\ messages' \in Seq(Message)
                   /\ m.room_id = rooms'[i].id /\ m.sender # "server"
  <2> DEFINE r == [id |-> id, name |-> name, unread |-> 0]
  <2>1. r \in Room /\ r.id = id
    BY <1>3 DEF Room
  <2>2. rooms' = Append(rooms, r)
    BY <1>3
  <2> HIDE DEF r
  <2>3. PICK m \in Message : /\ messages' = Append(messages, m) /\ messages' \in Seq(Message)
                             /\ m.room_id = id /\ m.sender = "system" /\ m.text = NoText
    BY <1>0, <1>3, SayFacts
  <2>4. rooms' \in Seq(Room) /\ Len(rooms') = Len(rooms) + 1 /\ rooms'[Len(rooms) + 1] = r
    BY <2>1, <2>2, ListsTyped
  <2>5. Len(rooms) + 1 \in 1..Len(rooms')
    BY <2>4, ListsTyped
  <2> QED
    BY <2>1, <2>2, <2>3, <2>4, <2>5
<1>4. CASE \E name \in Names : DoCreate(name)
  <2>1. PICK name \in Names : DoCreate(name)
    BY <1>4
  <2>2. /\ rooms' = Append(rooms, [id |-> NextId, name |-> name, unread |-> 0])
        /\ Say(NextId, "system", NoText) /\ Spawn([type |-> "csub", name |-> name])
        /\ UNCHANGED <<status, active>>
    BY <2>1 DEF DoCreate
  <2>3. [type |-> "csub", name |-> name] \in Commands
    BY DEF Commands
  <2>4. /\ \E r \in Room : rooms' = Append(rooms, r) /\ rooms' \in Seq(Room)
        /\ \E m \in Message, i \in 1..Len(rooms') :
              /\ messages' = Append(messages, m) /\ messages' \in Seq(Message)
              /\ m.room_id = rooms'[i].id /\ m.sender # "server"
    BY <1>3, <2>2, NextIdType
  <2>5. /\ net' \in [Conns -> Connection]
        /\ \A k \in Conns : Same(k, net'[k]) /\ net'[k].cmds = net[k].cmds
    BY <1>1, <2>2, <2>3, SpawnFacts
  <2> QED
    BY <1>1, <2>2, <2>4, <2>5
<1>5. CASE \E id \in TypedIds : DoSubscribe(id)
  <2>1. PICK id \in TypedIds : DoSubscribe(id)
    BY <1>5
  <2>2. /\ rooms' = Append(rooms, [id |-> id, name |-> Placeholder(id), unread |-> 0])
        /\ Say(id, "system", NoText) /\ Spawn([type |-> "sub", grp |-> id])
        /\ UNCHANGED <<status, active>>
    BY <2>1 DEF DoSubscribe
  <2>3. id \in Nat /\ Placeholder(id) \in Names \cup Nat
    BY ClientAssumption DEF Placeholder
  <2>4. [type |-> "sub", grp |-> id] \in Commands
    BY <2>3 DEF Commands
  <2>5. /\ \E r \in Room : rooms' = Append(rooms, r) /\ rooms' \in Seq(Room)
        /\ \E m \in Message, i \in 1..Len(rooms') :
              /\ messages' = Append(messages, m) /\ messages' \in Seq(Message)
              /\ m.room_id = rooms'[i].id /\ m.sender # "server"
    BY <1>3, <2>2, <2>3
  <2>6. /\ net' \in [Conns -> Connection]
        /\ \A k \in Conns : Same(k, net'[k]) /\ net'[k].cmds = net[k].cmds
    BY <1>1, <2>2, <2>4, SpawnFacts
  <2> QED
    BY <1>1, <2>2, <2>5, <2>6
<1>6. CASE \E i \in 1..Len(rooms) : Select(i)
  <2>1. PICK i \in 1..Len(rooms) : Select(i)
    BY <1>6
  <2>2. PICK j \in Find("id", rooms[i].id) : rooms' = [rooms EXCEPT ![j].unread = 0]
    BY <2>1 DEF Select
  <2>3. j \in 1..Len(rooms)
    BY DEF Find
  <2>4. SameIds
    BY <2>2, <2>3, UnreadFacts
  <2>5. active' = rooms[i].id /\ UNCHANGED <<status, messages, net>>
    BY <2>1 DEF Select
  <2> QED
    BY <1>1, <1>2, <2>4, <2>5
<1>7. CASE DoSend
  <2>1. /\ Say(active, "me", NoText) /\ Spawn([type |-> "msg", grp |-> active])
        /\ UNCHANGED <<status, rooms, active>>
    BY <1>7 DEF DoSend
  <2>2. PICK i \in 1..Len(rooms) : rooms[i].id = active
    BY <1>7 DEF DoSend
  <2>3. active \in Nat
    BY <2>2, ListsTyped
  <2>4. [type |-> "msg", grp |-> active] \in Commands
    BY <2>3 DEF Commands
  <2>5. PICK m \in Message : /\ messages' = Append(messages, m) /\ messages' \in Seq(Message)
                             /\ m.room_id = active /\ m.sender = "me" /\ m.text = NoText
    BY <1>0, <2>1, <2>3, SayFacts
  <2>6. /\ net' \in [Conns -> Connection]
        /\ \A k \in Conns : Same(k, net'[k]) /\ net'[k].cmds = net[k].cmds
    BY <1>1, <2>1, <2>4, SpawnFacts
  <2>7. SameIds
    BY <2>1, ListsTyped DEF SameIds
  <2> QED
    BY <1>1, <2>1, <2>2, <2>5, <2>6, <2>7
<1>8. CASE Disconnect
  <2>1. /\ Spawn([type |-> "desub"]) /\ status' = "disconnected"
        /\ UNCHANGED <<rooms, messages, active>>
    BY <1>8 DEF Disconnect
  <2>2. [type |-> "desub"] \in Commands
    BY DEF Commands
  <2>3. /\ net' \in [Conns -> Connection]
        /\ \A k \in Conns : Same(k, net'[k]) /\ net'[k].cmds = net[k].cmds
    BY <1>1, <2>1, <2>2, SpawnFacts
  <2>4. SameIds
    BY <2>1, ListsTyped DEF SameIds
  <2> QED
    BY <1>1, <2>1, <2>3, <2>4
<1> QED
  BY <1>4, <1>5, <1>6, <1>7, <1>8

\* A room is unsubscribed from: it goes, and with it its messages.
LEMMA UnsubscribeFacts ==
  ASSUME TypeOK, NEW id \in Nat, Unsubscribe(id)
  PROVE  /\ status = "connected" /\ clicks' \in 0..MaxClicks
         /\ UNCHANGED <<status, net, cur, srooms, posts>>
         /\ active' = IF active = id THEN NoRoom ELSE active
         /\ rooms' \in Seq(Room) /\ messages' \in Seq(Message)
         /\ \E at : Keeps(rooms', at, rooms,
                          {i \in 1..Len(rooms) : rooms[i].id # id}, Len(rooms))
         /\ \E at : Keeps(messages', at, messages,
                          {i \in 1..Len(messages) : messages[i].room_id # id}, Len(messages))
<1>1. Click /\ UNCHANGED <<status, net>> /\ active' = IF active = id THEN NoRoom ELSE active
  BY DEF Unsubscribe
<1>2. clicks' \in 0..MaxClicks /\ UNCHANGED <<cur, srooms, posts>> /\ status = "connected"
  BY <1>1, ClientAssumption DEF Click, TypeOK
<1> DEFINE R == {i \in 1..Len(rooms) : rooms[i].id # id}
           M == {i \in 1..Len(messages) : messages[i].room_id # id}
<1>3. rooms' = Retained(rooms, R) /\ messages' = Retained(messages, M)
  BY DEF Unsubscribe
<1> HIDE DEF R, M
<1>4. /\ rooms' \in Seq(Room) /\ \E at : Keeps(rooms', at, rooms, R, Len(rooms))
      /\ messages' \in Seq(Message) /\ \E at : Keeps(messages', at, messages, M, Len(messages))
  BY <1>3, ListsTyped, RetainKeeps
<1> QED
  BY <1>1, <1>2, <1>4 DEF R, M

\* The poller takes an event.
LEMMA PollFacts ==
  ASSUME TypeOK, Poll
  PROVE  LET e == Head(net[cur].events)
         IN  /\ cur \in Conns /\ net[cur].events # <<>> /\ e \in Events
             /\ UNCHANGED <<cur, srooms, clicks, posts>>
             /\ net' \in [Conns -> Connection]
             /\ \A k \in Conns : k # cur => net'[k] = net[k]
             /\ net'[cur].task = net[cur].task /\ net'[cur].reader = net[cur].reader
             /\ net'[cur].down = net[cur].down /\ net'[cur].cmds = net[cur].cmds
             /\ net'[cur].events = Tail(net[cur].events)
             /\ status' = StatusAfter(e)
             /\ \/ e.type = "csub_ok" /\ e.grp \in Nat /\ Rekey(e.grp, e.grp_name)
                \/ e.type = "sub_ok" /\ e.grp_name \in Names /\ Rename(e.grp, e.grp_name)
                \/ e.type = "message" /\ e.data \in Texts /\ File(e.data, e.grp_name)
                \/ UNCHANGED <<rooms, messages, active>>
<1> DEFINE e == Head(net[cur].events)
           q == Tail(net[cur].events)
           v == [net[cur] EXCEPT !.events = q]
<1>1. cur \in Conns
  BY ClientAssumption DEF Poll, TypeOK, Conns
<1>2. net[cur] \in Connection /\ net \in [Conns -> Connection]
  BY <1>1 DEF TypeOK
<1>3. net[cur].events # <<>> /\ net[cur].events \in Seq(Events)
  BY <1>2 DEF Poll, Connection
<1>4. e \in Events /\ q \in Seq(Events)
  BY <1>3, HeadTailProperties
<1>5. UNCHANGED <<cur, srooms, clicks, posts>> /\ status' = StatusAfter(e)
      /\ net' = [net EXCEPT ![cur] = v]
  BY DEF Poll
<1>6. /\ CASE e.type = "csub_ok" -> Rekey(e.grp, e.grp_name)
           [] e.type = "sub_ok"  -> Rename(e.grp, e.grp_name)
           [] e.type = "message" -> File(e.data, e.grp_name)
           [] OTHER -> UNCHANGED <<rooms, messages, active>>
  BY DEF Poll
<1> HIDE DEF q, e
<1>7. /\ v \in Connection /\ v.task = net[cur].task /\ v.reader = net[cur].reader
      /\ v.down = net[cur].down /\ v.cmds = net[cur].cmds /\ v.events = q
  BY <1>2, <1>4 DEF Connection
<1> HIDE DEF v
<1>8. /\ net' \in [Conns -> Connection] /\ net'[cur] = v
      /\ \A k \in Conns : k # cur => net'[k] = net[k]
  BY <1>1, <1>2, <1>5, <1>7
<1>9. \/ e.type = "csub_ok" /\ e.grp \in Nat /\ Rekey(e.grp, e.grp_name)
      \/ e.type = "sub_ok" /\ e.grp_name \in Names /\ Rename(e.grp, e.grp_name)
      \/ e.type = "message" /\ e.data \in Texts /\ File(e.data, e.grp_name)
      \/ UNCHANGED <<rooms, messages, active>>
  <2>1. CASE e.type = "csub_ok"
    <3>1. e.grp \in Nat
      BY <1>4, <2>1 DEF Events, Lines, Confirmations
    <3> QED
      BY <1>6, <2>1, <3>1
  <2>2. CASE e.type = "sub_ok"
    <3>1. e.grp_name \in Names
      BY <1>4, <2>2 DEF Events, Lines, Confirmations
    <3> QED
      BY <1>6, <2>2, <3>1
  <2>3. CASE e.type = "message"
    <3>1. e.data \in Texts
      BY <1>4, <2>3 DEF Events, Lines, Confirmations
    <3> QED
      BY <1>6, <2>3, <3>1
  <2>4. CASE e.type \notin {"csub_ok", "sub_ok", "message"}
    BY <1>6, <2>4
  <2> QED
    BY <2>1, <2>2, <2>3, <2>4
<1> QED
  BY <1>1, <1>3, <1>4, <1>5, <1>7, <1>8, <1>9 DEF e, q

\* The types hold: no channel outgrows its capacity, and what the server sends
\* and the user types keeps the lists well formed.
THEOREM TypeCorrect == Spec => []TypeOK
<1>1. Init => TypeOK
  <2> SUFFICES ASSUME Init PROVE TypeOK
    OBVIOUS
  <2> DEFINE v == [task |-> "none", reader |-> "none", session |-> "none", subs |-> {},
                   spawned |-> {}, cmds |-> <<>>, up |-> <<>>, down |-> <<>>,
                   owed |-> <<>>, events |-> <<>>]
  <2>1. v \in Connection /\ Len(v.cmds) = 0 /\ Len(v.events) = 0
    BY EmptySeq DEF Connection
  <2>2. net = [k \in Conns |-> v]
    BY DEF Init
  <2> HIDE DEF v
  <2>3. /\ net \in [Conns -> Connection]
        /\ \A k \in Conns : Len(net[k].cmds) <= CmdCap /\ Len(net[k].events) <= EventCap
    BY <2>1, <2>2, ClientAssumption
  <2>4. /\ status = "disconnected" /\ rooms = <<>> /\ messages = <<>> /\ active = NoRoom
        /\ cur = 0 /\ srooms = <<>> /\ clicks = 0 /\ posts = 0
    BY DEF Init
  <2>5. rooms \in Seq(Room) /\ messages \in Seq(Message) /\ srooms \in Seq(Names)
    BY <2>4, EmptySeq
  <2> QED
    BY <2>3, <2>4, <2>5, ClientAssumption DEF TypeOK
<1>2. TypeOK /\ [Next]_vars => TypeOK'
  <2> SUFFICES ASSUME TypeOK, [Next]_vars PROVE TypeOK'
    OBVIOUS
  <2>1. ASSUME net' \in [Conns -> Connection],
               \A k \in Conns : net'[k].cmds = net[k].cmds /\ net'[k].events = net[k].events
        PROVE  \A k \in Conns : Len(net'[k].cmds) <= CmdCap /\ Len(net'[k].events) <= EventCap
    BY <2>1 DEF TypeOK
  <2>2. ASSUME NEW k \in Conns, NEW v, Moves(k, v), UNCHANGED <<uiVars, clicks, posts>>,
               srooms' \in Seq(Names)
        PROVE  TypeOK'
    BY <2>2, MovesType DEF TypeOK, uiVars
  <2>3. ASSUME NEW k \in Conns,
               Task(k) \/ TaskRefused(k) \/ Reader(k) \/ Server(k) \/ SessionEnds(k)
        PROVE  TypeOK'
    <3>1. UNCHANGED <<uiVars, clicks, posts>>
      BY <2>3 DEF Task, Reader, Server, SendCommand, TaskConnects, TaskCommand, TaskNone,
                  TaskEnds, TaskRefused, ReadLine, ReadAborted, ReadEnd, Serve, Reply, SessionEnds
    <3>2. CASE Server(k) \/ SessionEnds(k)
      BY <2>2, <3>1, <3>2, ServerMoves
    <3>3. CASE Task(k) \/ TaskRefused(k) \/ Reader(k)
      <4>1. srooms' \in Seq(Names)
        BY <3>3 DEF TypeOK, Task, Reader, SendCommand, TaskConnects, TaskCommand, TaskNone,
                    TaskEnds, TaskRefused, ReadLine, ReadAborted, ReadEnd
      <4>2. \E v : Moves(k, v)
        BY <3>3, SendCommandMoves, TaskBeginsMoves, TaskLoopMoves, TaskEndsMoves, ReaderMoves
           DEF Task
      <4> QED
        BY <2>2, <3>1, <4>1, <4>2
    <3> QED
      BY <2>3, <3>2, <3>3
  <2>4. CASE Connect
    <3>1. /\ status' = "connecting" /\ rooms' = <<>> /\ messages' = <<>> /\ active' = NoRoom
          /\ UNCHANGED <<srooms, clicks, posts>>
      BY <2>4 DEF Connect
    <3>2. /\ cur + 1 \in Conns /\ cur' = cur + 1 /\ net' \in [Conns -> Connection]
          /\ \A k \in Conns : net'[k].cmds = net[k].cmds
          /\ \A k \in Conns : net'[k].events = net[k].events
      BY <2>4, ConnectFacts
    <3>3. cur' \in 0..MaxConns
      BY <3>2, ClientAssumption DEF Conns
    <3>4. rooms' \in Seq(Room) /\ messages' \in Seq(Message)
      BY <3>1, EmptySeq
    <3> QED
      BY <2>1, <3>1, <3>2, <3>3, <3>4 DEF TypeOK
  <2>5. CASE \/ DoSend \/ Disconnect
             \/ \E name \in Names : DoCreate(name)
             \/ \E id \in TypedIds : DoSubscribe(id)
             \/ \E i \in 1..Len(rooms) : Select(i)
    <3>1. /\ status' \in {"connected", "disconnected"}
          /\ clicks' \in 0..MaxClicks /\ UNCHANGED <<cur, srooms, posts>>
          /\ net' \in [Conns -> Connection]
          /\ \A k \in Conns : Same(k, net'[k]) /\ net'[k].cmds = net[k].cmds
      BY <2>5, ClickFacts
    <3>2. rooms' \in Seq(Room)
      BY <2>5, ClickFacts DEF SameIds
    <3>3. messages' \in Seq(Message)
      BY <2>5, ClickFacts DEF TypeOK
    <3>4. active' \in Nat \cup {NoRoom}
      BY <2>5, ClickFacts, ListsTyped DEF TypeOK
    <3> QED
      BY <2>1, <3>1, <3>2, <3>3, <3>4 DEF TypeOK, Same
  <2>6. ASSUME NEW i \in 1..Len(rooms), Unsubscribe(rooms[i].id) PROVE TypeOK'
    <3>1. rooms[i].id \in Nat
      BY ListsTyped
    <3>2. /\ clicks' \in 0..MaxClicks
          /\ UNCHANGED <<status, net, cur, srooms, posts>>
          /\ active' = IF active = rooms[i].id THEN NoRoom ELSE active
          /\ rooms' \in Seq(Room) /\ messages' \in Seq(Message)
      BY <2>6, <3>1, UnsubscribeFacts
    <3> QED
      BY <2>1, <3>2 DEF TypeOK
  <2>7. CASE Poll
    <3> DEFINE e == Head(net[cur].events)
    <3>1. /\ cur \in Conns /\ net[cur].events # <<>> /\ e \in Events
          /\ UNCHANGED <<cur, srooms, clicks, posts>>
          /\ net' \in [Conns -> Connection]
          /\ \A k \in Conns : k # cur => net'[k] = net[k]
          /\ net'[cur].cmds = net[cur].cmds
          /\ net'[cur].events = Tail(net[cur].events)
          /\ status' = StatusAfter(e)
      BY <2>7, PollFacts
    <3>2. \/ e.type = "csub_ok" /\ e.grp \in Nat /\ Rekey(e.grp, e.grp_name)
          \/ e.type = "sub_ok" /\ e.grp_name \in Names /\ Rename(e.grp, e.grp_name)
          \/ e.type = "message" /\ e.data \in Texts /\ File(e.data, e.grp_name)
          \/ UNCHANGED <<rooms, messages, active>>
      BY <2>7, PollFacts
    <3> HIDE DEF e
    <3>3. status' \in {"disconnected", "connecting", "connected"}
      BY <3>1 DEF StatusAfter, TypeOK
    <3>4. /\ rooms' \in Seq(Room) /\ messages' \in Seq(Message)
          /\ active' \in Nat \cup {NoRoom}
      <4>1. CASE e.type = "csub_ok" /\ e.grp \in Nat /\ Rekey(e.grp, e.grp_name)
        <5>1. rooms' \in Seq(Room) /\ messages' \in Seq(Message)
          BY <4>1, RekeyFacts
        <5>2. \E old : active' = Moved(active, old, e.grp)
          BY <4>1, RekeyFacts
        <5> QED
          BY <4>1, <5>1, <5>2 DEF Moved, TypeOK
      <4>2. CASE e.grp_name \in Names /\ Rename(e.grp, e.grp_name)
        BY <4>2, RenameFacts DEF SameIds, TypeOK
      <4>3. CASE e.data \in Texts /\ File(e.data, e.grp_name)
        BY <4>3, FileFacts DEF SameIds, TypeOK
      <4>4. CASE UNCHANGED <<rooms, messages, active>>
        BY <4>4 DEF TypeOK
      <4> QED
        BY <3>2, <4>1, <4>2, <4>3, <4>4
    <3>5. ASSUME NEW k \in Conns
          PROVE  Len(net'[k].cmds) <= CmdCap /\ Len(net'[k].events) <= EventCap
      <4>1. CASE k # cur
        BY <3>1, <4>1 DEF TypeOK
      <4>2. CASE k = cur
        <5>1. net[cur].events \in Seq(Events) /\ Len(net[cur].events) <= EventCap
          BY <3>1 DEF TypeOK, Connection
        <5>2. Len(Tail(net[cur].events)) <= EventCap
          BY <3>1, <5>1, HeadTailProperties, ClientAssumption
        <5> QED
          BY <3>1, <4>2, <5>2 DEF TypeOK
      <4> QED
        BY <4>1, <4>2
    <3> QED
      BY <3>1, <3>3, <3>4, <3>5 DEF TypeOK
  <2>8. ASSUME NEW name \in OtherNames, OtherCreates(name) PROVE TypeOK'
    <3>1. srooms' \in Seq(Names) /\ UNCHANGED <<uiVars, net, clicks, posts>>
      BY <2>8, ClientAssumption DEF OtherCreates, TypeOK
    <3> QED
      BY <3>1 DEF TypeOK, uiVars
  <2>9. ASSUME NEW r \in 1..Len(srooms), OtherPosts(r) PROVE TypeOK'
    <3>1. UNCHANGED <<uiVars, srooms, clicks>>
      BY <2>9 DEF OtherPosts
    <3>2. /\ posts' \in 0..MaxPosts /\ net' \in [Conns -> Connection]
          /\ \A k \in Conns : net'[k].events = net[k].events /\ net'[k].cmds = net[k].cmds
      BY <2>9, OtherPostsFacts
    <3> QED
      BY <2>1, <3>1, <3>2 DEF TypeOK, uiVars
  <2>10. CASE UNCHANGED vars
    BY <2>10 DEF vars, TypeOK
  <2> QED
    BY <2>3, <2>4, <2>5, <2>6, <2>7, <2>8, <2>9, <2>10 DEF Next, User
<1> QED
  BY <1>1, <1>2, PTL DEF Spec
-----------------------------------------------------------------------------
(* Nothing is orphaned *)

\* The list of rooms has a room with that id.
Listed(id) == \E i \in 1..Len(rooms) : rooms[i].id = id

\* What is on the screen belongs to a room of the list, room by room.
LEMMA OrphanedByRoom ==
  NothingOrphaned <=>
      /\ active = NoRoom \/ Listed(active)
      /\ \A j \in 1..Len(messages) : Listed(messages[j].room_id)
BY DEF NothingOrphaned, Listed

\* A step that keeps the ids of all rooms, perhaps adds rooms, and shows at most
\* one message more, of a room that is listed.
LEMMA ListGrows ==
  ASSUME TypeOK, NothingOrphaned,
         Len(rooms') \in Nat, Len(rooms) <= Len(rooms'),
         \A i \in 1..Len(rooms) : rooms'[i].id = rooms[i].id,
         \/ UNCHANGED messages
         \/ \E m \in Message, i \in 1..Len(rooms') :
               messages' = Append(messages, m) /\ m.room_id = rooms'[i].id,
         \/ UNCHANGED active
         \/ \E i \in 1..Len(rooms) : active' = rooms[i].id
  PROVE  NothingOrphaned'
<1>1. Len(rooms) \in Nat /\ messages \in Seq(Message) /\ Len(messages) \in Nat
  BY ListsTyped
<1>2. ASSUME NEW id, Listed(id) PROVE Listed(id)'
  <2>1. PICK i \in 1..Len(rooms) : rooms[i].id = id
    BY <1>2 DEF Listed
  <2>2. i \in 1..Len(rooms') /\ rooms'[i].id = id
    BY <1>1, <2>1
  <2> QED
    BY <2>2 DEF Listed
<1>3. active' = NoRoom \/ Listed(active)'
  <2>1. CASE UNCHANGED active
    <3>1. CASE active = NoRoom
      BY <2>1, <3>1
    <3>2. CASE Listed(active)
      <4>1. PICK id : id = active
        OBVIOUS
      <4>2. Listed(id)'
        BY <1>2, <3>2, <4>1
      <4> QED
        BY <2>1, <4>1, <4>2
    <3> QED
      BY <3>1, <3>2, OrphanedByRoom
  <2>2. CASE \E i \in 1..Len(rooms) : active' = rooms[i].id
    BY <1>1, <2>2 DEF Listed
  <2> QED
    BY <2>1, <2>2
<1>4. ASSUME NEW j \in 1..Len(messages) PROVE Listed(messages[j].room_id) 
  BY OrphanedByRoom
<1>5. ASSUME NEW j \in 1..Len(messages')
      PROVE  \E i \in 1..Len(rooms') : rooms'[i].id = messages'[j].room_id
  <2>1. ASSUME j \in 1..Len(messages), messages'[j] = messages[j]
        PROVE  \E i \in 1..Len(rooms') : rooms'[i].id = messages'[j].room_id
    <3>1. PICK id : id = messages[j].room_id
      OBVIOUS
    <3>2. Listed(id)'
      BY <1>2, <1>4, <2>1, <3>1
    <3> QED
      BY <2>1, <3>1, <3>2 DEF Listed
  <2>2. CASE UNCHANGED messages
    BY <2>1, <2>2
  <2>3. CASE \E m \in Message, i \in 1..Len(rooms') :
               messages' = Append(messages, m) /\ m.room_id = rooms'[i].id
    <3>1. PICK m \in Message, i \in 1..Len(rooms') :
               messages' = Append(messages, m) /\ m.room_id = rooms'[i].id
      BY <2>3
    <3>2. \/ j \in 1..Len(messages) /\ messages'[j] = messages[j]
          \/ messages'[j] = m
      BY <1>1, <3>1
    <3> QED
      BY <2>1, <3>1, <3>2
  <2> QED
    BY <2>2, <2>3
<1> QED
  BY <1>3, <1>5 DEF NothingOrphaned, Listed

\* csub_ok gives a room another id, and what referred to it follows.
LEMMA RekeyOrphansNothing ==
  ASSUME TypeOK, NothingOrphaned, NEW id \in Nat, NEW name, Rekey(id, name)
  PROVE  NothingOrphaned'
<1> DEFINE here == Created(id, name)
           old  == {rooms[i].id : i \in here}
<1>1. here \subseteq 1..Len(rooms)
  BY DEF Created, Find
<1>2. /\ rooms' \in Seq(Room) /\ Len(rooms') = Len(rooms)
      /\ \A i \in 1..Len(rooms) : rooms'[i].id = IF i \in here THEN id ELSE rooms[i].id
      /\ messages' \in Seq(Message) /\ Len(messages') = Len(messages)
      /\ \A j \in 1..Len(messages) :
            messages'[j].room_id = Moved(messages[j].room_id, old, id)
      /\ active' = Moved(active, old, id)
  BY RekeyFacts
<1> HIDE DEF here
<1>3. ASSUME NEW ref, Listed(ref)
      PROVE  \E i \in 1..Len(rooms') : rooms'[i].id = Moved(ref, old, id)
  <2>1. CASE ref \in old
    <3>1. PICK i \in here : ref = rooms[i].id
      BY <2>1
    <3> QED
      BY <1>1, <1>2, <2>1, <3>1 DEF Moved
  <2>2. CASE ref \notin old
    <3>1. PICK i \in 1..Len(rooms) : rooms[i].id = ref
      BY <1>3 DEF Listed
    <3>2. i \notin here
      BY <2>2, <3>1
    <3> QED
      BY <1>2, <2>2, <3>1, <3>2 DEF Moved
  <2> QED
    BY <2>1, <2>2
<1> HIDE DEF old
<1>4. ASSUME NEW j \in 1..Len(messages')
      PROVE  \E i \in 1..Len(rooms') : rooms'[i].id = messages'[j].room_id
  <2>1. j \in 1..Len(messages) /\ messages'[j].room_id = Moved(messages[j].room_id, old, id)
    BY <1>2
  <2>2. Listed(messages[j].room_id)
    BY <2>1, OrphanedByRoom
  <2> QED
    BY <1>3, <2>1, <2>2
<1>5. active' = NoRoom \/ \E i \in 1..Len(rooms') : rooms'[i].id = active'
  <2>1. CASE Listed(active)
    BY <1>2, <1>3, <2>1
  <2>2. CASE active = NoRoom
    <3>1. ASSUME NEW i \in here PROVE rooms[i].id # NoRoom
      <4>1. rooms[i].id \in Nat
        BY <1>1, ListsTyped
      <4> QED
        BY <4>1 DEF NoRoom
    <3>2. NoRoom \notin old
      BY <3>1 DEF old
    <3> QED
      BY <1>2, <2>2, <3>2 DEF Moved
  <2> QED
    BY <2>1, <2>2, OrphanedByRoom
<1> QED
  BY <1>4, <1>5 DEF NothingOrphaned

\* Unsubscribing takes a room's messages and its selection with it.
LEMMA UnsubscribeOrphansNothing ==
  ASSUME TypeOK, NothingOrphaned, NEW id \in Nat, Unsubscribe(id)
  PROVE  NothingOrphaned'
<1> DEFINE R == {i \in 1..Len(rooms) : rooms[i].id # id}
           M == {i \in 1..Len(messages) : messages[i].room_id # id}
<1>1. active' = IF active = id THEN NoRoom ELSE active
  BY UnsubscribeFacts
<1>2. PICK at : Keeps(rooms', at, rooms, R, Len(rooms))
  BY UnsubscribeFacts
<1>3. PICK bt : Keeps(messages', bt, messages, M, Len(messages))
  BY UnsubscribeFacts
<1>4. ASSUME NEW ref, ref # id, Listed(ref)
      PROVE  \E i \in 1..Len(rooms') : rooms'[i].id = ref
  <2>1. PICK i \in 1..Len(rooms) : rooms[i].id = ref
    BY <1>4 DEF Listed
  <2>2. i \in R
    BY <1>4, <2>1
  <2>3. PICK j \in 1..Len(rooms') : at[j] = i
    BY <1>2, <2>2 DEF Keeps
  <2>4. rooms'[j] = rooms[i]
    BY <1>2, <2>3 DEF Keeps
  <2> QED
    BY <2>1, <2>3, <2>4
<1>5. ASSUME NEW j \in 1..Len(messages')
      PROVE  \E i \in 1..Len(rooms') : rooms'[i].id = messages'[j].room_id
  <2>1. bt[j] \in M /\ messages'[j] = messages[bt[j]]
    BY <1>3 DEF Keeps
  <2>2. PICK b : b = bt[j]
    OBVIOUS
  <2>3. b \in 1..Len(messages) /\ messages[b].room_id # id /\ messages'[j] = messages[b]
    BY <2>1, <2>2
  <2>4. Listed(messages[b].room_id)
    BY <2>3, OrphanedByRoom
  <2> QED
    BY <1>4, <2>3, <2>4
<1>6. active' = NoRoom \/ \E i \in 1..Len(rooms') : rooms'[i].id = active'
  BY <1>1, <1>4, OrphanedByRoom
<1> QED
  BY <1>5, <1>6 DEF NothingOrphaned

\* What is on the screen belongs to a room of the list, after any sequence of
\* clicks and whatever the server confirms or sends, however late.
THEOREM NoneOrphaned == Spec => []NothingOrphaned
<1>1. Init => NothingOrphaned
  BY EmptySeq DEF Init, NothingOrphaned
<1>2. TypeOK /\ NothingOrphaned /\ [Next]_vars => NothingOrphaned'
  <2> SUFFICES ASSUME TypeOK, NothingOrphaned, [Next]_vars PROVE NothingOrphaned'
    OBVIOUS
  <2>1. ASSUME UNCHANGED <<rooms, messages, active>> PROVE NothingOrphaned'
    BY <2>1 DEF NothingOrphaned
  <2>2. CASE Connect
    BY <2>2, EmptySeq DEF Connect, NothingOrphaned
  <2>3. CASE \/ DoSend \/ Disconnect
             \/ \E name \in Names : DoCreate(name)
             \/ \E id \in TypedIds : DoSubscribe(id)
             \/ \E i \in 1..Len(rooms) : Select(i)
    <3>1. \/ SameIds
          \/ \E r \in Room : rooms' = Append(rooms, r) /\ rooms' \in Seq(Room)
      BY <2>3, ClickFacts
    <3>2. \/ UNCHANGED messages
          \/ \E m \in Message, i \in 1..Len(rooms') :
                messages' = Append(messages, m) /\ m.room_id = rooms'[i].id
      BY <2>3, ClickFacts
    <3>3. \/ UNCHANGED active
          \/ \E i \in 1..Len(rooms) : active' = rooms[i].id
      BY <2>3, ClickFacts
    <3>4. /\ Len(rooms') \in Nat /\ Len(rooms) <= Len(rooms')
          /\ \A i \in 1..Len(rooms) : rooms'[i].id = rooms[i].id
      <4>1. rooms \in Seq(Room) /\ Len(rooms) \in Nat
        BY ListsTyped
      <4>2. CASE SameIds
        BY <4>1, <4>2 DEF SameIds
      <4>3. CASE \E r \in Room : rooms' = Append(rooms, r)
        BY <4>1, <4>3
      <4> QED
        BY <3>1, <4>2, <4>3
    <3> QED
      BY <3>2, <3>3, <3>4, ListGrows
  <2>4. ASSUME NEW i \in 1..Len(rooms), Unsubscribe(rooms[i].id) PROVE NothingOrphaned'
    BY <2>4, ListsTyped, UnsubscribeOrphansNothing
  <2>5. CASE Poll
    <3> DEFINE e == Head(net[cur].events)
    <3>1. \/ e.type = "csub_ok" /\ e.grp \in Nat /\ Rekey(e.grp, e.grp_name)
          \/ e.type = "sub_ok" /\ e.grp_name \in Names /\ Rename(e.grp, e.grp_name)
          \/ e.type = "message" /\ e.data \in Texts /\ File(e.data, e.grp_name)
          \/ UNCHANGED <<rooms, messages, active>>
      BY <2>5, PollFacts
    <3> HIDE DEF e
    <3>2. CASE e.grp \in Nat /\ Rekey(e.grp, e.grp_name)
      BY <3>2, RekeyOrphansNothing
    <3>3. CASE e.grp_name \in Names /\ Rename(e.grp, e.grp_name)
      <4>1. SameIds /\ UNCHANGED <<messages, active>>
        BY <3>3, RenameFacts
      <4> QED
        BY <4>1, ListsTyped, ListGrows DEF SameIds
    <3>4. CASE e.data \in Texts /\ File(e.data, e.grp_name)
      <4>1. /\ UNCHANGED active /\ SameIds
            /\ \/ UNCHANGED messages
               \/ \E m \in Message, i \in 1..Len(rooms) :
                     messages' = Append(messages, m) /\ m.room_id = rooms[i].id
        BY <3>4, FileFacts
      <4>2. /\ Len(rooms') = Len(rooms) /\ Len(rooms) \in Nat
            /\ \A i \in 1..Len(rooms) : rooms'[i].id = rooms[i].id
        BY <4>1, ListsTyped DEF SameIds
      <4>3. \/ UNCHANGED messages
            \/ \E m \in Message, i \in 1..Len(rooms') :
                  messages' = Append(messages, m) /\ m.room_id = rooms'[i].id
        BY <4>1, <4>2
      <4> QED
        BY <4>1, <4>2, <4>3, ListGrows
    <3> QED
      BY <2>1, <3>1, <3>2, <3>3, <3>4
  <2>6. ASSUME NEW k \in Conns,
               Task(k) \/ TaskRefused(k) \/ Reader(k) \/ Server(k) \/ SessionEnds(k)
        PROVE  NothingOrphaned'
    BY <2>1, <2>6 DEF Task, Reader, Server, SendCommand, TaskConnects, TaskCommand, TaskNone,
                  TaskEnds, TaskRefused, ReadLine, ReadAborted, ReadEnd, Serve, Reply,
                  SessionEnds, uiVars
  <2>7. ASSUME NEW name \in OtherNames, OtherCreates(name) PROVE NothingOrphaned'
    BY <2>1, <2>7 DEF OtherCreates, uiVars
  <2>8. ASSUME NEW r \in 1..Len(srooms), OtherPosts(r) PROVE NothingOrphaned'
    BY <2>1, <2>8 DEF OtherPosts, uiVars
  <2>9. CASE UNCHANGED vars
    BY <2>1, <2>9 DEF vars
  <2> QED
    BY <2>2, <2>3, <2>4, <2>5, <2>6, <2>7, <2>8, <2>9 DEF Next, User
<1> QED
  BY <1>1, <1>2, TypeCorrect, PTL DEF Spec
-----------------------------------------------------------------------------
(* The status that is shown *)

\* The end of the connection is among the events.
Reports(events) == \E i \in 1..Len(events) : events[i].type = "disconnected"

\* That a connection was made is said first, and only while it is waited for.
OpensOnce(st, events) ==
    \A i \in 1..Len(events) : events[i].type = "connected" => i = 1 /\ st = "connecting"

\* A connection that was not made yet.
Fresh(n) == n.task = "none" /\ n.reader = "none" /\ n.events = <<>>

\* The current connection, while the status is st: if its task has returned, or
\* its reader has without being told to, the user knows or is about to.
Healthy(st, n) ==
    /\ n.task # "none"
    /\ n.task = "connecting" => st = "connecting" /\ n.reader = "none" /\ n.events = <<>>
    /\ n.reader = "aborting" => n.task \in {"ending", "done"}
    /\ \/ st = "disconnected"
       \/ n.task # "done" /\ ~(n.task = "looping" /\ n.reader = "done")
       \/ Reports(n.events)
    /\ OpensOnce(st, n.events)

\* The inductive invariant of StatusHonest and of NotRevived.
Alive ==
    /\ \A k \in Conns : k > cur => Fresh(net[k])
    /\ status # "disconnected" => cur # 0
    /\ cur # 0 => Healthy(status, net[cur])

\* It says that the status is honest.
LEMMA AliveIsHonest == ASSUME TypeOK, Alive PROVE StatusHonest
<1> SUFFICES ASSUME status = "connected" PROVE StatusHonest
  BY DEF StatusHonest
<1>1. cur \in Conns
  BY ClientAssumption DEF Alive, TypeOK, Conns
<1>2. /\ net[cur].task \in {"none", "connecting", "looping", "ending", "done"}
      /\ cur # 0 /\ Healthy(status, net[cur])
  BY <1>1 DEF TypeOK, Connection, Alive
<1>3. Reports(net[cur].events) => "disconnected" \in Pending(cur)
  BY DEF Reports, Pending
<1> QED
  BY <1>2, <1>3 DEF Healthy, StatusHonest

\* Events that are sent after others.
LEMMA SentAfter ==
  ASSUME NEW e \in Seq(Events), NEW x \in Seq(Events)
  PROVE  /\ Reports(e) => Reports(e \o x)
         /\ Reports(x) => Reports(e \o x)
         /\ (\A i \in 1..Len(x) : x[i].type # "connected") =>
               \A st : OpensOnce(st, e) => OpensOnce(st, e \o x)
<1>1. /\ Len(e) \in Nat /\ Len(x) \in Nat /\ Len(e \o x) = Len(e) + Len(x)
      /\ \A i \in 1..(Len(e) + Len(x)) :
            (e \o x)[i] = IF i <= Len(e) THEN e[i] ELSE x[i - Len(e)]
  BY ConcatProperties
<1>2. ASSUME NEW i \in 1..Len(e) PROVE i \in 1..Len(e \o x) /\ (e \o x)[i] = e[i]
  BY <1>1
<1>3. ASSUME NEW i \in 1..Len(x)
      PROVE  Len(e) + i \in 1..Len(e \o x) /\ (e \o x)[Len(e) + i] = x[i]
  BY <1>1
<1>4. ASSUME NEW st, OpensOnce(st, e), \A i \in 1..Len(x) : x[i].type # "connected",
             NEW i \in 1..Len(e \o x), (e \o x)[i].type = "connected"
      PROVE  i = 1 /\ st = "connecting"
  <2>1. i <= Len(e) \/ i - Len(e) \in 1..Len(x)
    BY <1>1
  <2>2. i <= Len(e) /\ e[i].type = "connected"
    BY <1>1, <1>4, <2>1
  <2> QED
    BY <1>1, <1>4, <2>2 DEF OpensOnce
<1> QED
  BY <1>2, <1>3, <1>4 DEF Reports, OpensOnce

\* A line that the server wrote is no event of the connection's own.
LEMMA LineEvents ==
  ASSUME NEW l \in Lines
  PROVE  l \in Events /\ l.type # "connected" /\ l.type # "disconnected"
BY DEF Lines, Confirmations, Events

\* A step of one connection that leaves the status alone.
LEMMA MovesAlive ==
  ASSUME TypeOK, Alive, NEW k \in Conns, NEW v, Moves(k, v), UNCHANGED <<status, cur>>,
         Fresh(net[k]) => Fresh(v),
         k = cur /\ Healthy(status, net[k]) => Healthy(status, v)
  PROVE  Alive'
<1>1. net'[k] = v /\ \A j \in Conns : j # k => net'[j] = net[j]
  BY MovesType
<1>2. \A j \in Conns : j > cur => Fresh(net'[j])
  BY <1>1 DEF Alive
<1>3. cur # 0 => Healthy(status, net'[cur])
  <2> SUFFICES ASSUME cur # 0 PROVE Healthy(status, net'[cur])
    OBVIOUS
  <2>1. cur \in Conns /\ Healthy(status, net[cur])
    BY ClientAssumption DEF Alive, TypeOK, Conns
  <2> QED
    BY <1>1, <2>1
<1>4. \A j \in Conns : (j > cur => Fresh(net[j]))'
  BY <1>2 DEF Fresh
<1>5. (cur # 0 => Healthy(status, net[cur]))'
  BY <1>3 DEF Healthy
<1> QED
  BY <1>4, <1>5 DEF Alive

\* Every step of the tasks, the reader and the server.
LEMMA TasksAlive ==
  ASSUME TypeOK, Alive, NEW k \in Conns,
         Task(k) \/ TaskRefused(k) \/ Reader(k) \/ Server(k) \/ SessionEnds(k)
  PROVE  Alive'
<1>1. UNCHANGED <<status, cur>>
  BY DEF Task, Reader, Server, SendCommand, TaskConnects, TaskCommand, TaskNone, TaskEnds,
         TaskRefused, ReadLine, ReadAborted, ReadEnd, Serve, Reply, SessionEnds, uiVars
<1>2. net[k] \in Connection /\ net[k].events \in Seq(Events) /\ net[k].down \in Seq(Lines)
  BY DEF TypeOK, Connection
<1>3. ASSUME NEW v, Moves(k, v), v.task = net[k].task, v.reader = net[k].reader,
             v.events = net[k].events
      PROVE  Alive'
  BY <1>1, <1>3, MovesAlive DEF Fresh, Healthy
<1>4. ASSUME k = cur, NEW x PROVE Emitted(k, x) = net[k].events \o x
  BY <1>4 DEF Emitted
<1>5. LastWords \in Seq(Events) /\ Len(LastWords) = 1 /\ LastWords[1].type = "disconnected"
  BY DEF LastWords, Events
<1>6. CASE SendCommand(k)
  BY <1>3, <1>6, SendCommandMoves DEF Same
<1>7. CASE TaskConnects(k) \/ TaskRefused(k)
  <2> DEFINE up   == <<[type |-> "connected"]>>
             down == <<[type |-> "error"], [type |-> "disconnected"]>>
  <2>1. /\ net[k].task = "connecting"
        /\ \E v : /\ Moves(k, v)
                  /\ \/ v.task = "looping" /\ v.reader = "reading" /\ v.events = Emitted(k, up)
                     \/ v.task = "done" /\ v.reader = net[k].reader /\ v.events = Emitted(k, down)
    BY <1>7, TaskBeginsMoves
  <2>2. PICK v : /\ Moves(k, v)
                 /\ \/ v.task = "looping" /\ v.reader = "reading" /\ v.events = Emitted(k, up)
                    \/ /\ v.task = "done" /\ v.reader = net[k].reader
                       /\ v.events = Emitted(k, down)
    BY <2>1
  <2>3. /\ Len(up) = 1 /\ up[1].type = "connected"
        /\ Len(down) = 2 /\ down[1].type = "error" /\ down[2].type = "disconnected"
        /\ up \in Seq(Events) /\ down \in Seq(Events)
    BY DEF Events, Lines
  <2> HIDE DEF up, down
  <2>4. ASSUME k = cur, Healthy(status, net[k]) PROVE Healthy(status, v)
    <3>1. status = "connecting" /\ net[k].reader = "none" /\ net[k].events = <<>>
      BY <2>1, <2>4 DEF Healthy
    <3>2. <<>> \o up = up /\ <<>> \o down = down
      BY <2>3
    <3>3. \/ v.task = "looping" /\ v.reader = "reading" /\ v.events = up
          \/ v.task = "done" /\ v.reader = "none" /\ v.events = down
      BY <1>4, <2>2, <2>4, <3>1, <3>2
    <3>4. OpensOnce(status, up) /\ OpensOnce(status, down) /\ Reports(down)
      <4>1. \A i \in 1..1 : i = 1
        OBVIOUS
      <4>2. \A i \in 1..2 : i = 1 \/ i = 2
        OBVIOUS
      <4> QED
        BY <2>3, <3>1, <4>1, <4>2 DEF OpensOnce, Reports
    <3> QED
      BY <3>3, <3>4 DEF Healthy
  <2>5. ~Fresh(net[k])
    BY <2>1 DEF Fresh
  <2> QED
    BY <1>1, <2>2, <2>4, <2>5, MovesAlive
<1>8. CASE TaskCommand(k) \/ TaskNone(k)
  <2>1. PICK v : Moves(k, v) /\ (Same(k, v) \/ LoopLeft(k, v))
    BY <1>8, TaskLoopMoves
  <2>2. CASE Same(k, v)
    BY <1>3, <2>1, <2>2 DEF Same
  <2>3. CASE LoopLeft(k, v)
    <3>1. ~Fresh(net[k])
      BY <2>3 DEF LoopLeft, Fresh
    <3>2. Healthy(status, net[k]) => Healthy(status, v)
      BY <2>3 DEF LoopLeft, Healthy
    <3> QED
      BY <1>1, <2>1, <3>1, <3>2, MovesAlive
  <2> QED
    BY <2>1, <2>2, <2>3
<1>9. CASE TaskEnds(k)
  <2>1. /\ net[k].task = "ending"
        /\ \E v : /\ Moves(k, v) /\ v.task = "done" /\ v.reader = net[k].reader
                  /\ v.events = Emitted(k, LastWords)
    BY <1>9, TaskEndsMoves
  <2>2. PICK v : /\ Moves(k, v) /\ v.task = "done" /\ v.reader = net[k].reader
                 /\ v.events = Emitted(k, LastWords)
    BY <2>1
  <2>3. ASSUME k = cur, Healthy(status, net[k]) PROVE Healthy(status, v)
    <3>1. v.events = net[k].events \o LastWords
      BY <1>4, <2>2, <2>3
    <3>2. Reports(LastWords) /\ \A i \in 1..Len(LastWords) : LastWords[i].type # "connected"
      BY <1>5 DEF Reports
    <3>3. Reports(v.events) /\ OpensOnce(status, v.events)
      BY <1>2, <1>5, <2>3, <3>1, <3>2, SentAfter DEF Healthy
    <3> QED
      BY <2>2, <3>3 DEF Healthy
  <2>4. ~Fresh(net[k])
    BY <2>1 DEF Fresh
  <2> QED
    BY <1>1, <2>2, <2>3, <2>4, MovesAlive
<1>10. CASE Reader(k)
  <2> DEFINE l == <<Head(net[k].down)>>
  <2>1. PICK v : /\ Moves(k, v) /\ v.task = net[k].task
                 /\ \/ /\ net[k].reader = "aborting" /\ v.reader = "done"
                       /\ v.events = net[k].events
                    \/ /\ net[k].reader = "reading" /\ v.reader = "done"
                       /\ v.events = Emitted(k, LastWords)
                    \/ /\ net[k].down # <<>> /\ v.events = Emitted(k, l)
                       /\ \/ net[k].reader = "aborting" /\ v.reader = "done"
                          \/ net[k].reader = "reading" /\ v.reader = "reading"
    BY <1>10, ReaderMoves
  <2>2. ~Fresh(net[k])
    BY <2>1 DEF Fresh
  <2>3. ASSUME net[k].down # <<>>
        PROVE  l \in Seq(Events) /\ \A i \in 1..Len(l) : l[i].type # "connected"
    <3>1. Head(net[k].down) \in Lines
      BY <1>2, <2>3, HeadTailProperties
    <3> QED
      BY <3>1, LineEvents
  <2> HIDE DEF l
  <2>4. ASSUME k = cur, Healthy(status, net[k]) PROVE Healthy(status, v)
    <3>1. net[k].task # "connecting"
      BY <2>1, <2>4 DEF Healthy
    <3>2. CASE /\ net[k].reader = "aborting" /\ v.reader = "done"
               /\ v.events = net[k].events
      BY <2>1, <2>4, <3>1, <3>2 DEF Healthy
    <3>3. CASE /\ net[k].reader = "reading" /\ v.reader = "done"
               /\ v.events = Emitted(k, LastWords)
      <4>1. v.events = net[k].events \o LastWords
        BY <1>4, <2>4, <3>3
      <4>2. Reports(LastWords) /\ \A i \in 1..Len(LastWords) : LastWords[i].type # "connected"
        BY <1>5 DEF Reports
      <4>3. Reports(v.events) /\ OpensOnce(status, v.events)
        BY <1>2, <1>5, <2>4, <4>1, <4>2, SentAfter DEF Healthy
      <4> QED
        BY <2>1, <2>4, <3>1, <3>3, <4>3 DEF Healthy
    <3>4. CASE /\ net[k].down # <<>> /\ v.events = Emitted(k, l)
               /\ \/ net[k].reader = "aborting" /\ v.reader = "done"
                  \/ net[k].reader = "reading" /\ v.reader = "reading"
      <4>1. v.events = net[k].events \o l
        BY <1>4, <2>4, <3>4
      <4>2. /\ Reports(net[k].events) => Reports(v.events)
            /\ OpensOnce(status, v.events)
        BY <1>2, <2>3, <2>4, <3>4, <4>1, SentAfter DEF Healthy
      <4> QED
        BY <2>1, <2>4, <3>1, <3>4, <4>2 DEF Healthy
    <3> QED
      BY <2>1, <3>2, <3>3, <3>4
  <2> QED
    BY <1>1, <2>1, <2>2, <2>4, MovesAlive
<1>11. CASE Server(k) \/ SessionEnds(k)
  BY <1>3, <1>11, ServerMoves DEF Same, Answered
<1> QED
  BY <1>6, <1>7, <1>8, <1>9, <1>10, <1>11 DEF Task

\* The poller takes an event.
LEMMA PollAlive ==
  ASSUME TypeOK, Alive, Poll
  PROVE  Alive' /\ (status' = "connected" => status \in {"connecting", "connected"})
<1> DEFINE e == Head(net[cur].events)
           t == Tail(net[cur].events)
<1>1. /\ cur \in Conns /\ net[cur].events # <<>>
      /\ UNCHANGED cur /\ \A k \in Conns : k # cur => net'[k] = net[k]
      /\ net'[cur].task = net[cur].task /\ net'[cur].reader = net[cur].reader
      /\ net'[cur].events = t /\ status' = StatusAfter(e)
  BY PollFacts
<1>2. cur # 0 /\ Healthy(status, net[cur]) /\ net[cur].events \in Seq(Events)
  BY <1>1 DEF Poll, Alive, TypeOK, Connection
<1>3. /\ e = net[cur].events[1] /\ Len(net[cur].events) \in Nat /\ Len(t) \in Nat
      /\ 1 \in 1..Len(net[cur].events)
      /\ \A i \in 1..Len(t) : i + 1 \in 1..Len(net[cur].events) /\ t[i] = net[cur].events[i + 1]
      /\ \A i \in 1..Len(net[cur].events) :
            i = 1 \/ (i - 1 \in 1..Len(t) /\ net[cur].events[i] = t[i - 1])
  BY <1>1, <1>2
<1> HIDE DEF e, t
<1>4. e.type = "connected" => status = "connecting"
  BY <1>2, <1>3 DEF Healthy, OpensOnce
<1>5. status' = "connected" => status \in {"connecting", "connected"}
  BY <1>1, <1>4 DEF StatusAfter
<1>6. ASSUME NEW st PROVE OpensOnce(st, t)
  <2>1. ASSUME NEW i \in 1..Len(t) PROVE t[i].type # "connected"
    <3>1. i + 1 \in 1..Len(net[cur].events) /\ t[i] = net[cur].events[i + 1] /\ i + 1 # 1
      BY <1>3
    <3> QED
      BY <1>2, <3>1 DEF Healthy, OpensOnce
  <2> QED
    BY <2>1 DEF OpensOnce
<1>7. Reports(net[cur].events) => e.type = "disconnected" \/ Reports(t)
  BY <1>3 DEF Reports
<1>8. PICK st : st = status'
  OBVIOUS
<1>9. \/ st = "disconnected"
      \/ st = "connected" /\ e.type = "connected"
      \/ st = status /\ e.type # "disconnected"
  BY <1>1, <1>8 DEF StatusAfter
<1>10. Healthy(st, net'[cur])
  <2>1. net[cur].task # "connecting"
    BY <1>1, <1>2 DEF Healthy
  <2>2. \/ st = "disconnected"
        \/ net[cur].task # "done" /\ ~(net[cur].task = "looping" /\ net[cur].reader = "done")
        \/ Reports(t)
    BY <1>2, <1>4, <1>7, <1>9 DEF Healthy
  <2> QED
    BY <1>1, <1>2, <1>6, <2>1, <2>2 DEF Healthy
<1>11. \A k \in Conns : (k > cur => Fresh(net[k]))'
  <2>1. \A k \in Conns : k > cur => Fresh(net[k]) /\ k # cur
    BY <1>1 DEF Alive, Conns
  <2> QED
    BY <1>1, <2>1 DEF Fresh
<1>12. (cur # 0 => Healthy(status, net[cur]))'
  BY <1>1, <1>8, <1>10 DEF Healthy
<1> QED
  BY <1>1, <1>2, <1>5, <1>11, <1>12 DEF Alive

\* Every step keeps the invariant, and none turns the status from disconnected
\* to connected.
LEMMA AliveStep ==
  ASSUME TypeOK, Alive, [Next]_vars
  PROVE  Alive' /\ (status' = "connected" => status \in {"connecting", "connected"})
<1>1. ASSUME UNCHANGED <<status, cur>>,
             \A k \in Conns : /\ net'[k].task = net[k].task /\ net'[k].reader = net[k].reader
                              /\ net'[k].events = net[k].events
      PROVE  Alive' /\ (status' = "connected" => status \in {"connecting", "connected"})
  <2>1. \A k \in Conns : (k > cur => Fresh(net[k]))'
    BY <1>1 DEF Alive, Fresh
  <2>2. (cur # 0 => Healthy(status, net[cur]))'
    <3>1. cur # 0 => cur \in Conns
      BY ClientAssumption DEF TypeOK, Conns
    <3> QED
      BY <1>1, <3>1 DEF Alive, Healthy
  <2> QED
    BY <1>1, <2>1, <2>2 DEF Alive
<1>2. CASE Connect
  <2>1. PICK c : c = cur + 1
    OBVIOUS
  <2>2. /\ c \in Conns /\ cur' = c /\ \A k \in Conns : k # c => net'[k] = net[k]
        /\ net'[c].task = "connecting" /\ net'[c].reader = net[c].reader
        /\ net'[c].events = net[c].events /\ status' = "connecting"
    BY <1>2, <2>1, ConnectFacts DEF Connect
  <2>3. cur \in Nat /\ c \in Nat /\ c > cur /\ c # 0 /\ \A k \in Conns : k > c => k > cur /\ k # c
    BY <2>1, ClientAssumption DEF TypeOK, Conns
  <2>4. net'[c].reader = "none" /\ net'[c].events = <<>>
    BY <2>2, <2>3 DEF Alive, Fresh
  <2>5. OpensOnce("connecting", <<>>)
    BY EmptySeq DEF OpensOnce
  <2>6. Healthy("connecting", net'[c])
    BY <2>2, <2>4, <2>5 DEF Healthy
  <2>7. \A k \in Conns : (k > cur => Fresh(net[k]))'
    BY <2>2, <2>3 DEF Alive, Fresh
  <2>8. (cur # 0 => Healthy(status, net[cur]))'
    BY <2>2, <2>6 DEF Healthy
  <2> QED
    BY <2>2, <2>3, <2>7, <2>8 DEF Alive
<1>3. CASE \/ DoSend \/ Disconnect
           \/ \E name \in Names : DoCreate(name)
           \/ \E id \in TypedIds : DoSubscribe(id)
           \/ \E i \in 1..Len(rooms) : Select(i)
  <2>1. /\ status = "connected" /\ status' \in {"connected", "disconnected"} /\ UNCHANGED cur
        /\ \A k \in Conns : Same(k, net'[k])
    BY <1>3, ClickFacts
  <2>2. CASE status' = status
    BY <1>1, <2>1, <2>2 DEF Same
  <2>3. CASE status' = "disconnected"
    <3>1. cur \in Conns /\ Healthy("connected", net[cur])
      BY <2>1, ClientAssumption DEF Alive, TypeOK, Conns
    <3>2. Healthy("disconnected", net'[cur])
      BY <2>1, <3>1 DEF Healthy, OpensOnce, Same
    <3>3. \A k \in Conns : (k > cur => Fresh(net[k]))'
      BY <2>1 DEF Alive, Fresh, Same
    <3>4. (cur # 0 => Healthy(status, net[cur]))'
      BY <2>1, <2>3, <3>2 DEF Healthy
    <3> QED
      BY <2>3, <3>3, <3>4 DEF Alive
  <2> QED
    BY <2>1, <2>2, <2>3
<1>4. ASSUME NEW i \in 1..Len(rooms), Unsubscribe(rooms[i].id)
      PROVE  Alive' /\ (status' = "connected" => status \in {"connecting", "connected"})
  <2>1. UNCHANGED <<status, net, cur>>
    BY <1>4 DEF Unsubscribe, Click
  <2> QED
    BY <1>1, <2>1
<1>5. CASE Poll
  BY <1>5, PollAlive
<1>6. ASSUME NEW k \in Conns,
             Task(k) \/ TaskRefused(k) \/ Reader(k) \/ Server(k) \/ SessionEnds(k)
      PROVE  Alive' /\ (status' = "connected" => status \in {"connecting", "connected"})
  <2>1. UNCHANGED status
    BY <1>6 DEF Task, Reader, Server, SendCommand, TaskConnects, TaskCommand, TaskNone,
                TaskEnds, TaskRefused, ReadLine, ReadAborted, ReadEnd, Serve, Reply,
                SessionEnds, uiVars
  <2> QED
    BY <1>6, <2>1, TasksAlive
<1>7. ASSUME NEW name \in OtherNames, OtherCreates(name)
      PROVE  Alive' /\ (status' = "connected" => status \in {"connecting", "connected"})
  BY <1>1, <1>7 DEF OtherCreates, uiVars
<1>8. ASSUME NEW r \in 1..Len(srooms), OtherPosts(r)
      PROVE  Alive' /\ (status' = "connected" => status \in {"connecting", "connected"})
  <2>1. UNCHANGED <<status, cur>>
    BY <1>8 DEF OtherPosts, uiVars
  <2> QED
    BY <1>1, <1>8, <2>1, OtherPostsFacts
<1>9. CASE UNCHANGED vars
  BY <1>1, <1>9 DEF vars
<1> QED
  BY <1>2, <1>3, <1>4, <1>5, <1>6, <1>7, <1>8, <1>9 DEF Next, User

\* At first nothing is connected.
LEMMA AliveInit == Init => Alive
<1> SUFFICES ASSUME Init PROVE Alive
  OBVIOUS
<1>1. \A k \in Conns : Fresh(net[k])
  BY DEF Init, Fresh
<1>2. status = "disconnected" /\ cur = 0
  BY DEF Init
<1> QED
  BY <1>1, <1>2 DEF Alive

\* A connection whose task or reader is gone is never shown as connected without
\* the event that says so on its way, however connections fail and break.
THEOREM HonestStatus == Spec => []StatusHonest
<1>1. TypeOK /\ Alive /\ [Next]_vars => Alive'
  BY AliveStep
<1>2. TypeOK /\ Alive => StatusHonest
  BY AliveIsHonest
<1> QED
  BY <1>1, <1>2, AliveInit, TypeCorrect, PTL DEF Spec

\* The status turns to connected only after a click on Connect: no event of a
\* connection that was given up or has failed brings it back.
THEOREM NeverRevived == Spec => NotRevived
<1>1. TypeOK /\ Alive /\ [Next]_vars => Alive'
  BY AliveStep
<1>2. ASSUME TypeOK, Alive, [Next]_vars
      PROVE  [status' = "connected" => status \in {"connecting", "connected"}]_vars
  BY <1>2, AliveStep
<1> QED
  BY <1>1, <1>2, AliveInit, TypeCorrect, PTL DEF Spec, NotRevived
-----------------------------------------------------------------------------
(* The order of what is shown *)

\* The numbers of the messages among events or lines, and among what is shown.
Numbers(s) == {s[i].data.n : i \in {j \in 1..Len(s) : s[j].type = "message"}}
ShownNumbers(m) == {m[i].text.n : i \in {j \in 1..Len(m) : m[j].sender = "server"}}

Below(S, T) == \A a \in S, b \in T : a < b

\* They rise from the first to the last.
Rising(s) ==
    \A i, j \in 1..Len(s) :
        i < j /\ s[i].type = "message" /\ s[j].type = "message" => s[i].data.n < s[j].data.n
ShownRising(m) ==
    \A i, j \in 1..Len(m) :
        i < j /\ m[i].sender = "server" /\ m[j].sender = "server" => m[i].text.n < m[j].text.n

\* What is on its way on a connection, when p messages were posted.
InFlight(n, p) ==
    /\ Rising(n.events) /\ Rising(n.down) /\ Below(Numbers(n.events), Numbers(n.down))
    /\ Numbers(n.events) \cup Numbers(n.down) \subseteq 0..p

\* The inductive invariant of ShownInOrder: what is shown is older than what
\* waits for the poller, and that is older than what waits for the reader.
InOrder ==
    /\ ShownRising(messages) /\ ShownNumbers(messages) \subseteq 0..posts
    /\ \A k \in Conns : InFlight(net[k], posts)
    /\ cur # 0 =>
          Below(ShownNumbers(messages), Numbers(net[cur].events) \cup Numbers(net[cur].down))

\* The numbers of one sequence after another.
LEMMA NumbersConcat ==
  ASSUME NEW s \in Seq(Events), NEW x \in Seq(Events)
  PROVE  /\ Numbers(s \o x) = Numbers(s) \cup Numbers(x)
         /\ Rising(s \o x) <=> Rising(s) /\ Rising(x) /\ Below(Numbers(s), Numbers(x))
<1> DEFINE c == s \o x
<1>1. /\ Len(s) \in Nat /\ Len(x) \in Nat /\ Len(c) = Len(s) + Len(x)
      /\ \A i \in 1..(Len(s) + Len(x)) : c[i] = IF i <= Len(s) THEN s[i] ELSE x[i - Len(s)]
  BY ConcatProperties
<1> HIDE DEF c
<1>2. ASSUME NEW i \in 1..Len(s) PROVE i \in 1..Len(c) /\ c[i] = s[i]
  BY <1>1
<1>3. ASSUME NEW i \in 1..Len(x) PROVE Len(s) + i \in 1..Len(c) /\ c[Len(s) + i] = x[i]
  BY <1>1
<1>4. ASSUME NEW i \in 1..Len(c)
      PROVE  \/ i \in 1..Len(s) /\ c[i] = s[i]
             \/ i - Len(s) \in 1..Len(x) /\ c[i] = x[i - Len(s)] /\ i > Len(s)
  BY <1>1
<1>5. Numbers(c) = Numbers(s) \cup Numbers(x)
  <2>1. ASSUME NEW n \in Numbers(c) PROVE n \in Numbers(s) \cup Numbers(x)
    <3>1. PICK i \in 1..Len(c) : c[i].type = "message" /\ n = c[i].data.n
      BY <2>1 DEF Numbers
    <3> QED
      BY <1>4, <3>1 DEF Numbers
  <2>2. ASSUME NEW n \in Numbers(s) PROVE n \in Numbers(c)
    <3>1. PICK i \in 1..Len(s) : s[i].type = "message" /\ n = s[i].data.n
      BY <2>2 DEF Numbers
    <3> QED
      BY <1>2, <3>1 DEF Numbers
  <2>3. ASSUME NEW n \in Numbers(x) PROVE n \in Numbers(c)
    <3>1. PICK i \in 1..Len(x) : x[i].type = "message" /\ n = x[i].data.n
      BY <2>3 DEF Numbers
    <3> QED
      BY <1>3, <3>1 DEF Numbers
  <2> QED
    BY <2>1, <2>2, <2>3
<1>6. ASSUME Rising(c) PROVE Rising(s) /\ Rising(x) /\ Below(Numbers(s), Numbers(x))
  <2>1. Rising(s)
    BY <1>2, <1>6 DEF Rising
  <2>2. Rising(x)
    <3>1. ASSUME NEW i \in 1..Len(x), NEW j \in 1..Len(x), i < j,
                 x[i].type = "message", x[j].type = "message"
          PROVE  x[i].data.n < x[j].data.n
      <4>1. Len(s) + i < Len(s) + j
        BY <1>1, <3>1
      <4> QED
        BY <1>3, <1>6, <3>1, <4>1 DEF Rising
    <3> QED
      BY <3>1 DEF Rising
  <2>3. ASSUME NEW i \in 1..Len(s), NEW j \in 1..Len(x),
               s[i].type = "message", x[j].type = "message"
        PROVE  s[i].data.n < x[j].data.n
    <3>1. i < Len(s) + j
      BY <1>1
    <3> QED
      BY <1>2, <1>3, <1>6, <2>3, <3>1 DEF Rising
  <2> QED
    BY <2>1, <2>2, <2>3 DEF Below, Numbers
<1>7. ASSUME Rising(s), Rising(x), Below(Numbers(s), Numbers(x)) PROVE Rising(c)
  <2>1. ASSUME NEW i \in 1..Len(c), NEW j \in 1..Len(c), i < j,
               c[i].type = "message", c[j].type = "message"
        PROVE  c[i].data.n < c[j].data.n
    <3>1. CASE i \in 1..Len(s) /\ j \in 1..Len(s)
      BY <1>2, <1>7, <2>1, <3>1 DEF Rising
    <3>2. CASE i > Len(s)
      <4>1. /\ i - Len(s) \in 1..Len(x) /\ j - Len(s) \in 1..Len(x) /\ i - Len(s) < j - Len(s)
            /\ c[i] = x[i - Len(s)] /\ c[j] = x[j - Len(s)]
        BY <1>1, <2>1, <3>2
      <4> QED
        BY <1>7, <2>1, <4>1 DEF Rising
    <3>3. CASE i \in 1..Len(s) /\ j > Len(s)
      <4>1. j - Len(s) \in 1..Len(x) /\ c[j] = x[j - Len(s)] /\ c[i] = s[i]
        BY <1>1, <3>3
      <4>2. s[i].data.n \in Numbers(s) /\ x[j - Len(s)].data.n \in Numbers(x)
        BY <2>1, <3>3, <4>1 DEF Numbers
      <4> QED
        BY <1>7, <4>1, <4>2 DEF Below
    <3> QED
      BY <1>1, <3>1, <3>2, <3>3
  <2> QED
    BY <2>1 DEF Rising
<1> QED
  BY <1>5, <1>6, <1>7 DEF c

\* Events without a message.
LEMMA NoNumbers ==
  ASSUME NEW s, \A i \in 1..Len(s) : s[i].type # "message"
  PROVE  Numbers(s) = {} /\ Rising(s)
BY DEF Numbers, Rising

\* A single event.
LEMMA OneNumber ==
  ASSUME NEW e
  PROVE  /\ Rising(<<e>>) /\ \A n \in Numbers(<<e>>) : n = e.data.n
         /\ e.type = "message" => Numbers(<<e>>) = {e.data.n}
         /\ e.type # "message" => Numbers(<<e>>) = {}
<1>1. Len(<<e>>) = 1 /\ <<e>>[1] = e /\ \A i \in 1..Len(<<e>>) : i = 1
  OBVIOUS
<1>2. PICK s : s = <<e>>
  OBVIOUS
<1>3. Rising(s)
  <2>1. \A i, j \in 1..Len(s) : ~(i < j)
    BY <1>1, <1>2
  <2> QED
    BY <2>1 DEF Rising
<1>4. /\ \A n \in Numbers(s) : n = e.data.n
      /\ e.type = "message" => Numbers(s) = {e.data.n}
      /\ e.type # "message" => Numbers(s) = {}
  BY <1>1, <1>2 DEF Numbers
<1> QED
  BY <1>2, <1>3, <1>4

\* A line becomes an event: what is on its way stays in order.
LEMMA InFlightEmits ==
  ASSUME TypeOK, NEW k \in Conns, InFlight(net[k], posts),
         NEW x \in Seq(Events), NEW d \in Seq(Events), NEW v,
         \/ v.down = net[k].down /\ \A i \in 1..Len(x) : x[i].type # "message"
         \/ v.down = d /\ net[k].down = x \o d,
         v.events = Emitted(k, x)
  PROVE  /\ InFlight(v, posts)
         /\ Numbers(v.events) \cup Numbers(v.down)
               \subseteq Numbers(net[k].events) \cup Numbers(net[k].down)
<1> DEFINE e == net[k].events
           w == net[k].down
<1>1. e \in Seq(Events) /\ Lines \subseteq Events /\ w \in Seq(Lines)
  BY DEF TypeOK, Connection, Events
<1>2. w \in Seq(Events)
  BY <1>1
<1>3. /\ Rising(e) /\ Rising(w) /\ Below(Numbers(e), Numbers(w))
      /\ Numbers(e) \cup Numbers(w) \subseteq 0..posts
  BY DEF InFlight
<1>4. v.events = e \o x \/ v.events = <<>>
  BY DEF Emitted
<1> HIDE DEF e, w
<1>5. /\ Rising(x) /\ Rising(v.down) /\ Below(Numbers(e), Numbers(x))
      /\ Below(Numbers(x), Numbers(v.down))
      /\ Numbers(x) \cup Numbers(v.down) \subseteq Numbers(w)
  <2>1. CASE v.down = net[k].down /\ \A i \in 1..Len(x) : x[i].type # "message"
    BY <1>3, <2>1, NoNumbers DEF Below, w
  <2>2. CASE v.down = d /\ net[k].down = x \o d
    <3>1. /\ Numbers(w) = Numbers(x) \cup Numbers(d)
          /\ Rising(x) /\ Rising(d) /\ Below(Numbers(x), Numbers(d))
      BY <1>3, <2>2, NumbersConcat DEF w
    <3> QED
      BY <1>3, <2>2, <3>1 DEF Below
  <2> QED
    BY <2>1, <2>2
<1>6. Numbers(<<>>) = {} /\ Rising(<<>>)
  BY EmptySeq, NoNumbers
<1>7. Rising(v.events) /\ Numbers(v.events) \subseteq Numbers(e) \cup Numbers(x)
  BY <1>1, <1>3, <1>4, <1>5, <1>6, NumbersConcat, ZenonT(60)
<1>8. Below(Numbers(v.events), Numbers(v.down))
  BY <1>3, <1>5, <1>7 DEF Below
<1>9. Numbers(v.events) \cup Numbers(v.down) \subseteq Numbers(e) \cup Numbers(w)
  BY <1>5, <1>7
<1> QED
  BY <1>3, <1>5, <1>7, <1>8, <1>9 DEF InFlight, e, w

\* A step of one connection that shows nothing new.
LEMMA MovesInOrder ==
  ASSUME TypeOK, InOrder, NEW k \in Conns, NEW v, Moves(k, v), UNCHANGED <<messages, cur, posts>>,
         InFlight(v, posts),
         Numbers(v.events) \cup Numbers(v.down)
            \subseteq Numbers(net[k].events) \cup Numbers(net[k].down)
  PROVE  InOrder'
<1>1. net'[k] = v /\ \A j \in Conns : j # k => net'[j] = net[j]
  BY MovesType
<1>2. \A j \in Conns : InFlight(net'[j], posts)
  BY <1>1 DEF InOrder
<1>3. cur # 0 =>
         Below(ShownNumbers(messages), Numbers(net'[cur].events) \cup Numbers(net'[cur].down))
  <2> SUFFICES ASSUME cur # 0
               PROVE  Below(ShownNumbers(messages),
                            Numbers(net'[cur].events) \cup Numbers(net'[cur].down))
    OBVIOUS
  <2>1. cur \in Conns
    BY ClientAssumption DEF TypeOK, Conns
  <2>2. Below(ShownNumbers(messages), Numbers(net[cur].events) \cup Numbers(net[cur].down))
    BY DEF InOrder
  <2>3. Numbers(net'[cur].events) \cup Numbers(net'[cur].down)
           \subseteq Numbers(net[cur].events) \cup Numbers(net[cur].down)
    BY <1>1, <2>1
  <2> QED
    BY <2>2, <2>3 DEF Below
<1>4. PICK p, c, m : p = posts /\ c = cur /\ m = messages
  OBVIOUS
<1>5. posts' = p /\ cur' = c /\ messages' = m
  BY <1>4
<1>6. /\ ShownRising(m) /\ ShownNumbers(m) \subseteq 0..p /\ \A j \in Conns : InFlight(net'[j], p)
      /\ c # 0 => Below(ShownNumbers(m), Numbers(net'[c].events) \cup Numbers(net'[c].down))
  BY <1>2, <1>3, <1>4 DEF InOrder
<1> QED
  BY <1>5, <1>6 DEF InOrder

\* Every step of the tasks, the reader and the server.
LEMMA TasksInOrder ==
  ASSUME TypeOK, InOrder, NEW k \in Conns,
         Task(k) \/ TaskRefused(k) \/ Reader(k) \/ Server(k) \/ SessionEnds(k)
  PROVE  InOrder'
<1>1. UNCHANGED <<messages, cur, posts>>
  BY DEF Task, Reader, Server, SendCommand, TaskConnects, TaskCommand, TaskNone, TaskEnds,
         TaskRefused, ReadLine, ReadAborted, ReadEnd, Serve, Reply, SessionEnds, uiVars
<1>2. /\ net[k].events \in Seq(Events) /\ net[k].down \in Seq(Lines)
      /\ Lines \subseteq Events /\ InFlight(net[k], posts)
  BY DEF TypeOK, Connection, Events, InOrder
<1>3. net[k].down \in Seq(Events)
  BY <1>2
<1>4. ASSUME NEW v, Moves(k, v), v.events = net[k].events, v.down = net[k].down
      PROVE  InOrder'
  <2>1. InFlight(v, posts)
    BY <1>2, <1>4 DEF InFlight
  <2> QED
    BY <1>1, <1>4, <2>1, MovesInOrder
<1>5. ASSUME NEW v, Moves(k, v), NEW x \in Seq(Events), NEW d \in Seq(Events),
             \/ v.down = net[k].down /\ \A i \in 1..Len(x) : x[i].type # "message"
             \/ v.down = d /\ net[k].down = x \o d,
             v.events = Emitted(k, x)
      PROVE  InOrder'
  BY <1>1, <1>2, <1>5, InFlightEmits, MovesInOrder
<1>6. LastWords \in Seq(Events) /\ \A i \in 1..Len(LastWords) : LastWords[i].type # "message"
  BY DEF LastWords, Events
<1>7. <<>> \in Seq(Events)
  OBVIOUS
<1>8. CASE SendCommand(k)
  BY <1>4, <1>8, SendCommandMoves DEF Same
<1>9. CASE TaskConnects(k) \/ TaskRefused(k)
  <2> DEFINE up   == <<[type |-> "connected"]>>
             down == <<[type |-> "error"], [type |-> "disconnected"]>>
  <2>1. PICK v : /\ Moves(k, v) /\ v.down = net[k].down
                 /\ v.events = Emitted(k, up) \/ v.events = Emitted(k, down)
    BY <1>9, TaskBeginsMoves
  <2>2. up \in Seq(Events) /\ \A i \in 1..Len(up) : up[i].type # "message"
    BY DEF Events
  <2>3. down \in Seq(Events) /\ \A i \in 1..Len(down) : down[i].type # "message"
    <3>1. Len(down) = 2 /\ \A i \in 1..2 : i = 1 \/ i = 2
      OBVIOUS
    <3>2. down[1].type = "error" /\ down[2].type = "disconnected"
      OBVIOUS
    <3>3. down \in Seq(Events)
      BY DEF Events, Lines
    <3> HIDE DEF down
    <3> QED
      BY <3>1, <3>2, <3>3
  <2> HIDE DEF up, down
  <2> QED
    BY <1>5, <1>7, <2>1, <2>2, <2>3
<1>10. CASE TaskCommand(k) \/ TaskNone(k)
  BY <1>4, <1>10, TaskLoopMoves DEF Same, LoopLeft
<1>11. CASE TaskEnds(k)
  <2>1. PICK v : /\ Moves(k, v) /\ v.down = net[k].down /\ v.events = Emitted(k, LastWords)
    BY <1>11, TaskEndsMoves
  <2> QED
    BY <1>5, <1>6, <1>7, <2>1
<1>12. CASE Reader(k)
  <2> DEFINE l == <<Head(net[k].down)>>
             t == Tail(net[k].down)
  <2>1. PICK v : /\ Moves(k, v)
                 /\ \/ v.events = net[k].events /\ v.down = net[k].down
                    \/ v.events = Emitted(k, LastWords) /\ v.down = net[k].down
                    \/ net[k].down # <<>> /\ v.down = t /\ v.events = Emitted(k, l)
    BY <1>12, ReaderMoves
  <2>2. ASSUME net[k].down # <<>>
        PROVE  l \in Seq(Events) /\ t \in Seq(Events) /\ net[k].down = l \o t
    BY <1>3, <2>2, HeadTailProperties
  <2> HIDE DEF l, t
  <2>3. CASE v.events = net[k].events /\ v.down = net[k].down
    BY <1>4, <2>1, <2>3
  <2>4. CASE v.events = Emitted(k, LastWords) /\ v.down = net[k].down
    BY <1>5, <1>6, <1>7, <2>1, <2>4
  <2>5. CASE net[k].down # <<>> /\ v.down = t /\ v.events = Emitted(k, l)
    BY <1>5, <2>1, <2>2, <2>5
  <2> QED
    BY <2>1, <2>3, <2>4, <2>5
<1>13. CASE Server(k) \/ SessionEnds(k)
  <2>1. PICK v : Moves(k, v) /\ (Same(k, v) \/ Answered(k, v))
    BY <1>13, ServerMoves
  <2>2. CASE Same(k, v)
    BY <1>4, <2>1, <2>2 DEF Same
  <2>3. CASE Answered(k, v)
    <3>1. PICK x \in Seq(Lines) : /\ v.down = net[k].down \o x
                                  /\ \A i \in 1..Len(x) : x[i].type # "message"
      BY <2>3 DEF Answered
    <3>2. x \in Seq(Events)
      BY <1>2
    <3>3. Numbers(x) = {} /\ Rising(x)
      BY <3>1, NoNumbers
    <3>4. Numbers(v.down) = Numbers(net[k].down) /\ Rising(v.down)
      <4>1. Below(Numbers(net[k].down), Numbers(x))
        BY <3>3 DEF Below
      <4>2. Rising(net[k].down)
        BY <1>2 DEF InFlight
      <4>3. /\ Numbers(net[k].down \o x) = Numbers(net[k].down) \cup Numbers(x)
            /\ Rising(net[k].down \o x)
        BY <1>3, <3>2, <3>3, <4>1, <4>2, NumbersConcat
      <4> QED
        BY <3>1, <3>3, <4>3
    <3>5. v.events = net[k].events
      BY <2>3 DEF Answered
    <3>6. InFlight(v, posts)
      BY <1>2, <3>4, <3>5 DEF InFlight
    <3> QED
      BY <1>1, <2>1, <3>4, <3>5, <3>6, MovesInOrder
  <2> QED
    BY <2>1, <2>2, <2>3
<1> QED
  BY <1>8, <1>9, <1>10, <1>11, <1>12, <1>13 DEF Task

\* A step that sends nothing and shows no message of the server that it did not
\* show before.
LEMMA ShowsLess ==
  ASSUME TypeOK, InOrder, UNCHANGED <<cur, posts>>,
         \A k \in Conns : net'[k].events = net[k].events /\ net'[k].down = net[k].down,
         ShownRising(messages'), ShownNumbers(messages') \subseteq ShownNumbers(messages)
  PROVE  InOrder'
<1>1. \A k \in Conns : InFlight(net'[k], posts)
  BY DEF InOrder, InFlight
<1>2. PICK p, c, m : p = posts /\ c = cur /\ m = messages'
  OBVIOUS
<1>3. c # 0 => Below(ShownNumbers(m), Numbers(net'[c].events) \cup Numbers(net'[c].down))
  <2> SUFFICES ASSUME cur # 0
               PROVE  Below(ShownNumbers(m), Numbers(net'[cur].events) \cup Numbers(net'[cur].down))
    BY <1>2
  <2>1. cur \in Conns
    BY ClientAssumption DEF TypeOK, Conns
  <2>2. net'[cur].events = net[cur].events /\ net'[cur].down = net[cur].down
    BY <2>1
  <2> QED
    BY <1>2, <2>2 DEF InOrder, Below
<1>4. ShownRising(m) /\ ShownNumbers(m) \subseteq 0..p /\ \A k \in Conns : InFlight(net'[k], p)
  BY <1>1, <1>2 DEF InOrder
<1>5. posts' = p /\ cur' = c /\ messages' = m
  BY <1>2
<1> QED
  BY <1>3, <1>4, <1>5 DEF InOrder

\* What is shown after a message of the user's or of the client's own ...
LEMMA SaidByOthers ==
  ASSUME NEW m \in Seq(Message), NEW x, x.sender # "server", ShownRising(m)
  PROVE  ShownRising(Append(m, x)) /\ ShownNumbers(Append(m, x)) \subseteq ShownNumbers(m)
<1> DEFINE a == Append(m, x)
<1>1. Len(m) \in Nat /\ Len(a) = Len(m) + 1
      /\ \A i \in 1..Len(a) : (i \in 1..Len(m) /\ a[i] = m[i]) \/ a[i] = x
  OBVIOUS
<1> HIDE DEF a
<1>2. \A i \in 1..Len(a) : a[i].sender = "server" => i \in 1..Len(m) /\ a[i] = m[i]
  BY <1>1
<1>3. ShownRising(a)
  BY <1>2 DEF ShownRising
<1>4. ShownNumbers(a) \subseteq ShownNumbers(m)
  BY <1>2 DEF ShownNumbers
<1> QED
  BY <1>3, <1>4 DEF a

\* ... and after one of the server's that is newer than all before.
LEMMA SaidByServer ==
  ASSUME NEW m \in Seq(Message), NEW x, ShownRising(m), Below(ShownNumbers(m), {x.text.n})
  PROVE  /\ ShownRising(Append(m, x))
         /\ ShownNumbers(Append(m, x)) \subseteq ShownNumbers(m) \cup {x.text.n}
<1> DEFINE a == Append(m, x)
<1>1. Len(m) \in Nat /\ Len(a) = Len(m) + 1
      /\ \A i \in 1..Len(a) :
            (i \in 1..Len(m) /\ a[i] = m[i]) \/ (i = Len(m) + 1 /\ a[i] = x)
  OBVIOUS
<1> HIDE DEF a
<1>2. ASSUME NEW i \in 1..Len(a), NEW j \in 1..Len(a), i < j,
             a[i].sender = "server", a[j].sender = "server"
      PROVE  a[i].text.n < a[j].text.n
  <2>1. i \in 1..Len(m) /\ a[i] = m[i]
    BY <1>1, <1>2
  <2>2. CASE j \in 1..Len(m) /\ a[j] = m[j]
    BY <1>2, <2>1, <2>2 DEF ShownRising
  <2>3. CASE a[j] = x
    <3>1. a[i].text.n \in ShownNumbers(m)
      BY <1>2, <2>1 DEF ShownNumbers
    <3> QED
      BY <2>3, <3>1 DEF Below
  <2> QED
    BY <1>1, <2>2, <2>3
<1>3. ShownNumbers(a) \subseteq ShownNumbers(m) \cup {x.text.n}
  BY <1>1 DEF ShownNumbers
<1>4. ShownRising(a)
  BY <1>2 DEF ShownRising
<1> QED
  BY <1>3, <1>4 DEF a

\* Some of the messages go.
LEMMA SomeForgotten ==
  ASSUME NEW kept, NEW at, NEW m, NEW places, Len(m) \in Nat,
         Keeps(kept, at, m, places, Len(m)), ShownRising(m)
  PROVE  ShownRising(kept) /\ ShownNumbers(kept) \subseteq ShownNumbers(m)
<1>1. ASSUME NEW j \in 1..Len(kept) PROVE at[j] \in 1..Len(m) /\ kept[j] = m[at[j]]
  BY DEF Keeps
<1>2. ASSUME NEW i \in 1..Len(kept), NEW j \in 1..Len(kept), i < j PROVE at[i] < at[j]
  BY <1>2 DEF Keeps
<1>3. ShownRising(kept)
  BY <1>1, <1>2 DEF ShownRising
<1>4. ShownNumbers(kept) \subseteq ShownNumbers(m)
  BY <1>1 DEF ShownNumbers
<1> QED
  BY <1>3, <1>4

\* The poller takes an event, and perhaps shows a message.
LEMMA PollInOrder == ASSUME TypeOK, InOrder, Poll PROVE InOrder'
<1> DEFINE e == Head(net[cur].events)
           t == Tail(net[cur].events)
           w == net[cur].down
<1>1. /\ cur \in Conns /\ net[cur].events # <<>> /\ e \in Events
      /\ UNCHANGED <<cur, posts>> /\ \A k \in Conns : k # cur => net'[k] = net[k]
      /\ net'[cur].down = net[cur].down /\ net'[cur].events = t
  BY PollFacts
<1>2. /\ \/ e.type = "csub_ok" /\ e.grp \in Nat /\ Rekey(e.grp, e.grp_name)
         \/ e.type = "sub_ok" /\ e.grp_name \in Names /\ Rename(e.grp, e.grp_name)
         \/ e.type = "message" /\ e.data \in Texts /\ File(e.data, e.grp_name)
         \/ UNCHANGED <<rooms, messages, active>>
  BY PollFacts
<1>3. /\ cur # 0 /\ net[cur].events \in Seq(Events) /\ InFlight(net[cur], posts)
      /\ Below(ShownNumbers(messages), Numbers(net[cur].events) \cup Numbers(net[cur].down))
      /\ ShownRising(messages) /\ ShownNumbers(messages) \subseteq 0..posts
      /\ messages \in Seq(Message)
  BY <1>1 DEF Poll, InOrder, TypeOK, Connection
<1>4. net[cur].events = <<e>> \o t /\ t \in Seq(Events) /\ <<e>> \in Seq(Events)
  BY <1>1, <1>3, HeadTailProperties
<1> HIDE DEF e, t
<1>5. /\ Numbers(net[cur].events) = Numbers(<<e>>) \cup Numbers(t)
      /\ Rising(t) /\ Below(Numbers(<<e>>), Numbers(t))
  BY <1>3, <1>4, NumbersConcat DEF InFlight
<1>6. InFlight(net'[cur], posts)
  <2>1. Below(Numbers(t), Numbers(w)) /\ Numbers(t) \cup Numbers(w) \subseteq 0..posts
    BY <1>3, <1>5 DEF InFlight, Below
  <2> QED
    BY <1>1, <1>3, <1>5, <2>1 DEF InFlight
<1>7. /\ ShownRising(messages')
      /\ \/ ShownNumbers(messages') \subseteq ShownNumbers(messages)
         \/ /\ e.type = "message"
            /\ ShownNumbers(messages') \subseteq ShownNumbers(messages) \cup {e.data.n}
  <2>1. CASE e.grp \in Nat /\ Rekey(e.grp, e.grp_name)
    <3>1. /\ Len(messages') = Len(messages)
          /\ \A j \in 1..Len(messages) : /\ messages'[j].sender = messages[j].sender
                                         /\ messages'[j].text = messages[j].text
      BY <2>1, RekeyFacts
    <3>2. ShownRising(messages')
      BY <1>3, <3>1 DEF ShownRising
    <3>3. ShownNumbers(messages') \subseteq ShownNumbers(messages)
      BY <3>1 DEF ShownNumbers
    <3> QED
      BY <3>2, <3>3
  <2>2. CASE e.grp_name \in Names /\ Rename(e.grp, e.grp_name)
    BY <1>3, <2>2, RenameFacts
  <2>3. CASE e.type = "message" /\ e.data \in Texts /\ File(e.data, e.grp_name)
    <3>1. CASE UNCHANGED messages
      BY <1>3, <3>1
    <3>2. CASE \E m \in Message : messages' = Append(messages, m) /\ m.text = e.data
      <4>1. PICK m \in Message : messages' = Append(messages, m) /\ m.text = e.data
        BY <3>2
      <4>2. Numbers(<<e>>) = {e.data.n}
        BY <2>3, OneNumber
      <4>3. Below(ShownNumbers(messages), {m.text.n})
        BY <1>3, <1>5, <4>1, <4>2 DEF Below
      <4> QED
        BY <1>3, <2>3, <4>1, <4>3, SaidByServer
    <3> QED
      BY <2>3, <3>1, <3>2, FileFacts
  <2>4. CASE UNCHANGED <<rooms, messages, active>>
    BY <1>3, <2>4
  <2> QED
    BY <1>2, <2>1, <2>2, <2>3, <2>4
<1>8. ASSUME e.type = "message"
      PROVE  e.data.n \in 0..posts /\ Below({e.data.n}, Numbers(t) \cup Numbers(w))
  <2>1. Numbers(<<e>>) = {e.data.n}
    BY <1>8, OneNumber
  <2> QED
    BY <1>3, <1>5, <2>1 DEF InFlight, Below
<1>9. /\ ShownNumbers(messages') \subseteq 0..posts
      /\ Below(ShownNumbers(messages'), Numbers(t) \cup Numbers(w))
  <2>1. Below(ShownNumbers(messages), Numbers(t) \cup Numbers(w))
    BY <1>3, <1>5 DEF Below
  <2> QED
    BY <1>3, <1>7, <1>8, <2>1 DEF Below
<1>10. PICK p, c, m : p = posts /\ c = cur /\ m = messages'
  OBVIOUS
<1>11. posts' = p /\ cur' = c /\ messages' = m
  BY <1>1, <1>10
<1>12. \A k \in Conns : InFlight(net'[k], p)
  BY <1>1, <1>6, <1>10 DEF InOrder
<1>13. Below(ShownNumbers(m), Numbers(net'[c].events) \cup Numbers(net'[c].down))
  BY <1>1, <1>9, <1>10
<1>14. ShownRising(m) /\ ShownNumbers(m) \subseteq 0..p
  BY <1>7, <1>9, <1>10
<1> QED
  BY <1>11, <1>12, <1>13, <1>14 DEF InOrder

\* Others post: the message is newer than all that are shown or on their way.
LEMMA PostInOrder ==
  ASSUME TypeOK, InOrder, NEW r \in 1..Len(srooms), OtherPosts(r)
  PROVE  InOrder'
<1>1. UNCHANGED <<messages, cur>>
  BY DEF OtherPosts, uiVars
<1>2. posts \in Nat /\ posts' = posts + 1 /\ Lines \subseteq Events
  BY DEF OtherPosts, TypeOK, Events
<1>3. ASSUME NEW k \in Conns
      PROVE  /\ InFlight(net'[k], posts + 1)
             /\ Numbers(net'[k].events) \cup Numbers(net'[k].down)
                   \subseteq Numbers(net[k].events) \cup Numbers(net[k].down) \cup {posts + 1}
  <2>1. /\ net'[k].events = net[k].events
        /\ \/ net'[k].down = net[k].down
           \/ \E l \in Lines : net'[k].down = Append(net[k].down, l) /\ l.data.n = posts + 1
    BY OtherPostsFacts
  <2>2. InFlight(net[k], posts) /\ net[k].down \in Seq(Lines)
    BY DEF InOrder, TypeOK, Connection
  <2>3. net[k].down \in Seq(Events)
    BY <1>2, <2>2
  <2>4. \A n \in 0..posts : n \in 0..(posts + 1) /\ n < posts + 1
    BY <1>2
  <2>5. CASE net'[k].down = net[k].down
    BY <2>1, <2>2, <2>4, <2>5 DEF InFlight
  <2>6. CASE \E l \in Lines : net'[k].down = Append(net[k].down, l) /\ l.data.n = posts + 1
    <3>1. PICK l \in Lines : net'[k].down = Append(net[k].down, l) /\ l.data.n = posts + 1
      BY <2>6
    <3>2. PICK x : x = <<l>>
      OBVIOUS
    <3>3. x \in Seq(Events) /\ net'[k].down = net[k].down \o x
      BY <1>2, <2>3, <3>1, <3>2, SMTT(30)
    <3>4. Rising(x) /\ Numbers(x) \subseteq {posts + 1}
      BY <3>1, <3>2, OneNumber
    <3>5. Below(Numbers(net[k].down), Numbers(x)) /\ Below(Numbers(net[k].events), Numbers(x))
      BY <2>2, <2>4, <3>4 DEF InFlight, Below
    <3>6. Rising(net[k].down) /\ Below(Numbers(net[k].events), Numbers(net[k].down))
      BY <2>2 DEF InFlight
    <3>7. /\ Numbers(net'[k].down) = Numbers(net[k].down) \cup Numbers(x)
          /\ Rising(net'[k].down)
      BY <2>3, <3>3, <3>4, <3>5, <3>6, NumbersConcat
    <3>8. Below(Numbers(net[k].events), Numbers(net'[k].down))
      BY <3>5, <3>6, <3>7 DEF Below
    <3>9. posts + 1 \in 0..(posts + 1)
      BY <1>2
    <3>10. Numbers(net[k].events) \cup Numbers(net'[k].down) \subseteq 0..(posts + 1)
      BY <2>2, <2>4, <3>4, <3>7, <3>9 DEF InFlight
    <3> QED
      BY <2>1, <2>2, <3>4, <3>7, <3>8, <3>10 DEF InFlight
  <2> QED
    BY <2>1, <2>5, <2>6
<1>4. PICK p, c, m : p = posts + 1 /\ c = cur /\ m = messages
  OBVIOUS
<1>5. posts' = p /\ cur' = c /\ messages' = m
  BY <1>1, <1>2, <1>4
<1>6. ShownRising(m) /\ ShownNumbers(m) \subseteq 0..posts
  BY <1>4 DEF InOrder
<1>7. \A n \in ShownNumbers(m) : n \in 0..p /\ n < p
  <2>1. \A n \in 0..posts : n \in 0..p /\ n < p
    BY <1>2, <1>4
  <2> QED
    BY <1>6, <2>1
<1>8. \A k \in Conns : InFlight(net'[k], p)
  BY <1>3, <1>4
<1>9. c # 0 => Below(ShownNumbers(m), Numbers(net'[c].events) \cup Numbers(net'[c].down))
  <2> SUFFICES ASSUME c # 0
               PROVE  Below(ShownNumbers(m), Numbers(net'[c].events) \cup Numbers(net'[c].down))
    OBVIOUS
  <2>1. c \in Conns
    BY <1>4, ClientAssumption DEF TypeOK, Conns
  <2>2. Below(ShownNumbers(m), Numbers(net[c].events) \cup Numbers(net[c].down))
    BY <1>4 DEF InOrder
  <2>3. Numbers(net'[c].events) \cup Numbers(net'[c].down)
           \subseteq Numbers(net[c].events) \cup Numbers(net[c].down) \cup {p}
    BY <1>3, <1>4, <2>1
  <2> QED
    BY <1>7, <2>2, <2>3 DEF Below
<1>10. ShownNumbers(m) \subseteq 0..p
  BY <1>7
<1> QED
  BY <1>5, <1>6, <1>8, <1>9, <1>10 DEF InOrder

\* The messages of a room are shown at most once and in the order in which the
\* server sent them, whatever the user does to the list meanwhile, however often
\* the client reconnects and however the reader and the poller take turns.
THEOREM OrderShown == Spec => []ShownInOrder
<1>1. Init => InOrder
  <2> SUFFICES ASSUME Init PROVE InOrder
    OBVIOUS
  <2>1. messages = <<>> /\ cur = 0
    BY DEF Init
  <2>2. \A k \in Conns : net[k].events = <<>> /\ net[k].down = <<>>
    BY DEF Init
  <2>3. Numbers(<<>>) = {} /\ Rising(<<>>)
    BY EmptySeq, NoNumbers
  <2>4. ShownNumbers(<<>>) = {} /\ ShownRising(<<>>)
    BY EmptySeq DEF ShownNumbers, ShownRising
  <2>5. \A k \in Conns : InFlight(net[k], posts)
    BY <2>2, <2>3 DEF InFlight, Below
  <2> QED
    BY <2>1, <2>4, <2>5 DEF InOrder
<1>2. TypeOK /\ InOrder /\ [Next]_vars => InOrder'
  <2> SUFFICES ASSUME TypeOK, InOrder, [Next]_vars PROVE InOrder'
    OBVIOUS
  <2>1. ShownRising(messages) /\ messages \in Seq(Message) /\ Len(messages) \in Nat
    BY ListsTyped DEF InOrder
  <2>2. ASSUME UNCHANGED <<messages, cur, posts, net>> PROVE InOrder'
    BY <2>1, <2>2, ShowsLess
  <2>3. CASE Connect
    <3>1. PICK c : c = cur + 1
      OBVIOUS
    <3>2. /\ cur' = c /\ messages' = <<>> /\ UNCHANGED posts
          /\ \A k \in Conns : net'[k].events = net[k].events /\ net'[k].down = net[k].down
      <4>1. cur' = c /\ messages' = <<>> /\ UNCHANGED posts
        BY <2>3, <3>1 DEF Connect
      <4> QED
        BY <2>3, <3>1, <4>1, ConnectFacts
    <3>3. ShownNumbers(<<>>) = {} /\ ShownRising(<<>>)
      BY EmptySeq DEF ShownNumbers, ShownRising
    <3>4. \A k \in Conns : InFlight(net'[k], posts)
      BY <3>2 DEF InOrder, InFlight
    <3>5. PICK p, m : p = posts /\ m = <<>>
      OBVIOUS
    <3>6. /\ ShownRising(m) /\ ShownNumbers(m) = {} /\ \A k \in Conns : InFlight(net'[k], p)
          /\ Below(ShownNumbers(m), Numbers(net'[c].events) \cup Numbers(net'[c].down))
      BY <3>3, <3>4, <3>5 DEF Below
    <3>7. messages' = m /\ posts' = p /\ cur' = c
      BY <3>2, <3>5
    <3> QED
      BY <3>6, <3>7 DEF InOrder
  <2>4. CASE \/ DoSend \/ Disconnect
             \/ \E name \in Names : DoCreate(name)
             \/ \E id \in TypedIds : DoSubscribe(id)
             \/ \E i \in 1..Len(rooms) : Select(i)
    <3>1. UNCHANGED <<cur, posts>> /\ \A k \in Conns : Same(k, net'[k])
      BY <2>4, ClickFacts
    <3>2. \/ UNCHANGED messages
          \/ \E m \in Message : messages' = Append(messages, m) /\ m.sender # "server"
      BY <2>4, ClickFacts
    <3>3. ShownRising(messages') /\ ShownNumbers(messages') \subseteq ShownNumbers(messages)
      BY <2>1, <3>2, SaidByOthers
    <3> QED
      BY <3>1, <3>3, ShowsLess DEF Same
  <2>5. ASSUME NEW i \in 1..Len(rooms), Unsubscribe(rooms[i].id) PROVE InOrder'
    <3>1. rooms[i].id \in Nat
      BY ListsTyped
    <3>2. PICK id : id = rooms[i].id
      OBVIOUS
    <3>3. /\ UNCHANGED <<net, cur, posts>>
          /\ \E at : Keeps(messages', at, messages,
                           {j \in 1..Len(messages) : messages[j].room_id # id}, Len(messages))
      BY <2>5, <3>1, <3>2, UnsubscribeFacts
    <3>4. ShownRising(messages') /\ ShownNumbers(messages') \subseteq ShownNumbers(messages)
      BY <2>1, <3>3, SomeForgotten
    <3> QED
      BY <3>3, <3>4, ShowsLess
  <2>6. CASE Poll
    BY <2>6, PollInOrder
  <2>7. ASSUME NEW k \in Conns,
               Task(k) \/ TaskRefused(k) \/ Reader(k) \/ Server(k) \/ SessionEnds(k)
        PROVE  InOrder'
    BY <2>7, TasksInOrder
  <2>8. ASSUME NEW name \in OtherNames, OtherCreates(name) PROVE InOrder'
    BY <2>2, <2>8 DEF OtherCreates, uiVars
  <2>9. ASSUME NEW r \in 1..Len(srooms), OtherPosts(r) PROVE InOrder'
    BY <2>9, PostInOrder
  <2>10. CASE UNCHANGED vars
    BY <2>2, <2>10 DEF vars
  <2> QED
    BY <2>3, <2>4, <2>5, <2>6, <2>7, <2>8, <2>9, <2>10 DEF Next, User
<1>3. InOrder => ShownInOrder
  BY DEF InOrder, ShownRising, ShownInOrder
<1> QED
  BY <1>1, <1>2, <1>3, TypeCorrect, PTL DEF Spec
-----------------------------------------------------------------------------
(* The ids of the rooms *)

\* A name that others may have used, or the user so far.
UsedBy(name, c) == name \in OtherNames \/ \E m \in 1..c : name \in TypedNames[m]

Elements(s) == {s[i] : i \in 1..Len(s)}

\* The commands of a connection that are not written yet, those that the server
\* has not handled, and what the server has said and the poller has not seen.
Held(n) == {s.cmd : s \in n.spawned} \cup Elements(n.cmds)
Asked(n) == Held(n) \cup Elements(n.up)
Told(n) == Elements(n.owed) \cup Elements(n.down) \cup Elements(n.events)

Csub(name) == [type |-> "csub", name |-> name]
Desub == [type |-> "desub"]

\* A connection that is being made, or is up and has not been given up.
Up(n) ==
    \/ n.task = "connecting"
    \/ n.task \in {"looping", "ending"} /\ n.session = "open"

\* The server has rooms for all ids that it tells, by the names that it tells.
Genuine ==
    \A k \in Conns :
        /\ net[k].subs \subseteq 1..Len(srooms)
        /\ \A l \in Told(net[k]) : l \in Confirmations =>
              l.grp \in net[k].subs /\ srooms[l.grp] = l.grp_name

\* Names come from somewhere.
Named ==
    /\ \A i \in 1..Len(rooms) : rooms[i].name \in Names => UsedBy(rooms[i].name, clicks)
    /\ \A g \in 1..Len(srooms) : UsedBy(srooms[g], clicks)
    /\ \A k \in Conns : \A q \in Asked(net[k]) : q.type = "csub" => UsedBy(q.name, clicks)

\* Nothing was sent on a connection that is yet to be made.
Unmade == \A k \in Conns : k > cur => Held(net[k]) = {}

\* A room of the list has the id by which the server, whose rooms are s, knows
\* it; n is its connection.
Known(r, n, s) == r.id \in n.subs /\ s[r.id] = r.name

\* The room of that name, which the user created, is about to get its id: the
\* request or the answer is on its way on connection c of w, nobody else makes
\* a room of that name, and no sub_ok brings the name to another room.
Awaited(name, w, c, s) ==
    /\ \/ Csub(name) \in Asked(w[c])
       \/ \E l \in Told(w[c]) : l.type = "csub_ok" /\ l.grp_name = name
    /\ name \notin OtherNames
    /\ \A k \in Conns : k # c => Csub(name) \notin Asked(w[k])
    /\ \A g \in 1..Len(s) : s[g] = name => g \in w[c].subs
    /\ \A l \in Told(w[c]) : l.type = "sub_ok" => l.grp_name # name

Tracked ==
    status # "disconnected" /\ Up(net[cur]) =>
        /\ net[cur].task # "ending" /\ Desub \notin Held(net[cur])
        /\ \A i \in 1..Len(rooms) : rooms[i].name \in Names =>
              \/ Known(rooms[i], net[cur], srooms)
              \/ /\ Awaited(rooms[i].name, net, cur, srooms)
                 /\ \A j \in 1..Len(rooms) : rooms[j].name = rooms[i].name => j = i

\* The inductive invariant of Reconciled.
Tracking == Genuine /\ Named /\ Unmade /\ Tracked

\* What is in a sequence that grows, shrinks or is put after another.
LEMMA ElementsOf ==
  ASSUME NEW S, NEW s \in Seq(S)
  PROVE  /\ \A x \in S : Elements(Append(s, x)) = Elements(s) \cup {x}
         /\ s # <<>> => /\ Elements(s) = {Head(s)} \cup Elements(Tail(s))
                        /\ Head(s) \in Elements(s)
         /\ Elements(s) \subseteq S
         /\ Elements(<<>>) = {}
         /\ \A x : Elements(<<x>>) = {x}
<1>1. ASSUME NEW x \in S PROVE Elements(Append(s, x)) = Elements(s) \cup {x}
  <2> DEFINE t == Append(s, x)
  <2>1. /\ Len(s) \in Nat /\ Len(t) = Len(s) + 1 /\ t[Len(s) + 1] = x
        /\ \A i \in 1..Len(s) : t[i] = s[i]
    OBVIOUS
  <2> HIDE DEF t
  <2>2. \A i \in 1..Len(t) : i \in 1..Len(s) \/ i = Len(s) + 1
    BY <2>1
  <2>3. \A i \in 1..Len(s) : i \in 1..Len(t)
    BY <2>1
  <2>4. Len(s) + 1 \in 1..Len(t)
    BY <2>1
  <2>5. Elements(t) \subseteq Elements(s) \cup {x}
    BY <2>1, <2>2 DEF Elements
  <2>6. Elements(s) \cup {x} \subseteq Elements(t)
    BY <2>1, <2>3, <2>4 DEF Elements
  <2> QED
    BY <2>5, <2>6 DEF t
<1>2. ASSUME s # <<>>
      PROVE  Elements(s) = {Head(s)} \cup Elements(Tail(s)) /\ Head(s) \in Elements(s)
  <2> DEFINE t == Tail(s)
  <2>1. /\ Len(s) \in Nat /\ Len(s) >= 1 /\ Len(t) = Len(s) - 1 /\ Head(s) = s[1]
        /\ \A i \in 1..Len(t) : t[i] = s[i + 1]
    BY <1>2
  <2> HIDE DEF t
  <2>2. \A i \in 1..Len(s) : i = 1 \/ (i - 1 \in 1..Len(t) /\ t[i - 1] = s[i])
    BY <2>1
  <2>3. \A i \in 1..Len(t) : i + 1 \in 1..Len(s) /\ t[i] = s[i + 1]
    BY <2>1
  <2>4. 1 \in 1..Len(s)
    BY <2>1
  <2>5. Elements(s) \subseteq {Head(s)} \cup Elements(t)
    BY <2>1, <2>2 DEF Elements
  <2>6. {Head(s)} \cup Elements(t) \subseteq Elements(s)
    BY <2>1, <2>3, <2>4 DEF Elements
  <2> QED
    BY <2>5, <2>6 DEF t
<1>3. Elements(s) \subseteq S
  BY DEF Elements
<1>4. Elements(<<>>) = {}
  BY DEF Elements
<1>5. ASSUME NEW x PROVE Elements(<<x>>) = {x}
  BY DEF Elements
<1> QED
  BY <1>1, <1>2, <1>3, <1>4, <1>5

LEMMA ElementsConcat ==
  ASSUME NEW S, NEW s \in Seq(S), NEW t \in Seq(S)
  PROVE  Elements(s \o t) = Elements(s) \cup Elements(t)
<1> DEFINE c == s \o t
<1>1. /\ Len(s) \in Nat /\ Len(t) \in Nat /\ Len(c) = Len(s) + Len(t)
      /\ \A i \in 1..(Len(s) + Len(t)) : c[i] = IF i <= Len(s) THEN s[i] ELSE t[i - Len(s)]
  BY ConcatProperties
<1> HIDE DEF c
<1>2. \A i \in 1..Len(c) : \/ i \in 1..Len(s) /\ c[i] = s[i]
                           \/ i - Len(s) \in 1..Len(t) /\ c[i] = t[i - Len(s)]
  BY <1>1
<1>3. \A i \in 1..Len(s) : i \in 1..Len(c) /\ c[i] = s[i]
  BY <1>1
<1>4. \A i \in 1..Len(t) : i + Len(s) \in 1..Len(c) /\ c[i + Len(s)] = t[i]
  BY <1>1
<1>5. Elements(c) \subseteq Elements(s) \cup Elements(t)
  BY <1>2 DEF Elements
<1>6. Elements(s) \cup Elements(t) \subseteq Elements(c)
  BY <1>3, <1>4 DEF Elements
<1> QED
  BY <1>5, <1>6 DEF c

\* A step of a connection that carries what is on it, and perhaps loses some of
\* it, but makes no request for a room and confirms nothing.
Hauls(n, v) ==
    /\ v.subs = n.subs
    /\ \A q \in Asked(v) : q.type = "csub" => q \in Asked(n)
    /\ \A l \in Told(v) : l \in Confirmations => l \in Told(n)

\* It loses no request for a room and no confirmation while the connection is
\* up, and does not give the connection up.
LosesNothing(n, v) ==
    Up(v) => /\ Up(n)
             /\ v.task = "ending" => n.task = "ending" \/ Desub \in Held(n)
             /\ Desub \in Held(v) => Desub \in Held(n)
             /\ \A q \in Asked(n) : q.type = "csub" => q \in Asked(v)
             /\ \A l \in Told(n) : l \in Confirmations => l \in Told(v)

\* A step of connection k alone that does so.
Carries(k) ==
    /\ UNCHANGED <<status, rooms, cur, srooms, clicks>>
    /\ \A j \in Conns : j # k => net'[j] = net[j]
    /\ Held(net'[k]) \subseteq Held(net[k])
    /\ Hauls(net[k], net'[k])
    /\ k = cur => LosesNothing(net[k], net'[k])

\* The types of what is on a connection.
LEMMA OnConnection ==
  ASSUME TypeOK, NEW k \in Conns
  PROVE  /\ net \in [Conns -> Connection] /\ net[k] \in Connection
         /\ net[k].spawned \subseteq [n : 1..MaxClicks, cmd : Commands]
         /\ net[k].cmds \in Seq(Commands) /\ net[k].up \in Seq(Commands)
         /\ net[k].owed \in Seq(Confirmations) /\ net[k].owed \in Seq(Events)
         /\ net[k].down \in Seq(Lines) /\ net[k].down \in Seq(Events)
         /\ net[k].events \in Seq(Events)
<1>1. net \in [Conns -> Connection] /\ net[k] \in Connection
  BY DEF TypeOK
<1>2. /\ net[k].spawned \subseteq [n : 1..MaxClicks, cmd : Commands]
      /\ net[k].cmds \in Seq(Commands) /\ net[k].up \in Seq(Commands)
      /\ net[k].owed \in Seq(Confirmations)
      /\ net[k].down \in Seq(Lines)
      /\ net[k].events \in Seq(Events)
  BY <1>1 DEF Connection
<1>3. Confirmations \subseteq Events /\ Lines \subseteq Events
  BY DEF Events, Lines
<1>4. ASSUME NEW S, S \subseteq Events, NEW s \in Seq(S) PROVE s \in Seq(Events)
  BY <1>4
<1> QED
  BY <1>1, <1>2, <1>3, <1>4

\* The task that sends a command.
LEMMA SendCommandCarries ==
  ASSUME TypeOK, NEW k \in Conns, SendCommand(k)
  PROVE  Carries(k)
<1> DEFINE n == net[k]
<1>1. PICK s \in n.spawned :
          IF n.task = "done"
          THEN net' = [net EXCEPT ![k].spawned = @ \ {s}]
          ELSE net' = [net EXCEPT ![k].spawned = @ \ {s}, ![k].cmds = Append(@, s.cmd)]
  BY DEF SendCommand
<1>2. UNCHANGED <<status, rooms, cur, srooms, clicks>>
  BY DEF SendCommand, uiVars
<1> DEFINE p == n.spawned \ {s}
           q == IF n.task = "done" THEN n.cmds ELSE Append(n.cmds, s.cmd)
<1>3. /\ net'[k].spawned = p /\ net'[k].cmds = q
      /\ net'[k].task = n.task /\ net'[k].session = n.session /\ net'[k].subs = n.subs
      /\ net'[k].up = n.up /\ net'[k].owed = n.owed /\ net'[k].down = n.down
      /\ net'[k].events = n.events
      /\ \A j \in Conns : j # k => net'[j] = net[j]
  <2>1. net \in [Conns -> Connection] /\ net[k] \in Connection
    BY OnConnection
  <2>2. CASE n.task = "done"
    <3>1. net' = [net EXCEPT ![k].spawned = p] /\ q = n.cmds
      BY <1>1, <2>2
    <3> HIDE DEF p, q
    <3> QED
      BY <2>1, <3>1 DEF Connection
  <2>3. CASE n.task # "done"
    <3>1. net' = [net EXCEPT ![k].spawned = p, ![k].cmds = q]
      BY <1>1, <2>3
    <3> HIDE DEF p, q
    <3> QED
      BY <2>1, <3>1 DEF Connection
  <2> QED
    BY <2>2, <2>3
<1>4. s.cmd \in Commands
  BY <1>1, OnConnection
<1>5. Elements(q) = IF n.task = "done" THEN Elements(n.cmds) ELSE Elements(n.cmds) \cup {s.cmd}
  <2>1. n.cmds \in Seq(Commands)
    BY OnConnection
  <2>2. Elements(Append(n.cmds, s.cmd)) = Elements(n.cmds) \cup {s.cmd}
    BY <1>4, <2>1, ElementsOf
  <2> QED
    BY <2>2
<1>6. {t.cmd : t \in n.spawned} = {t.cmd : t \in p} \cup {s.cmd}
  OBVIOUS
<1> HIDE DEF p, q
<1>7. Held(net'[k]) \subseteq Held(n) /\ (n.task # "done" => Held(net'[k]) = Held(n))
  BY <1>3, <1>5, <1>6 DEF Held
<1>8. Asked(net'[k]) \subseteq Asked(n) /\ (n.task # "done" => Asked(net'[k]) = Asked(n))
  BY <1>3, <1>7 DEF Asked
<1>9. Told(net'[k]) = Told(n)
  BY <1>3 DEF Told
<1> QED
  BY <1>2, <1>3, <1>7, <1>8, <1>9 DEF Carries, Hauls, LosesNothing, Up

\* Events that are not confirmations are sent.
LEMMA EmitsTold ==
  ASSUME TypeOK, NEW k \in Conns, NEW x \in Seq(Events), NEW v,
         \A e \in Elements(x) : e \notin Confirmations,
         v.events = Emitted(k, x), v.owed = net[k].owed, v.down = net[k].down
  PROVE  /\ \A l \in Told(v) : l \in Confirmations => l \in Told(net[k])
         /\ k = cur => Told(net[k]) \subseteq Told(v)
<1>1. net[k].events \in Seq(Events)
  BY OnConnection
<1>2. Elements(net[k].events \o x) = Elements(net[k].events) \cup Elements(x)
  BY <1>1, ElementsConcat
<1>3. Elements(<<>>) = {}
  BY <1>1, ElementsOf
<1>4. CASE k = cur
  BY <1>2, <1>4 DEF Told, Emitted
<1>5. CASE k # cur
  BY <1>3, <1>5 DEF Told, Emitted
<1> QED
  BY <1>4, <1>5

\* What is sent that is not a confirmation.
LEMMA NotConfirmations ==
  /\ <<[type |-> "connected"]>> \in Seq(Events)
  /\ <<[type |-> "error"], [type |-> "disconnected"]>> \in Seq(Events)
  /\ LastWords \in Seq(Events)
  /\ \A e \in Elements(<<[type |-> "connected"]>>) : e \notin Confirmations
  /\ \A e \in Elements(<<[type |-> "error"], [type |-> "disconnected"]>>) : e \notin Confirmations
  /\ \A e \in Elements(LastWords) : e \notin Confirmations
  /\ \A e \in Confirmations : e.type \notin {"connected", "disconnected", "error", "message"}
<1>1. \A e \in Confirmations : e.type \notin {"connected", "disconnected", "error", "message"}
  BY DEF Confirmations
<1>2. /\ [type |-> "connected"] \in Events /\ [type |-> "error"] \in Events
      /\ [type |-> "disconnected"] \in Events
  BY DEF Events, Lines
<1>3. \A e \in Elements(<<[type |-> "connected"]>>) : e.type = "connected"
  BY DEF Elements
<1>4. \A e \in Elements(<<[type |-> "error"], [type |-> "disconnected"]>>) :
         e.type \in {"error", "disconnected"}
  BY DEF Elements
<1>5. \A e \in Elements(LastWords) : e.type = "disconnected"
  BY DEF Elements, LastWords
<1>6. LastWords \in Seq(Events)
  BY <1>2 DEF LastWords
<1> QED
  BY <1>1, <1>2, <1>3, <1>4, <1>5, <1>6

\* The connection is made, or refused.
LEMMA TaskBeginsCarries ==
  ASSUME TypeOK, NEW k \in Conns, TaskConnects(k) \/ TaskRefused(k)
  PROVE  Carries(k)
<1> DEFINE n == net[k]
<1>0. net \in [Conns -> Connection] /\ n \in Connection
  BY OnConnection
<1>1. UNCHANGED <<status, rooms, cur, srooms, clicks>> /\ n.task = "connecting"
  BY DEF TaskConnects, TaskRefused, uiVars
<1>2. ASSUME NEW v, v = net'[k], \A j \in Conns : j # k => net'[j] = net[j],
             NEW x \in Seq(Events), \A e \in Elements(x) : e \notin Confirmations,
             v.events = Emitted(k, x), v.owed = n.owed, v.down = n.down, v.subs = n.subs,
             v.spawned = n.spawned, v.cmds = n.cmds, v.up = n.up, v.task # "ending"
      PROVE  Carries(k)
  <2>1. Held(v) = Held(n) /\ Asked(v) = Asked(n)
    BY <1>2 DEF Held, Asked
  <2>2. /\ \A l \in Told(v) : l \in Confirmations => l \in Told(n)
        /\ k = cur => Told(n) \subseteq Told(v)
    BY <1>2, EmitsTold
  <2>3. Up(n)
    BY <1>1 DEF Up
  <2> QED
    BY <1>1, <1>2, <2>1, <2>2, <2>3 DEF Carries, Hauls, LosesNothing
<1>3. CASE TaskConnects(k)
  <2> DEFINE e == Emitted(k, <<[type |-> "connected"]>>)
  <2>1. net' = [net EXCEPT ![k].task = "looping", ![k].reader = "reading",
                           ![k].session = "open", ![k].events = e]
    BY <1>3 DEF TaskConnects
  <2> HIDE DEF e
  <2>2. /\ net'[k].events = e /\ net'[k].owed = n.owed /\ net'[k].down = n.down
        /\ net'[k].subs = n.subs /\ net'[k].spawned = n.spawned /\ net'[k].cmds = n.cmds
        /\ net'[k].up = n.up /\ net'[k].task # "ending"
        /\ \A j \in Conns : j # k => net'[j] = net[j]
    BY <1>0, <2>1 DEF Connection
  <2> QED
    BY <1>2, <2>2, NotConfirmations DEF e
<1>4. CASE TaskRefused(k)
  <2> DEFINE e == Emitted(k, <<[type |-> "error"], [type |-> "disconnected"]>>)
  <2>1. net' = [net EXCEPT ![k].task = "done", ![k].events = e]
    BY <1>4 DEF TaskRefused
  <2> HIDE DEF e
  <2>2. /\ net'[k].events = e /\ net'[k].owed = n.owed /\ net'[k].down = n.down
        /\ net'[k].subs = n.subs /\ net'[k].spawned = n.spawned /\ net'[k].cmds = n.cmds
        /\ net'[k].up = n.up /\ net'[k].task # "ending"
        /\ \A j \in Conns : j # k => net'[j] = net[j]
    BY <1>0, <2>1 DEF Connection
  <2> QED
    BY <1>2, <2>2, NotConfirmations DEF e
<1> QED
  BY <1>3, <1>4

\* The loop takes a command, or learns that none will come.
LEMMA TaskLoopCarries ==
  ASSUME TypeOK, NEW k \in Conns, TaskCommand(k) \/ TaskNone(k)
  PROVE  Carries(k)
<1> DEFINE n == net[k]
           v == net'[k]
<1>0. net \in [Conns -> Connection] /\ n \in Connection
  BY OnConnection
<1>1. UNCHANGED <<status, rooms, cur, srooms, clicks>> /\ n.task = "looping"
  BY DEF TaskCommand, TaskNone, uiVars
<1>2. CASE TaskCommand(k)
  <2> DEFINE cmd == Head(n.cmds)
             t == Tail(n.cmds)
             u == IF n.session = "open" THEN Append(n.up, cmd) ELSE n.up
             r == IF n.reader = "reading" THEN "aborting" ELSE n.reader
  <2>1. n.cmds # <<>>
    BY <1>2 DEF TaskCommand
  <2>2. /\ v.cmds = t /\ v.up = u /\ v.events = n.events /\ v.owed = n.owed /\ v.down = n.down
        /\ v.subs = n.subs /\ v.spawned = n.spawned /\ v.session = n.session
        /\ \/ v.task = n.task
           \/ v.task = "ending" /\ (cmd.type = "desub" \/ n.session = "closed")
        /\ \A j \in Conns : j # k => net'[j] = net[j]
    <3> DEFINE w == [net EXCEPT ![k].cmds = t, ![k].up = u]
    <3>1. \/ net' = w
          \/ /\ net' = [w EXCEPT ![k].task = "ending",
                                 ![k].reader = IF @ = "reading" THEN "aborting" ELSE @]
             /\ cmd.type = "desub" \/ n.session = "closed"
      BY <1>2 DEF TaskCommand
    <3>2. t \in Seq(Commands) /\ u \in Seq(Commands)
      BY <2>1, OnConnection, HeadTailProperties
    <3> HIDE DEF t, u, cmd
    <3>3. /\ w \in [Conns -> Connection]
          /\ w[k].cmds = t /\ w[k].up = u /\ w[k].events = n.events /\ w[k].owed = n.owed
          /\ w[k].down = n.down /\ w[k].subs = n.subs /\ w[k].spawned = n.spawned
          /\ w[k].session = n.session /\ w[k].task = n.task /\ w[k].reader = n.reader
          /\ \A j \in Conns : j # k => w[j] = net[j]
      BY <1>0, <3>2 DEF Connection
    <3> HIDE DEF w
    <3>4. CASE net' = w
      BY <3>3, <3>4
    <3>5. CASE /\ net' = [w EXCEPT ![k].task = "ending",
                                   ![k].reader = IF @ = "reading" THEN "aborting" ELSE @]
               /\ cmd.type = "desub" \/ n.session = "closed"
      <4>1. net' = [w EXCEPT ![k].task = "ending", ![k].reader = r]
        BY <3>3, <3>5
      <4> HIDE DEF r
      <4>2. /\ v.cmds = w[k].cmds /\ v.up = w[k].up /\ v.events = w[k].events
            /\ v.owed = w[k].owed /\ v.down = w[k].down /\ v.subs = w[k].subs
            /\ v.spawned = w[k].spawned /\ v.session = w[k].session /\ v.task = "ending"
            /\ \A j \in Conns : j # k => net'[j] = w[j]
        BY <3>3, <4>1 DEF Connection
      <4> QED
        BY <3>3, <3>5, <4>2
    <3> QED
      BY <3>1, <3>4, <3>5
  <2>3. n.cmds \in Seq(Commands) /\ n.up \in Seq(Commands)
    BY OnConnection
  <2>4. cmd \in Commands /\ Elements(n.cmds) = {cmd} \cup Elements(t)
    BY <2>1, <2>3, ElementsOf
  <2>5. Elements(Append(n.up, cmd)) = Elements(n.up) \cup {cmd}
    BY <2>3, <2>4, ElementsOf
  <2>6. Elements(u) \subseteq Elements(n.up) \cup {cmd}
    BY <2>5
  <2>7. n.session = "open" => Elements(u) = Elements(n.up) \cup {cmd}
    BY <2>5
  <2>8. cmd.type = "desub" => cmd = Desub
    BY <2>4 DEF Commands, Desub
  <2> HIDE DEF cmd, t, u, v
  <2>9. Held(v) \subseteq Held(n) /\ cmd \in Held(n)
    BY <2>2, <2>4 DEF Held
  <2>10. Asked(v) \subseteq Asked(n)
    BY <2>2, <2>4, <2>6, <2>9 DEF Held, Asked
  <2>11. n.session = "open" => Asked(n) \subseteq Asked(v)
    BY <2>2, <2>4, <2>7 DEF Held, Asked
  <2>12. Told(v) = Told(n)
    BY <2>2 DEF Told
  <2>13. Hauls(n, v)
    BY <2>2, <2>9, <2>10, <2>12 DEF Hauls
  <2>14. LosesNothing(n, v)
    BY <1>1, <2>2, <2>8, <2>9, <2>11, <2>12 DEF LosesNothing, Up
  <2> QED
    BY <1>1, <2>2, <2>9, <2>13, <2>14 DEF Carries, v
<1>3. CASE TaskNone(k)
  <2> DEFINE r == IF n.reader = "reading" THEN "aborting" ELSE n.reader
  <2>1. net' = [net EXCEPT ![k].task = "ending", ![k].reader = r] /\ k # cur
    BY <1>3 DEF TaskNone
  <2> HIDE DEF r
  <2>2. /\ v.events = n.events /\ v.owed = n.owed /\ v.down = n.down
        /\ v.subs = n.subs /\ v.spawned = n.spawned /\ v.cmds = n.cmds /\ v.up = n.up
        /\ \A j \in Conns : j # k => net'[j] = net[j]
    BY <1>0, <2>1 DEF Connection
  <2>3. Held(v) = Held(n) /\ Asked(v) = Asked(n) /\ Told(v) = Told(n)
    BY <2>2 DEF Held, Asked, Told
  <2> QED
    BY <1>1, <2>1, <2>2, <2>3 DEF Carries, Hauls
<1> QED
  BY <1>2, <1>3

\* The connection task returns.
LEMMA TaskEndsCarries ==
  ASSUME TypeOK, NEW k \in Conns, TaskEnds(k)
  PROVE  Carries(k)
<1> DEFINE n == net[k]
           v == net'[k]
           e == Emitted(k, LastWords)
           none == <<>>
<1>0. net \in [Conns -> Connection] /\ n \in Connection
  BY OnConnection
<1>1. UNCHANGED <<status, rooms, cur, srooms, clicks>>
  BY DEF TaskEnds, uiVars
<1>2. net' = [net EXCEPT ![k].task = "done", ![k].cmds = none, ![k].events = e]
  BY DEF TaskEnds
<1>3. Elements(none) = {}
  BY DEF Elements
<1> HIDE DEF e, none
<1>4. /\ v.events = e /\ v.owed = n.owed /\ v.down = n.down
      /\ v.subs = n.subs /\ v.spawned = n.spawned /\ v.cmds = none /\ v.up = n.up
      /\ v.task = "done"
      /\ \A j \in Conns : j # k => net'[j] = net[j]
  BY <1>0, <1>2 DEF Connection
<1>5. Held(v) \subseteq Held(n) /\ Asked(v) \subseteq Asked(n)
  BY <1>3, <1>4 DEF Held, Asked
<1>6. \A l \in Told(v) : l \in Confirmations => l \in Told(n)
  <2> HIDE DEF v
  <2> QED
    BY <1>4, EmitsTold, NotConfirmations DEF e
<1>7. ~Up(v)
  BY <1>4 DEF Up
<1> QED
  BY <1>1, <1>4, <1>5, <1>6, <1>7 DEF Carries, Hauls, LosesNothing

\* The reader task.
LEMMA ReaderCarries ==
  ASSUME TypeOK, NEW k \in Conns, Reader(k)
  PROVE  Carries(k)
<1> DEFINE n == net[k]
           v == net'[k]
<1>0. net \in [Conns -> Connection] /\ n \in Connection
  BY OnConnection
<1>1. UNCHANGED <<status, rooms, cur, srooms, clicks>>
  BY DEF Reader, ReadLine, ReadAborted, ReadEnd, uiVars
<1>2. ASSUME /\ v.task = n.task /\ v.session = n.session /\ v.subs = n.subs
             /\ v.spawned = n.spawned /\ v.cmds = n.cmds /\ v.up = n.up
             /\ \A j \in Conns : j # k => net'[j] = net[j],
             \A l \in Told(v) : l \in Confirmations => l \in Told(n),
             k = cur => Told(n) \subseteq Told(v)
      PROVE  Carries(k)
  <2>1. Held(v) = Held(n) /\ Asked(v) = Asked(n)
    BY <1>2 DEF Held, Asked
  <2>2. Up(v) = Up(n)
    BY <1>2 DEF Up
  <2> QED
    BY <1>1, <1>2, <2>1, <2>2 DEF Carries, Hauls, LosesNothing
<1>3. CASE ReadAborted(k)
  <2>1. net' = [net EXCEPT ![k].reader = "done"]
    BY <1>3 DEF ReadAborted
  <2>2. /\ v.task = n.task /\ v.session = n.session /\ v.subs = n.subs
        /\ v.spawned = n.spawned /\ v.cmds = n.cmds /\ v.up = n.up
        /\ v.owed = n.owed /\ v.down = n.down /\ v.events = n.events
        /\ \A j \in Conns : j # k => net'[j] = net[j]
    BY <1>0, <2>1 DEF Connection
  <2>3. Told(v) = Told(n)
    BY <2>2 DEF Told
  <2> QED
    BY <1>2, <2>2, <2>3
<1>4. CASE ReadEnd(k)
  <2> DEFINE e == Emitted(k, LastWords)
  <2>1. net' = [net EXCEPT ![k].reader = "done", ![k].events = e]
    BY <1>4 DEF ReadEnd
  <2> HIDE DEF e
  <2>2. /\ v.task = n.task /\ v.session = n.session /\ v.subs = n.subs
        /\ v.spawned = n.spawned /\ v.cmds = n.cmds /\ v.up = n.up
        /\ v.owed = n.owed /\ v.down = n.down /\ v.events = e
        /\ \A j \in Conns : j # k => net'[j] = net[j]
    BY <1>0, <2>1 DEF Connection
  <2>3. /\ \A l \in Told(v) : l \in Confirmations => l \in Told(n)
        /\ k = cur => Told(n) \subseteq Told(v)
    <3> HIDE DEF v
    <3> QED
      BY <2>2, EmitsTold, NotConfirmations DEF e
  <2> QED
    BY <1>2, <2>2, <2>3
<1>5. CASE ReadLine(k)
  <2> DEFINE l == Head(n.down)
             d == Tail(n.down)
             e == Emitted(k, <<l>>)
             r == IF n.reader = "aborting" THEN "done" ELSE n.reader
  <2>0. Classified(l) = l
    <3>1. n.down # <<>> /\ n.down \in Seq(Lines)
      BY <1>0, <1>5 DEF ReadLine, Connection
    <3>2. l \in Lines
      BY <3>1, HeadTailProperties
    <3> QED
      BY <3>2, ClassifiedLine
  <2>1. n.down # <<>> /\ net' = [net EXCEPT ![k].down = d, ![k].events = e, ![k].reader = r]
    BY <1>5, <2>0 DEF ReadLine
  <2>2. n.down \in Seq(Events) /\ n.events \in Seq(Events)
    BY OnConnection
  <2>3. /\ l \in Events /\ Elements(n.down) = {l} \cup Elements(d)
        /\ Elements(<<l>>) = {l} /\ Elements(<<>>) = {}
    BY <2>1, <2>2, ElementsOf
  <2>4. Elements(n.events \o <<l>>) = Elements(n.events) \cup {l}
    <3> DEFINE x == <<l>>
    <3>1. x \in Seq(Events) /\ Elements(x) = {l}
      BY <2>3
    <3> HIDE DEF x, l
    <3>2. Elements(n.events \o x) = Elements(n.events) \cup Elements(x)
      BY <2>2, <3>1, ElementsConcat
    <3> QED
      BY <3>1, <3>2 DEF x
  <2>5. /\ k = cur => Elements(e) = Elements(n.events) \cup {l}
        /\ k # cur => Elements(e) = {}
    BY <2>3, <2>4 DEF Emitted
  <2> HIDE DEF d, e, r, l
  <2>6. /\ v.task = n.task /\ v.session = n.session /\ v.subs = n.subs
        /\ v.spawned = n.spawned /\ v.cmds = n.cmds /\ v.up = n.up
        /\ v.owed = n.owed /\ v.down = d /\ v.events = e
        /\ \A j \in Conns : j # k => net'[j] = net[j]
    BY <1>0, <2>1 DEF Connection
  <2>7. Told(v) \subseteq Told(n) /\ (k = cur => Told(n) \subseteq Told(v))
    BY <2>3, <2>5, <2>6 DEF Told
  <2> QED
    BY <1>2, <2>6, <2>7
<1> QED
  BY <1>3, <1>4, <1>5 DEF Reader

\* The server writes a confirmation, or the session ends.
LEMMA ReplyCarries ==
  ASSUME TypeOK, NEW k \in Conns, Reply(k) \/ SessionEnds(k)
  PROVE  Carries(k)
<1> DEFINE n == net[k]
           v == net'[k]
<1>0. net \in [Conns -> Connection] /\ n \in Connection
  BY OnConnection
<1>1. UNCHANGED <<status, rooms, cur, srooms, clicks>>
  BY DEF Reply, SessionEnds, uiVars
<1>2. CASE Reply(k)
  <2> DEFINE d == n.down \o n.owed
             none == <<>>
  <2>1. net' = [net EXCEPT ![k].down = d, ![k].owed = none]
    BY <1>2 DEF Reply
  <2>2. Elements(d) = Elements(n.down) \cup Elements(n.owed)
    BY OnConnection, ElementsConcat
  <2>3. Elements(none) = {}
    BY DEF Elements
  <2> HIDE DEF d, none
  <2>4. /\ v.task = n.task /\ v.session = n.session /\ v.subs = n.subs
        /\ v.spawned = n.spawned /\ v.cmds = n.cmds /\ v.up = n.up
        /\ v.owed = none /\ v.down = d /\ v.events = n.events
        /\ \A j \in Conns : j # k => net'[j] = net[j]
    BY <1>0, <2>1 DEF Connection
  <2>5. Told(v) = Told(n)
    BY <2>2, <2>3, <2>4 DEF Told
  <2>6. Held(v) = Held(n) /\ Asked(v) = Asked(n)
    BY <2>4 DEF Held, Asked
  <2>7. Up(v) = Up(n)
    BY <2>4 DEF Up
  <2> QED
    BY <1>1, <2>4, <2>5, <2>6, <2>7 DEF Carries, Hauls, LosesNothing
<1>3. CASE SessionEnds(k)
  <2>1. net' = [net EXCEPT ![k].session = "closed"]
    BY <1>3 DEF SessionEnds
  <2>2. /\ v.task = n.task /\ v.session = "closed" /\ v.subs = n.subs
        /\ v.spawned = n.spawned /\ v.cmds = n.cmds /\ v.up = n.up
        /\ v.owed = n.owed /\ v.down = n.down /\ v.events = n.events
        /\ \A j \in Conns : j # k => net'[j] = net[j]
    BY <1>0, <2>1 DEF Connection
  <2>3. Held(v) = Held(n) /\ Asked(v) = Asked(n) /\ Told(v) = Told(n)
    BY <2>2 DEF Held, Asked, Told
  <2>4. Up(v) => Up(n) /\ v.task = n.task
    BY <2>2 DEF Up
  <2> QED
    BY <1>1, <2>2, <2>3, <2>4 DEF Carries, Hauls, LosesNothing
<1> QED
  BY <1>2, <1>3

\* The server confirms l on connection k: it made the room, or it had it.
Confirms(k, l) ==
    /\ UNCHANGED <<status, rooms, cur, clicks>>
    /\ \A j \in Conns : j # k => net'[j] = net[j]
    /\ net'[k].task = net[k].task /\ net'[k].session = net[k].session
    /\ net'[k].subs = net[k].subs \cup {l.grp}
    /\ Held(net'[k]) = Held(net[k]) /\ Asked(net'[k]) \subseteq Asked(net[k])
    /\ Told(net'[k]) = Told(net[k]) \cup {l}
    /\ l \in Confirmations
    /\ \/ /\ l.type = "csub_ok" /\ l.grp = Len(srooms) + 1
          /\ srooms' = Append(srooms, l.grp_name)
          /\ Csub(l.grp_name) \in Asked(net[k])
          /\ Asked(net[k]) = Asked(net'[k]) \cup {Csub(l.grp_name)}
       \/ /\ l.type = "sub_ok" /\ l.grp \in 1..Len(srooms) /\ l.grp \notin net[k].subs
          /\ srooms' = srooms /\ srooms[l.grp] = l.grp_name
          /\ \A q \in Asked(net[k]) : q.type = "csub" => q \in Asked(net'[k])

LEMMA ServeFacts ==
  ASSUME TypeOK, NEW k \in Conns, Serve(k)
  PROVE  Carries(k) \/ \E l : Confirms(k, l)
<1> DEFINE n == net[k]
           v == net'[k]
           q == Head(n.up)
           t == Tail(n.up)
           rest == [net EXCEPT ![k].up = t]
           ok(type, id, name) ==
               [rest EXCEPT ![k].subs = @ \cup {id},
                            ![k].owed = <<[type |-> type, grp |-> id, grp_name |-> name]>>]
           error == [rest EXCEPT ![k].down = Append(@, [type |-> "error"])]
<1>0. net \in [Conns -> Connection] /\ n \in Connection
  BY OnConnection
<1>1. UNCHANGED <<status, rooms, cur, clicks>> /\ n.session = "open" /\ n.up # <<>> /\ n.owed = <<>>
  BY DEF Serve, uiVars
<1>2. /\ n.up \in Seq(Commands) /\ t \in Seq(Commands) /\ q \in Commands
      /\ Elements(n.up) = {q} \cup Elements(t)
  BY <1>1, OnConnection, ElementsOf, HeadTailProperties
<1>3. \/ /\ q.type = "csub"
         /\ srooms' = Append(srooms, q.name)
         /\ net' = ok("csub_ok", Len(srooms) + 1, q.name)
      \/ /\ q.type = "sub" /\ UNCHANGED srooms
         /\ net' = IF q.grp \in 1..Len(srooms) /\ q.grp \notin n.subs
                   THEN ok("sub_ok", q.grp, srooms[q.grp]) ELSE error
      \/ /\ q.type = "msg" /\ UNCHANGED srooms
         /\ net' = rest \/ net' = error
      \/ /\ q.type = "desub" /\ UNCHANGED srooms
         /\ net' = [rest EXCEPT ![k].session = "closed"]
  BY DEF Serve
<1> HIDE DEF q, t
<1>4. /\ rest \in [Conns -> Connection] /\ rest[k].up = t
      /\ rest[k].task = n.task /\ rest[k].session = n.session /\ rest[k].subs = n.subs
      /\ rest[k].spawned = n.spawned /\ rest[k].cmds = n.cmds
      /\ rest[k].owed = n.owed /\ rest[k].down = n.down /\ rest[k].events = n.events
      /\ \A j \in Conns : j # k => rest[j] = net[j]
  BY <1>0, <1>2 DEF Connection
<1> HIDE DEF rest
<1>5. ASSUME v.up = t, v.spawned = n.spawned, v.cmds = n.cmds
      PROVE  /\ Held(v) = Held(n) /\ Asked(v) \subseteq Asked(n)
             /\ Asked(n) = Asked(v) \cup {q} /\ q \in Asked(n)
  BY <1>2, <1>5 DEF Held, Asked
<1>6. ASSUME NEW l \in Confirmations,
             net' = [rest EXCEPT ![k].subs = @ \cup {l.grp}, ![k].owed = <<l>>]
      PROVE  /\ v.task = n.task /\ v.session = n.session /\ v.subs = n.subs \cup {l.grp}
             /\ Held(v) = Held(n) /\ Asked(v) \subseteq Asked(n)
             /\ Asked(n) = Asked(v) \cup {q} /\ q \in Asked(n)
             /\ Told(v) = Told(n) \cup {l}
             /\ \A j \in Conns : j # k => net'[j] = net[j]
  <2> DEFINE s == n.subs \cup {l.grp}
             w == <<l>>
  <2>1. net' = [rest EXCEPT ![k].subs = s, ![k].owed = w]
    BY <1>4, <1>6
  <2>2. Elements(w) = {l} /\ Elements(n.owed) = {}
    BY <1>1 DEF Elements
  <2> HIDE DEF s, w
  <2>3. /\ v.task = rest[k].task /\ v.session = rest[k].session /\ v.subs = s /\ v.up = rest[k].up
        /\ v.spawned = rest[k].spawned /\ v.cmds = rest[k].cmds
        /\ v.owed = w /\ v.down = rest[k].down /\ v.events = rest[k].events
        /\ \A j \in Conns : j # k => net'[j] = rest[j]
    BY <1>4, <2>1 DEF Connection
  <2>4. Told(v) = Told(n) \cup {l}
    BY <1>4, <2>2, <2>3 DEF Told
  <2> QED
    BY <1>4, <1>5, <2>3, <2>4 DEF s
<1>7. ASSUME UNCHANGED srooms, q.type # "csub", v.up = t, v.spawned = n.spawned, v.cmds = n.cmds,
             v.task = n.task, v.subs = n.subs,
             \A l \in Told(v) : l \in Confirmations => l \in Told(n), Told(n) \subseteq Told(v),
             \A j \in Conns : j # k => net'[j] = net[j]
      PROVE  Carries(k)
  <2>1. /\ Held(v) = Held(n) /\ Asked(v) \subseteq Asked(n)
        /\ Asked(n) = Asked(v) \cup {q}
    BY <1>5, <1>7
  <2>2. Up(v) => Up(n)
    BY <1>1, <1>7 DEF Up
  <2>3. Hauls(n, v)
    BY <1>7, <2>1 DEF Hauls
  <2>4. LosesNothing(n, v)
    BY <1>7, <2>1, <2>2 DEF LosesNothing
  <2> QED
    BY <1>1, <1>7, <2>1, <2>3, <2>4 DEF Carries
<1>8. CASE /\ q.type = "csub"
           /\ srooms' = Append(srooms, q.name)
           /\ net' = ok("csub_ok", Len(srooms) + 1, q.name)
  <2>1. q.name \in Names /\ q = Csub(q.name)
    BY <1>2, <1>8 DEF Commands, Csub
  <2>2. Len(srooms) + 1 \in Nat
    BY DEF TypeOK
  <2> DEFINE l == [type |-> "csub_ok", grp |-> Len(srooms) + 1, grp_name |-> q.name]
  <2>3. /\ l \in Confirmations /\ l.type = "csub_ok" /\ l.grp = Len(srooms) + 1
        /\ l.grp_name = q.name
    BY <2>1, <2>2 DEF Confirmations
  <2>4. net' = [rest EXCEPT ![k].subs = @ \cup {l.grp}, ![k].owed = <<l>>]
    BY <1>8
  <2> HIDE DEF l
  <2>5. /\ v.task = n.task /\ v.session = n.session /\ v.subs = n.subs \cup {l.grp}
        /\ Held(v) = Held(n) /\ Asked(v) \subseteq Asked(n)
        /\ Asked(n) = Asked(v) \cup {q} /\ q \in Asked(n)
        /\ Told(v) = Told(n) \cup {l}
        /\ \A j \in Conns : j # k => net'[j] = net[j]
    BY <1>6, <2>3, <2>4
  <2>6. srooms' = Append(srooms, q.name)
    BY <1>8
  <2> HIDE DEF n, v
  <2> QED
    BY <1>1, <2>1, <2>3, <2>5, <2>6 DEF Confirms, n, v
<1>9. ASSUME net' = error, UNCHANGED srooms, q.type # "csub" PROVE Carries(k)
  <2> DEFINE d == Append(n.down, [type |-> "error"])
  <2>1. net' = [rest EXCEPT ![k].down = d]
    BY <1>4, <1>9
  <2>2. [type |-> "error"] \in Lines
    BY DEF Lines
  <2>3. Elements(d) = Elements(n.down) \cup {[type |-> "error"]}
    BY <2>2, OnConnection, ElementsOf
  <2>4. [type |-> "error"] \notin Confirmations
    BY NotConfirmations
  <2> HIDE DEF d
  <2>5. /\ v.task = rest[k].task /\ v.subs = rest[k].subs /\ v.up = rest[k].up
        /\ v.spawned = rest[k].spawned /\ v.cmds = rest[k].cmds
        /\ v.owed = rest[k].owed /\ v.down = d /\ v.events = rest[k].events
        /\ \A j \in Conns : j # k => net'[j] = rest[j]
    BY <1>4, <2>1 DEF Connection
  <2>6. Told(v) = Told(n) \cup {[type |-> "error"]}
    BY <1>4, <2>3, <2>5 DEF Told
  <2> QED
    BY <1>4, <1>7, <1>9, <2>4, <2>5, <2>6
<1>10. ASSUME net' = rest \/ net' = [rest EXCEPT ![k].session = "closed"], UNCHANGED srooms,
              q.type # "csub"
       PROVE  Carries(k)
  <2>1. /\ v.task = rest[k].task /\ v.subs = rest[k].subs /\ v.up = rest[k].up
        /\ v.spawned = rest[k].spawned /\ v.cmds = rest[k].cmds
        /\ v.owed = rest[k].owed /\ v.down = rest[k].down /\ v.events = rest[k].events
        /\ \A j \in Conns : j # k => net'[j] = rest[j]
    BY <1>4, <1>10 DEF Connection
  <2>2. Told(v) = Told(n)
    BY <1>4, <2>1 DEF Told
  <2> QED
    BY <1>4, <1>7, <1>10, <2>1, <2>2
<1>11. CASE /\ q.type = "sub" /\ UNCHANGED srooms /\ q.grp \in 1..Len(srooms) /\ q.grp \notin n.subs
            /\ net' = ok("sub_ok", q.grp, srooms[q.grp])
  <2>1. q.grp \in Nat /\ srooms[q.grp] \in Names
    BY <1>11 DEF TypeOK
  <2> DEFINE l == [type |-> "sub_ok", grp |-> q.grp, grp_name |-> srooms[q.grp]]
  <2>3. /\ l \in Confirmations /\ l.type = "sub_ok" /\ l.grp = q.grp
        /\ l.grp_name = srooms[q.grp]
    BY <2>1 DEF Confirmations
  <2>4. net' = [rest EXCEPT ![k].subs = @ \cup {l.grp}, ![k].owed = <<l>>]
    BY <1>11
  <2> HIDE DEF l
  <2>5. /\ v.task = n.task /\ v.session = n.session /\ v.subs = n.subs \cup {l.grp}
        /\ Held(v) = Held(n) /\ Asked(v) \subseteq Asked(n)
        /\ Asked(n) = Asked(v) \cup {q} /\ q \in Asked(n)
        /\ Told(v) = Told(n) \cup {l}
        /\ \A j \in Conns : j # k => net'[j] = net[j]
    BY <1>6, <2>3, <2>4
  <2>6. UNCHANGED srooms /\ q.type = "sub" /\ q.grp \in 1..Len(srooms) /\ q.grp \notin n.subs
    BY <1>11
  <2>7. \A x \in Asked(n) : x.type = "csub" => x \in Asked(v)
    BY <2>5, <2>6
  <2> QED
    BY <1>1, <2>3, <2>5, <2>6, <2>7 DEF Confirms
<1> QED
  BY <1>3, <1>8, <1>9, <1>10, <1>11

\* Others post a message.
LEMMA PostHauls ==
  ASSUME TypeOK, NEW r \in 1..Len(srooms), OtherPosts(r), NEW k \in Conns
  PROVE  /\ UNCHANGED <<status, rooms, cur, srooms, clicks>>
         /\ Held(net'[k]) = Held(net[k])
         /\ Hauls(net[k], net'[k]) /\ LosesNothing(net[k], net'[k])
<1> DEFINE n == net[k]
           v == net'[k]
           l == [type |-> "message", grp_name |-> srooms[r],
                 data |-> [grp |-> r, n |-> posts + 1]]
           d == Append(n.down, l)
<1>0. n \in Connection /\ n.down \in Seq(Lines)
  BY OnConnection
<1>1. UNCHANGED <<status, rooms, cur, srooms, clicks>>
  BY DEF OtherPosts, uiVars
<1>2. v = n \/ v = [n EXCEPT !.down = d]
  BY DEF OtherPosts
<1>3. l \in Lines /\ l \notin Confirmations
  <2>1. srooms[r] \in Names /\ r \in Nat /\ posts + 1 \in Nat
    BY DEF TypeOK
  <2>2. l \in [type : {"message"}, data : Texts, grp_name : Names] /\ l.type = "message"
    BY <2>1 DEF Texts
  <2> QED
    BY <2>2, NotConfirmations DEF Lines
<1>4. Elements(d) = Elements(n.down) \cup {l}
  BY <1>0, <1>3, ElementsOf
<1> HIDE DEF d, l
<1>5. /\ v.task = n.task /\ v.session = n.session /\ v.subs = n.subs
      /\ v.spawned = n.spawned /\ v.cmds = n.cmds /\ v.up = n.up
      /\ v.owed = n.owed /\ v.events = n.events /\ v.down \in {n.down, d}
  BY <1>0, <1>2 DEF Connection
<1>6. Told(n) \subseteq Told(v) /\ Told(v) \subseteq Told(n) \cup {l}
  BY <1>4, <1>5 DEF Told
<1>7. Held(v) = Held(n) /\ Asked(v) = Asked(n)
  BY <1>5 DEF Held, Asked
<1>8. Up(v) = Up(n)
  BY <1>5 DEF Up
<1> QED
  BY <1>1, <1>3, <1>5, <1>6, <1>7, <1>8 DEF Hauls, LosesNothing

\* The lines on a connection that confirm something.
LEMMA ToldTyped ==
  ASSUME NEW n \in Connection
  PROVE  \A l \in Told(n) : l.type \in {"sub_ok", "csub_ok"} => l \in Confirmations
<1>1. /\ n.owed \in Seq(Confirmations) /\ n.down \in Seq(Lines) /\ n.events \in Seq(Events)
  BY DEF Connection
<1>2. /\ Elements(n.owed) \subseteq Confirmations /\ Elements(n.down) \subseteq Lines
      /\ Elements(n.events) \subseteq Events
  BY <1>1, ElementsOf
<1>3. Told(n) \subseteq Events
  BY <1>2 DEF Told, Events, Lines
<1>4. \A l \in Events : l.type \in {"sub_ok", "csub_ok"} => l \in Confirmations
  BY DEF Events, Lines
<1> QED
  BY <1>3, <1>4

\* A name stays used.
LEMMA UsedStays ==
  ASSUME NEW c \in Nat, NEW d \in Nat, c <= d, NEW name, UsedBy(name, c)
  PROVE  UsedBy(name, d)
<1>1. \A m \in 1..c : m \in 1..d
  OBVIOUS
<1> QED
  BY <1>1 DEF UsedBy

\* The rooms of the list that have a real name were in it with the same id and
\* the same name, each at a place of its own.
Relisted ==
    \E at :
        /\ \A i \in 1..Len(rooms') : rooms'[i].name \in Names =>
              /\ at[i] \in 1..Len(rooms)
              /\ rooms'[i].id = rooms[at[i]].id /\ rooms'[i].name = rooms[at[i]].name
        /\ \A i, j \in 1..Len(rooms') : rooms'[i].name \in Names /\ at[i] = at[j] => i = j

\* What a step of that kind leaves true of the connections.
LEMMA HaulsGenuine ==
  ASSUME TypeOK, Tracking, UNCHANGED srooms, \A k \in Conns : Hauls(net[k], net'[k])
  PROVE  Genuine'
<1> SUFFICES ASSUME NEW k \in Conns
             PROVE  /\ net'[k].subs \subseteq 1..Len(srooms)
                    /\ \A l \in Told(net'[k]) : l \in Confirmations =>
                          l.grp \in net'[k].subs /\ srooms[l.grp] = l.grp_name
  BY DEF Genuine
<1>1. Hauls(net[k], net'[k])
  OBVIOUS
<1>2. /\ net[k].subs \subseteq 1..Len(srooms)
      /\ \A l \in Told(net[k]) : l \in Confirmations =>
            l.grp \in net[k].subs /\ srooms[l.grp] = l.grp_name
  BY DEF Tracking, Genuine
<1> QED
  BY <1>1, <1>2 DEF Hauls

LEMMA HaulsNamed ==
  ASSUME TypeOK, TypeOK', Tracking, UNCHANGED srooms, clicks <= clicks',
         \A k \in Conns : Hauls(net[k], net'[k]), Relisted
  PROVE  Named'
<1>1. clicks \in Nat /\ clicks' \in Nat
  BY DEF TypeOK
<1>2. \A name : UsedBy(name, clicks) => UsedBy(name, clicks')
  BY <1>1, UsedStays
<1>3. ASSUME NEW i \in 1..Len(rooms'), rooms'[i].name \in Names
      PROVE  UsedBy(rooms'[i].name, clicks')
  <2>1. \E j \in 1..Len(rooms) : rooms'[i].name = rooms[j].name
    BY <1>3 DEF Relisted
  <2> QED
    BY <1>2, <1>3, <2>1 DEF Tracking, Named
<1>4. ASSUME NEW g \in 1..Len(srooms') PROVE UsedBy(srooms'[g], clicks')
  BY <1>2 DEF Tracking, Named
<1>5. ASSUME NEW k \in Conns, NEW q \in Asked(net'[k]), q.type = "csub"
      PROVE  UsedBy(q.name, clicks')
  <2>1. q \in Asked(net[k])
    BY <1>5 DEF Hauls
  <2> QED
    BY <1>2, <1>5, <2>1 DEF Tracking, Named
<1> QED
  BY <1>3, <1>4, <1>5 DEF Named

LEMMA HaulsUnmade ==
  ASSUME Tracking, cur' = cur, \A k \in Conns : k # cur => Held(net'[k]) \subseteq Held(net[k]),
         TypeOK
  PROVE  Unmade'
<1> SUFFICES ASSUME NEW k \in Conns, k > cur PROVE Held(net'[k]) = {}
  BY DEF Unmade
<1>1. k # cur
  BY DEF TypeOK
<1>2. Held(net[k]) = {}
  BY DEF Tracking, Unmade
<1> QED
  BY <1>1, <1>2

\* The connection in use is one that was made.
LEMMA InUse == ASSUME TypeOK, Alive, status # "disconnected" PROVE cur \in Conns
BY ClientAssumption DEF TypeOK, Alive, Conns

LEMMA HaulsTracked ==
  ASSUME TypeOK, TypeOK', Tracking, Alive, UNCHANGED <<cur, srooms>>,
         status' # "disconnected" => status # "disconnected",
         \A k \in Conns : Hauls(net[k], net'[k]),
         status' # "disconnected" => LosesNothing(net[cur], net'[cur]), Relisted
  PROVE  Tracked'
<1> DEFINE n == net[cur]
           v == net'[cur]
<1> SUFFICES ASSUME status' # "disconnected", Up(v)
             PROVE  /\ v.task # "ending" /\ Desub \notin Held(v)
                    /\ \A i \in 1..Len(rooms') : rooms'[i].name \in Names =>
                          \/ Known(rooms'[i], v, srooms)
                          \/ /\ Awaited(rooms'[i].name, net', cur, srooms)
                             /\ \A j \in 1..Len(rooms') : rooms'[j].name = rooms'[i].name => j = i
  BY DEF Tracked
<1>1. cur \in Conns /\ status # "disconnected"
  BY InUse
<1>2. LosesNothing(n, v) /\ Hauls(n, v)
  BY <1>1
<1>3. Up(n)
  BY <1>2 DEF LosesNothing
<1>4. /\ n.task # "ending" /\ Desub \notin Held(n)
      /\ \A i \in 1..Len(rooms) : rooms[i].name \in Names =>
            \/ Known(rooms[i], n, srooms)
            \/ /\ Awaited(rooms[i].name, net, cur, srooms)
               /\ \A j \in 1..Len(rooms) : rooms[j].name = rooms[i].name => j = i
  BY <1>1, <1>3 DEF Tracking, Tracked
<1>5. v.task # "ending" /\ Desub \notin Held(v)
  BY <1>2, <1>4 DEF LosesNothing
<1>6. ASSUME NEW name, Awaited(name, net, cur, srooms) PROVE Awaited(name, net', cur, srooms)
  <2>1. Csub(name).type = "csub"
    BY DEF Csub
  <2>2. n \in Connection /\ v \in Connection
    BY <1>1 DEF TypeOK
  <2>3. /\ \A l \in Told(n) : l.type \in {"sub_ok", "csub_ok"} => l \in Confirmations
        /\ \A l \in Told(v) : l.type \in {"sub_ok", "csub_ok"} => l \in Confirmations
    BY <2>2, ToldTyped
  <2>4. \/ Csub(name) \in Asked(v)
        \/ \E l \in Told(v) : l.type = "csub_ok" /\ l.grp_name = name
    BY <1>2, <1>6, <2>1, <2>3 DEF Awaited, LosesNothing
  <2>5. \A k \in Conns : k # cur => Csub(name) \notin Asked(net'[k])
    BY <1>6, <2>1 DEF Awaited, Hauls
  <2>6. \A l \in Told(v) : l.type = "sub_ok" => l.grp_name # name
    BY <1>2, <1>6, <2>3 DEF Awaited, Hauls
  <2>7. \A g \in 1..Len(srooms) : srooms[g] = name => g \in v.subs
    BY <1>2, <1>6 DEF Awaited, Hauls
  <2> QED
    BY <1>6, <2>4, <2>5, <2>6, <2>7 DEF Awaited
<1>7. ASSUME NEW i \in 1..Len(rooms'), rooms'[i].name \in Names
      PROVE  \/ Known(rooms'[i], v, srooms)
             \/ /\ Awaited(rooms'[i].name, net', cur, srooms)
                /\ \A j \in 1..Len(rooms') : rooms'[j].name = rooms'[i].name => j = i
  <2>1. PICK at :
          /\ \A j \in 1..Len(rooms') : rooms'[j].name \in Names =>
                /\ at[j] \in 1..Len(rooms)
                /\ rooms'[j].id = rooms[at[j]].id /\ rooms'[j].name = rooms[at[j]].name
          /\ \A j, m \in 1..Len(rooms') : rooms'[j].name \in Names /\ at[j] = at[m] => j = m
    BY DEF Relisted
  <2>2. CASE Known(rooms[at[i]], n, srooms)
    BY <1>2, <1>7, <2>1, <2>2 DEF Known, Hauls
  <2>3. CASE /\ Awaited(rooms[at[i]].name, net, cur, srooms)
             /\ \A j \in 1..Len(rooms) : rooms[j].name = rooms[at[i]].name => j = at[i]
    <3>1. Awaited(rooms'[i].name, net', cur, srooms)
      BY <1>6, <1>7, <2>1, <2>3
    <3>2. ASSUME NEW j \in 1..Len(rooms'), rooms'[j].name = rooms'[i].name PROVE j = i
      <4>1. at[j] = at[i]
        BY <1>7, <2>1, <2>3, <3>2
      <4> QED
        BY <1>7, <2>1, <3>2, <4>1
    <3> QED
      BY <3>1, <3>2
  <2> QED
    BY <1>4, <1>7, <2>1, <2>2, <2>3
<1> QED
  BY <1>5, <1>7

\* A step that only carries what is on the connections, whatever it does to the
\* list of rooms without a real name.
LEMMA HaulsTracking ==
  ASSUME TypeOK, TypeOK', Tracking, Alive, UNCHANGED <<cur, srooms>>, clicks <= clicks',
         status' # "disconnected" => status # "disconnected",
         \A k \in Conns : Hauls(net[k], net'[k]),
         \A k \in Conns : k # cur => Held(net'[k]) \subseteq Held(net[k]),
         status' # "disconnected" => LosesNothing(net[cur], net'[cur]), Relisted
  PROVE  Tracking'
<1>1. Genuine'
  BY HaulsGenuine
<1>2. Named'
  BY HaulsNamed
<1>3. Unmade'
  BY HaulsUnmade
<1>4. Tracked'
  BY HaulsTracked
<1> QED
  BY <1>1, <1>2, <1>3, <1>4 DEF Tracking

\* Lists that keep their real names.
LEMMA SameListed ==
  ASSUME TypeOK, Len(rooms') = Len(rooms),
         \A i \in 1..Len(rooms) : rooms'[i].id = rooms[i].id /\ rooms'[i].name = rooms[i].name
  PROVE  Relisted
<1> DEFINE at == [i \in 1..Len(rooms) |-> i]
<1>1. \A i \in 1..Len(rooms) : at[i] = i
  OBVIOUS
<1> HIDE DEF at
<1> QED
  BY <1>1 DEF Relisted

LEMMA OneMoreListed ==
  ASSUME TypeOK, NEW r \in Room, rooms' = Append(rooms, r), r.name \notin Names
  PROVE  Relisted
<1> DEFINE at == [i \in 1..Len(rooms) + 1 |-> i]
<1>1. /\ Len(rooms) \in Nat /\ Len(rooms') = Len(rooms) + 1
      /\ rooms'[Len(rooms) + 1] = r
      /\ \A i \in 1..Len(rooms) : rooms'[i] = rooms[i]
  BY ListsTyped
<1>2. \A i \in 1..Len(rooms') : at[i] = i
  BY <1>1
<1>3. \A i \in 1..Len(rooms') : i \in 1..Len(rooms) \/ i = Len(rooms) + 1
  BY <1>1
<1> HIDE DEF at
<1> QED
  BY <1>1, <1>2, <1>3 DEF Relisted

LEMMA KeptListed ==
  ASSUME TypeOK, TypeOK', NEW id \in Nat, Unsubscribe(id)
  PROVE  Relisted
<1> DEFINE S == {i \in 1..Len(rooms) : rooms[i].id # id}
<1>1. PICK at : Keeps(rooms', at, rooms, S, Len(rooms))
  BY UnsubscribeFacts
<1>2. Len(rooms) \in Nat /\ Len(rooms') \in Nat
  BY DEF TypeOK
<1> HIDE DEF S
<1>3. \A i \in 1..Len(rooms') : at[i] \in 1..Len(rooms) /\ rooms'[i] = rooms[at[i]]
  BY <1>1 DEF Keeps
<1>4. \A i, j \in 1..Len(rooms') : at[i] = at[j] => i = j
  <2>1. \A i, j \in 1..Len(rooms') : i < j => at[i] < at[j]
    BY <1>1 DEF Keeps
  <2>2. \A i \in 1..Len(rooms') : at[i] \in Nat
    BY <1>2, <1>3
  <2> QED
    BY <1>2, <2>1, <2>2
<1> QED
  BY <1>3, <1>4 DEF Relisted

\* A count of unread messages is not an id or a name.
LEMMA UnreadListed ==
  ASSUME TypeOK, NEW j \in 1..Len(rooms), NEW n \in Nat, rooms' = [rooms EXCEPT ![j].unread = n]
  PROVE  Relisted
<1> DEFINE r == [rooms[j] EXCEPT !.unread = n]
<1>1. rooms[j] \in Room /\ rooms \in Seq(Room) /\ Len(rooms) \in Nat
  BY ListsTyped
<1>2. r.id = rooms[j].id /\ r.name = rooms[j].name /\ r \in Room
  BY <1>1 DEF Room
<1>3. rooms' = [rooms EXCEPT ![j] = r]
  OBVIOUS
<1> HIDE DEF r
<1>4. Len(rooms') = Len(rooms)
  BY <1>1, <1>2, <1>3, ExceptSeq
<1>5. \A i \in 1..Len(rooms) : rooms'[i] = IF i = j THEN r ELSE rooms[i]
  BY <1>1, <1>3
<1> QED
  BY <1>2, <1>4, <1>5, SameListed

LEMMA FileListed ==
  ASSUME TypeOK, NEW text, NEW name, File(text, name)
  PROVE  Relisted
<1>1. CASE UNCHANGED rooms
  BY <1>1, SameListed
<1>2. CASE ~UNCHANGED rooms
  <2>1. PICK i \in Find("name", name) :
           \E j \in Find("id", rooms[i].id) : rooms' = [rooms EXCEPT ![j].unread = @ + 1]
    BY <1>2 DEF File
  <2>2. PICK j \in 1..Len(rooms) : rooms' = [rooms EXCEPT ![j].unread = @ + 1]
    BY <2>1 DEF Find
  <2>3. rooms' = [rooms EXCEPT ![j].unread = rooms[j].unread + 1] /\ rooms[j].unread + 1 \in Nat
    BY <2>2, ListsTyped DEF Room
  <2> QED
    BY <2>3, UnreadListed
<1> QED
  BY <1>1, <1>2

\* What a click puts on the connection.
LEMMA SpawnHeld ==
  ASSUME TypeOK, cur \in Conns, NEW cmd \in Commands, Spawn(cmd)
  PROVE  /\ \A k \in Conns : k # cur => net'[k] = net[k]
         /\ net'[cur].task = net[cur].task /\ net'[cur].session = net[cur].session
         /\ net'[cur].subs = net[cur].subs
         /\ Held(net'[cur]) = Held(net[cur]) \cup {cmd}
         /\ Asked(net'[cur]) = Asked(net[cur]) \cup {cmd}
         /\ Told(net'[cur]) = Told(net[cur])
<1> DEFINE n == net[cur]
           v == net'[cur]
           s == [n |-> clicks + 1, cmd |-> cmd]
           p == n.spawned \cup {s}
<1>0. net \in [Conns -> Connection] /\ n \in Connection
  BY OnConnection
<1>1. net' = [net EXCEPT ![cur].spawned = p]
  BY DEF Spawn
<1>2. {t.cmd : t \in p} = {t.cmd : t \in n.spawned} \cup {cmd}
  <2>1. s.cmd = cmd
    OBVIOUS
  <2> HIDE DEF s
  <2> QED
    BY <2>1
<1> HIDE DEF p
<1>3. /\ v.task = n.task /\ v.session = n.session /\ v.subs = n.subs
      /\ v.spawned = p /\ v.cmds = n.cmds /\ v.up = n.up
      /\ v.owed = n.owed /\ v.down = n.down /\ v.events = n.events
      /\ \A j \in Conns : j # cur => net'[j] = net[j]
  BY <1>0, <1>1 DEF Connection
<1>4. Held(v) = Held(n) \cup {cmd}
  BY <1>2, <1>3 DEF Held
<1>5. Asked(v) = Asked(n) \cup {cmd}
  BY <1>3, <1>4 DEF Asked
<1>6. Told(v) = Told(n)
  BY <1>3 DEF Told
<1> QED
  BY <1>3, <1>4, <1>5, <1>6

\* Steps of the tasks, of the reader and of the server that create no room.
LEMMA CarriesTracking ==
  ASSUME TypeOK, TypeOK', Tracking, Alive, NEW k \in Conns, Carries(k)
  PROVE  Tracking'
<1>1. UNCHANGED <<status, rooms, cur, srooms, clicks>> /\ clicks \in Nat
  BY DEF Carries, TypeOK
<1>2. Relisted
  BY <1>1, SameListed
<1>3. \A j \in Conns : Hauls(net[j], net[j]) /\ LosesNothing(net[j], net[j])
  BY DEF Hauls, LosesNothing
<1>4. ASSUME NEW j \in Conns
      PROVE  /\ Hauls(net[j], net'[j]) /\ Held(net'[j]) \subseteq Held(net[j])
             /\ j = cur => LosesNothing(net[j], net'[j])
  <2>1. CASE j = k
    BY <2>1 DEF Carries
  <2>2. CASE j # k
    BY <1>3, <2>2 DEF Carries
  <2> QED
    BY <2>1, <2>2
<1>5. status' # "disconnected" => LosesNothing(net[cur], net'[cur])
  BY <1>1, <1>4, InUse
<1> QED
  BY <1>1, <1>2, <1>4, <1>5, HaulsTracking

LEMMA PostTracking ==
  ASSUME TypeOK, TypeOK', Tracking, Alive, NEW r \in 1..Len(srooms), OtherPosts(r)
  PROVE  Tracking'
<1>1. UNCHANGED <<status, rooms, cur, srooms, clicks>> /\ clicks \in Nat
  BY DEF OtherPosts, uiVars, TypeOK
<1>2. Relisted
  BY <1>1, SameListed
<1>3. ASSUME NEW k \in Conns
      PROVE  /\ Hauls(net[k], net'[k]) /\ Held(net'[k]) \subseteq Held(net[k])
             /\ LosesNothing(net[k], net'[k])
  BY PostHauls
<1>4. status' # "disconnected" => LosesNothing(net[cur], net'[cur])
  BY <1>1, <1>3, InUse
<1> QED
  BY <1>1, <1>2, <1>3, <1>4, HaulsTracking

\* Clicks that create no room.
LEMMA ClickTracking ==
  ASSUME TypeOK, TypeOK', Tracking, Alive, Click, Relisted,
         \/ UNCHANGED net
         \/ \E cmd \in Commands : /\ cmd.type # "csub" /\ Spawn(cmd)
                                  /\ cmd = Desub => status' = "disconnected"
  PROVE  Tracking'
<1>1. /\ status = "connected" /\ UNCHANGED <<cur, srooms>> /\ clicks <= clicks'
  BY DEF Click, TypeOK
<1>2. cur \in Conns
  BY <1>1, InUse
<1>3. \A j \in Conns : Hauls(net[j], net[j]) /\ LosesNothing(net[j], net[j])
  BY DEF Hauls, LosesNothing
<1>4. CASE UNCHANGED net
  BY <1>1, <1>2, <1>3, <1>4, HaulsTracking
<1>5. ASSUME NEW cmd \in Commands, cmd.type # "csub", Spawn(cmd),
             cmd = Desub => status' = "disconnected"
      PROVE  Tracking'
  <2>1. /\ \A k \in Conns : k # cur => net'[k] = net[k]
        /\ net'[cur].task = net[cur].task /\ net'[cur].session = net[cur].session
        /\ net'[cur].subs = net[cur].subs
        /\ Held(net'[cur]) = Held(net[cur]) \cup {cmd}
        /\ Asked(net'[cur]) = Asked(net[cur]) \cup {cmd}
        /\ Told(net'[cur]) = Told(net[cur])
    BY <1>2, <1>5, SpawnHeld
  <2>2. \A k \in Conns : Hauls(net[k], net'[k])
    <3>1. Hauls(net[cur], net'[cur])
      BY <1>5, <2>1 DEF Hauls
    <3> QED
      BY <1>3, <2>1, <3>1
  <2>3. status' # "disconnected" => LosesNothing(net[cur], net'[cur])
    BY <1>5, <2>1 DEF LosesNothing, Up
  <2>4. \A k \in Conns : k # cur => Held(net'[k]) \subseteq Held(net[k])
    BY <2>1
  <2> QED
    BY <1>1, <2>2, <2>3, <2>4, HaulsTracking
<1> QED
  BY <1>4, <1>5

LEMMA PlainClicks ==
  ASSUME TypeOK, TypeOK', Tracking, Alive,
         \/ DoSend \/ Disconnect
         \/ \E id \in TypedIds : DoSubscribe(id)
         \/ \E i \in 1..Len(rooms) : Select(i) \/ Unsubscribe(rooms[i].id)
  PROVE  Tracking'
<1>1. CASE DoSend
  <2>1. Click /\ UNCHANGED rooms /\ Spawn([type |-> "msg", grp |-> active])
    BY <1>1 DEF DoSend
  <2>2. active \in Nat
    BY <1>1, ListsTyped DEF DoSend
  <2> DEFINE cmd == [type |-> "msg", grp |-> active]
  <2>3. cmd \in Commands /\ cmd.type = "msg" /\ cmd # Desub /\ Spawn(cmd)
    BY <2>1, <2>2 DEF Commands, Desub
  <2>4. Relisted
    BY <2>1, SameListed
  <2> HIDE DEF cmd
  <2> QED
    BY <2>1, <2>3, <2>4, ClickTracking
<1>2. CASE Disconnect
  <2>1. Click /\ UNCHANGED rooms /\ Spawn(Desub) /\ status' = "disconnected"
    BY <1>2 DEF Disconnect, Desub
  <2>2. Desub \in Commands /\ Desub.type = "desub"
    BY DEF Commands, Desub
  <2>3. Relisted
    BY <2>1, SameListed
  <2> QED
    BY <2>1, <2>2, <2>3, ClickTracking
<1>3. ASSUME NEW id \in TypedIds, DoSubscribe(id) PROVE Tracking'
  <2> DEFINE cmd == [type |-> "sub", grp |-> id]
             r == [id |-> id, name |-> Placeholder(id), unread |-> 0]
  <2>1. Click /\ rooms' = Append(rooms, r) /\ Spawn(cmd)
    BY <1>3 DEF DoSubscribe
  <2>2. id \in Nat /\ id \notin Names
    BY ClientAssumption
  <2>3. cmd \in Commands /\ cmd.type = "sub" /\ cmd # Desub
    BY <2>2 DEF Commands, Desub
  <2>4. r \in Room /\ r.name \notin Names
    BY <2>2 DEF Room, Placeholder
  <2> HIDE DEF r, cmd
  <2>5. Relisted
    BY <2>1, <2>4, OneMoreListed
  <2> QED
    BY <2>1, <2>3, <2>5, ClickTracking
<1>4. ASSUME NEW i \in 1..Len(rooms), Select(i) PROVE Tracking'
  <2>1. Click /\ UNCHANGED net
    BY <1>4 DEF Select
  <2>2. PICK j \in Find("id", rooms[i].id) : rooms' = [rooms EXCEPT ![j].unread = 0]
    BY <1>4 DEF Select
  <2>3. j \in 1..Len(rooms)
    BY <2>2 DEF Find
  <2>4. Relisted
    BY <2>2, <2>3, UnreadListed
  <2> QED
    BY <2>1, <2>4, ClickTracking
<1>5. ASSUME NEW i \in 1..Len(rooms), Unsubscribe(rooms[i].id) PROVE Tracking'
  <2>1. rooms[i].id \in Nat
    BY ListsTyped
  <2>2. Click /\ UNCHANGED net
    BY <1>5 DEF Unsubscribe
  <2>3. Relisted
    BY <1>5, <2>1, KeptListed
  <2> QED
    BY <2>2, <2>3, ClickTracking
<1> QED
  BY <1>1, <1>2, <1>3, <1>4, <1>5

\* A name that the user has not typed before, and that nobody else uses, is
\* nowhere.
LEMMA NewName ==
  ASSUME DistinctNames, TypeOK, Tracking, clicks < MaxClicks,
         NEW name \in Names, name \in TypedNames[clicks + 1]
  PROVE  /\ name \notin OtherNames /\ UsedBy(name, clicks + 1)
         /\ \A i \in 1..Len(rooms) : rooms[i].name # name
         /\ \A g \in 1..Len(srooms) : srooms[g] # name
         /\ \A k \in Conns : Csub(name) \notin Asked(net[k])
         /\ \A k \in Conns : \A l \in Told(net[k]) : l.type = "sub_ok" => l.grp_name # name
<1>1. clicks \in Nat /\ MaxClicks \in Nat /\ clicks + 1 \in 1..MaxClicks
  BY ClientAssumption DEF TypeOK
<1>2. name \notin OtherNames
  BY <1>1 DEF DistinctNames
<1>3. \A m \in 1..clicks : m \in 1..MaxClicks /\ m # clicks + 1
  BY <1>1
<1>4. \A m \in 1..clicks : name \notin TypedNames[m]
  BY <1>1, <1>3 DEF DistinctNames
<1>5. ~UsedBy(name, clicks)
  BY <1>2, <1>4 DEF UsedBy
<1>6. UsedBy(name, clicks + 1)
  <2>1. clicks + 1 \in 1..(clicks + 1)
    BY <1>1
  <2> QED
    BY <2>1 DEF UsedBy
<1>7. /\ \A i \in 1..Len(rooms) : rooms[i].name \in Names => UsedBy(rooms[i].name, clicks)
      /\ \A g \in 1..Len(srooms) : UsedBy(srooms[g], clicks)
      /\ \A k \in Conns : \A q \in Asked(net[k]) : q.type = "csub" => UsedBy(q.name, clicks)
  BY DEF Tracking, Named
<1>8. Csub(name).type = "csub" /\ Csub(name).name = name
  BY DEF Csub
<1>9. ASSUME NEW k \in Conns, NEW l \in Told(net[k]), l.type = "sub_ok" PROVE l.grp_name # name
  <2>1. net[k] \in Connection
    BY OnConnection
  <2>2. l \in Confirmations
    BY <1>9, <2>1, ToldTyped
  <2>3. l.grp \in 1..Len(srooms) /\ srooms[l.grp] = l.grp_name
    BY <2>2 DEF Tracking, Genuine
  <2> QED
    BY <1>5, <1>7, <2>3
<1> QED
  BY <1>2, <1>5, <1>6, <1>7, <1>8, <1>9

\* The user creates a room.
LEMMA CreateTracking ==
  ASSUME DistinctNames, TypeOK, TypeOK', Tracking, Alive, NEW name \in Names, DoCreate(name)
  PROVE  Tracking'
<1> DEFINE n == net[cur]
           v == net'[cur]
           cmd == Csub(name)
           r == [id |-> NextId, name |-> name, unread |-> 0]
<1>1. /\ status = "connected" /\ clicks < MaxClicks /\ clicks' = clicks + 1
      /\ UNCHANGED <<status, cur, srooms>> /\ name \in TypedNames[clicks + 1]
      /\ rooms' = Append(rooms, r) /\ Spawn(cmd)
  BY DEF DoCreate, Click, Csub
<1>2. cur \in Conns
  BY <1>1, InUse
<1>3. cmd \in Commands /\ cmd.type = "csub" /\ cmd.name = name /\ cmd # Desub
  BY DEF Commands, Csub, Desub
<1>4. r \in Room /\ r.name = name
  BY NextIdType DEF Room
<1> HIDE DEF r, cmd
<1>5. /\ Len(rooms) \in Nat /\ Len(rooms') = Len(rooms) + 1
      /\ rooms'[Len(rooms) + 1] = r
      /\ \A i \in 1..Len(rooms) : rooms'[i] = rooms[i]
      /\ \A i \in 1..Len(rooms') : i \in 1..Len(rooms) \/ i = Len(rooms) + 1
  BY <1>1, <1>4, ListsTyped
<1>6. /\ name \notin OtherNames /\ UsedBy(name, clicks')
      /\ \A i \in 1..Len(rooms) : rooms[i].name # name
      /\ \A g \in 1..Len(srooms) : srooms[g] # name
      /\ \A k \in Conns : cmd \notin Asked(net[k])
      /\ \A k \in Conns : \A l \in Told(net[k]) : l.type = "sub_ok" => l.grp_name # name
  BY <1>1, NewName DEF cmd
<1>7. /\ \A k \in Conns : k # cur => net'[k] = net[k]
      /\ v.task = n.task /\ v.session = n.session
      /\ v.subs = n.subs
      /\ Held(v) = Held(n) \cup {cmd}
      /\ Asked(v) = Asked(n) \cup {cmd}
      /\ Told(v) = Told(n)
  BY <1>1, <1>2, <1>3, SpawnHeld
<1>8. Genuine'
  <2>1. \A k \in Conns : net'[k].subs = net[k].subs /\ Told(net'[k]) = Told(net[k])
    BY <1>7
  <2> QED
    BY <1>1, <2>1 DEF Tracking, Genuine
<1>9. Named'
  <2>1. clicks \in Nat /\ clicks' \in Nat /\ clicks <= clicks'
    BY <1>1 DEF TypeOK
  <2>2. \A x : UsedBy(x, clicks) => UsedBy(x, clicks')
    BY <2>1, UsedStays
  <2>3. \A i \in 1..Len(rooms') : rooms'[i].name \in Names => UsedBy(rooms'[i].name, clicks')
    BY <1>4, <1>5, <1>6, <2>2 DEF Tracking, Named
  <2>4. \A g \in 1..Len(srooms') : UsedBy(srooms'[g], clicks')
    BY <1>1, <2>2 DEF Tracking, Named
  <2>5. \A k \in Conns : \A q \in Asked(net'[k]) : q.type = "csub" => UsedBy(q.name, clicks')
    <3>1. \A k \in Conns : \A q \in Asked(net'[k]) : q = cmd \/ q \in Asked(net[k])
      BY <1>7
    <3> QED
      BY <1>3, <1>6, <2>2, <3>1 DEF Tracking, Named
  <2> QED
    BY <2>3, <2>4, <2>5 DEF Named
<1>10. Unmade'
  BY <1>1, <1>7, HaulsUnmade
<1>11. Tracked'
  <2> SUFFICES ASSUME Up(v)
               PROVE  /\ v.task # "ending" /\ Desub \notin Held(v)
                      /\ \A i \in 1..Len(rooms') : rooms'[i].name \in Names =>
                            \/ Known(rooms'[i], v, srooms)
                            \/ /\ Awaited(rooms'[i].name, net', cur, srooms)
                               /\ \A j \in 1..Len(rooms') :
                                     rooms'[j].name = rooms'[i].name => j = i
    BY <1>1 DEF Tracked
  <2>1. Up(n)
    BY <1>7 DEF Up
  <2>2. /\ n.task # "ending" /\ Desub \notin Held(n)
        /\ \A i \in 1..Len(rooms) : rooms[i].name \in Names =>
              \/ Known(rooms[i], n, srooms)
              \/ /\ Awaited(rooms[i].name, net, cur, srooms)
                 /\ \A j \in 1..Len(rooms) : rooms[j].name = rooms[i].name => j = i
    BY <1>1, <2>1 DEF Tracking, Tracked
  <2>3. ASSUME NEW x, Awaited(x, net, cur, srooms) PROVE Awaited(x, net', cur, srooms)
    BY <1>7, <2>3 DEF Awaited
  <2>4. Awaited(name, net', cur, srooms)
    <3>1. /\ cmd \in Asked(v)
          /\ \A k \in Conns : k # cur => cmd \notin Asked(net'[k])
          /\ \A l \in Told(v) : l.type = "sub_ok" => l.grp_name # name
      BY <1>2, <1>6, <1>7
    <3> QED
      BY <1>6, <3>1 DEF Awaited, cmd
  <2>5. ASSUME NEW i \in 1..Len(rooms'), rooms'[i].name \in Names
        PROVE  \/ Known(rooms'[i], v, srooms)
               \/ /\ Awaited(rooms'[i].name, net', cur, srooms)
                  /\ \A j \in 1..Len(rooms') : rooms'[j].name = rooms'[i].name => j = i
    <3>1. CASE i \in 1..Len(rooms)
      <4>1. CASE Known(rooms[i], n, srooms)
        BY <1>5, <1>7, <3>1, <4>1 DEF Known
      <4>2. CASE /\ Awaited(rooms[i].name, net, cur, srooms)
                 /\ \A j \in 1..Len(rooms) : rooms[j].name = rooms[i].name => j = i
        <5>1. Awaited(rooms'[i].name, net', cur, srooms)
          BY <1>5, <2>3, <3>1, <4>2
        <5>2. \A j \in 1..Len(rooms') : rooms'[j].name = rooms'[i].name => j = i
          BY <1>4, <1>5, <1>6, <3>1, <4>2
        <5> QED
          BY <5>1, <5>2
      <4> QED
        BY <1>5, <2>2, <2>5, <3>1, <4>1, <4>2
    <3>2. CASE i = Len(rooms) + 1
      <4>1. rooms'[i].name = name
        BY <1>4, <1>5, <3>2
      <4>2. \A j \in 1..Len(rooms') : rooms'[j].name = rooms'[i].name => j = i
        BY <1>5, <1>6, <3>2, <4>1
      <4> QED
        BY <2>4, <4>1, <4>2
    <3> QED
      BY <1>5, <3>1, <3>2
  <2>6. v.task # "ending" /\ Desub \notin Held(v)
    BY <1>3, <1>7, <2>2
  <2> QED
    BY <2>5, <2>6
<1> QED
  BY <1>8, <1>9, <1>10, <1>11 DEF Tracking

\* The server confirms: the room that it creates gets the awaited name on this
\* connection and on no other, and the room that it had does not have one.
LEMMA ConfirmsTracking ==
  ASSUME TypeOK, TypeOK', Tracking, Alive, NEW k \in Conns, NEW l, Confirms(k, l)
  PROVE  Tracking'
<1> DEFINE s == srooms'
           n == net[cur]
           v == net'[cur]
           created == l.type = "csub_ok" /\ l.grp = Len(srooms) + 1
<1>1. /\ UNCHANGED <<status, rooms, cur, clicks>>
      /\ \A j \in Conns : j # k => net'[j] = net[j]
      /\ net'[k].task = net[k].task /\ net'[k].session = net[k].session
      /\ net'[k].subs = net[k].subs \cup {l.grp}
      /\ Held(net'[k]) = Held(net[k]) /\ Asked(net'[k]) \subseteq Asked(net[k])
      /\ Told(net'[k]) = Told(net[k]) \cup {l}
      /\ l \in Confirmations
  BY DEF Confirms
<1>2. \/ /\ created /\ srooms' = Append(srooms, l.grp_name)
         /\ Csub(l.grp_name) \in Asked(net[k])
         /\ Asked(net[k]) = Asked(net'[k]) \cup {Csub(l.grp_name)}
      \/ /\ l.type = "sub_ok" /\ l.grp \in 1..Len(srooms) /\ l.grp \notin net[k].subs
         /\ srooms' = srooms /\ srooms[l.grp] = l.grp_name
         /\ \A q \in Asked(net[k]) : q.type = "csub" => q \in Asked(net'[k])
  BY DEF Confirms
<1>3. /\ l.grp_name \in Names /\ l.grp \in Nat /\ srooms \in Seq(Names) /\ Len(srooms) \in Nat
  BY <1>1 DEF Confirmations, TypeOK
<1>4. /\ \A g \in 1..Len(srooms) : g \in 1..Len(s) /\ s[g] = srooms[g]
      /\ \A g \in 1..Len(s) : g \in 1..Len(srooms) \/ (g = l.grp /\ created)
      /\ l.grp \in 1..Len(s) /\ s[l.grp] = l.grp_name
  <2>1. CASE created /\ srooms' = Append(srooms, l.grp_name)
    <3>1. /\ Len(s) = Len(srooms) + 1 /\ s[Len(srooms) + 1] = l.grp_name
          /\ \A g \in 1..Len(srooms) : s[g] = srooms[g]
      BY <1>3, <2>1
    <3> HIDE DEF s
    <3> QED
      BY <1>3, <2>1, <3>1
  <2>2. CASE srooms' = srooms /\ l.grp \in 1..Len(srooms) /\ srooms[l.grp] = l.grp_name
    BY <2>2
  <2> QED
    BY <1>2, <2>1, <2>2
<1>5. /\ Csub(l.grp_name).type = "csub" /\ Csub(l.grp_name).name = l.grp_name
      /\ \A x : /\ Csub(x).type = "csub"
                /\ Csub(x) = Csub(l.grp_name) => x = l.grp_name
  <2>1. \A x : Csub(x).type = "csub" /\ Csub(x).name = x
    BY DEF Csub
  <2> QED
    BY <2>1
<1>6. Genuine'
  <2> SUFFICES ASSUME NEW j \in Conns
               PROVE  /\ net'[j].subs \subseteq 1..Len(s)
                      /\ \A m \in Told(net'[j]) : m \in Confirmations =>
                            m.grp \in net'[j].subs /\ s[m.grp] = m.grp_name
    BY DEF Genuine
  <2>1. /\ net[j].subs \subseteq 1..Len(srooms)
        /\ \A m \in Told(net[j]) : m \in Confirmations =>
              m.grp \in net[j].subs /\ srooms[m.grp] = m.grp_name
    BY DEF Tracking, Genuine
  <2> HIDE DEF s
  <2>2. /\ net[j].subs \subseteq 1..Len(s)
        /\ \A m \in Told(net[j]) : m \in Confirmations =>
              m.grp \in net[j].subs /\ s[m.grp] = m.grp_name
    BY <1>4, <2>1
  <2>3. CASE j = k
    BY <1>1, <1>4, <2>2, <2>3
  <2>4. CASE j # k
    BY <1>1, <2>2, <2>4
  <2> QED
    BY <2>3, <2>4
<1>7. Named'
  <2>1. /\ \A i \in 1..Len(rooms) : rooms[i].name \in Names => UsedBy(rooms[i].name, clicks)
        /\ \A g \in 1..Len(srooms) : UsedBy(srooms[g], clicks)
        /\ \A j \in Conns : \A q \in Asked(net[j]) : q.type = "csub" => UsedBy(q.name, clicks)
    BY DEF Tracking, Named
  <2>2. created => UsedBy(l.grp_name, clicks)
    BY <1>2, <1>5, <2>1
  <2>3. \A g \in 1..Len(s) : UsedBy(s[g], clicks)
    BY <1>4, <2>1, <2>2
  <2>4. \A j \in Conns : \A q \in Asked(net'[j]) : q.type = "csub" => UsedBy(q.name, clicks)
    BY <1>1, <2>1
  <2> QED
    BY <1>1, <2>1, <2>3, <2>4 DEF Named
<1>8. Unmade'
  BY <1>1, HaulsUnmade
<1>9. Tracked'
  <2> SUFFICES ASSUME status # "disconnected", Up(v)
               PROVE  /\ v.task # "ending" /\ Desub \notin Held(v)
                      /\ \A i \in 1..Len(rooms) : rooms[i].name \in Names =>
                            \/ Known(rooms[i], v, s)
                            \/ /\ Awaited(rooms[i].name, net', cur, s)
                               /\ \A j \in 1..Len(rooms) : rooms[j].name = rooms[i].name => j = i
    BY <1>1 DEF Tracked
  <2>1. cur \in Conns
    BY InUse
  <2>2. /\ v.task = n.task /\ v.session = n.session /\ Held(v) = Held(n)
        /\ n.subs \subseteq v.subs
        /\ Told(n) \subseteq Told(v) /\ Told(v) \subseteq Told(n) \cup {l}
        /\ \A j \in Conns : Asked(net'[j]) \subseteq Asked(net[j])
    BY <1>1, <2>1
  <2>3. Up(n)
    BY <2>2 DEF Up
  <2>4. /\ n.task # "ending" /\ Desub \notin Held(n)
        /\ \A i \in 1..Len(rooms) : rooms[i].name \in Names =>
              \/ Known(rooms[i], n, srooms)
              \/ /\ Awaited(rooms[i].name, net, cur, srooms)
                 /\ \A j \in 1..Len(rooms) : rooms[j].name = rooms[i].name => j = i
    BY <2>3 DEF Tracking, Tracked
  <2>5. n.subs \subseteq 1..Len(srooms)
    BY <2>1 DEF Tracking, Genuine
  <2> HIDE DEF s
  <2>6. ASSUME NEW r, Known(r, n, srooms) PROVE Known(r, v, s)
    BY <1>4, <2>2, <2>5, <2>6 DEF Known
  <2>7. ASSUME NEW x, Awaited(x, net, cur, srooms) PROVE Awaited(x, net', cur, s)
    <3>1. /\ \/ Csub(x) \in Asked(n)
             \/ \E m \in Told(n) : m.type = "csub_ok" /\ m.grp_name = x
          /\ x \notin OtherNames
          /\ \A j \in Conns : j # cur => Csub(x) \notin Asked(net[j])
          /\ \A g \in 1..Len(srooms) : srooms[g] = x => g \in n.subs
          /\ \A m \in Told(n) : m.type = "sub_ok" => m.grp_name # x
      BY <2>7 DEF Awaited
    <3>2. \/ Csub(x) \in Asked(v)
          \/ \E m \in Told(v) : m.type = "csub_ok" /\ m.grp_name = x
      <4>1. CASE Csub(x) \in Asked(v)
        BY <4>1
      <4>2. CASE Csub(x) \in Asked(n) /\ Csub(x) \notin Asked(v)
        <5>1. k = cur
          BY <1>1, <2>1, <4>2
        <5>2. created /\ Csub(x) = Csub(l.grp_name)
          BY <1>2, <1>5, <4>2, <5>1
        <5>3. l \in Told(v) /\ l.grp_name = x
          BY <1>1, <1>5, <5>1, <5>2
        <5> QED
          BY <5>2, <5>3
      <4>3. CASE \E m \in Told(n) : m.type = "csub_ok" /\ m.grp_name = x
        BY <2>2, <4>3
      <4> QED
        BY <3>1, <4>1, <4>2, <4>3
    <3>3. \A j \in Conns : j # cur => Csub(x) \notin Asked(net'[j])
      BY <2>2, <3>1
    <3>4. ASSUME NEW g \in 1..Len(s), s[g] = x PROVE g \in v.subs
      <4>1. CASE g \in 1..Len(srooms)
        BY <1>4, <2>2, <3>1, <3>4, <4>1
      <4>2. CASE g = l.grp /\ created
        <5>1. Csub(x) \in Asked(net[k])
          BY <1>2, <1>4, <3>4, <4>2
        <5>2. k = cur
          BY <3>1, <5>1
        <5> QED
          BY <1>1, <4>2, <5>2
      <4> QED
        BY <1>4, <4>1, <4>2
    <3>5. ASSUME NEW m \in Told(v), m.type = "sub_ok" PROVE m.grp_name # x
      <4>1. CASE m \in Told(n)
        BY <3>1, <3>5, <4>1
      <4>2. CASE m = l /\ m \notin Told(n)
        <5>1. k = cur
          BY <1>1, <2>1, <4>2
        <5>2. l.grp \in 1..Len(srooms) /\ l.grp \notin n.subs /\ srooms[l.grp] = l.grp_name
          BY <1>2, <3>5, <4>2, <5>1
        <5> QED
          BY <3>1, <4>2, <5>2
      <4> QED
        BY <2>2, <4>1, <4>2
    <3> QED
      BY <3>1, <3>2, <3>3, <3>4, <3>5 DEF Awaited
  <2> QED
    BY <2>2, <2>4, <2>6, <2>7
<1> QED
  BY <1>6, <1>7, <1>8, <1>9 DEF Tracking

\* Others create a room, by a name that is theirs.
LEMMA OthersTracking ==
  ASSUME TypeOK, TypeOK', Tracking, Alive, NEW name \in OtherNames, OtherCreates(name)
  PROVE  Tracking'
<1> DEFINE s == srooms'
<1>1. /\ UNCHANGED <<status, rooms, cur, clicks, net>> /\ srooms' = Append(srooms, name)
      /\ srooms \in Seq(Names) /\ Len(srooms) \in Nat /\ name \in Names
  BY ClientAssumption DEF OtherCreates, uiVars, TypeOK
<1>2. /\ Len(s) = Len(srooms) + 1 /\ s[Len(srooms) + 1] = name
      /\ \A g \in 1..Len(srooms) : s[g] = srooms[g]
  BY <1>1
<1> HIDE DEF s
<1>3. /\ \A g \in 1..Len(srooms) : g \in 1..Len(s)
      /\ \A g \in 1..Len(s) : g \in 1..Len(srooms) \/ g = Len(srooms) + 1
  BY <1>1, <1>2
<1>4. \A j \in Conns : /\ net[j].subs \subseteq 1..Len(srooms)
                       /\ \A m \in Told(net[j]) : m \in Confirmations =>
                             m.grp \in net[j].subs /\ srooms[m.grp] = m.grp_name
  BY DEF Tracking, Genuine
<1>5. Genuine'
  <2>1. \A j \in Conns : /\ net[j].subs \subseteq 1..Len(s)
                         /\ \A m \in Told(net[j]) : m \in Confirmations =>
                               m.grp \in net[j].subs /\ s[m.grp] = m.grp_name
    BY <1>2, <1>3, <1>4
  <2> QED
    BY <1>1, <2>1 DEF Genuine, s
<1>6. Named'
  <2>1. UsedBy(name, clicks)
    BY DEF UsedBy
  <2>2. \A g \in 1..Len(s) : UsedBy(s[g], clicks)
    BY <1>2, <1>3, <2>1 DEF Tracking, Named
  <2> QED
    BY <1>1, <2>2 DEF Tracking, Named, s
<1>7. Unmade'
  BY <1>1 DEF Tracking, Unmade
<1>8. Tracked'
  <2>1. ASSUME status # "disconnected" PROVE cur \in Conns
    BY <2>1, InUse
  <2>2. ASSUME NEW r, cur \in Conns, Known(r, net[cur], srooms) PROVE Known(r, net[cur], s)
    BY <1>2, <1>4, <2>2 DEF Known
  <2>3. ASSUME NEW x, Awaited(x, net, cur, srooms) PROVE Awaited(x, net, cur, s)
    BY <1>2, <1>3, <2>3 DEF Awaited
  <2>4. status # "disconnected" /\ Up(net[cur]) =>
          /\ net[cur].task # "ending" /\ Desub \notin Held(net[cur])
          /\ \A i \in 1..Len(rooms) : rooms[i].name \in Names =>
                \/ Known(rooms[i], net[cur], s)
                \/ /\ Awaited(rooms[i].name, net, cur, s)
                   /\ \A j \in 1..Len(rooms) : rooms[j].name = rooms[i].name => j = i
    BY <2>1, <2>2, <2>3 DEF Tracking, Tracked
  <2> QED
    BY <1>1, <2>4 DEF Tracked, s
<1> QED
  BY <1>5, <1>6, <1>7, <1>8 DEF Tracking

\* A click on Connect: a new list and a connection on which nothing was sent.
LEMMA ConnectTracking ==
  ASSUME TypeOK, TypeOK', Tracking, Connect
  PROVE  Tracking'
<1> DEFINE c == cur + 1
<1>1. /\ rooms' = <<>> /\ cur' = c /\ UNCHANGED <<srooms, clicks>>
      /\ net' = [net EXCEPT ![c].task = "connecting"]
  BY DEF Connect
<1>2. c \in Conns /\ cur \in Nat
  BY ConnectFacts DEF TypeOK
<1> HIDE DEF c
<1>3. net \in [Conns -> Connection] /\ net[c] \in Connection
  BY <1>2, OnConnection
<1>4. /\ net'[c].subs = net[c].subs /\ net'[c].spawned = net[c].spawned
      /\ net'[c].cmds = net[c].cmds /\ net'[c].up = net[c].up
      /\ net'[c].owed = net[c].owed /\ net'[c].down = net[c].down
      /\ net'[c].events = net[c].events /\ net'[c].task = "connecting"
      /\ \A k \in Conns : k # c => net'[k] = net[k]
  BY <1>1, <1>2, <1>3 DEF Connection
<1>5. /\ Held(net'[c]) = Held(net[c]) /\ Asked(net'[c]) = Asked(net[c])
      /\ Told(net'[c]) = Told(net[c])
  BY <1>4 DEF Held, Asked, Told
<1>6. \A k \in Conns : /\ net'[k].subs = net[k].subs /\ Held(net'[k]) = Held(net[k])
                       /\ Asked(net'[k]) = Asked(net[k]) /\ Told(net'[k]) = Told(net[k])
  BY <1>4, <1>5
<1>7. Genuine'
  BY <1>1, <1>6 DEF Tracking, Genuine
<1>8. Named'
  <2>1. \A i \in 1..Len(rooms') : FALSE
    BY <1>1
  <2>2. \A g \in 1..Len(srooms') : UsedBy(srooms'[g], clicks')
    BY <1>1 DEF Tracking, Named
  <2>3. \A k \in Conns : \A q \in Asked(net'[k]) : q.type = "csub" => UsedBy(q.name, clicks')
    BY <1>1, <1>6 DEF Tracking, Named
  <2> QED
    BY <2>1, <2>2, <2>3 DEF Named
<1>9. \A k \in Conns : k >= c => Held(net'[k]) = {}
  <2>1. \A k \in Conns : k >= c => k > cur
    BY <1>2 DEF c, Conns
  <2> QED
    BY <1>6, <2>1 DEF Tracking, Unmade
<1>10. Unmade'
  <2>1. \A k \in Conns : k > c => k >= c
    BY <1>2 DEF c, Conns
  <2> QED
    BY <1>1, <1>9, <2>1 DEF Unmade
<1>11. Tracked'
  <2>1. \A i \in 1..Len(rooms') : FALSE
    BY <1>1
  <2>2. Held(net'[c]) = {}
    <3>1. c >= c
      BY <1>2 DEF c
    <3> QED
      BY <1>2, <1>9, <3>1
  <2> QED
    BY <1>1, <1>4, <2>1, <2>2 DEF Tracked
<1> QED
  BY <1>7, <1>8, <1>10, <1>11 DEF Tracking

\* The poller takes an event from the connection.
LEMMA PollHeld ==
  ASSUME TypeOK, Poll
  PROVE  LET e == Head(net[cur].events)
         IN  /\ cur \in Conns /\ e \in Events /\ e \in Told(net[cur])
             /\ UNCHANGED <<cur, srooms, clicks>>
             /\ \A k \in Conns : k # cur => net'[k] = net[k]
             /\ net'[cur].task = net[cur].task /\ net'[cur].session = net[cur].session
             /\ net'[cur].subs = net[cur].subs
             /\ Held(net'[cur]) = Held(net[cur]) /\ Asked(net'[cur]) = Asked(net[cur])
             /\ Told(net'[cur]) \subseteq Told(net[cur])
             /\ Told(net[cur]) = Told(net'[cur]) \cup {e}
             /\ status' = StatusAfter(e)
<1> DEFINE n == net[cur]
           v == net'[cur]
           e == Head(n.events)
           t == Tail(n.events)
<1>1. /\ cur \in Conns /\ n.events # <<>> /\ e \in Events /\ UNCHANGED <<cur, srooms, clicks>>
      /\ status' = StatusAfter(e)
  BY PollFacts
<1>2. net \in [Conns -> Connection] /\ n \in Connection /\ n.events \in Seq(Events)
  BY <1>1, OnConnection
<1>3. net' = [net EXCEPT ![cur].events = t]
  BY DEF Poll
<1>4. Elements(n.events) = {e} \cup Elements(t)
  BY <1>1, <1>2, ElementsOf
<1> HIDE DEF e, t
<1>5. /\ v.task = n.task /\ v.session = n.session /\ v.subs = n.subs
      /\ v.spawned = n.spawned /\ v.cmds = n.cmds /\ v.up = n.up
      /\ v.owed = n.owed /\ v.down = n.down /\ v.events = t
      /\ \A j \in Conns : j # cur => net'[j] = net[j]
  BY <1>1, <1>2, <1>3 DEF Connection
<1>6. Held(v) = Held(n) /\ Asked(v) = Asked(n)
  BY <1>5 DEF Held, Asked
<1>7. Told(n) = Told(v) \cup {e}
  BY <1>4, <1>5 DEF Told
<1> QED
  BY <1>1, <1>5, <1>6, <1>7 DEF e

\* The poller takes an event that confirms nothing.
LEMMA PollOthersTracking ==
  ASSUME TypeOK, TypeOK', Tracking, Alive,
         status' = "connected" => status \in {"connecting", "connected"}, Poll,
         Head(net[cur].events).type \notin {"csub_ok", "sub_ok"}
  PROVE  Tracking'
<1> DEFINE n == net[cur]
           v == net'[cur]
           e == Head(n.events)
<1>1. /\ cur \in Conns /\ e \in Events /\ e \in Told(n)
      /\ UNCHANGED <<cur, srooms, clicks>>
      /\ \A k \in Conns : k # cur => net'[k] = net[k]
      /\ v.task = n.task /\ v.session = n.session /\ v.subs = n.subs
      /\ Held(v) = Held(n) /\ Asked(v) = Asked(n)
      /\ Told(v) \subseteq Told(n) /\ Told(n) = Told(v) \cup {e}
      /\ status' = StatusAfter(e)
  BY PollHeld
<1>2. Relisted
  <2>1. CASE e.type = "message"
    <3>1. File(e.data, e.grp_name)
      BY <2>1 DEF Poll
    <3> QED
      BY <3>1, FileListed
  <2>2. CASE e.type # "message"
    <3>1. UNCHANGED rooms
      BY <2>2 DEF Poll
    <3> QED
      BY <3>1, SameListed
  <2> QED
    BY <2>1, <2>2
<1>3. status' # "disconnected" => status # "disconnected"
  BY <1>1 DEF StatusAfter
<1>4. e \notin Confirmations
  BY DEF Confirmations
<1> HIDE DEF e
<1>5. Hauls(n, v) /\ LosesNothing(n, v)
  BY <1>1, <1>4 DEF Hauls, LosesNothing, Up
<1>6. \A k \in Conns : Hauls(net[k], net[k])
  BY DEF Hauls
<1>7. \A k \in Conns : Hauls(net[k], net'[k]) /\ Held(net'[k]) \subseteq Held(net[k])
  BY <1>1, <1>5, <1>6
<1>8. clicks <= clicks'
  BY <1>1 DEF TypeOK
<1> QED
  BY <1>1, <1>2, <1>3, <1>5, <1>7, <1>8, HaulsTracking

\* The names of the rooms after a confirmation.
LEMMA RekeyNames ==
  ASSUME TypeOK, NEW id \in Nat, NEW name, Rekey(id, name)
  PROVE  \A i \in 1..Len(rooms) : rooms'[i].name = rooms[i].name
<1> DEFINE here == Created(id, name)
<1>1. rooms' = [i \in 1..Len(rooms) |->
                  [rooms[i] EXCEPT !.id = IF i \in here THEN id ELSE @]]
  BY DEF Rekey
<1> HIDE DEF here
<1>2. ASSUME NEW i \in 1..Len(rooms) PROVE rooms'[i].name = rooms[i].name
  <2>1. rooms[i] \in Room
    BY ListsTyped
  <2>2. PICK x : rooms'[i] = [rooms[i] EXCEPT !.id = x]
    BY <1>1
  <2> QED
    BY <2>1, <2>2 DEF Room
<1> QED
  BY <1>2

LEMMA RenameNames ==
  ASSUME TypeOK, NEW id, NEW name, Rename(id, name)
  PROVE  \A i \in 1..Len(rooms) :
            rooms'[i].name = IF i \in Find("id", id) THEN name ELSE rooms[i].name
<1> DEFINE here == Find("id", id)
<1>1. rooms' = [i \in 1..Len(rooms) |->
                  [rooms[i] EXCEPT !.name = IF i \in here THEN name ELSE @]]
  BY DEF Rename
<1> HIDE DEF here
<1>2. ASSUME NEW i \in 1..Len(rooms)
      PROVE  rooms'[i].name = IF i \in here THEN name ELSE rooms[i].name
  <2> DEFINE x == IF i \in here THEN name ELSE rooms[i].name
  <2>1. rooms[i] \in Room
    BY ListsTyped
  <2>2. rooms'[i] = [rooms[i] EXCEPT !.name = x]
    BY <1>1
  <2> HIDE DEF x
  <2>3. rooms'[i].name = x
    BY <2>1, <2>2 DEF Room
  <2> QED
    BY <2>3 DEF x
<1> QED
  BY <1>2 DEF here

\* The poller takes a confirmation.
LEMMA PollConfirmsTracking ==
  ASSUME TypeOK, TypeOK', Tracking, Poll,
         Head(net[cur].events).type \in {"csub_ok", "sub_ok"}
  PROVE  Tracking'
<1> DEFINE n == net[cur]
           v == net'[cur]
           e == Head(n.events)
           g == e.grp
           name == e.grp_name
<1>1. /\ cur \in Conns /\ e \in Events /\ e \in Told(n)
      /\ UNCHANGED <<cur, srooms, clicks>>
      /\ \A k \in Conns : k # cur => net'[k] = net[k]
      /\ v.task = n.task /\ v.session = n.session /\ v.subs = n.subs
      /\ Held(v) = Held(n) /\ Asked(v) = Asked(n)
      /\ Told(v) \subseteq Told(n) /\ Told(n) = Told(v) \cup {e}
      /\ status' = StatusAfter(e)
  BY PollHeld
<1>2. status' = status
  BY <1>1 DEF StatusAfter
<1>3. e \in Confirmations /\ g \in Nat /\ name \in Names
  <2>1. n \in Connection
    BY <1>1, OnConnection
  <2>2. e \in Confirmations
    BY <1>1, <2>1, ToldTyped
  <2> QED
    BY <2>2 DEF Confirmations
<1>4. g \in n.subs /\ g \in 1..Len(srooms) /\ srooms[g] = name
  BY <1>1, <1>3 DEF Tracking, Genuine
<1>5. \/ e.type = "csub_ok" /\ Rekey(g, name)
      \/ e.type = "sub_ok" /\ Rename(g, name)
  BY DEF Poll
<1> HIDE DEF e, g, name
<1>6. ASSUME e.type = "csub_ok", Rekey(g, name)
      PROVE  /\ Len(rooms') = Len(rooms)
             /\ \A i \in 1..Len(rooms) :
                   /\ rooms'[i].name = rooms[i].name
                   /\ rooms'[i].id = IF i \in Find("name", name) THEN g ELSE rooms[i].id
  BY <1>3, <1>6, RekeyFacts, RekeyNames DEF Created
<1>7. ASSUME e.type = "sub_ok", Rename(g, name)
      PROVE  /\ Len(rooms') = Len(rooms)
             /\ \A i \in 1..Len(rooms) :
                   /\ rooms'[i].id = rooms[i].id
                   /\ rooms'[i].name = IF i \in Find("id", g) THEN name ELSE rooms[i].name
  BY <1>3, <1>7, RenameFacts, RenameNames DEF SameIds
<1>8. Genuine'
  <2>1. \A k \in Conns : net'[k].subs = net[k].subs /\ Told(net'[k]) \subseteq Told(net[k])
    BY <1>1
  <2> QED
    BY <1>1, <2>1 DEF Tracking, Genuine
<1>9. Named'
  <2>1. \A k \in Conns : Asked(net'[k]) = Asked(net[k])
    BY <1>1
  <2>2. UsedBy(name, clicks)
    BY <1>4 DEF Tracking, Named
  <2>3. \A i \in 1..Len(rooms') : i \in 1..Len(rooms) /\ rooms'[i].name \in {name, rooms[i].name}
    BY <1>5, <1>6, <1>7
  <2>4. \A i \in 1..Len(rooms') : rooms'[i].name \in Names => UsedBy(rooms'[i].name, clicks)
    BY <2>2, <2>3 DEF Tracking, Named
  <2> QED
    BY <1>1, <2>1, <2>4 DEF Tracking, Named
<1>10. Unmade'
  BY <1>1, HaulsUnmade
<1>11. Tracked'
  <2> SUFFICES ASSUME status # "disconnected", Up(v)
               PROVE  /\ v.task # "ending" /\ Desub \notin Held(v)
                      /\ \A i \in 1..Len(rooms') : rooms'[i].name \in Names =>
                            \/ Known(rooms'[i], v, srooms)
                            \/ /\ Awaited(rooms'[i].name, net', cur, srooms)
                               /\ \A j \in 1..Len(rooms') :
                                     rooms'[j].name = rooms'[i].name => j = i
    BY <1>1, <1>2 DEF Tracked
  <2>1. Up(n)
    BY <1>1 DEF Up
  <2>2. /\ n.task # "ending" /\ Desub \notin Held(n)
        /\ \A i \in 1..Len(rooms) : rooms[i].name \in Names =>
              \/ Known(rooms[i], n, srooms)
              \/ /\ Awaited(rooms[i].name, net, cur, srooms)
                 /\ \A j \in 1..Len(rooms) : rooms[j].name = rooms[i].name => j = i
    BY <2>1 DEF Tracking, Tracked
  <2>3. ASSUME NEW x, Awaited(x, net, cur, srooms), e.type = "csub_ok" => x # name
        PROVE  Awaited(x, net', cur, srooms)
    <3>1. \/ Csub(x) \in Asked(v)
          \/ \E l \in Told(v) : l.type = "csub_ok" /\ l.grp_name = x
      BY <1>1, <2>3 DEF Awaited, name
    <3> QED
      BY <1>1, <2>3, <3>1 DEF Awaited
  <2>4. Len(rooms) \in Nat
    BY ListsTyped
  <2>5. ASSUME e.type = "csub_ok", Rekey(g, name),
               NEW i \in 1..Len(rooms'), rooms'[i].name \in Names
        PROVE  \/ Known(rooms'[i], v, srooms)
               \/ /\ Awaited(rooms'[i].name, net', cur, srooms)
                  /\ \A j \in 1..Len(rooms') : rooms'[j].name = rooms'[i].name => j = i
    <3>1. /\ Len(rooms') = Len(rooms)
          /\ \A j \in 1..Len(rooms) :
                /\ rooms'[j].name = rooms[j].name
                /\ rooms'[j].id = IF j \in Find("name", name) THEN g ELSE rooms[j].id
      BY <1>6, <2>5
    <3>2. i \in 1..Len(rooms) /\ rooms'[i].name = rooms[i].name /\ rooms[i].name \in Names
      BY <2>5, <3>1
    <3>3. CASE i \in Find("name", name)
      <4>1. rooms[i].name = name /\ rooms'[i].id = g
        BY <3>1, <3>2, <3>3 DEF Find
      <4> QED
        BY <1>1, <1>4, <3>2, <4>1 DEF Known
    <3>4. CASE i \notin Find("name", name) /\ Known(rooms[i], n, srooms)
      BY <1>1, <3>1, <3>2, <3>4 DEF Known
    <3>5. CASE /\ i \notin Find("name", name) /\ Awaited(rooms[i].name, net, cur, srooms)
               /\ \A j \in 1..Len(rooms) : rooms[j].name = rooms[i].name => j = i
      <4>1. rooms[i].name # name
        <5>1. \A j \in 1..(i - 1) : j \in 1..Len(rooms) /\ j # i
          BY <2>4, <3>2
        <5> QED
          BY <3>2, <3>5, <5>1 DEF Find
      <4>2. Awaited(rooms'[i].name, net', cur, srooms)
        BY <2>3, <3>2, <3>5, <4>1
      <4> QED
        BY <3>1, <3>2, <3>5, <4>2
    <3> QED
      BY <2>2, <3>2, <3>3, <3>4, <3>5
  <2>6. ASSUME e.type = "sub_ok", Rename(g, name),
               NEW i \in 1..Len(rooms'), rooms'[i].name \in Names
        PROVE  \/ Known(rooms'[i], v, srooms)
               \/ /\ Awaited(rooms'[i].name, net', cur, srooms)
                  /\ \A j \in 1..Len(rooms') : rooms'[j].name = rooms'[i].name => j = i
    <3>1. /\ Len(rooms') = Len(rooms)
          /\ \A j \in 1..Len(rooms) :
                /\ rooms'[j].id = rooms[j].id
                /\ rooms'[j].name = IF j \in Find("id", g) THEN name ELSE rooms[j].name
      BY <1>7, <2>6
    <3>2. i \in 1..Len(rooms)
      BY <3>1
    <3>3. CASE i \in Find("id", g)
      <4>1. rooms'[i].name = name /\ rooms'[i].id = g
        BY <3>1, <3>2, <3>3 DEF Find
      <4> QED
        BY <1>1, <1>4, <4>1 DEF Known
    <3>4. CASE i \notin Find("id", g) /\ Known(rooms[i], n, srooms)
      BY <1>1, <3>1, <3>2, <3>4 DEF Known
    <3>5. CASE /\ i \notin Find("id", g) /\ Awaited(rooms[i].name, net, cur, srooms)
               /\ \A j \in 1..Len(rooms) : rooms[j].name = rooms[i].name => j = i
      <4>1. rooms'[i].name = rooms[i].name
        BY <3>1, <3>2, <3>5
      <4>2. rooms[i].name # name
        BY <1>1, <2>6, <3>5 DEF Awaited, name
      <4>3. Awaited(rooms'[i].name, net', cur, srooms)
        BY <2>3, <2>6, <3>5, <4>1
      <4>4. \A j \in 1..Len(rooms') : rooms'[j].name = rooms'[i].name => j = i
        BY <3>1, <3>5, <4>1, <4>2
      <4> QED
        BY <4>3, <4>4
    <3> QED
      BY <2>2, <2>6, <3>1, <3>2, <3>3, <3>4, <3>5
  <2>7. v.task # "ending" /\ Desub \notin Held(v)
    BY <1>1, <2>2
  <2> QED
    BY <1>5, <2>5, <2>6, <2>7
<1> QED
  BY <1>8, <1>9, <1>10, <1>11 DEF Tracking

\* At first there are no rooms.
LEMMA TrackingInit == Init => Tracking
<1> SUFFICES ASSUME Init PROVE Tracking
  OBVIOUS
<1>1. /\ \A k \in Conns : /\ net[k].subs = {} /\ net[k].spawned = {} /\ net[k].cmds = <<>>
                          /\ net[k].up = <<>> /\ net[k].owed = <<>> /\ net[k].down = <<>>
                          /\ net[k].events = <<>>
      /\ status = "disconnected" /\ rooms = <<>> /\ srooms = <<>>
  BY DEF Init
<1>2. Elements(<<>>) = {}
  BY DEF Elements
<1>3. \A k \in Conns : Held(net[k]) = {} /\ Asked(net[k]) = {} /\ Told(net[k]) = {}
  BY <1>1, <1>2 DEF Held, Asked, Told
<1>4. Genuine
  BY <1>1, <1>3 DEF Genuine
<1>5. Named
  <2>1. /\ \A i \in 1..Len(rooms) : FALSE
        /\ \A i \in 1..Len(srooms) : FALSE
    BY <1>1
  <2> QED
    BY <1>3, <2>1 DEF Named
<1>6. Unmade
  BY <1>3 DEF Unmade
<1>7. Tracked
  BY <1>1 DEF Tracked
<1> QED
  BY <1>4, <1>5, <1>6, <1>7 DEF Tracking

LEMMA TrackingStep ==
  ASSUME DistinctNames, TypeOK, TypeOK', Alive, Tracking, [Next]_vars
  PROVE  Tracking'
<1>1. CASE Connect
  BY <1>1, ConnectTracking
<1>2. CASE \/ DoSend \/ Disconnect
           \/ \E id \in TypedIds : DoSubscribe(id)
           \/ \E i \in 1..Len(rooms) : Select(i) \/ Unsubscribe(rooms[i].id)
  BY <1>2, PlainClicks
<1>3. CASE \E name \in Names : DoCreate(name)
  BY <1>3, CreateTracking
<1>4. CASE Poll
  <2>1. status' = "connected" => status \in {"connecting", "connected"}
    BY AliveStep
  <2>2. CASE Head(net[cur].events).type \in {"csub_ok", "sub_ok"}
    BY <1>4, <2>2, PollConfirmsTracking
  <2>3. CASE Head(net[cur].events).type \notin {"csub_ok", "sub_ok"}
    BY <1>4, <2>1, <2>3, PollOthersTracking
  <2> QED
    BY <2>2, <2>3
<1>5. ASSUME NEW k \in Conns,
             Task(k) \/ TaskRefused(k) \/ Reader(k) \/ Server(k) \/ SessionEnds(k)
      PROVE  Tracking'
  <2>1. Carries(k) \/ \E l : Confirms(k, l)
    BY <1>5, SendCommandCarries, TaskBeginsCarries, TaskLoopCarries, TaskEndsCarries,
       ReaderCarries, ReplyCarries, ServeFacts DEF Task, Server
  <2> QED
    BY <2>1, CarriesTracking, ConfirmsTracking
<1>6. CASE \E name \in OtherNames : OtherCreates(name)
  BY <1>6, OthersTracking
<1>7. CASE \E r \in 1..Len(srooms) : OtherPosts(r)
  BY <1>7, PostTracking
<1>8. CASE UNCHANGED vars
  <2>1. UNCHANGED <<status, rooms, cur, net, srooms, clicks>>
    BY <1>8 DEF vars
  <2>2. UNCHANGED <<Genuine, Named, Unmade, Tracked>>
    BY <2>1 DEF Genuine, Named, Unmade, Tracked
  <2> QED
    BY <2>2 DEF Tracking
<1> QED
  BY <1>1, <1>2, <1>3, <1>4, <1>5, <1>6, <1>7, <1>8 DEF Next, User

\* Nothing is awaited any more once everything is settled.
LEMMA TrackingReconciles == ASSUME TypeOK, Alive, Tracking PROVE Reconciled
<1> SUFFICES ASSUME Settled, NEW i \in 1..Len(rooms), rooms[i].name \in Names
             PROVE  rooms[i].id \in net[cur].subs /\ srooms[rooms[i].id] = rooms[i].name
  BY DEF Reconciled
<1> DEFINE n == net[cur]
<1>1. /\ status = "connected" /\ n.session = "open"
      /\ n.spawned = {} /\ n.cmds = <<>> /\ n.up = <<>>
      /\ n.owed = <<>> /\ n.down = <<>> /\ n.events = <<>>
  BY DEF Settled
<1>2. cur \in Conns /\ cur # 0 /\ n \in Connection
  <2>1. cur \in Conns
    BY <1>1, InUse
  <2> QED
    BY <1>1, <2>1, OnConnection DEF Alive
<1>3. Up(n)
  <2>1. Healthy("connected", n)
    BY <1>1, <1>2 DEF Alive
  <2>2. ~Reports(n.events)
    BY <1>1 DEF Reports
  <2>3. n.task \notin {"none", "connecting", "done"}
    BY <2>1, <2>2 DEF Healthy
  <2>4. n.task \in {"looping", "ending"}
    BY <1>2, <2>3 DEF Connection
  <2> QED
    BY <1>1, <2>4 DEF Up
<1>4. Asked(n) = {} /\ Told(n) = {}
  <2>1. Elements(<<>>) = {}
    BY DEF Elements
  <2> QED
    BY <1>1, <2>1 DEF Asked, Held, Told
<1>5. ~Awaited(rooms[i].name, net, cur, srooms)
  BY <1>4 DEF Awaited
<1> QED
  BY <1>1, <1>3, <1>5 DEF Tracking, Tracked, Known

\* Once everything is settled each room of the list that has a real name has the
\* id by which the server knows it, if the user gives every room that he creates
\* a name of its own: however messages, confirmations and clicks cross each other,
\* and whatever became of earlier connections.
THEOREM IdsReconciled == ASSUME DistinctNames PROVE Spec => []Reconciled
<1>1. TypeOK /\ Alive /\ [Next]_vars => Alive'
  BY AliveStep
<1>2. TypeOK /\ TypeOK' /\ Alive /\ Tracking /\ [Next]_vars => Tracking'
  BY TrackingStep
<1>3. TypeOK /\ Alive /\ Tracking => Reconciled
  BY TrackingReconciles
<1> QED
  BY <1>1, <1>2, <1>3, AliveInit, TrackingInit, TypeCorrect, PTL DEF Spec
=============================================================================
