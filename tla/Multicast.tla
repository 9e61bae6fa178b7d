------------------------------ MODULE Multicast ------------------------------
(***************************************************************************)
(* What the chat rooms promise their subscribers, without mutexes, loops   *)
(* or threads: posting to a room is one step, which puts the message into  *)
(* the box of everyone else who is in the room.  Who leaves while a        *)
(* message is being posted may miss that one.                              *)
(***************************************************************************)
EXTENDS Naturals, Sequences

CONSTANTS
    Sessions,    \* who may subscribe and post
    Boxes,       \* names for subscriptions; each is used once
    NoSession    \* the owner of a box that is not in use yet

VARIABLES
    logs,        \* for each room who posted, in order
    box          \* the subscriptions and what was put into them

multicastVars == <<logs, box>>

Unused == [owner |-> NoSession, room |-> 0, in |-> <<>>, out |-> 0, open |-> TRUE]

Members(r) == {b \in Boxes : box[b].room = r /\ box[b].open}

Init ==
    /\ logs = <<>>
    /\ box = [b \in Boxes |-> Unused]

Open ==
    /\ logs' = Append(logs, <<>>)
    /\ UNCHANGED box

\* Nobody is in a room twice.
Join(b) ==
    /\ box[b] = Unused
    /\ \E s \in Sessions, r \in 1..Len(logs) :
          /\ \A a \in Members(r) : box[a].owner # s
          /\ box' = [box EXCEPT ![b].owner = s, ![b].room = r]

\* The n-th message of the room goes to all others who are in it, at once.
Post(s, r) ==
    LET n == Len(logs[r]) + 1
    IN  /\ logs' = [logs EXCEPT ![r] = Append(@, s)]
        /\ \E b \in Members(r) : box[b].owner = s
        /\ box' = [b \in Boxes |->
                     IF b \in Members(r) /\ box[b].owner # s
                     THEN [box[b] EXCEPT !.in = Append(@, n)] ELSE box[b]]

Take(b) ==
    /\ box[b].out < Len(box[b].in)
    /\ box' = [box EXCEPT ![b].out = @ + 1]

\* All that was posted is in the box, but perhaps the room's latest message.
Leave(b) ==
    LET in == box[b].in
        n == Len(in)
    IN  /\ box[b].owner # NoSession /\ box[b].open
        /\ \/ box' = [box EXCEPT ![b].open = FALSE]
           \/ /\ n > box[b].out
              /\ in[n] = Len(logs[box[b].room])
              /\ box' = [box EXCEPT ![b].open = FALSE, ![b].in = SubSeq(in, 1, n - 1)]

Next ==
    \/ Open
    \/ \E s \in Sessions, r \in 1..Len(logs) : Post(s, r)
    \/ /\ \E b \in Boxes : Join(b) \/ Take(b) \/ Leave(b)
       /\ UNCHANGED logs

Spec == Init /\ [][Next]_multicastVars
=============================================================================
