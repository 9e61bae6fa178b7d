-------------------------------- MODULE Pipe --------------------------------
(***************************************************************************)
(* What a Channel promises to the coroutines that share it, without its    *)
(* mutex, its timer or its threads: a first-in first-out pipe that can be  *)
(* shut.  Whatever was put in before the pipe was shut comes out once, in  *)
(* order.  The one consumer may be kept busy by what it took, for ever if  *)
(* need be, and may give the pipe up over it; a consumer that is ready     *)
(* leaves only after the pipe was shut, and a patient one only once the    *)
(* pipe is empty as well.                                                  *)
(***************************************************************************)
EXTENDS Naturals, Sequences

CONSTANTS
    Messages,   \* what can be put into the pipe
    Patient     \* TRUE: the consumer empties a shut pipe before it leaves

VARIABLES
    sent,       \* everything the pipe accepted, oldest first
    got,        \* everything that came out, oldest first
    shut,       \* the pipe accepts nothing more
    consumer    \* "ready" to take, "busy" with what it took, or "gone"

pipeVars == <<sent, got, shut, consumer>>

Init ==
    /\ sent = <<>>
    /\ got = <<>>
    /\ shut = FALSE
    /\ consumer = "ready"

Put(m) ==
    /\ ~shut
    /\ sent' = Append(sent, m)
    /\ UNCHANGED <<got, shut, consumer>>

Shut ==
    /\ shut' = TRUE
    /\ UNCHANGED <<sent, got, consumer>>

\* Only a patient consumer has something to do with what it took.
Take ==
    /\ consumer = "ready"
    /\ Len(got) < Len(sent)
    /\ got' = Append(got, sent[Len(got) + 1])
    /\ consumer' = IF Patient THEN "busy" ELSE "ready"
    /\ UNCHANGED <<sent, shut>>

\* It is through with what it took, or fails over it and does not come back.
Back ==
    /\ consumer = "busy"
    /\ consumer' \in {"ready", "gone"}
    /\ UNCHANGED <<sent, got, shut>>

Leave ==
    /\ consumer = "ready"
    /\ shut
    /\ Patient => Len(got) = Len(sent)
    /\ consumer' = "gone"
    /\ UNCHANGED <<sent, got, shut>>

Next == (\E m \in Messages : Put(m)) \/ Shut \/ Take \/ Back \/ Leave

Spec == Init /\ [][Next]_pipeVars

\* A consumer that is ready is never left hanging on a pipe that holds
\* something, nor on one that was shut.  Nobody promises that a busy one comes
\* back.
FairSpec == Spec /\ WF_pipeVars(Take) /\ WF_pipeVars(Leave)
=============================================================================
