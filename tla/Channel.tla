------------------------------- MODULE Channel -------------------------------
(***************************************************************************)
(* Channel<Message> of channel.hpp: a deque and a closed flag guarded by a *)
(* mutex, with a steady_timer that never expires standing in for a         *)
(* condition variable.  Any coroutine may write() or close(); exactly one  *)
(* coroutine reads: spawn_listener for a room's channel, socket_writer for *)
(* a session's write channel.  The listener hands what it read to another  *)
(* channel and is back at once; the writer sends it to its client first,   *)
(* and this may take for ever or fail.                                     *)
(*                                                                         *)
(* A critical section of mutex_ never waits, so each is one action.  What  *)
(* is not inside the mutex is the step from the end of the critical        *)
(* section of async_read (line 52) to the registration of the wait on the  *)
(* timer (line 54); it is an action of its own, and with more than one     *)
(* thread running the io_context other coroutines run in between.          *)
(***************************************************************************)
EXTENDS Naturals, Sequences

CONSTANTS
    Messages,    \* the messages that are written
    MaxWrites,   \* bound: how many messages the channel accepts
    Threads,     \* threads that run the io_context (serve's thread_count)
    ChecksOpen   \* TRUE: the reader is spawn_listener, which looks at is_open()
                 \* before each read; FALSE: it is socket_writer, which does not,
                 \* and which sends each message before it reads the next

ASSUME ChannelAssumption ==
    /\ MaxWrites \in Nat
    /\ Threads \in Nat \ {0}
    /\ ChecksOpen \in BOOLEAN

VARIABLES
    queue,       \* queue_
    closed,      \* closed_
    reader,      \* where the reading coroutine is
    accepted,    \* history: the messages write() queued, in order
    received     \* history: the messages async_read returned, in order

vars == <<queue, closed, reader, accepted, received>>

\* "top"      at the head of its loop, outside async_read
\* "check"    about to lock mutex_ in async_read
\* "unlocked" found nothing, released mutex_, has not reached the timer yet
\* "waiting"  its async_wait is outstanding on the timer
\* "sending"  socket_writer's async_send is outstanding on the socket
\* "done"     left its loop
ReaderStates == {"top", "check", "unlocked", "waiting", "sending", "done"}

TypeOK ==
    /\ queue \in Seq(Messages)
    /\ closed \in BOOLEAN
    /\ reader \in ReaderStates
    /\ accepted \in Seq(Messages)
    /\ received \in Seq(Messages)

Init ==
    /\ queue = <<>>
    /\ closed = FALSE
    /\ reader = "top"
    /\ accepted = <<>>
    /\ received = <<>>

\* Mutant: nobody cancels the timer.
NoCancel == UNCHANGED reader

\* timer_.cancel() completes the wait that is outstanding, if there is one;
\* it leaves no trace for a wait that is registered later.
Cancel == reader' = IF reader = "waiting" THEN "check" ELSE reader

\* With a single thread no other coroutine runs until the reader suspends.
OthersRun == Threads > 1 \/ reader # "unlocked"

\* Mutant: the value is used after it was moved from.
WriteMovedFrom(m) ==
    /\ OthersRun
    /\ Len(accepted) < MaxWrites
    /\ ~closed
    /\ queue' = Append(queue, "moved from")
    /\ accepted' = Append(accepted, m)
    /\ Cancel
    /\ UNCHANGED <<closed, received>>

\* write() on a closed channel returns at once: a step that changes nothing.
Write(m) ==
    /\ OthersRun
    /\ Len(accepted) < MaxWrites
    /\ ~closed
    /\ queue' = Append(queue, m)
    /\ accepted' = Append(accepted, m)
    /\ Cancel
    /\ UNCHANGED <<closed, received>>

Close ==
    /\ OthersRun
    /\ closed' = TRUE
    /\ Cancel
    /\ UNCHANGED <<queue, accepted, received>>

\* The head of the reader's loop: spawn_listener leaves when !is_open(),
\* socket_writer's condition "is_open() || true" always holds.
ReadLoop ==
    /\ reader = "top"
    /\ reader' = IF ChecksOpen /\ closed THEN "done" ELSE "check"
    /\ UNCHANGED <<queue, closed, accepted, received>>

\* Mutant: the message that was queued last.
LastQueued == queue[Len(queue)]

\* queue_.front()
Front == Head(queue)

\* async_read's critical section pops a message, which socket_writer goes on
\* to send ...
ReadPop ==
    /\ reader = "check"
    /\ queue # <<>>
    /\ queue' = Tail(queue)
    /\ received' = Append(received, Front)
    /\ reader' = IF ChecksOpen THEN "top" ELSE "sending"
    /\ UNCHANGED <<closed, accepted>>

\* Mutant: closed_ is looked at before the queue.
ClosedFirst == closed

\* Nothing is left to read, and nothing will come.
Exhausted == queue = <<>> /\ closed

\* ... or throws operation_aborted, which ends the reader's loop ...
ReadAbort ==
    /\ reader = "check"
    /\ Exhausted
    /\ reader' = "done"
    /\ UNCHANGED <<queue, closed, accepted, received>>

\* ... or sets the expiry to time_point::max() and releases the mutex.
ReadUnlock ==
    /\ reader = "check"
    /\ queue = <<>>
    /\ ~closed
    /\ reader' = "unlocked"
    /\ UNCHANGED <<queue, closed, accepted, received>>

\* co_await timer_.async_wait(...)
ReadWait ==
    /\ reader = "unlocked"
    /\ reader' = "waiting"
    /\ UNCHANGED <<queue, closed, accepted, received>>

Read == ReadLoop \/ ReadPop \/ ReadAbort \/ ReadUnlock \/ ReadWait

\* co_await s.async_send(...) completes ...
SendDone ==
    /\ reader = "sending"
    /\ reader' = "top"
    /\ UNCHANGED <<queue, closed, accepted, received>>

\* ... or throws, which ends socket_writer's loop whatever the channel holds.
SendFail ==
    /\ reader = "sending"
    /\ reader' = "done"
    /\ UNCHANGED <<queue, closed, accepted, received>>

Send == SendDone \/ SendFail

Next == (\E m \in Messages : Write(m)) \/ Close \/ Read \/ Send

Spec == Init /\ [][Next]_vars

\* The io_context runs every coroutine that is ready; nobody has to write or
\* close, and a send to a peer that takes nothing never completes.
FairSpec == Spec /\ WF_vars(Read)
-----------------------------------------------------------------------------
\* What the reader got and what is still queued is exactly what write()
\* accepted, in the order of the calls: write() and async_read() lose,
\* duplicate and reorder nothing, however they interleave.
Fifo ==
    /\ Len(accepted) = Len(received) + Len(queue)
    /\ \A i \in 1..Len(received) : received[i] = accepted[i]
    /\ \A i \in 1..Len(queue) : queue[i] = accepted[Len(received) + i]

\* A reader parked on the timer has nothing to read and nobody closed the
\* channel: no write() or close() came too early for its cancel() to reach
\* the wait of async_read.
NoLostWakeup == reader = "waiting" => queue = <<>> /\ ~closed

\* Every message that write() accepted is passed to the reading coroutine,
\* unless that has left its loop, a spawn_listener on a closed channel or a
\* socket_writer after a failed send, or is held up by a send that never
\* completes.
MessagesPassedOn ==
    []<>(reader # "sending") =>
        \A n \in 1..MaxWrites :
            Len(accepted) >= n ~> (Len(received) >= n \/ reader = "done")

\* The channel is a pipe whose consumer is patient when it is socket_writer.
P == INSTANCE Pipe WITH
        Patient <- ~ChecksOpen,
        sent <- accepted,
        got <- received,
        shut <- closed,
        consumer <- IF reader = "sending" THEN "busy"
                    ELSE IF reader = "done" THEN "gone" ELSE "ready"

\* In every interleaving, on any number of threads, the channel loses, repeats
\* and reorders nothing, and its reader leaves an open channel, or socket_writer
\* one that still holds something, only over a send that failed.
ImplementsPipe == P!Spec

\* With one thread the channel also keeps the pipe's promise never to leave
\* hanging a reader that is ready for the next message or for the end.
ImplementsFairPipe == P!FairSpec
=============================================================================
