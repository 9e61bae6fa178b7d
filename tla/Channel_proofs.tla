--------------------------- MODULE Channel_proofs ---------------------------
(***************************************************************************)
(* Theorems about Channel<Message>, for any set of messages, any number of *)
(* writes and of threads, and either of its two readers.                   *)
(***************************************************************************)
EXTENDS Channel, SequenceTheorems, TLAPS

\* The variables keep their types: write(), close() and async_read() never
\* leave the queue, the flag or the reader in a state the code has no name for.
THEOREM TypeCorrect == Spec => []TypeOK
<1>1. Init => TypeOK
  BY EmptySeq DEF Init, TypeOK, ReaderStates
<1>2. TypeOK /\ [Next]_vars => TypeOK'
  <2> SUFFICES ASSUME TypeOK, [Next]_vars PROVE TypeOK'
    OBVIOUS
  <2> USE DEF TypeOK, ReaderStates
  <2>1. ASSUME NEW m \in Messages, Write(m) PROVE TypeOK'
    BY <2>1 DEF Write, Cancel
  <2>2. CASE Close
    BY <2>2 DEF Close, Cancel
  <2>3. CASE ReadLoop
    BY <2>3 DEF ReadLoop
  <2>4. CASE ReadPop
    BY <2>4 DEF ReadPop, Front
  <2>5. CASE ReadAbort
    BY <2>5 DEF ReadAbort, Exhausted
  <2>6. CASE ReadUnlock
    BY <2>6 DEF ReadUnlock
  <2>7. CASE ReadWait
    BY <2>7 DEF ReadWait
  <2>8. CASE Send
    BY <2>8 DEF Send, SendDone, SendFail
  <2>9. CASE UNCHANGED vars
    BY <2>9 DEF vars
  <2> QED
    BY <2>1, <2>2, <2>3, <2>4, <2>5, <2>6, <2>7, <2>8, <2>9 DEF Next, Read
<1> QED
  BY <1>1, <1>2, PTL DEF Spec

\* One step of write(), close() or async_read() keeps the queue a suffix of
\* what was accepted, with the messages received as the rest.
LEMMA FifoStep == TypeOK /\ Fifo /\ [Next]_vars => Fifo'
<1> SUFFICES ASSUME TypeOK, Fifo, [Next]_vars PROVE Fifo'
  OBVIOUS
<1>1. ASSUME NEW m \in Messages, Write(m) PROVE Fifo'
  <2>1. /\ Len(queue') = Len(queue) + 1 /\ queue'[Len(queue) + 1] = m
        /\ \A i \in 1..Len(queue) : queue'[i] = queue[i]
    BY <1>1, AppendProperties DEF Write, TypeOK
  <2>2. /\ Len(accepted') = Len(accepted) + 1 /\ accepted'[Len(accepted) + 1] = m
        /\ \A i \in 1..Len(accepted) : accepted'[i] = accepted[i]
    BY <1>1, AppendProperties DEF Write, TypeOK
  <2>3. received' = received /\ Len(received) \in Nat /\ Len(queue) \in Nat
    BY <1>1 DEF Write, TypeOK
  <2>4. \A i \in 1..Len(queue') : queue'[i] = accepted'[Len(received') + i]
    <3> TAKE i \in 1..Len(queue')
    <3>1. CASE i = Len(queue) + 1
      BY <2>1, <2>2, <2>3, <3>1 DEF Fifo
    <3>2. CASE i # Len(queue) + 1
      <4>1. i \in 1..Len(queue) /\ Len(received) + i \in 1..Len(accepted)
        BY <2>1, <2>3, <3>2 DEF Fifo
      <4> QED
        BY <4>1, <2>1, <2>2, <2>3 DEF Fifo
    <3> QED
      BY <3>1, <3>2
  <2>5. Len(accepted') = Len(received') + Len(queue')
    BY <2>1, <2>2, <2>3 DEF Fifo
  <2>6. \A i \in 1..Len(received') : received'[i] = accepted'[i]
    BY <2>2, <2>3 DEF Fifo
  <2> QED
    BY <2>4, <2>5, <2>6 DEF Fifo
<1>2. CASE Close
  BY <1>2 DEF Close, Fifo
<1>3. CASE ReadLoop \/ ReadAbort \/ ReadUnlock \/ ReadWait \/ Send \/ UNCHANGED vars
  BY <1>3 DEF ReadLoop, ReadAbort, Exhausted, ReadUnlock, ReadWait,
              Send, SendDone, SendFail, vars, Fifo
<1>4. CASE ReadPop
  <2>0. /\ Len(queue) \in Nat /\ Len(received) \in Nat
        /\ Len(accepted) = Len(received) + Len(queue)
    BY DEF TypeOK, Fifo
  <2>1. /\ Len(queue') = Len(queue) - 1
        /\ Len(received') = Len(received) + 1
        /\ accepted' = accepted
    BY <1>4 DEF ReadPop, Front, TypeOK, Fifo
  <2>2. \A i \in 1..Len(queue') : queue'[i] = queue[i + 1]
    BY <1>4 DEF ReadPop, Front, TypeOK, Fifo
  <2>3. received'[Len(received) + 1] = accepted[Len(received) + 1]
    BY <1>4 DEF ReadPop, Front, TypeOK, Fifo
  <2>4. \A i \in 1..Len(received) : received'[i] = received[i]
    BY <1>4 DEF ReadPop, Front, TypeOK, Fifo
  <2>5. \A i \in 1..Len(received') : received'[i] = accepted'[i]
    <3> TAKE i \in 1..Len(received')
    <3>1. i \in 1..Len(received) \/ i = Len(received) + 1
      BY <2>1, <2>0
    <3> QED
      BY <2>1, <2>3, <2>4, <3>1 DEF Fifo
  <2>6. \A i \in 1..Len(queue') : queue'[i] = accepted'[Len(received') + i]
    <3> TAKE i \in 1..Len(queue')
    <3>1. i + 1 \in 1..Len(queue) /\ Len(received) + (i + 1) = Len(received') + i
      BY <2>1, <2>0
    <3> QED
      BY <2>1, <2>2, <3>1 DEF Fifo
  <2>7. Len(accepted') = Len(received') + Len(queue')
    BY <2>0, <2>1
  <2> QED
    BY <2>5, <2>6, <2>7 DEF Fifo
<1> QED
  BY <1>1, <1>2, <1>3, <1>4 DEF Next, Read

\* write() and async_read() lose, duplicate and reorder nothing, in every
\* interleaving of any number of threads.
THEOREM FifoCorrect == Spec => []Fifo
<1>1. Init => Fifo
  BY DEF Init, Fifo
<1> QED
  BY <1>1, FifoStep, TypeCorrect, PTL DEF Spec

\* With one thread a reader never parks on the timer after the write() or the
\* close() that should have woken it: async_read is not interrupted between
\* its critical section and its wait.
THEOREM NoLostWakeupOneThread ==
  ASSUME Threads = 1
  PROVE  Spec => []NoLostWakeup
<1> DEFINE Parked == reader \in {"unlocked", "waiting"} => queue = <<>> /\ ~closed
<1>1. Init => Parked
  BY DEF Init
<1>2. TypeOK /\ Parked /\ [Next]_vars => Parked'
  <2> SUFFICES ASSUME TypeOK, Parked, [Next]_vars PROVE Parked'
    OBVIOUS
  <2> USE DEF TypeOK, ReaderStates
  <2>1. ASSUME NEW m \in Messages, Write(m) PROVE Parked'
    BY <2>1 DEF Write, Cancel, OthersRun
  <2>2. CASE Close
    BY <2>2 DEF Close, Cancel, OthersRun
  <2>3. CASE ReadLoop \/ ReadPop \/ ReadAbort
    BY <2>3 DEF ReadLoop, ReadPop, Front, ReadAbort, Exhausted
  <2>4. CASE ReadUnlock \/ ReadWait \/ UNCHANGED vars
    BY <2>4 DEF ReadUnlock, ReadWait, vars
  <2>5. CASE Send
    BY <2>5 DEF Send, SendDone, SendFail
  <2> QED
    BY <2>1, <2>2, <2>3, <2>4, <2>5 DEF Next, Read
<1>3. Parked => NoLostWakeup
  BY DEF NoLostWakeup
<1> QED
  BY <1>1, <1>2, <1>3, TypeCorrect, PTL DEF Spec

\* Every interleaving of write(), close(), async_read() and of sends that
\* complete, fail or hang is a behaviour of the abstract pipe: nothing is lost,
\* repeated or reordered on the way to the reader, spawn_listener leaves only a
\* closed channel, and socket_writer, unless a send failed, only a closed and
\* empty one.  What is left out is only the pipe's promise of progress.
THEOREM RefinesPipe == Spec => ImplementsPipe
<1>1. Init => P!Init
  BY DEF Init, P!Init
<1>2. TypeOK /\ Fifo /\ [Next]_vars => [P!Next]_P!pipeVars
  <2> SUFFICES ASSUME TypeOK, Fifo, [Next]_vars
               PROVE  [P!Next]_P!pipeVars
    OBVIOUS
  <2> USE DEF P!Next, P!pipeVars
  <2>1. ASSUME NEW m \in Messages, Write(m) PROVE P!Put(m)
    BY <2>1 DEF Write, Cancel, P!Put
  <2>2. CASE Close
    BY <2>2 DEF Close, Cancel, P!Shut
  <2>3. CASE ReadLoop
    <3>1. CASE ChecksOpen /\ closed
      BY <2>3, <3>1 DEF ReadLoop, P!Leave
    <3>2. CASE ~(ChecksOpen /\ closed)
      BY <2>3, <3>2 DEF ReadLoop
    <3> QED
      BY <3>1, <3>2
  <2>4. CASE ReadPop
    <3>1. /\ Len(received) < Len(accepted)
          /\ Head(queue) = accepted[Len(received) + 1]
      BY <2>4 DEF ReadPop, Front, TypeOK, Fifo
    <3> QED
      BY <2>4, <3>1 DEF ReadPop, Front, P!Take
  <2>5. CASE ReadAbort
    <3>1. Len(received) = Len(accepted)
      BY <2>5 DEF ReadAbort, Exhausted, TypeOK, Fifo
    <3> QED
      BY <2>5, <3>1 DEF ReadAbort, Exhausted, P!Leave
  <2>6. CASE ReadUnlock \/ ReadWait \/ UNCHANGED vars
    BY <2>6 DEF ReadUnlock, ReadWait, vars
  <2>7. CASE Send
    BY <2>7 DEF Send, SendDone, SendFail, P!Back
  <2> QED
    BY <2>1, <2>2, <2>3, <2>4, <2>5, <2>6, <2>7 DEF Next, Read
<1> QED
  BY <1>1, <1>2, TypeCorrect, FifoCorrect, PTL
  DEF Spec, ImplementsPipe, P!Spec
=============================================================================
