----------------------- MODULE ServerLifecycle_proofs -----------------------
(***************************************************************************)
(* The server process does not end under its sessions: theorems about      *)
(* serve(), serve_async() and accept_connections(), for any number of      *)
(* clients and threads, failing accepts and signals.                       *)
(***************************************************************************)
EXTENDS ServerLifecycle, TLAPS

\* The types hold, whatever fails and whenever a signal comes.
THEOREM TypeCorrect == Spec => []TypeOK
<1>1. Init => TypeOK
  BY LifecycleAssumption DEF Init, TypeOK, ServeStates, LoopStates, ClientStates
<1>2. TypeOK /\ [Next]_vars => TypeOK'
  <2> SUFFICES ASSUME TypeOK, [Next]_vars PROVE TypeOK'
    OBVIOUS
  <2> USE DEF TypeOK
  <2>1. CASE StartThreads
    BY <2>1 DEF StartThreads, Workers
  <2>2. ASSUME NEW t \in 1..ThreadCount, ThreadLeaves(t) PROVE TypeOK'
    BY <2>2 DEF ThreadLeaves
  <2>3. CASE ServeReturns
    BY <2>3 DEF ServeReturns
  <2>4. CASE Listen \/ ListenThrows \/ CloseAcceptor
    BY <2>4 DEF Listen, ListenThrows, CloseAcceptor, ServeStates, LoopStates
  <2>5. CASE ServeAsyncReturns
    BY <2>5 DEF ServeAsyncReturns, ResetGuard, ServeStates
  <2>6. CASE Signal
    BY <2>6, LifecycleAssumption DEF Signal, ServeStates
  <2>7. ASSUME NEW c \in Clients, AcceptOne(c) \/ SpawnSession(c) PROVE TypeOK'
    BY <2>7 DEF AcceptOne, SpawnSession, LoopAgain, LoopStates, ClientStates
  <2>8. CASE AcceptFails
    BY <2>8, LifecycleAssumption DEF AcceptFails, LoopStates
  <2>9. CASE AcceptHandler
    BY <2>9 DEF AcceptHandler, LoopStates
  <2>10. ASSUME NEW c \in Clients, Knock(c) \/ SessionEnds(c) \/ SessionUnwinds(c)
         PROVE  TypeOK'
    BY <2>10 DEF Knock, SessionEnds, SessionUnwinds, ClientStates
  <2>11. CASE UNCHANGED vars
    BY <2>11 DEF vars
  <2> QED
    BY <2>1, <2>2, <2>3, <2>4, <2>5, <2>6, <2>7, <2>8, <2>9, <2>10, <2>11
       DEF Next, Server, AcceptLoop, Over
<1> QED
  BY <1>1, <1>2, PTL DEF Spec

\* How far serve_async has come shows in the guard, the acceptor and the loop:
\* the guard is reset only at the end, by then the acceptor is closed, and a
\* loop was started unless bind() threw.
Progress ==
    /\ work_guard = FALSE => serve = "returned"
    /\ serve \in {"closed", "returned"} => acceptor = "closed"
    /\ serve \notin {"spawned", "threw"} => loop # "none"

\* Every step keeps Progress.
LEMMA ProgressStep == TypeOK /\ Progress /\ [Next]_vars => Progress'
<1> SUFFICES ASSUME TypeOK, Progress, [Next]_vars PROVE Progress'
  OBVIOUS
<1> USE DEF TypeOK, Progress
<1>1. CASE StartThreads \/ ServeReturns \/ \E t \in 1..ThreadCount : ThreadLeaves(t)
  BY <1>1 DEF StartThreads, ServeReturns, ThreadLeaves
<1>2. CASE Listen \/ ListenThrows
  BY <1>2 DEF Listen, ListenThrows
<1>3. CASE CloseAcceptor \/ ServeAsyncReturns
  BY <1>3 DEF CloseAcceptor, ServeAsyncReturns, ResetGuard
<1>4. CASE Signal
  BY <1>4 DEF Signal
<1>5. CASE AcceptFails \/ AcceptHandler \/ \E c \in Clients : AcceptOne(c) \/ SpawnSession(c)
  BY <1>5 DEF AcceptFails, AcceptHandler, AcceptOne, SpawnSession, LoopAgain
<1>6. CASE \E c \in Clients : Knock(c) \/ SessionEnds(c) \/ SessionUnwinds(c)
  BY <1>6 DEF Knock, SessionEnds, SessionUnwinds
<1>7. CASE UNCHANGED vars
  BY <1>7 DEF vars
<1> QED
  BY <1>1, <1>2, <1>3, <1>4, <1>5, <1>6, <1>7 DEF Next, Server, AcceptLoop, Over

\* Once nothing is outstanding nothing comes up any more: serve_async has
\* returned, the loop is over, and only the loop starts sessions.
LEMMA WorkStaysDone ==
  ASSUME TypeOK, Progress, [Next]_vars, ~Work
  PROVE  ~Work'
<1>1. /\ work_guard = FALSE /\ serve = "returned" /\ loop = "done"
      /\ \A c \in Clients : ~InSession(c)
  BY DEF TypeOK, Progress, Work
<1> USE DEF TypeOK, Work, InSession
<1>2. CASE StartThreads \/ ServeReturns \/ \E t \in 1..ThreadCount : ThreadLeaves(t)
  BY <1>1, <1>2 DEF StartThreads, ServeReturns, ThreadLeaves
<1>3. CASE Listen \/ ListenThrows \/ CloseAcceptor \/ ServeAsyncReturns
  BY <1>1, <1>3 DEF Listen, ListenThrows, CloseAcceptor, ServeAsyncReturns
<1>4. CASE Signal
  BY <1>1, <1>4 DEF Signal
<1>5. CASE AcceptFails \/ AcceptHandler \/ \E c \in Clients : AcceptOne(c) \/ SpawnSession(c)
  BY <1>1, <1>5 DEF AcceptFails, AcceptHandler, AcceptOne, SpawnSession
<1>6. CASE \E c \in Clients : Knock(c) \/ SessionEnds(c) \/ SessionUnwinds(c)
  BY <1>1, <1>6 DEF Knock, SessionEnds, SessionUnwinds
<1>7. CASE UNCHANGED vars
  BY <1>1, <1>7 DEF vars
<1> QED
  BY <1>2, <1>3, <1>4, <1>5, <1>6, <1>7 DEF Next, Server, AcceptLoop, Over

\* The last thread is out of run() only when nothing is outstanding, and
\* serve() returns only then.
Joined ==
    /\ process \in {"running", "exited"} /\ threads = {} => ~Work
    /\ process = "exited" => threads = {}

\* Every step keeps Joined.
LEMMA JoinedStep ==
  ASSUME TypeOK, Progress, Joined, [Next]_vars
  PROVE  Joined'
<1>1. CASE StartThreads
  <2>1. ThreadCount = 0 \/ 1 \in Workers
    BY LifecycleAssumption DEF Workers
  <2>2. process' # "exited" /\ (process' = "running" => 1 \in threads')
    BY <1>1, <2>1 DEF StartThreads
  <2> QED
    BY <2>2 DEF Joined
<1>2. ASSUME NEW t \in 1..ThreadCount, ThreadLeaves(t) PROVE Joined'
  BY <1>2, WorkStaysDone DEF ThreadLeaves, Joined, Running
<1>3. CASE ServeReturns
  BY <1>3, WorkStaysDone DEF ServeReturns, Joined, Running
<1>4. CASE Signal
  <2>1. threads' = threads /\ process' # "exited" /\ (process' = "running" => process = "running")
    <3>1. process \in {"starting", "running"} /\ process' \in {process, "killed"}
          /\ threads' = threads /\ serve \in ServeStates
      BY <1>4 DEF Signal, TypeOK
    <3> QED
      BY <3>1
  <2> QED
    BY <2>1, WorkStaysDone DEF Joined
<1>5. CASE /\ UNCHANGED <<process, threads>>
  BY <1>5, WorkStaysDone DEF Joined
<1> QED
  BY <1>1, <1>2, <1>3, <1>4, <1>5
     DEF Next, Server, AcceptLoop, Over, vars, Listen, ListenThrows, CloseAcceptor,
         ServeAsyncReturns, AcceptFails, AcceptHandler, AcceptOne, SpawnSession, Knock,
         SessionEnds, SessionUnwinds

\* ExitAfterSessions: run() returns in every thread only when the guard is
\* reset, the accept loop is over and every session has ended, so the process
\* never exits on a session that is still being served.
THEOREM ExitsAfterSessions == Spec => []ExitAfterSessions
<1>1. Init => Progress /\ Joined
  BY DEF Init, Progress, Joined
<1>2. TypeOK /\ Progress /\ Joined /\ [Next]_vars => Progress' /\ Joined'
  BY ProgressStep, JoinedStep
<1>3. TypeOK /\ Progress /\ Joined => ExitAfterSessions
  BY DEF TypeOK, Progress, Joined, Work, ExitAfterSessions
<1> QED
  BY <1>1, <1>2, <1>3, TypeCorrect, PTL DEF Spec
=============================================================================
