--------------------------- MODULE ServerLifecycle ---------------------------
(***************************************************************************)
(* The life of the server process: serve() and its threads, serve_async()  *)
(* with the acceptor and the signal set, accept_connections(), and the     *)
(* sessions as far as they keep the io_context busy.  What a session does  *)
(* is the subject of ChatServer.                                           *)
(*                                                                         *)
(* The io_context, the acceptor and the signal set are the library's: run()*)
(* returns in every thread once nothing is outstanding, close() aborts the *)
(* accept that is pending, and a signal that no signal set waits for ends  *)
(* the process.                                                            *)
(***************************************************************************)
EXTENDS Naturals, FiniteSets

CONSTANTS
    Clients,        \* connections that may come
    ThreadCount,    \* serve's thread_count; "-j0" makes it 0
    BindFails,      \* TRUE: bind() may throw, the port being taken
    MaxErrors,      \* bound: accepts that fail although the acceptor is open
    MaxSignals      \* bound: SIGINTs and SIGTERMs

ASSUME LifecycleAssumption ==
    /\ IsFiniteSet(Clients)
    /\ ThreadCount \in Nat
    /\ BindFails \in BOOLEAN
    /\ MaxErrors \in Nat
    /\ MaxSignals \in Nat

VARIABLES
    process,      \* "starting", "running", "exited", "killed" or "crashed"
    threads,      \* the threads that are in io_context.run()
    work_guard,   \* TRUE until work_guard.reset()
    serve,        \* where serve_async is
    acceptor,     \* m_tcp_server_acceptor
    loop,         \* where accept_connections is
    client,       \* what became of each connection
    errors,       \* accepts that failed on an open acceptor
    signals       \* signals sent to the process

vars == <<process, threads, work_guard, serve, acceptor, loop, client, errors, signals>>

\* "listening" waits for a signal; "closed" has closed the acceptor and runs
\* on to its end; its frame, with accept_done in it, is gone when it "returned".
ServeStates == {"spawned", "listening", "signalled", "closed", "returned", "threw"}
\* "accepting" waits in async_accept; "accepted" holds a socket; "returned" is
\* before the completion handler, which sets accept_done, and "done" after it.
LoopStates == {"none", "accepting", "accepted", "returned", "done"}
\* "served" while tcp_accept runs, "closing" when it has returned and a listener
\* or the writer of the session has not, "gone" when all have.
ClientStates == {"away", "knocking", "accepted", "served", "closing", "gone"}

TypeOK ==
    /\ process \in {"starting", "running", "exited", "killed", "crashed"}
    /\ threads \subseteq 1..ThreadCount
    /\ work_guard \in BOOLEAN
    /\ serve \in ServeStates
    /\ acceptor \in {"none", "open", "closed"}
    /\ loop \in LoopStates
    /\ client \in [Clients -> ClientStates]
    /\ errors \in 0..MaxErrors
    /\ signals \in 0..MaxSignals

Init ==
    /\ process = "starting"
    /\ threads = {}
    /\ work_guard = TRUE
    /\ serve = "spawned"
    /\ acceptor = "none"
    /\ loop = "none"
    /\ client = [c \in Clients |-> "away"]
    /\ errors = 0
    /\ signals = 0

Running == process = "running"

\* A single thread runs serve_async from the signal to its end without a break.
OthersRun == ThreadCount > 1 \/ serve # "closed"
-----------------------------------------------------------------------------
(* serve() *)

\* Mutant: the loop that starts the workers begins at zero.
OneMore == 0..ThreadCount

\* The jthreads and the main thread.
Workers == 1..ThreadCount

\* The jthreads are started and the main thread enters run(); for zero threads
\* thread_count - 1 wraps around, reserve() throws and nobody catches it.
StartThreads ==
    /\ process = "starting"
    /\ process' = IF ThreadCount = 0 THEN "crashed" ELSE "running"
    /\ threads' = Workers
    /\ UNCHANGED <<work_guard, serve, acceptor, loop, client, errors, signals>>

\* Mutant: the shutdown stops the io_context instead of letting it run out.
NotStopped == serve # "returned"

\* Some coroutine holds the connection, or a channel of its session.
InSession(c) == client[c] \in {"accepted", "served", "closing"}

\* What keeps run() from returning.
Work ==
    \/ work_guard
    \/ serve \notin {"returned", "threw"}
    \/ loop \notin {"none", "done"}
    \/ \E c \in Clients : InSession(c)

ThreadLeaves(t) ==
    /\ Running
    /\ t \in threads
    /\ ~Work
    /\ threads' = threads \ {t}
    /\ UNCHANGED <<process, work_guard, serve, acceptor, loop, client, errors, signals>>

\* The jthreads are joined, serve() and main() return.
ServeReturns ==
    /\ Running
    /\ threads = {}
    /\ process' = "exited"
    /\ UNCHANGED <<threads, work_guard, serve, acceptor, loop, client, errors, signals>>
-----------------------------------------------------------------------------
(* serve_async() *)

Listen ==
    /\ Running
    /\ serve = "spawned"
    /\ acceptor' = "open"
    /\ loop' = "accepting"
    /\ serve' = "listening"
    /\ UNCHANGED <<process, threads, work_guard, client, errors, signals>>

\* bind() throws; the lambda in serve() does not get to work_guard.reset().
ListenThrows ==
    /\ Running
    /\ BindFails
    /\ serve = "spawned"
    /\ serve' = "threw"
    /\ UNCHANGED <<process, threads, work_guard, acceptor, loop, client, errors, signals>>

\* A signal ends the wait of the signal set, is kept by it for a wait that
\* never comes, or finds no signal set and has its default effect.
Signal ==
    /\ process \in {"starting", "running"}
    /\ signals < MaxSignals
    /\ signals' = signals + 1
    /\ serve' = IF serve = "listening" THEN "signalled" ELSE serve
    /\ process' = IF serve \in {"listening", "signalled", "closed"} THEN process ELSE "killed"
    /\ UNCHANGED <<threads, work_guard, acceptor, loop, client, errors>>

\* serve_async closes the acceptor, which aborts the pending accept.
CloseAcceptor ==
    /\ Running
    /\ serve = "signalled"
    /\ acceptor' = "closed"
    /\ serve' = "closed"
    /\ UNCHANGED <<process, threads, work_guard, loop, client, errors, signals>>

\* Mutant: the lambda forgets the guard.
KeepGuard == UNCHANGED work_guard

ResetGuard == work_guard' = FALSE

\* It says "accept loop exited" and returns; the lambda resets the guard.
ServeAsyncReturns ==
    /\ Running
    /\ serve = "closed"
    /\ serve' = "returned"
    /\ ResetGuard
    /\ UNCHANGED <<process, threads, acceptor, loop, client, errors, signals>>
-----------------------------------------------------------------------------
(* accept_connections() *)

\* async_accept completes with a connection.
AcceptOne(c) ==
    /\ Running
    /\ OthersRun
    /\ loop = "accepting"
    /\ acceptor = "open"
    /\ client[c] = "knocking"
    /\ client' = [client EXCEPT ![c] = "accepted"]
    /\ loop' = "accepted"
    /\ UNCHANGED <<process, threads, work_guard, serve, acceptor, errors, signals>>

\* Mutant: the loop returns after its first connection.
LoopOver == loop' = "returned"

LoopAgain == loop' = "accepting"

\* The loop goes on: co_spawn of tcp_accept, whatever became of the acceptor
\* in the meantime, and the next async_accept.
SpawnSession(c) ==
    /\ Running
    /\ OthersRun
    /\ loop = "accepted"
    /\ client[c] = "accepted"
    /\ client' = [client EXCEPT ![c] = "served"]
    /\ LoopAgain
    /\ UNCHANGED <<process, threads, work_guard, serve, acceptor, errors, signals>>

\* async_accept fails: always when the acceptor is closed, and now and then on
\* an open one (no descriptor left, a connection that was aborted).  Either
\* way the loop is over for good.
AcceptFails ==
    /\ Running
    /\ OthersRun
    /\ loop = "accepting"
    /\ \/ acceptor = "closed" /\ UNCHANGED errors
       \/ acceptor = "open" /\ errors < MaxErrors /\ errors' = errors + 1
    /\ loop' = "returned"
    /\ UNCHANGED <<process, threads, work_guard, serve, acceptor, client, signals>>

\* The completion handler: accept_done = true.
AcceptHandler ==
    /\ Running
    /\ OthersRun
    /\ loop = "returned"
    /\ loop' = "done"
    /\ UNCHANGED <<process, threads, work_guard, serve, acceptor, client, errors, signals>>
-----------------------------------------------------------------------------
(* Clients *)

Knock(c) ==
    /\ Running
    /\ acceptor = "open"
    /\ client[c] = "away"
    /\ client' = [client EXCEPT ![c] = "knocking"]
    /\ UNCHANGED <<process, threads, work_guard, serve, acceptor, loop, errors, signals>>

\* The client hangs up or says desub, and tcp_accept closes the channels of the
\* session and returns.
SessionEnds(c) ==
    /\ Running
    /\ OthersRun
    /\ client[c] = "served"
    /\ client' = [client EXCEPT ![c] = "closing"]
    /\ UNCHANGED <<process, threads, work_guard, serve, acceptor, loop, errors, signals>>

\* The last listener or writer of the session returns; a lost wakeup or a send
\* may keep it from ever doing so.
SessionUnwinds(c) ==
    /\ Running
    /\ OthersRun
    /\ client[c] = "closing"
    /\ client' = [client EXCEPT ![c] = "gone"]
    /\ UNCHANGED <<process, threads, work_guard, serve, acceptor, loop, errors, signals>>
-----------------------------------------------------------------------------
Server ==
    \/ StartThreads \/ (\E t \in 1..ThreadCount : ThreadLeaves(t)) \/ ServeReturns
    \/ Listen \/ CloseAcceptor \/ ServeAsyncReturns

AcceptLoop ==
    \/ \E c \in Clients : AcceptOne(c) \/ SpawnSession(c)
    \/ loop = "accepting" /\ acceptor = "closed" /\ AcceptFails
    \/ AcceptHandler

\* The process is over.
Over == process \in {"exited", "killed", "crashed"} /\ UNCHANGED vars

Next ==
    \/ Server \/ ListenThrows \/ AcceptFails \/ AcceptLoop
    \/ Signal
    \/ \E c \in Clients : Knock(c) \/ SessionEnds(c) \/ SessionUnwinds(c)
    \/ Over

Spec == Init /\ [][Next]_vars

\* The threads run whatever is ready.  Nobody has to send a signal, connect or
\* hang up, and nothing is assumed of how long a session takes to unwind.
FairSpec == Spec /\ WF_vars(Server) /\ WF_vars(AcceptLoop)
-----------------------------------------------------------------------------
(* Properties *)

\* The process ends by itself only after every session has run to its end, its
\* listeners and its writer included, and the accept loop is over: no coroutine
\* is destroyed half way.
ExitAfterSessions ==
    process = "exited" =>
        /\ \A c \in Clients : ~InSession(c)
        /\ loop = "done"
        /\ acceptor = "closed"

\* A client that connects is served, unless the acceptor is closed, the accept
\* loop has run into an error or the process was killed.
ClientsServed ==
    \A c \in Clients :
        client[c] = "knocking" ~>
            \/ client[c] \in {"served", "closing", "gone"}
            \/ acceptor = "closed"
            \/ errors > 0
            \/ process = "killed"

\* After a signal the process ends once all the clients have hung up and the
\* coroutines of their sessions have returned: neither the work guard nor the
\* accept loop keeps run() going.
ShutdownWithoutClients ==
    <>[](serve \in {"signalled", "closed", "returned"}
            /\ \A c \in Clients : ~InSession(c))
        => <>(process \in {"exited", "killed"})
=============================================================================
