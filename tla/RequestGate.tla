----------------------------- MODULE RequestGate -----------------------------
(***************************************************************************)
(* The proxy's listener, its bounded worker gate, and the service's start  *)
(* and stop around them.                                                   *)
(*                                                                         *)
(* Three kinds of thread: the serving thread accepts connections and gives *)
(* each a worker thread, or refuses it when every permit is taken; the     *)
(* workers answer from the storage; the main thread starts the server,     *)
(* waits for the stop event, then shuts the loop down, closes the          *)
(* listener, joins the workers and closes the storage.                     *)
(*                                                                         *)
(* socketserver's loop, its list of worker threads and threading itself    *)
(* are external: starting a thread may raise.                              *)
(***************************************************************************)
EXTENDS GateParameters

VARIABLES
    conn,      \* conn[c]: what became of connection c
    permits,   \* _worker_gate: free permits
    threads,   \* _threads: the worker threads server_close will join
    loop,      \* the serving thread
    held,      \* the connection the serving thread has accepted
    main,      \* the main thread
    joining,   \* the threads server_close has taken and not joined yet
    listening, \* the listener is open
    stopAsked, \* SIGTERM or SIGINT set the stop event
    loopStop,  \* shutdown() asked the loop to end
    storage    \* the storage is open

mainVars == <<main, joining, listening, loopStop, storage>>
serverVars == <<conn, permits, threads, loop, held>>
vars == <<conn, permits, threads, loop, held, main, joining, listening,
          stopAsked, loopStop, storage>>

\* "unstarted" is a worker whose thread never ran: its connection is closed.
Fates == {"none", "backlog", "accepted", "admitted", "handling", "answered",
          "done", "refused", "closed", "unstarted"}
LoopSteps == {"unborn", "select", "gate", "spawn", "ended"}
MainSteps == {"start", "monitor", "wait", "shutdown", "close", "drain",
              "closeStorage", "exit"}

TypeOK ==
    /\ conn \in [Conns -> Fates]
    /\ permits \in 0..MaxWorkers
    /\ threads \subseteq Conns
    /\ loop \in LoopSteps
    /\ held \in Conns \cup {NoConn}
    /\ main \in MainSteps
    /\ joining \subseteq Conns
    /\ listening \in BOOLEAN
    /\ stopAsked \in BOOLEAN
    /\ loopStop \in BOOLEAN
    /\ storage \in BOOLEAN

\* A worker thread runs until it has released its permit.
Alive(c) == conn[c] \in {"handling", "answered"}
Set(c, fate) == conn' = [conn EXCEPT ![c] = fate]

-----------------------------------------------------------------------------
(* Clients and signals.                                                    *)

\* The socket is bound before it is served: a connection waits in between.
Arrive(c) ==
    /\ conn[c] = "none"
    /\ listening
    /\ Set(c, "backlog")
    /\ UNCHANGED <<permits, threads, loop, held, mainVars, stopAsked>>

Signal ==
    /\ ~stopAsked
    /\ stopAsked' = TRUE
    /\ UNCHANGED <<serverVars, mainVars>>

-----------------------------------------------------------------------------
(* The serving thread.                                                     *)

Accept(c) ==
    /\ loop = "select"
    /\ ~loopStop
    /\ listening
    /\ conn[c] = "backlog"
    /\ Set(c, "accepted")
    /\ held' = c
    /\ loop' = "gate"
    /\ UNCHANGED <<permits, threads, mainVars, stopAsked>>

\* process_request with every permit taken: 503, and the connection closes.
Refuse ==
    /\ loop = "gate"
    /\ permits = 0
    /\ Set(held, "refused")
    /\ held' = NoConn
    /\ loop' = "select"
    /\ UNCHANGED <<permits, threads, mainVars, stopAsked>>

TakePermit ==
    /\ loop = "gate"
    /\ permits > 0
    /\ permits' = permits - 1
    /\ Set(held, "admitted")
    /\ loop' = "spawn"
    /\ UNCHANGED <<threads, held, mainVars, stopAsked>>

\* The list drops the threads that have ended, then takes the new one.
Append(c) == threads' = {d \in threads : Alive(d)} \cup {c}

Spawn ==
    /\ loop = "spawn"
    /\ Append(held)
    /\ Set(held, "handling")
    /\ held' = NoConn
    /\ loop' = "select"
    /\ UNCHANGED <<permits, mainVars, stopAsked>>

\* Mutant of SpawnFails: the permit is not given back.
SpawnFailsKeepingPermit ==
    /\ loop = "spawn"
    /\ Append(held)
    /\ Set(held, "unstarted")
    /\ held' = NoConn
    /\ loop' = "select"
    /\ UNCHANGED <<permits, mainVars, stopAsked>>

\* Mutant of SpawnFails: the exception stops here, and nobody closes the
\* connection.
SpawnFailsQuietly ==
    /\ loop = "spawn"
    /\ Append(held)
    /\ permits' = permits + 1
    /\ Set(held, "accepted")
    /\ held' = NoConn
    /\ loop' = "select"
    /\ UNCHANGED <<mainVars, stopAsked>>

\* The thread cannot start: the permit comes back, the exception goes on and
\* the loop closes the connection.  The thread is in the list already.
SpawnFails ==
    /\ loop = "spawn"
    /\ Append(held)
    /\ permits' = permits + 1
    /\ Set(held, "unstarted")
    /\ held' = NoConn
    /\ loop' = "select"
    /\ UNCHANGED <<mainVars, stopAsked>>

EndLoop ==
    /\ loop = "select"
    /\ loopStop
    /\ loop' = "ended"
    /\ UNCHANGED <<conn, permits, threads, held, mainVars, stopAsked>>

Serving == (\E c \in Conns : Accept(c)) \/ Refuse \/ TakePermit \/ Spawn \/ SpawnFails \/ EndLoop

-----------------------------------------------------------------------------
(* A worker thread: it answers, closes its connection, then releases.      *)

Handle(c) ==
    /\ conn[c] = "handling"
    /\ Set(c, "answered")
    /\ UNCHANGED <<permits, threads, loop, held, mainVars, stopAsked>>

Release(c) ==
    /\ conn[c] = "answered"
    /\ permits' = permits + 1
    /\ Set(c, "done")
    /\ UNCHANGED <<threads, loop, held, mainVars, stopAsked>>

-----------------------------------------------------------------------------
(* The main thread: run_proxy_service, from the bound server on.           *)

\* serving_thread.start(); server.ready = True.
StartServing ==
    /\ main = "start"
    /\ loop' = "select"
    /\ main' = "monitor"
    /\ UNCHANGED <<conn, permits, threads, held, joining, listening, stopAsked, loopStop, storage>>

\* Either start raises: straight to the finally clause, past shutdown.
StartFails ==
    /\ main \in {"start", "monitor"}
    /\ main' = "close"
    /\ UNCHANGED <<serverVars, joining, listening, stopAsked, loopStop, storage>>

StartMonitor ==
    /\ main = "monitor"
    /\ main' = "wait"
    /\ UNCHANGED <<serverVars, joining, listening, stopAsked, loopStop, storage>>

\* Mutant of AskLoopToEnd: the loop is not asked to end.
WaitWithoutAsking ==
    /\ main = "wait"
    /\ stopAsked
    /\ loopStop' = loopStop
    /\ main' = "shutdown"
    /\ UNCHANGED <<serverVars, joining, listening, stopAsked, storage>>

\* shutdown() sets the request and waits until the loop has ended.
AskLoopToEnd ==
    /\ main = "wait"
    /\ stopAsked
    /\ loopStop' = TRUE
    /\ main' = "shutdown"
    /\ UNCHANGED <<serverVars, joining, listening, stopAsked, storage>>

LoopHasEnded ==
    /\ main = "shutdown"
    /\ loop = "ended"
    /\ main' = "close"
    /\ UNCHANGED <<serverVars, joining, listening, stopAsked, loopStop, storage>>

\* Mutant of CloseListener: workers are not joined (block_on_close off).
CloseWithoutWorkers ==
    /\ main = "close"
    /\ listening' = FALSE
    /\ conn' = [c \in Conns |-> IF conn[c] = "backlog" THEN "closed" ELSE conn[c]]
    /\ joining' = {}
    /\ threads' = {}
    /\ main' = "drain"
    /\ UNCHANGED <<permits, loop, held, stopAsked, loopStop, storage>>

\* server_close: the listener closes, and what waited in its backlog with it.
CloseListener ==
    /\ main = "close"
    /\ listening' = FALSE
    /\ conn' = [c \in Conns |-> IF conn[c] = "backlog" THEN "closed" ELSE conn[c]]
    /\ joining' = threads
    /\ threads' = {}
    /\ main' = "drain"
    /\ UNCHANGED <<permits, loop, held, stopAsked, loopStop, storage>>

Join(c) ==
    /\ main = "drain"
    /\ c \in joining
    /\ conn[c] = "done"
    /\ joining' = joining \ {c}
    /\ UNCHANGED <<serverVars, main, listening, stopAsked, loopStop, storage>>

\* Joining a thread that never started raises: the storage is not closed.
JoinRaises ==
    /\ main = "drain"
    /\ \E c \in joining : conn[c] = "unstarted"
    /\ main' = "exit"
    /\ UNCHANGED <<serverVars, joining, listening, stopAsked, loopStop, storage>>

Drained ==
    /\ main = "drain"
    /\ joining = {}
    /\ main' = "closeStorage"
    /\ UNCHANGED <<serverVars, joining, listening, stopAsked, loopStop, storage>>

CloseStorage ==
    /\ main = "closeStorage"
    /\ storage' = FALSE
    /\ main' = "exit"
    /\ UNCHANGED <<serverVars, joining, listening, stopAsked, loopStop>>

Main ==
    \/ StartServing \/ StartFails \/ StartMonitor \/ AskLoopToEnd \/ LoopHasEnded
    \/ CloseListener \/ (\E c \in Conns : Join(c)) \/ JoinRaises \/ Drained \/ CloseStorage

Init ==
    /\ conn = [c \in Conns |-> "none"]
    /\ permits = MaxWorkers
    /\ threads = {}
    /\ loop = "unborn"
    /\ held = NoConn
    /\ main = "start"
    /\ joining = {}
    /\ listening = TRUE
    /\ stopAsked = FALSE
    /\ loopStop = FALSE
    /\ storage = TRUE

Next ==
    \/ \E c \in Conns : Arrive(c) \/ Handle(c) \/ Release(c)
    \/ Signal
    \/ Serving
    \/ Main

Spec == Init /\ [][Next]_vars

-----------------------------------------------------------------------------
(* Properties.                                                             *)

\* A permit is out for every connection between the gate and its release, and
\* for no other, even when a worker thread cannot be started: the gate never
\* leaks a permit and never lets more than MaxWorkers in.
Inside == {c \in Conns : conn[c] \in {"admitted", "handling", "answered"}}
PermitsConserved == permits + Cardinality(Inside) = MaxWorkers

\* After a stop that was asked for, no request runs against a closed storage:
\* the loop has ended and server_close has joined every worker that was ever
\* admitted (block_on_close).  A start that failed skips shutdown() and gives
\* no such promise.
DrainedBeforeClose == ~storage /\ loopStop => Inside = {}

\* A connection the listener took is answered, refused or closed in the end.
\* A connection never goes back to an earlier fate, so all that must not happen
\* is that one of them stays between its arrival and its last.
EveryoneHears ==
    <>[](\A c \in Conns : conn[c] \in {"none", "done", "refused", "closed", "unstarted"})

-----------------------------------------------------------------------------
(* The inductive invariant.                                                *)

\* Between the accept and the spawn the serving thread holds the connection
\* the step is about, and only that one has been admitted and not started.
HeldIsAtTheGate ==
    /\ loop = "gate" => held \in Conns /\ conn[held] = "accepted"
    /\ loop = "spawn" => held \in Conns /\ conn[held] = "admitted"
    /\ \A c \in Conns : conn[c] = "admitted" => loop = "spawn" /\ c = held

\* Dropping ended threads from the list loses no worker that still runs.
WorkersAreListed == \A c \in Conns : Alive(c) => c \in threads \cup joining

\* What the order of the main thread's steps makes of the loop and the workers.
StopsInOrder ==
    /\ main = "start" => loop = "unborn"
    /\ main \in {"start", "monitor", "wait"} => ~loopStop
    /\ loop = "ended" => loopStop
    /\ loopStop /\ main # "shutdown" => loop = "ended"
    /\ main \in {"start", "monitor", "wait", "shutdown", "close", "closeStorage"} => joining = {}
    /\ loopStop /\ main \in {"drain", "closeStorage", "exit"} => threads = {}
    /\ ~storage => main = "exit" /\ joining = {}

IInv ==
    /\ TypeOK
    /\ HeldIsAtTheGate
    /\ WorkersAreListed
    /\ StopsInOrder
    /\ PermitsConserved
=============================================================================
