--------------------------- MODULE ServiceProcess ---------------------------
(***************************************************************************)
(* The service's process: the listener with its worker gate (RequestGate)  *)
(* and the connectivity monitor (ConnectivityMonitor) around one storage,  *)
(* started and stopped by one main thread.                                 *)
(*                                                                         *)
(* The main thread's steps in the two components are interleaved here in   *)
(* run_proxy_service's order: serve, start the monitor and kick it, wait;  *)
(* shut the loop down, stop the monitor, close the listener, drain, close  *)
(* the storage.  The monitor is a daemon thread: nobody joins it, so the   *)
(* storage may close under it, and the process ends without it.            *)
(***************************************************************************)
EXTENDS GateParameters

CONSTANT MaxAwards  \* bound: awards ever queued

ASSUME AwardsAssumption == MaxAwards \in Nat

VARIABLES
    conn, permits, threads, loop, held, main, joining, listening,
    stopAsked, loopStop, storage,
    step, kicked, stopped, watch, online, read, pending, queued, reachable

gateVars == <<conn, permits, threads, loop, held, main, joining, listening,
              stopAsked, loopStop, storage>>
sweepVars == <<step, kicked, stopped, watch, online, read, pending, queued, reachable>>
vars == <<gateVars, sweepVars>>

\* watch is what the main thread has done to the monitor.
Gate == INSTANCE RequestGate
Sweep == INSTANCE ConnectivityMonitor WITH main <- watch

TypeOK == Gate!TypeOK /\ Sweep!TypeOK

-----------------------------------------------------------------------------
(* Clients, workers and the network.                                       *)

Arrive(c) == Gate!Arrive(c) /\ UNCHANGED sweepVars
Signal == Gate!Signal /\ UNCHANGED sweepVars
NetworkChange == Sweep!NetworkChange /\ UNCHANGED gateVars

\* A request may queue an award on its way to its answer.
Handle(c) == Gate!Handle(c) /\ (Sweep!QueueAward \/ UNCHANGED sweepVars)
Release(c) == Gate!Release(c) /\ UNCHANGED sweepVars

Serving == Gate!Serving /\ UNCHANGED sweepVars

-----------------------------------------------------------------------------
(* The main thread.                                                        *)

StartServing == Gate!StartServing /\ UNCHANGED sweepVars
StartFails == Gate!StartFails /\ UNCHANGED sweepVars
StartMonitor == Gate!StartMonitor /\ Sweep!StartMonitor
Kick == Sweep!Kick /\ UNCHANGED gateVars

AskLoopToEnd ==
    /\ watch = "serve"
    /\ Gate!AskLoopToEnd
    /\ UNCHANGED sweepVars
LoopHasEnded == Gate!LoopHasEnded /\ UNCHANGED sweepVars

\* The finally clause, however the try was left: connectivity_monitor.stop(),
\* server.server_close(), storage.close().
StopEvent ==
    /\ main = "close"
    /\ Sweep!StopEvent
    /\ UNCHANGED gateVars
StopKick == Sweep!StopKick /\ UNCHANGED gateVars

CloseListener ==
    /\ watch = "stopped"
    /\ Gate!CloseListener
    /\ UNCHANGED sweepVars
Drain ==
    /\ (\E c \in Conns : Gate!Join(c)) \/ Gate!JoinRaises \/ Gate!Drained \/ Gate!CloseStorage
    /\ UNCHANGED sweepVars

Main ==
    \/ StartServing \/ StartFails \/ StartMonitor \/ Kick \/ AskLoopToEnd \/ LoopHasEnded
    \/ StopEvent \/ StopKick \/ CloseListener \/ Drain

-----------------------------------------------------------------------------
(* The monitor, as long as the process is there.                           *)

Sleeps ==
    \/ Sweep!TestStop \/ Sweep!Probe \/ Sweep!SaveRaises
    \/ Sweep!Wake \/ Sweep!Interval \/ Sweep!Clear

\* What touches the storage: a closed one makes the look count as nothing
\* pending, and leaves a flush nothing but to raise.  With the storage open
\* either may fail as well.
Look == storage /\ Sweep!Look
LookFails == Sweep!LookFails
Flush == storage /\ Sweep!Flush
FlushRaises == Sweep!FlushRaises

Alive == main # "exit" /\ UNCHANGED gateVars
MonitorLooks == Look /\ Alive
Monitor == (Sleeps \/ Look \/ LookFails \/ Flush \/ FlushRaises) /\ Alive

Init == Gate!Init /\ Sweep!Init

Next ==
    \/ \E c \in Conns : Arrive(c) \/ Handle(c) \/ Release(c)
    \/ Signal \/ NetworkChange
    \/ Serving
    \/ Main
    \/ Monitor

Spec == Init /\ [][Next]_vars

\* Every thread that can step does: the loop polls, a worker's socket and its
\* upstream calls have timeouts, the interval runs out, and a storage error
\* does not repeat for ever.  Clients, signals and the network are free.
FairSpec ==
    /\ Spec
    /\ WF_vars(Serving)
    /\ WF_vars(Main)
    /\ \A c \in Conns : WF_vars(Handle(c) \/ Release(c))
    /\ WF_vars(Monitor)
    /\ SF_vars(MonitorLooks)

-----------------------------------------------------------------------------
(* Properties.                                                             *)

\* Once stop() has returned the monitor never sleeps out an interval.
NeverSleepsThroughStop == Sweep!NeverSleepsThroughStop

\* SIGTERM ends the service whatever workers and monitor are doing, and the
\* storage is closed by then unless a thread that never started is joined.
StopEnds ==
    stopAsked ~> /\ main = "exit"
                 /\ storage => \E c \in joining : conn[c] = "unstarted"

\* "queued awards would sit until the user happened to start another online
\* session" (ConnectivityMonitor.run) must not happen: while awards are pending
\* and the site is reachable, a monitor that lives and is not stopped goes on
\* flushing, however many of its flushes were deferred or cut short before.
KeepsTrying ==
    <>[](/\ pending > 0
         /\ reachable
         /\ ~stopped
         /\ step \notin {"unborn", "ended"})
        => []<>(step = "flush")

\* What the listener promises, with the monitor at work beside it: see
\* RequestGate for each.
PermitsConserved == Gate!PermitsConserved
DrainedBeforeClose == Gate!DrainedBeforeClose
EveryoneHears == Gate!EveryoneHears
=============================================================================
