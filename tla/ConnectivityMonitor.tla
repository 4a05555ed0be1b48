------------------------- MODULE ConnectivityMonitor -------------------------
(***************************************************************************)
(* The sparse reachability sweep: a thread that, while awards are pending, *)
(* probes the site and flushes, and sleeps on an event in between.  The    *)
(* main thread kicks it once after local readiness and stops it at         *)
(* shutdown: stop() sets two events, one after the other.                  *)
(*                                                                         *)
(* One flush replays some of the rows it read, all of them, or none: it    *)
(* may be deferred or cut short.  The loop has no try: what raises in it,  *)
(* but for the look at the queue, ends the thread for good.  Whether the   *)
(* site answers is the environment's.                                      *)
(***************************************************************************)
EXTENDS Naturals

CONSTANT MaxAwards  \* bound: awards ever queued

VARIABLES
    step,       \* the monitor thread
    kicked,     \* _kick
    stopped,    \* stop_event
    main,       \* the main thread: what it has done to the monitor
    online,     \* was_online: the verdict last saved
    read,       \* pending rows the flush under way has read
    pending,    \* pending awards
    queued,     \* awards ever queued
    reachable   \* the site would answer

monitorVars == <<step, online, read>>
vars == <<step, kicked, stopped, main, online, read, pending, queued, reachable>>

Steps == {"unborn", "test", "look", "probe", "flush", "sleep", "clear", "ended"}
MainSteps == {"start", "kick", "serve", "stopping", "stopped"}

TypeOK ==
    /\ step \in Steps
    /\ kicked \in BOOLEAN
    /\ stopped \in BOOLEAN
    /\ main \in MainSteps
    /\ online \in BOOLEAN
    /\ read \in 0..MaxAwards
    /\ pending \in 0..queued
    /\ queued \in 0..MaxAwards
    /\ reachable \in BOOLEAN

-----------------------------------------------------------------------------
(* The world around the monitor.                                           *)

\* A request worker queues an award, at any moment, also during the drain.
QueueAward ==
    /\ queued < MaxAwards
    /\ queued' = queued + 1
    /\ pending' = pending + 1
    /\ UNCHANGED <<monitorVars, kicked, stopped, main, reachable>>

NetworkChange ==
    /\ reachable' = ~reachable
    /\ UNCHANGED <<monitorVars, kicked, stopped, main, pending, queued>>

\* connectivity_monitor.start(), then kick().
StartMonitor ==
    /\ main = "start"
    /\ step' = "test"
    /\ main' = "kick"
    /\ UNCHANGED <<kicked, stopped, online, read, pending, queued, reachable>>

Kick ==
    /\ main = "kick"
    /\ kicked' = TRUE
    /\ main' = "serve"
    /\ UNCHANGED <<monitorVars, stopped, pending, queued, reachable>>

\* stop(), from the finally clause: also when the monitor never started.
StopEvent ==
    /\ main \in {"start", "serve"}
    /\ stopped' = TRUE
    /\ main' = "stopping"
    /\ UNCHANGED <<monitorVars, kicked, pending, queued, reachable>>

\* Mutant of StopKick: the sleep is not cut short.
StopWithoutKick ==
    /\ main = "stopping"
    /\ kicked' = kicked
    /\ main' = "stopped"
    /\ UNCHANGED <<monitorVars, stopped, pending, queued, reachable>>

StopKick ==
    /\ main = "stopping"
    /\ kicked' = TRUE
    /\ main' = "stopped"
    /\ UNCHANGED <<monitorVars, stopped, pending, queued, reachable>>

-----------------------------------------------------------------------------
(* The monitor: ConnectivityMonitor.run.                                   *)

Goto(s) == step' = s

TestStop ==
    /\ step = "test"
    /\ Goto(IF stopped THEN "ended" ELSE "look")
    /\ UNCHANGED <<kicked, stopped, main, online, read, pending, queued, reachable>>

\* _has_pending_awards; a storage error counts as nothing pending.
Look ==
    /\ step = "look"
    /\ \/ pending > 0 /\ Goto("probe")
       \/ pending = 0 /\ Goto("sleep")
    /\ UNCHANGED <<kicked, stopped, main, online, read, pending, queued, reachable>>

LookFails ==
    /\ step = "look"
    /\ Goto("sleep")
    /\ UNCHANGED <<kicked, stopped, main, online, read, pending, queued, reachable>>

\* refresh_reachability(force_probe=True); the verdict is saved when it has
\* changed, and a flush reads the table.
Probe ==
    /\ step = "probe"
    /\ Goto(IF reachable THEN "flush" ELSE "sleep")
    /\ online' = reachable
    /\ read' = IF reachable THEN pending ELSE 0
    /\ UNCHANGED <<kicked, stopped, main, pending, queued, reachable>>

\* save_online_state raises: a card that is full or gone.
SaveRaises ==
    /\ step = "probe"
    /\ reachable # online
    /\ Goto("ended")
    /\ UNCHANGED <<kicked, stopped, main, online, read, pending, queued, reachable>>

\* flush_pending_awards: of the rows read any number may be left, the site
\* still reachable or not: a flush is deferred without the owner's login or
\* over two owners, and a row whose sending fails stays.
Flush ==
    /\ step = "flush"
    /\ \E n \in 0..read : pending' = pending - n
    /\ read' = 0
    /\ Goto("sleep")
    /\ UNCHANGED <<kicked, stopped, main, online, queued, reachable>>

\* A flush that raises, after any number of rows, ends the thread.
FlushRaises ==
    /\ step = "flush"
    /\ \E n \in 0..read : pending' = pending - n
    /\ read' = 0
    /\ Goto("ended")
    /\ UNCHANGED <<kicked, stopped, main, online, queued, reachable>>

\* _kick.wait(60): woken by the event, or by the interval running out.
Wake ==
    /\ step = "sleep"
    /\ kicked
    /\ Goto("clear")
    /\ UNCHANGED <<kicked, stopped, main, online, read, pending, queued, reachable>>

\* Mutant of Interval: the sleep ends by an event only.
NoInterval == step = "sleep" /\ FALSE /\ UNCHANGED vars

Interval ==
    /\ step = "sleep"
    /\ Goto("clear")
    /\ UNCHANGED <<kicked, stopped, main, online, read, pending, queued, reachable>>

Clear ==
    /\ step = "clear"
    /\ kicked' = FALSE
    /\ Goto("test")
    /\ UNCHANGED <<stopped, main, online, read, pending, queued, reachable>>

Monitor ==
    \/ TestStop \/ Look \/ LookFails \/ Probe \/ SaveRaises \/ Flush \/ FlushRaises
    \/ Wake \/ Interval \/ Clear

Init ==
    /\ step = "unborn"
    /\ kicked = FALSE
    /\ stopped = FALSE
    /\ main = "start"
    /\ online = FALSE
    /\ read = 0
    /\ pending \in 0..MaxAwards
    /\ queued = pending
    /\ reachable \in BOOLEAN

Next ==
    \/ QueueAward \/ NetworkChange
    \/ StartMonitor \/ Kick \/ StopEvent \/ StopKick
    \/ Monitor

Spec == Init /\ [][Next]_vars

-----------------------------------------------------------------------------
(* Properties.                                                             *)

\* Once stop() has returned the monitor never sleeps out an interval: its
\* event is set, or it has yet to test stop_event (stop sets stop_event first,
\* and the loop clears _kick before it tests).
NeverSleepsThroughStop == main = "stopped" /\ step = "sleep" => kicked

-----------------------------------------------------------------------------
(* The inductive invariant.                                                *)

\* Rows only join the table while a flush is under way.
ReadIsPending == read <= pending

\* stop() sets stop_event first: a monitor that is past its test of it when
\* stop() has returned tested before, and has the kick still to see.
StopIsSeen ==
    /\ main \in {"stopping", "stopped"} => stopped
    /\ main = "stopped" /\ step \in {"look", "probe", "flush", "sleep"} => kicked

IInv == TypeOK /\ ReadIsPending /\ StopIsSeen
=============================================================================
