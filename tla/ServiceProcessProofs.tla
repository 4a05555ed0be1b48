------------------------ MODULE ServiceProcessProofs ------------------------
(***************************************************************************)
(* Proofs about the service's process: the listener and the monitor around *)
(* one main thread, for any finite set of connections and any number of    *)
(* permits and awards.                                                     *)
(*                                                                         *)
(* Every step of the process is a step of the listener or leaves it alone, *)
(* and the same for the monitor.  What RequestGateProofs shows of the      *)
(* listener so holds here, and the monitor's one invariant is shown of the *)
(* monitor's own steps.                                                    *)
(***************************************************************************)
EXTENDS ServiceProcess, TLAPS

GateProofs == INSTANCE RequestGateProofs

-----------------------------------------------------------------------------
(* The listener.                                                           *)

\* Every step of the process is a step of the listener, or of others.
LEMMA StepIsAGateStep == [Next]_vars => [Gate!Next]_(Gate!vars)
<1> SUFFICES ASSUME [Next]_vars, gateVars' # gateVars PROVE Gate!Next
    BY DEF gateVars, Gate!vars
<1>1. ASSUME NEW c \in Conns, Arrive(c) \/ Handle(c) \/ Release(c)
      PROVE  Gate!Next
  BY <1>1 DEF Arrive, Handle, Release, Gate!Next
<1>2. CASE Signal
  BY <1>2 DEF Signal, Gate!Next
<1>3. CASE Serving
  BY <1>3 DEF Serving, Gate!Next
<1>4. CASE Main
  <2>1. CASE StartServing \/ StartFails \/ StartMonitor \/ AskLoopToEnd \/ LoopHasEnded
    BY <2>1 DEF StartServing, StartFails, StartMonitor, AskLoopToEnd, LoopHasEnded, Gate!Main,
       Gate!Next
  <2>2. CASE CloseListener \/ Drain
    BY <2>2 DEF CloseListener, Drain, Gate!Main, Gate!Next
  <2>3. CASE Kick \/ StopEvent \/ StopKick
    BY <2>3 DEF Kick, StopEvent, StopKick
  <2>4. QED
    BY <1>4, <2>1, <2>2, <2>3 DEF Main
<1>5. CASE NetworkChange \/ Monitor \/ UNCHANGED vars
  BY <1>5 DEF NetworkChange, Monitor, Alive, vars, gateVars
<1>6. QED
  BY <1>1, <1>2, <1>3, <1>4, <1>5 DEF Next

\* The assumptions of the listener's proofs are those of the process.
LEMMA GateAssumptions == GateProofs!IsFiniteSet(Conns)
BY ConnsFinite DEF IsFiniteSet, GateProofs!IsFiniteSet

\* The instance of the proofs speaks of the listener's own states ...
LEMMA SameState ==
    /\ Gate!Init => GateProofs!Init
    /\ GateProofs!PermitsConserved => PermitsConserved
    /\ GateProofs!DrainedBeforeClose => DrainedBeforeClose
<1>1. Gate!Init => GateProofs!Init
    BY DEF Gate!Init, GateProofs!Init
<1>2. GateProofs!Inside = Gate!Inside
    BY DEF GateProofs!Inside, Gate!Inside
<1>3. GateProofs!Cardinality(Gate!Inside) = Gate!Cardinality(Gate!Inside)
    BY DEF GateProofs!Cardinality, Gate!Cardinality, GateProofs!IsFiniteSet, Gate!IsFiniteSet
<1>4. QED
    BY <1>1, <1>2, <1>3 DEF PermitsConserved, DrainedBeforeClose, GateProofs!PermitsConserved,
       GateProofs!DrainedBeforeClose, Gate!PermitsConserved, Gate!DrainedBeforeClose

\* ... and of its own steps.
LEMMA SameSteps == Gate!Next => GateProofs!Next
<1> SUFFICES ASSUME Gate!Next PROVE GateProofs!Next
    OBVIOUS
<1> USE DEF Gate!Set, GateProofs!Set, Gate!mainVars, GateProofs!mainVars,
            Gate!serverVars, GateProofs!serverVars
<1>1. ASSUME NEW c \in Conns, Gate!Arrive(c) \/ Gate!Handle(c) \/ Gate!Release(c)
      PROVE  GateProofs!Next
  <2>1. GateProofs!Arrive(c) \/ GateProofs!Handle(c) \/ GateProofs!Release(c)
    BY <1>1 DEF Gate!Arrive, GateProofs!Arrive, Gate!Handle, GateProofs!Handle,
       Gate!Release, GateProofs!Release
  <2>2. QED
    BY <2>1 DEF GateProofs!Next
<1>2. CASE Gate!Signal
  BY <1>2 DEF Gate!Signal, GateProofs!Signal, GateProofs!Next
<1>3. CASE Gate!Serving
  <2> USE DEF Gate!Append, GateProofs!Append, Gate!Alive, GateProofs!Alive
  <2>1. ASSUME NEW c \in Conns, Gate!Accept(c)
        PROVE  GateProofs!Accept(c)
    BY <2>1 DEF Gate!Accept, GateProofs!Accept
  <2>2. Gate!Refuse => GateProofs!Refuse
    BY DEF Gate!Refuse, GateProofs!Refuse
  <2>3. Gate!TakePermit => GateProofs!TakePermit
    BY DEF Gate!TakePermit, GateProofs!TakePermit
  <2>4. Gate!Spawn => GateProofs!Spawn
    BY DEF Gate!Spawn, GateProofs!Spawn
  <2>5. Gate!SpawnFails => GateProofs!SpawnFails
    BY DEF Gate!SpawnFails, GateProofs!SpawnFails
  <2>6. Gate!EndLoop => GateProofs!EndLoop
    BY DEF Gate!EndLoop, GateProofs!EndLoop
  <2>7. QED
    BY <1>3, <2>1, <2>2, <2>3, <2>4, <2>5, <2>6
    DEF Gate!Serving, GateProofs!Serving, GateProofs!Next
<1>4. CASE Gate!Main
  <2>1. Gate!StartServing => GateProofs!StartServing
    BY DEF Gate!StartServing, GateProofs!StartServing
  <2>2. Gate!StartFails => GateProofs!StartFails
    BY DEF Gate!StartFails, GateProofs!StartFails
  <2>3. Gate!StartMonitor => GateProofs!StartMonitor
    BY DEF Gate!StartMonitor, GateProofs!StartMonitor
  <2>4. Gate!AskLoopToEnd => GateProofs!AskLoopToEnd
    BY DEF Gate!AskLoopToEnd, GateProofs!AskLoopToEnd
  <2>5. Gate!LoopHasEnded => GateProofs!LoopHasEnded
    BY DEF Gate!LoopHasEnded, GateProofs!LoopHasEnded
  <2>6. Gate!CloseListener => GateProofs!CloseListener
    BY DEF Gate!CloseListener, GateProofs!CloseListener
  <2>7. ASSUME NEW c \in Conns, Gate!Join(c)
        PROVE  GateProofs!Join(c)
    BY <2>7 DEF Gate!Join, GateProofs!Join
  <2>8. Gate!JoinRaises \/ Gate!Drained => GateProofs!JoinRaises \/ GateProofs!Drained
    BY DEF Gate!JoinRaises, GateProofs!JoinRaises, Gate!Drained, GateProofs!Drained
  <2>9. Gate!CloseStorage => GateProofs!CloseStorage
    BY DEF Gate!CloseStorage, GateProofs!CloseStorage
  <2>10. QED
    BY <1>4, <2>1, <2>2, <2>3, <2>4, <2>5, <2>6, <2>7, <2>8, <2>9
    DEF Gate!Main, GateProofs!Main, GateProofs!Next
<1>5. QED
  BY <1>1, <1>2, <1>3, <1>4 DEF Gate!Next

\* The listener's invariant, of the process.
LEMMA GateInvariance == Spec => []GateProofs!IInv
<1>1. Init => GateProofs!IInv
  <2>1. Init => GateProofs!Init
    BY SameState DEF Init
  <2>2. QED
    BY <2>1, GateAssumptions, GateProofs!InitIInv, WorkersAssumption, NoConnAssumption
<1>2. [Next]_vars => [GateProofs!Next]_(GateProofs!vars)
    BY StepIsAGateStep, SameSteps DEF Gate!vars, GateProofs!vars
<1>3. GateProofs!IInv /\ [Next]_vars => GateProofs!IInv'
    BY <1>2, GateAssumptions, GateProofs!StepIInv, WorkersAssumption, NoConnAssumption
<1>4. QED
    BY <1>1, <1>3, PTL DEF Spec

\* Never more than MaxWorkers requests at once, and no permit is lost, with the
\* monitor at work beside the listener (process_request).
THEOREM PermitsAreConserved == Spec => []PermitsConserved
<1>1. GateProofs!IInv => PermitsConserved
    BY SameState DEF GateProofs!IInv
<1>2. QED
    BY <1>1, GateInvariance, PTL

\* After a stop that was asked for, no request runs against a closed storage,
\* whatever the monitor does meanwhile (run_proxy_service's finally clause).
THEOREM DrainsBeforeClose == Spec => []DrainedBeforeClose
<1>1. GateProofs!IInv => DrainedBeforeClose
    BY GateProofs!IInvDrains, GateAssumptions, WorkersAssumption, NoConnAssumption, SameState
<1>2. QED
    BY <1>1, GateInvariance, PTL

-----------------------------------------------------------------------------
(* The monitor.                                                            *)

\* Every step of the process is a step of the monitor, or of others.
LEMMA StepIsASweepStep == [Next]_vars => [Sweep!Next]_(Sweep!vars)
<1> SUFFICES ASSUME [Next]_vars, sweepVars' # sweepVars PROVE Sweep!Next
    BY DEF sweepVars, Sweep!vars
<1>1. ASSUME NEW c \in Conns, Arrive(c) \/ Handle(c) \/ Release(c)
      PROVE  Sweep!Next
  BY <1>1 DEF Arrive, Handle, Release, Sweep!Next
<1>2. CASE Signal \/ Serving \/ UNCHANGED vars
  BY <1>2 DEF Signal, Serving, vars
<1>3. CASE NetworkChange
  BY <1>3 DEF NetworkChange, Sweep!Next
<1>4. CASE Main
  BY <1>4 DEF Main, StartServing, StartFails, StartMonitor, Kick, AskLoopToEnd, LoopHasEnded,
     StopEvent, StopKick, CloseListener, Drain, Sweep!Next
<1>5. CASE Monitor
  BY <1>5 DEF Monitor, Sleeps, Look, LookFails, Flush, FlushRaises, Sweep!Monitor, Sweep!Next
<1>6. QED
  BY <1>1, <1>2, <1>3, <1>4, <1>5 DEF Next

\* A process that has not started its monitor.
LEMMA InitSweep == Init => Sweep!IInv
<1> SUFFICES ASSUME Sweep!Init PROVE Sweep!IInv
    BY DEF Init
<1> USE DEF Sweep!Init
<1>1. read \in 0..MaxAwards /\ pending \in 0..queued /\ queued \in 0..MaxAwards
    BY AwardsAssumption
<1>2. Sweep!TypeOK
    BY <1>1, Zenon DEF Sweep!TypeOK, Sweep!Steps, Sweep!MainSteps
<1>3. Sweep!ReadIsPending /\ Sweep!StopIsSeen
    BY AwardsAssumption DEF Sweep!ReadIsPending, Sweep!StopIsSeen
<1>4. QED
    BY <1>2, <1>3 DEF Sweep!IInv

\* The world around the monitor: kicks, stop()'s two events, new awards.
LEMMA AroundSweep ==
    ASSUME Sweep!IInv,
           \/ Sweep!QueueAward \/ Sweep!NetworkChange \/ Sweep!StartMonitor
           \/ Sweep!Kick \/ Sweep!StopEvent \/ Sweep!StopKick
    PROVE  Sweep!IInv'
<1> USE AwardsAssumption DEF Sweep!IInv, Sweep!TypeOK, Sweep!ReadIsPending, Sweep!StopIsSeen,
        Sweep!monitorVars
<1>1. CASE Sweep!QueueAward
  BY <1>1 DEF Sweep!QueueAward
<1>2. CASE Sweep!NetworkChange
  BY <1>2 DEF Sweep!NetworkChange
<1>3. CASE Sweep!StartMonitor
  BY <1>3 DEF Sweep!StartMonitor, Sweep!Steps, Sweep!MainSteps
<1>4. CASE Sweep!Kick
  BY <1>4 DEF Sweep!Kick, Sweep!MainSteps
<1>5. CASE Sweep!StopEvent
  BY <1>5 DEF Sweep!StopEvent, Sweep!MainSteps
<1>6. CASE Sweep!StopKick
  BY <1>6 DEF Sweep!StopKick, Sweep!MainSteps
<1>7. QED
  BY <1>1, <1>2, <1>3, <1>4, <1>5, <1>6

\* The monitor's own steps: it clears the kick only on its way to the test.
LEMMA MonitorSweep ==
    ASSUME Sweep!IInv, Sweep!Monitor
    PROVE  Sweep!IInv'
<1> USE AwardsAssumption DEF Sweep!IInv, Sweep!TypeOK, Sweep!ReadIsPending, Sweep!StopIsSeen,
        Sweep!Goto, Sweep!Steps
<1>1. CASE Sweep!TestStop
  BY <1>1 DEF Sweep!TestStop
<1>2. CASE Sweep!Look \/ Sweep!LookFails
  BY <1>2 DEF Sweep!Look, Sweep!LookFails
<1>3. CASE Sweep!Probe
  BY <1>3 DEF Sweep!Probe
<1>4. CASE Sweep!SaveRaises
  BY <1>4 DEF Sweep!SaveRaises
<1>5. ASSUME Sweep!Flush \/ Sweep!FlushRaises
      PROVE  Sweep!IInv'
  <2>1. PICK n \in 0..read : pending' = pending - n
    BY <1>5 DEF Sweep!Flush, Sweep!FlushRaises
  <2>2. pending' \in 0..queued
    BY <2>1
  <2>3. QED
    BY <1>5, <2>2 DEF Sweep!Flush, Sweep!FlushRaises
<1>6. CASE Sweep!Wake \/ Sweep!Interval
  BY <1>6 DEF Sweep!Wake, Sweep!Interval
<1>7. CASE Sweep!Clear
  BY <1>7 DEF Sweep!Clear
<1>8. QED
  BY <1>1, <1>2, <1>3, <1>4, <1>5, <1>6, <1>7 DEF Sweep!Monitor

\* The monitor's invariant, of the process.
LEMMA SweepInvariance == Spec => []Sweep!IInv
<1>1. Sweep!IInv /\ UNCHANGED Sweep!vars => Sweep!IInv'
    BY DEF Sweep!IInv, Sweep!TypeOK, Sweep!ReadIsPending, Sweep!StopIsSeen, Sweep!vars
<1>2. Sweep!IInv /\ [Next]_vars => Sweep!IInv'
    BY <1>1, StepIsASweepStep, AroundSweep, MonitorSweep DEF Sweep!Next
<1>3. QED
    BY InitSweep, <1>2, PTL DEF Spec

\* Once stop() has returned the monitor never sleeps out an interval, whichever
\* step it was at when the two events were set (ConnectivityMonitor.stop, run).
THEOREM StopCutsTheSleepShort == Spec => []NeverSleepsThroughStop
<1>1. Sweep!IInv => NeverSleepsThroughStop
    BY DEF Sweep!IInv, Sweep!StopIsSeen, NeverSleepsThroughStop, Sweep!NeverSleepsThroughStop
<1>2. QED
    BY <1>1, SweepInvariance, PTL

\* Type correctness of the whole process.
THEOREM TypeCorrect == Spec => []TypeOK
<1>1. GateProofs!TypeOK => Gate!TypeOK
    BY DEF GateProofs!TypeOK, Gate!TypeOK, GateProofs!Fates, Gate!Fates,
       GateProofs!LoopSteps, Gate!LoopSteps, GateProofs!MainSteps, Gate!MainSteps
<1>2. GateProofs!IInv /\ Sweep!IInv => TypeOK
    BY <1>1 DEF GateProofs!IInv, Sweep!IInv, TypeOK
<1>3. QED
    BY <1>2, GateInvariance, SweepInvariance, PTL
=============================================================================
