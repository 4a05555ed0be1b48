-------------------------- MODULE RequestGateProofs --------------------------
(***************************************************************************)
(* Proofs about the listener and its worker gate, for any finite set of    *)
(* connections and any number of permits.                                  *)
(*                                                                         *)
(* IInv (RequestGate) is inductive.  The permits are counted by two lemmas *)
(* about Inside, what one step adds to it or takes from it; the drain is   *)
(* the order of the main thread's steps with the fact that a worker that   *)
(* still runs is in one of the two lists server_close goes through.        *)
(***************************************************************************)
EXTENDS RequestGate, FiniteSetTheorems, TLAPS

\* What is inside the gate can be counted.
LEMMA InsideCounts == IsFiniteSet(Inside) /\ Cardinality(Inside) \in Nat
BY ConnsFinite, FS_Subset, FS_CardinalityType DEF Inside

\* A connection that was outside and comes in is one more.
LEMMA OneMoreInside ==
    ASSUME NEW c \in Conns, c \notin Inside, Inside' = Inside \cup {c}
    PROVE  Cardinality(Inside') = Cardinality(Inside) + 1
BY InsideCounts, FS_AddElement

\* One that was inside and leaves is one less.
LEMMA OneLessInside ==
    ASSUME NEW c \in Conns, c \in Inside, Inside' = Inside \ {c}
    PROVE  Cardinality(Inside') = Cardinality(Inside) - 1
BY InsideCounts, FS_RemoveElement

\* A step that gives nobody a permit and takes none back.
LEMMA PermitsUnmoved ==
    ASSUME PermitsConserved, permits' = permits, Inside' = Inside
    PROVE  PermitsConserved'
BY DEF PermitsConserved

\* A step that lets one out and takes its permit back: there was room for it.
LEMMA PermitReturned ==
    ASSUME IInv, NEW c \in Inside, Inside' = Inside \ {c}, permits' = permits + 1
    PROVE  PermitsConserved' /\ permits' \in 0..MaxWorkers
<1>1. c \in Conns
    BY DEF Inside
<1>2. Cardinality(Inside') = Cardinality(Inside) - 1
    BY <1>1, OneLessInside
<1>3. Inside' \subseteq Conns
    BY DEF Inside
<1>4. IsFiniteSet(Inside') /\ Cardinality(Inside') \in Nat
    BY <1>3, ConnsFinite, FS_Subset, FS_CardinalityType
<1>5. QED
    BY <1>2, <1>4, InsideCounts, WorkersAssumption DEF IInv, TypeOK, PermitsConserved

\* The bound server of a start: every permit free, nobody inside.
LEMMA InitIInv == Init => IInv
<1> SUFFICES ASSUME Init PROVE IInv
    OBVIOUS
<1> USE DEF Init
<1>1. TypeOK
  <2>1. permits \in 0..MaxWorkers
    BY WorkersAssumption
  <2>2. conn \in [Conns -> Fates]
    BY DEF Fates
  <2>3. QED
    BY <2>1, <2>2, Zenon DEF TypeOK, LoopSteps, MainSteps
<1>2. HeldIsAtTheGate /\ WorkersAreListed /\ StopsInOrder
    BY DEF HeldIsAtTheGate, WorkersAreListed, StopsInOrder, Alive
<1>3. PermitsConserved
  <2>1. Inside = {}
    BY DEF Inside
  <2>2. QED
    BY <2>1, FS_EmptySet, WorkersAssumption DEF PermitsConserved
<1>4. QED
    BY <1>1, <1>2, <1>3 DEF IInv

\* Clients and signals: a connection in the backlog is outside the gate.
LEMMA ClientIInv ==
    ASSUME IInv, \/ \E c \in Conns : Arrive(c)
                 \/ Signal
    PROVE  IInv'
<1> USE DEF IInv, mainVars, serverVars
<1>1. ASSUME NEW c \in Conns, Arrive(c)
      PROVE  IInv'
  <2> USE <1>1 DEF Arrive, Set
  <2>1. TypeOK'
    BY DEF TypeOK, Fates
  <2>2. (HeldIsAtTheGate /\ WorkersAreListed /\ StopsInOrder)'
    BY DEF TypeOK, HeldIsAtTheGate, WorkersAreListed, StopsInOrder, Alive
  <2>3. PermitsConserved'
    BY PermitsUnmoved DEF TypeOK, Inside
  <2>4. QED
    BY <2>1, <2>2, <2>3
<1>2. CASE Signal
  BY <1>2, PermitsUnmoved DEF Signal, TypeOK, HeldIsAtTheGate, WorkersAreListed,
     StopsInOrder, Alive, Inside
<1>3. QED
  BY <1>1, <1>2

\* The serving thread: TakePermit brings the connection it holds inside, and a
\* spawn that fails lets it out again.
LEMMA ServingIInv == IInv /\ Serving => IInv'
<1> SUFFICES ASSUME IInv, Serving PROVE IInv'
    OBVIOUS
<1> USE DEF IInv, mainVars
<1>1. ASSUME NEW c \in Conns, Accept(c)
      PROVE  IInv'
  <2> USE <1>1 DEF Accept, Set
  <2>1. TypeOK'
    BY DEF TypeOK, Fates, LoopSteps
  <2>2. (HeldIsAtTheGate /\ WorkersAreListed /\ StopsInOrder)'
    BY DEF TypeOK, HeldIsAtTheGate, WorkersAreListed, StopsInOrder, Alive
  <2>3. PermitsConserved'
    BY PermitsUnmoved DEF TypeOK, Inside
  <2>4. QED
    BY <2>1, <2>2, <2>3
<1>2. CASE Refuse
  <2> USE <1>2 DEF Refuse, Set
  <2>1. TypeOK'
    BY DEF TypeOK, Fates, LoopSteps
  <2>2. (HeldIsAtTheGate /\ WorkersAreListed /\ StopsInOrder)'
    BY DEF TypeOK, HeldIsAtTheGate, WorkersAreListed, StopsInOrder, Alive
  <2>3. PermitsConserved'
    BY PermitsUnmoved DEF TypeOK, Inside, HeldIsAtTheGate
  <2>4. QED
    BY <2>1, <2>2, <2>3
<1>3. CASE TakePermit
  <2> USE <1>3 DEF TakePermit, Set
  <2>1. held \in Conns /\ conn[held] = "accepted"
    BY DEF HeldIsAtTheGate
  <2>2. TypeOK'
    BY <2>1, WorkersAssumption DEF TypeOK, Fates, LoopSteps
  <2>3. (HeldIsAtTheGate /\ WorkersAreListed /\ StopsInOrder)'
    BY <2>1 DEF TypeOK, HeldIsAtTheGate, WorkersAreListed, StopsInOrder, Alive
  <2>4. held \notin Inside /\ Inside' = Inside \cup {held}
    BY <2>1 DEF TypeOK, Inside
  <2>5. Cardinality(Inside') = Cardinality(Inside) + 1
    BY <2>1, <2>4, OneMoreInside
  <2>6. PermitsConserved'
    BY <2>5, InsideCounts DEF TypeOK, PermitsConserved
  <2>7. QED
    BY <2>2, <2>3, <2>6
<1>4. CASE Spawn
  <2> USE <1>4 DEF Spawn, Set, Append
  <2>1. held \in Conns /\ conn[held] = "admitted"
    BY DEF HeldIsAtTheGate
  <2>2. TypeOK'
    BY <2>1 DEF TypeOK, Fates, LoopSteps
  <2>3. (HeldIsAtTheGate /\ WorkersAreListed)'
    BY <2>1 DEF TypeOK, HeldIsAtTheGate, WorkersAreListed, Alive
  <2>4. StopsInOrder'
    BY DEF StopsInOrder
  <2>5. PermitsConserved'
    BY <2>1, PermitsUnmoved DEF TypeOK, Inside
  <2>6. QED
    BY <2>2, <2>3, <2>4, <2>5
<1>5. CASE SpawnFails
  <2> USE <1>5 DEF SpawnFails, Set, Append
  <2>1. held \in Conns /\ conn[held] = "admitted"
    BY DEF HeldIsAtTheGate
  <2>2. held \in Inside /\ Inside' = Inside \ {held}
    BY <2>1 DEF TypeOK, Inside
  <2>3. PermitsConserved' /\ permits' \in 0..MaxWorkers
    BY <2>1, <2>2, PermitReturned
  <2>4. TypeOK'
    BY <2>1, <2>3 DEF TypeOK, Fates, LoopSteps
  <2>5. (HeldIsAtTheGate /\ WorkersAreListed)'
    BY <2>1 DEF TypeOK, HeldIsAtTheGate, WorkersAreListed, Alive
  <2>6. StopsInOrder'
    BY DEF StopsInOrder
  <2>7. QED
    BY <2>3, <2>4, <2>5, <2>6
<1>6. CASE EndLoop
  BY <1>6, PermitsUnmoved DEF EndLoop, TypeOK, LoopSteps, HeldIsAtTheGate, WorkersAreListed,
     StopsInOrder, Alive, Inside
<1>7. QED
  BY <1>1, <1>2, <1>3, <1>4, <1>5, <1>6 DEF Serving

\* A worker: inside until it has released.
LEMMA WorkerIInv ==
    ASSUME IInv, NEW c \in Conns, Handle(c) \/ Release(c)
    PROVE  IInv'
<1> USE DEF IInv, mainVars
<1>1. CASE Handle(c)
  <2> USE <1>1 DEF Handle, Set
  <2>1. TypeOK'
    BY DEF TypeOK, Fates
  <2>2. (HeldIsAtTheGate /\ WorkersAreListed /\ StopsInOrder)'
    BY DEF TypeOK, HeldIsAtTheGate, WorkersAreListed, StopsInOrder, Alive
  <2>3. PermitsConserved'
    BY PermitsUnmoved DEF TypeOK, Inside
  <2>4. QED
    BY <2>1, <2>2, <2>3
<1>2. CASE Release(c)
  <2> USE <1>2 DEF Release, Set
  <2>1. c \in Inside /\ Inside' = Inside \ {c}
    BY DEF TypeOK, Inside
  <2>2. PermitsConserved' /\ permits' \in 0..MaxWorkers
    BY <2>1, PermitReturned
  <2>3. TypeOK'
    BY <2>2 DEF TypeOK, Fates
  <2>4. (HeldIsAtTheGate /\ WorkersAreListed /\ StopsInOrder)'
    BY DEF TypeOK, HeldIsAtTheGate, WorkersAreListed, StopsInOrder, Alive
  <2>5. QED
    BY <2>2, <2>3, <2>4
<1>3. QED
  BY <1>1, <1>2

\* The main thread: the loop has ended before server_close takes the list, so
\* nothing is added to a list that is being joined.
LEMMA MainIInv == IInv /\ Main => IInv'
<1> SUFFICES ASSUME IInv, Main PROVE IInv'
    OBVIOUS
<1> USE DEF IInv, serverVars
<1>1. CASE StartServing
  BY <1>1, PermitsUnmoved DEF StartServing, TypeOK, LoopSteps, MainSteps, HeldIsAtTheGate,
     WorkersAreListed, StopsInOrder, Alive, Inside
<1>2. CASE StartFails
  BY <1>2, PermitsUnmoved DEF StartFails, TypeOK, MainSteps, HeldIsAtTheGate,
     WorkersAreListed, StopsInOrder, Alive, Inside
<1>3. CASE StartMonitor
  BY <1>3, PermitsUnmoved DEF StartMonitor, TypeOK, MainSteps, HeldIsAtTheGate,
     WorkersAreListed, StopsInOrder, Alive, Inside
<1>4. CASE AskLoopToEnd
  BY <1>4, PermitsUnmoved DEF AskLoopToEnd, TypeOK, MainSteps, HeldIsAtTheGate,
     WorkersAreListed, StopsInOrder, Alive, Inside
<1>5. CASE LoopHasEnded
  BY <1>5, PermitsUnmoved DEF LoopHasEnded, TypeOK, MainSteps, HeldIsAtTheGate,
     WorkersAreListed, StopsInOrder, Alive, Inside
<1>6. CASE CloseListener
  <2> USE <1>6 DEF CloseListener
  <2>1. TypeOK'
    BY DEF TypeOK, Fates, MainSteps
  <2>2. (HeldIsAtTheGate /\ StopsInOrder)'
    BY DEF TypeOK, HeldIsAtTheGate, StopsInOrder
  <2>3. WorkersAreListed'
    BY DEF TypeOK, WorkersAreListed, StopsInOrder, Alive
  <2>4. PermitsConserved'
    BY PermitsUnmoved DEF TypeOK, Inside
  <2>5. QED
    BY <2>1, <2>2, <2>3, <2>4
<1>7. ASSUME NEW c \in Conns, Join(c)
      PROVE  IInv'
  BY <1>7, PermitsUnmoved DEF Join, TypeOK, HeldIsAtTheGate, WorkersAreListed,
     StopsInOrder, Alive, Inside
<1>8. CASE JoinRaises
  BY <1>8, PermitsUnmoved DEF JoinRaises, TypeOK, MainSteps, HeldIsAtTheGate,
     WorkersAreListed, StopsInOrder, Alive, Inside
<1>9. CASE Drained
  BY <1>9, PermitsUnmoved DEF Drained, TypeOK, MainSteps, HeldIsAtTheGate,
     WorkersAreListed, StopsInOrder, Alive, Inside
<1>10. CASE CloseStorage
  BY <1>10, PermitsUnmoved DEF CloseStorage, TypeOK, MainSteps, HeldIsAtTheGate,
     WorkersAreListed, StopsInOrder, Alive, Inside
<1>11. QED
  BY <1>1, <1>2, <1>3, <1>4, <1>5, <1>6, <1>7, <1>8, <1>9, <1>10 DEF Main

\* Every step of the listener, its workers and the main thread keeps IInv.
LEMMA StepIInv == IInv /\ [Next]_vars => IInv'
<1>1. IInv /\ UNCHANGED vars => IInv'
    BY DEF IInv, TypeOK, HeldIsAtTheGate, WorkersAreListed, StopsInOrder, PermitsConserved,
       Alive, Inside, vars
<1>2. QED
    BY <1>1, ClientIInv, ServingIInv, WorkerIInv, MainIInv DEF Next

\* A closed storage after a stop that was asked for: the loop has ended and
\* both lists are empty, so nobody is inside.
LEMMA IInvDrains == IInv => DrainedBeforeClose
<1> SUFFICES ASSUME IInv, ~storage, loopStop PROVE Inside = {}
    BY DEF DrainedBeforeClose
<1>1. loop = "ended" /\ threads = {} /\ joining = {}
    BY DEF IInv, StopsInOrder
<1>2. QED
    BY <1>1 DEF IInv, HeldIsAtTheGate, WorkersAreListed, Alive, Inside

\* The listener's specification keeps IInv.
LEMMA Invariance == Spec => []IInv
BY InitIInv, StepIInv, PTL DEF Spec

\* A permit is out for every connection between the gate and its release, and
\* for no other, also when a worker thread cannot be started: never more than
\* MaxWorkers requests at once, and never fewer permits than there should be
\* (process_request, process_request_thread).
THEOREM PermitsAreConserved == Spec => []PermitsConserved
<1>1. IInv => PermitsConserved
    BY DEF IInv
<1>2. QED
    BY <1>1, Invariance, PTL

\* After a stop that was asked for, no request runs against a closed storage
\* (run_proxy_service: shutdown, server_close with block_on_close, close).
THEOREM DrainsBeforeClose == Spec => []DrainedBeforeClose
BY IInvDrains, Invariance, PTL
=============================================================================
