----------------------- MODULE PrecacheControlProofs -----------------------
(***************************************************************************)
(* Proofs about the pre-cache job, for any finite set of handlers and      *)
(* outcomes and any number of games and runs.                              *)
(*                                                                         *)
(* IInv (PrecacheControl) is inductive.  What carries it is that start()   *)
(* holds the job's lock from its look at the thread to the new one's       *)
(* launch: a job's current run is then the only one of its runs that may   *)
(* be alive, so it alone writes the job's progress and sees its cancel.    *)
(*                                                                         *)
(* That the tally adds up is about a fold over the outcomes.  The first    *)
(* part shows what SumFunction is, by induction over the subsets of a      *)
(* finite set, from the library's theorems on minimal elements.            *)
(***************************************************************************)
EXTENDS PrecacheControl, FiniteSetTheorems, WellFoundedInduction, TLAPS

-----------------------------------------------------------------------------
(* What the tally of a run adds up to.                                     *)

\* Induction over the naturals, stated of a set.
LEMMA SetOfNats ==
    ASSUME NEW S \in SUBSET Nat, 0 \in S, \A n \in S : n + 1 \in S
    PROVE  S = Nat
<1> SUFFICES ASSUME Nat \ S # {} PROVE FALSE
    OBVIOUS
<1>1. PICK n \in Nat \ S : \A m \in Nat \ S : <<m, n>> \notin OpToRel(<, Nat)
    BY NatLessThanWellFounded, WFMin
<1>2. n # 0 /\ n - 1 \in Nat
    OBVIOUS
<1>3. <<n - 1, n>> \in OpToRel(<, Nat)
    BY <1>2 DEF OpToRel
<1>4. n - 1 \in S
    BY <1>1, <1>2, <1>3
<1>5. QED
    BY <1>2, <1>4

\* The sum a subset of the domain has, one element picked after the other.
Picked(s) == CHOOSE x \in s : TRUE
SumsUp(f, O, g) ==
    /\ g \in [SUBSET O -> Nat]
    /\ \A s \in SUBSET O : g[s] = IF s = {} THEN 0 ELSE f[Picked(s)] + g[s \ {Picked(s)}]

\* Sums exist.
LEMMA SumExists ==
    ASSUME NEW O, IsFiniteSet(O), NEW f \in [O -> Nat]
    PROVE  \E g : SumsUp(f, O, g)
<1> DEFINE UpTo(n, g) ==
        /\ g \in [SUBSET O -> Nat]
        /\ \A s \in SUBSET O : Cardinality(s) <= n =>
              g[s] = IF s = {} THEN 0 ELSE f[Picked(s)] + g[s \ {Picked(s)}]
           S == {n \in Nat : \E g : UpTo(n, g)}
<1>0. \A s \in SUBSET O : IsFiniteSet(s) /\ Cardinality(s) \in Nat
    BY FS_Subset, FS_CardinalityType
<1>1. \A s \in SUBSET O : s # {} =>
          /\ Picked(s) \in s /\ Picked(s) \in O
          /\ s \ {Picked(s)} \in SUBSET O
          /\ Cardinality(s \ {Picked(s)}) = Cardinality(s) - 1
    BY <1>0, FS_RemoveElement DEF Picked
<1>2. 0 \in S
  <2>1. UpTo(0, [s \in SUBSET O |-> 0])
    BY <1>0, FS_EmptySet
  <2>2. QED
    BY <2>1
<1>3. ASSUME NEW n \in S
      PROVE  n + 1 \in S
  <2>1. PICK g : UpTo(n, g)
    OBVIOUS
  <2> DEFINE h == [s \in SUBSET O |->
                     IF s = {} THEN 0
                     ELSE IF Cardinality(s) <= n + 1 THEN f[Picked(s)] + g[s \ {Picked(s)}]
                     ELSE g[s]]
  <2>2. h \in [SUBSET O -> Nat]
    BY <1>1, <2>1
  <2>3. \A s \in SUBSET O : Cardinality(s) <= n => h[s] = g[s]
    BY <1>0, <2>1
  <2>4. ASSUME NEW s \in SUBSET O, s # {}, Cardinality(s) <= n + 1
        PROVE  h[s] = f[Picked(s)] + h[s \ {Picked(s)}]
    <3>1. s \ {Picked(s)} \in SUBSET O /\ Cardinality(s \ {Picked(s)}) <= n
      BY <1>0, <1>1, <2>4
    <3>2. h[s \ {Picked(s)}] = g[s \ {Picked(s)}]
      BY <2>3, <3>1
    <3>3. QED
      BY <2>4, <3>2
  <2>5. h[{}] = 0
    OBVIOUS
  <2>6. UpTo(n + 1, h)
    BY <2>2, <2>4, <2>5
  <2> HIDE DEF h, UpTo
  <2>7. QED
    BY <2>6
<1>4. S = Nat
    BY <1>2, <1>3, SetOfNats
<1>5. PICK g : UpTo(Cardinality(O), g)
    BY <1>0, <1>4
<1>6. \A s \in SUBSET O : Cardinality(s) <= Cardinality(O)
    BY FS_Subset
<1>7. SumsUp(f, O, g)
    BY <1>5, <1>6 DEF SumsUp
<1>8. QED
    BY <1>7

\* Among the subsets that fail, one is left with none that fails by taking any
\* element out of it: induction over the subsets of a finite set.
LEMMA FirstToFail ==
    ASSUME NEW O, IsFiniteSet(O), NEW B \in SUBSET (SUBSET O), B # {}
    PROVE  \E s \in B : \A x \in s : s \ {x} \notin B
<1>1. FiniteSubsetsOf(O) = SUBSET O
    BY FS_FiniteSubsetsOfFinite
<1>2. PICK s \in B : \A t \in B : <<t, s>> \notin StrictSubsetOrdering(O)
    BY <1>1, FS_StrictSubsetOrderingWellFounded, WFMin
<1>3. \A x \in s : <<s \ {x}, s>> \in StrictSubsetOrdering(O)
    BY DEF StrictSubsetOrdering
<1>4. QED
    BY <1>2, <1>3

\* SumFunction is such a sum.
LEMMA SumFunctionSumsUp ==
    ASSUME NEW O, IsFiniteSet(O), NEW f \in [O -> Nat]
    PROVE  \E g : SumsUp(f, O, g) /\ SumFunction(f) = g[O]
<1> DEFINE Equation(g) == g = [s \in SUBSET O |->
                     IF s = {} THEN 0 ELSE f[Picked(s)] + g[s \ {Picked(s)}]]
           sum == CHOOSE g : Equation(g)
<1>1. SumFunction(f) = sum[O]
    BY DEF SumFunction, SumFunctionOnSet, FoldFunctionOnSet, MapThenFoldSet, Picked
<1>2. PICK g : SumsUp(f, O, g)
    BY SumExists
<1>3. Equation(g)
    BY <1>2 DEF SumsUp
<1>4. Equation(sum)
    BY <1>3
<1>5. sum = g
  <2> DEFINE B == {s \in SUBSET O : sum[s] # g[s]}
  <2>1. ASSUME B # {} PROVE FALSE
    <3>1. PICK s \in B : \A x \in s : s \ {x} \notin B
      BY <2>1, FirstToFail
    <3>2. s # {} => Picked(s) \in s
      BY DEF Picked
    <3>3. s # {} => sum[s \ {Picked(s)}] = g[s \ {Picked(s)}]
      BY <3>1, <3>2
    <3>4. sum[s] = g[s]
      BY <1>3, <1>4, <3>3
    <3>5. QED
      BY <3>4
  <2>2. DOMAIN sum = SUBSET O /\ DOMAIN g = SUBSET O
    BY <1>3, <1>4
  <2>3. QED
    BY <1>3, <1>4, <2>1, <2>2
<1>6. QED
    BY <1>1, <1>2, <1>5

\* Nothing tallied adds up to nothing.
LEMMA SumOfZeros ==
    ASSUME NEW O, IsFiniteSet(O)
    PROVE  SumFunction([o \in O |-> 0]) = 0
<1> DEFINE f == [o \in O |-> 0]
<1>1. PICK g : SumsUp(f, O, g) /\ SumFunction(f) = g[O]
    BY SumFunctionSumsUp
<1> DEFINE B == {s \in SUBSET O : g[s] # 0}
<1>2. ASSUME B # {} PROVE FALSE
  <2>1. PICK s \in B : \A x \in s : s \ {x} \notin B
    BY <1>2, FirstToFail
  <2>2. s # {} => Picked(s) \in s
    BY DEF Picked
  <2>3. s # {} => g[s \ {Picked(s)}] = 0 /\ f[Picked(s)] = 0
    BY <2>1, <2>2
  <2>4. g[s] = 0
    BY <1>1, <2>3 DEF SumsUp
  <2>5. QED
    BY <2>4
<1>3. QED
    BY <1>1, <1>2

\* One more of one outcome is one more in all.
LEMMA SumOfOneMore ==
    ASSUME NEW O, IsFiniteSet(O), NEW f \in [O -> Nat], NEW o \in O
    PROVE  SumFunction([f EXCEPT ![o] = @ + 1]) = SumFunction(f) + 1
<1> DEFINE f1 == [f EXCEPT ![o] = @ + 1]
           one(s) == IF o \in s THEN 1 ELSE 0
<1>1. f1 \in [O -> Nat]
    OBVIOUS
<1>2. PICK g : SumsUp(f, O, g) /\ SumFunction(f) = g[O]
    BY SumFunctionSumsUp
<1>3. PICK g1 : SumsUp(f1, O, g1) /\ SumFunction(f1) = g1[O]
    BY <1>1, SumFunctionSumsUp
<1> DEFINE B == {s \in SUBSET O : g1[s] # g[s] + one(s)}
<1>4. ASSUME B # {} PROVE FALSE
  <2>1. PICK s \in B : \A x \in s : s \ {x} \notin B
    BY <1>4, FirstToFail
  <2>2. s # {}
    <3>1. {} \in SUBSET O /\ g[{}] = 0 /\ g1[{}] = 0
      BY <1>2, <1>3 DEF SumsUp
    <3>2. {} \notin B
      BY <3>1
    <3>3. QED
      BY <3>2
  <2> DEFINE x == Picked(s)
             rest == s \ {x}
  <2>3. x \in s /\ x \in O /\ rest \in SUBSET O
    BY <2>2 DEF Picked
  <2>4. g1[rest] = g[rest] + one(rest)
    BY <2>1, <2>3
  <2>5. g[s] = f[x] + g[rest] /\ g1[s] = f1[x] + g1[rest]
    BY <1>2, <1>3, <2>2 DEF SumsUp
  <2>6. f1[x] + one(rest) = f[x] + one(s)
    BY <2>3
  <2>7. g[rest] \in Nat /\ f[x] \in Nat
    BY <1>2, <2>3 DEF SumsUp
  <2> HIDE DEF x, rest
  <2>8. g1[s] = g[s] + one(s)
    BY <2>4, <2>5, <2>6, <2>7
  <2>9. QED
    BY <2>8
<1>5. g1[O] = g[O] + 1
    BY <1>4
<1>6. QED
    BY <1>2, <1>3, <1>5

-----------------------------------------------------------------------------
(* The invariant.                                                          *)

\* A run is numbered from 1, and its number is not NoRun.
LEMMA RunNumbers == Runs \subseteq Nat \ {0} /\ NoRun \notin Runs
BY RunsAssumption DEF Runs, NoRun

\* The state of a service before the first request.
LEMMA InitIInv == Init => IInv
<1> SUFFICES ASSUME Init PROVE IInv
    OBVIOUS
<1> USE DEF Init
<1>1. TypeOK
  <2>1. next \in 1..(MaxRuns + 1)
    BY RunsAssumption
  <2>2. Fresh("idle", 0) \in Progress
    BY GamesAssumption DEF Fresh, Progress, States
  <2>3. QED
    BY <2>1, <2>2 DEF TypeOK, HandlerSteps, RunSteps, States, Jobs
<1>2. JobsExist /\ CancelIsMeant /\ EventIsAccounted /\ CancelledWasAsked
    BY DEF JobsExist, CancelIsMeant, EventIsAccounted, CancelledWasAsked, Alive
<1>3. LaunchIsExclusive
    BY FS_EmptySet, RunsAssumption DEF LaunchIsExclusive, Starting
<1>4. CurrentIsOwned /\ ProgressOfRun
    BY RunNumbers DEF CurrentIsOwned, ProgressOfRun, Alive, Runs
<1>5. RunningIsCurrent /\ TallyIsOfProcessed
    BY DEF RunningIsCurrent, TallyIsOfProcessed, Fresh
<1>6. ProgressAddsUp
    BY OutcomesFinite, SumOfZeros DEF ProgressAddsUp, Fresh
<1>7. QED
    BY <1>1, <1>2, <1>3, <1>4, <1>5, <1>6 DEF IInv

\* The steps of a handler that leave the jobs and their runs alone.
LEMMA QuietHandler ==
    ASSUME IInv, NEW h \in Handlers,
           Request(h) \/ Lookup(h) \/ Create(h) \/ Answer(h) \/ SeeRunning(h)
    PROVE  IInv'
<1> USE DEF IInv
<1>1. UNCHANGED <<locked, cancel, current, progress, next, owner, pc, verdict, asked, racing>>
    BY DEF Request, Lookup, Create, Answer, Answers, SeeRunning, runVars, history
<1>2. TypeOK' /\ JobsExist'
  <2>1. CASE Request(h)
    BY <2>1 DEF Request, Go, runVars, history, TypeOK, JobsExist, HandlerSteps
  <2>2. CASE Lookup(h)
    BY <2>2, NoJobAssumption
    DEF Lookup, Go, runVars, history, TypeOK, JobsExist, HandlerSteps, Jobs
  <2>3. CASE Create(h)
    BY <2>3 DEF Create, Go, runVars, history, TypeOK, JobsExist, HandlerSteps, Jobs
  <2>4. CASE Answer(h)
    BY <2>4 DEF Answer, Answers, Done, Go, runVars, history, TypeOK, JobsExist, HandlerSteps
  <2>5. CASE SeeRunning(h)
    BY <2>5 DEF SeeRunning, Running, Alive, Go, runVars, history, TypeOK, JobsExist,
       HandlerSteps
  <2>6. QED
    BY <2>1, <2>2, <2>3, <2>4, <2>5
<1>3. \A g \in Handlers : Starting(g)' => Starting(g) /\ at'[g] = at[g] /\ job'[g] = job[g]
    BY DEF Request, Lookup, Create, Answer, Answers, SeeRunning, Done, Go, TypeOK, Starting
<1>4. \A g \in Handlers : at'[g] = "set" =>
          /\ job'[g] = job[g]
          /\ \/ at[g] = "set" /\ meant'[g] = meant[g]
             \/ g = h /\ at[g] = "act" /\ Running(job[g]) /\ meant'[g] = current[job[g]]
    BY DEF Request, Lookup, Create, Answer, Answers, SeeRunning, Done, Go, TypeOK
<1>5. LaunchIsExclusive'
    BY <1>1, <1>3 DEF LaunchIsExclusive, Running, Alive
<1>6. CurrentIsOwned'
    BY <1>1 DEF CurrentIsOwned, Alive
<1>7. (ProgressOfRun /\ RunningIsCurrent)'
    BY <1>1 DEF ProgressOfRun, RunningIsCurrent, Alive
<1>8. (TallyIsOfProcessed /\ ProgressAddsUp /\ CancelledWasAsked)'
    BY <1>1 DEF TallyIsOfProcessed, ProgressAddsUp, CancelledWasAsked
<1>9. \A g \in Handlers : at'[g] = "set" =>
          \/ at[g] = "set" /\ meant'[g] = meant[g] /\ job'[g] = job[g]
          \/ /\ meant'[g] \in Runs /\ Alive(meant'[g])
             /\ meant'[g] = current[job'[g]] /\ owner[meant'[g]] = job'[g]
  <2>1. \A g \in Handlers : at[g] = "act" => job[g] \in Jobs
    BY DEF TypeOK, JobsExist
  <2>2. QED
    BY <1>4, <2>1 DEF Running, Alive, CurrentIsOwned
<1>10. CancelIsMeant'
    BY <1>1, <1>9 DEF CancelIsMeant, Alive, Cancelled
<1>11. EventIsAccounted'
  <2>1. ASSUME NEW g \in Handlers, (at[g] = "launch")',
               (Underway(job[g]) \/ job[g] \in cancel)'
        PROVE  (job[g] \in racing)'
    <3>1. at[g] = "launch" /\ job'[g] = job[g] /\ ~Running(job[g])
      BY <1>3, <2>1 DEF LaunchIsExclusive, Starting
    <3>2. Underway(job[g])' => Underway(job[g])
      BY <1>4, <3>1 DEF Underway
    <3>3. QED
      BY <1>1, <2>1, <3>1, <3>2 DEF EventIsAccounted
  <2>2. \A r \in Runs : (Alive(r) /\ Cancelled(r) => r \in asked \/ owner[r] \in racing)'
    BY <1>1 DEF EventIsAccounted, Alive, Cancelled
  <2>3. ASSUME NEW g \in Handlers, (at[g] = "set")',
               NEW r \in Runs, (Alive(r) /\ owner[r] = job[g])'
        PROVE  (meant[g] = r \/ job[g] \in racing)'
    <3>1. Alive(r) /\ owner[r] = job'[g] /\ current[owner[r]] = r
      BY <1>1, <2>3 DEF Alive, CurrentIsOwned
    <3>2. QED
      BY <1>1, <1>9, <2>3, <3>1 DEF EventIsAccounted
  <2>4. QED
    BY <2>1, <2>2, <2>3 DEF EventIsAccounted
<1>12. QED
    BY <1>2, <1>5, <1>6, <1>7, <1>8, <1>10, <1>11

\* start() takes the job's lock when no run of the job is alive.
LEMMA ClaimIInv ==
    ASSUME IInv, NEW h \in Handlers, Claim(h)
    PROVE  IInv'
<1> USE DEF IInv, Claim, Admit, Go, runVars, history
<1>1. job[h] \in created /\ job[h] \notin locked
    BY DEF JobsExist
<1>2. TypeOK'
    BY <1>1 DEF TypeOK, HandlerSteps
<1>3. JobsExist'
    BY DEF TypeOK, JobsExist
<1>4. LaunchIsExclusive'
  <2>1. IsFiniteSet(locked)
    BY HandlersFinite, FS_Subset DEF TypeOK, Jobs
  <2>2. Cardinality(locked') = Cardinality(locked) + 1 /\ Cardinality(locked) \in Nat
    BY <1>1, <2>1, FS_AddElement, FS_CardinalityType
  <2>3. (next + Cardinality(locked) \in 1..(MaxRuns + 1))'
    BY <2>2, RunsAssumption DEF TypeOK, Runs
  <2>4. \A g \in Handlers : Starting(g)' => g = h \/ (Starting(g) /\ job[g] # job[h])
    <3>1. \A g \in Handlers : Starting(g)' => g = h \/ Starting(g)
      BY DEF TypeOK, Starting
    <3>2. \A g \in Handlers : Starting(g) => job[g] \in locked
      BY DEF LaunchIsExclusive
    <3>3. \A g \in Handlers : Starting(g) => job[g] # job[h]
      BY <1>1, <3>2
    <3>4. QED
      BY <3>1, <3>3
  <2>5. QED
    BY <2>3, <2>4 DEF TypeOK, LaunchIsExclusive, Running, Alive
<1>5. CurrentIsOwned'
    BY DEF TypeOK, CurrentIsOwned, Alive
<1>6. (ProgressOfRun /\ RunningIsCurrent)'
    BY DEF ProgressOfRun, RunningIsCurrent, Alive
<1>7. (TallyIsOfProcessed /\ ProgressAddsUp /\ CancelledWasAsked)'
    BY DEF TallyIsOfProcessed, ProgressAddsUp, CancelledWasAsked
<1>8. (CancelIsMeant /\ EventIsAccounted)'
  <2>1. \A g \in Handlers : /\ (at'[g] = "set" <=> at[g] = "set")
                          /\ (at'[g] = "launch" <=> at[g] = "launch")
    BY DEF TypeOK
  <2>2. QED
    BY <2>1 DEF CancelIsMeant, EventIsAccounted, Underway, Alive, Cancelled
<1>9. QED
    BY <1>2, <1>3, <1>4, <1>5, <1>6, <1>7, <1>8

\* start() clears the event while no run of the job is alive to see it; the
\* cancels that have yet to set it are those that race it.
LEMMA ClearIInv ==
    ASSUME IInv, NEW h \in Handlers, Clear(h)
    PROVE  IInv'
<1> USE DEF IInv, Clear, Clears, Go, runVars
<1>1. /\ at[h] = "clear" /\ job[h] \in Jobs /\ job[h] \in created
      /\ ~Running(job[h])
    BY DEF TypeOK, JobsExist, LaunchIsExclusive, Starting
<1>2. TypeOK'
    BY <1>1 DEF TypeOK, HandlerSteps
<1>3. JobsExist'
    BY <1>1 DEF TypeOK, JobsExist
<1>4. \A g \in Handlers : /\ (at'[g] \in {"clear", "launch"} <=> at[g] \in {"clear", "launch"})
                        /\ (at'[g] = "set" <=> at[g] = "set")
                        /\ (at'[g] = "launch" => g = h \/ at[g] = "launch")
  <2>1. at' = [at EXCEPT ![h] = "launch"] /\ at \in [Handlers -> HandlerSteps]
    BY DEF TypeOK
  <2>2. ASSUME NEW g \in Handlers
        PROVE  /\ (at'[g] \in {"clear", "launch"} <=> at[g] \in {"clear", "launch"})
               /\ (at'[g] = "set" <=> at[g] = "set")
               /\ (at'[g] = "launch" => g = h \/ at[g] = "launch")
    <3>1. CASE g = h
      BY <1>1, <2>1, <3>1
    <3>2. CASE g # h
      BY <2>1, <3>2
    <3>3. QED
      BY <3>1, <3>2
  <2>3. QED
    BY <2>2
<1>5. LaunchIsExclusive'
  <2>1. \A g \in Handlers : Starting(g)' <=> Starting(g)
    BY <1>4 DEF Starting
  <2>2. \A i : Running(i)' <=> Running(i)
    BY DEF Running, Alive
  <2>3. UNCHANGED <<job, locked, next>>
    OBVIOUS
  <2>4. QED
    BY <2>1, <2>2, <2>3 DEF LaunchIsExclusive
<1>6. (CurrentIsOwned /\ ProgressOfRun /\ RunningIsCurrent)'
    BY DEF CurrentIsOwned, ProgressOfRun, RunningIsCurrent, Alive
<1>7. (TallyIsOfProcessed /\ ProgressAddsUp)'
    BY DEF TallyIsOfProcessed, ProgressAddsUp
<1>8. \A r \in Runs : Alive(r) => owner[r] # job[h]
    BY <1>1 DEF CurrentIsOwned, Running
<1>9. CancelIsMeant'
    BY <1>4, <1>8 DEF CancelIsMeant, Alive, Cancelled
<1>10. EventIsAccounted'
  <2>1. \A i : i # job[h] => /\ i \in racing' <=> i \in racing
                             /\ i \in cancel' <=> i \in cancel
    OBVIOUS
  <2>2. job[h] \notin cancel' /\ (Underway(job[h]) => job[h] \in racing')
    OBVIOUS
  <2>3. \A i : Underway(i)' <=> Underway(i)
    BY <1>4 DEF Underway
  <2>4. \A g \in Handlers : at[g] = "launch" => job[g] # job[h]
    <3>1. \A g \in Handlers : at[g] = "launch" => g # h /\ Starting(g) /\ Starting(h)
      BY <1>1 DEF Starting
    <3>2. QED
      BY <3>1 DEF LaunchIsExclusive
  <2>5. ASSUME NEW g \in Handlers, (at[g] = "launch")',
               (Underway(job[g]) \/ job[g] \in cancel)'
        PROVE  (job[g] \in racing)'
    <3>1. Underway(job[g])' => Underway(job[g])
      BY <2>3
    <3>2. QED
      BY <1>4, <2>1, <2>2, <2>4, <2>5, <3>1 DEF EventIsAccounted
  <2>6. ASSUME NEW r \in Runs, (Alive(r) /\ Cancelled(r))'
        PROVE  (r \in asked \/ owner[r] \in racing)'
    BY <1>8, <2>1, <2>6 DEF EventIsAccounted, Alive, Cancelled
  <2>7. ASSUME NEW g \in Handlers, (at[g] = "set")',
               NEW r \in Runs, (Alive(r) /\ owner[r] = job[g])'
        PROVE  (meant[g] = r \/ job[g] \in racing)'
    BY <1>4, <1>8, <2>1, <2>7 DEF EventIsAccounted, Alive
  <2>8. QED
    BY <2>5, <2>6, <2>7 DEF EventIsAccounted
<1>11. CancelledWasAsked'
  <2>1. \A r \in Runs : pc[r] = "finish" => owner[r] # job[h]
    BY <1>8 DEF Alive
  <2>2. QED
    BY <2>1 DEF CancelledWasAsked
<1>12. QED
    BY <1>2, <1>3, <1>5, <1>6, <1>7, <1>9, <1>10, <1>11

\* The launch gives the job a fresh run and a fresh progress.  The lock makes
\* sure that its earlier run is not alive to write over them.
LEMMA LaunchIInv ==
    ASSUME IInv, NEW h \in Handlers, Launch(h) \/ LaunchFails(h)
    PROVE  IInv'
<1> DEFINE j == job[h]
<1>1. PICK step \in {"agent", "lost"} : Begins(h, step)
    BY DEF Launch, LaunchFails
<1>2. PICK n \in 1..MaxGames : progress' = [progress EXCEPT ![j] = Fresh("running", n)]
    BY <1>1 DEF Begins
<1> USE DEF IInv
<1>3. /\ at[h] = "launch"
      /\ j \in created /\ j \in Jobs /\ j \in locked /\ ~Running(j)
      /\ current' = [current EXCEPT ![j] = next]
      /\ owner' = [owner EXCEPT ![next] = j]
      /\ pc' = [pc EXCEPT ![next] = step]
      /\ next' = next + 1
      /\ locked' = locked \ {j}
      /\ at' = [at EXCEPT ![h] = "free"]
      /\ wants' = [wants EXCEPT ![h] = "status"]
      /\ job' = [job EXCEPT ![h] = NoJob]
      /\ meant' = [meant EXCEPT ![h] = NoRun]
      /\ UNCHANGED <<attr, created, cancel, verdict, asked, racing>>
    BY <1>1 DEF Begins, Done, Go, TypeOK, JobsExist, LaunchIsExclusive, Starting, history
<1>4. /\ next \in Runs
      /\ (next + Cardinality(locked) \in 1..(MaxRuns + 1))'
  <2>1. IsFiniteSet(locked)
    BY HandlersFinite, FS_Subset DEF TypeOK, Jobs
  <2>2. Cardinality(locked') = Cardinality(locked) - 1 /\ Cardinality(locked) \in Nat
    BY <1>3, <2>1, FS_RemoveElement, FS_CardinalityType
  <2>3. IsFiniteSet(locked') /\ Cardinality(locked') \in Nat
    BY <1>3, <2>1, FS_Subset, FS_CardinalityType
  <2>4. QED
    BY <1>3, <2>2, <2>3, RunsAssumption DEF TypeOK, LaunchIsExclusive, Runs
<1>5. \A r \in Runs : r # next => pc'[r] = pc[r] /\ owner'[r] = owner[r]
    BY <1>3, <1>4 DEF TypeOK
<1>6. pc[next] = "unborn" /\ pc'[next] = step /\ owner'[next] = j /\ current'[j] = next
    BY <1>3, <1>4, RunNumbers DEF TypeOK, CurrentIsOwned
<1>7. \A i \in Jobs : i # j =>
          current'[i] = current[i] /\ current[i] # next /\ progress'[i] = progress[i]
    BY <1>2, <1>3, <1>4, <1>6 DEF TypeOK, CurrentIsOwned
<1>8. \A r \in Runs : Alive(r)' => \/ r = next /\ step = "agent"
                                   \/ r # next /\ Alive(r) /\ owner[r] # j
    BY <1>3, <1>5, <1>6 DEF Alive, Running, CurrentIsOwned
<1>9. Fresh("running", n) \in Progress /\ progress'[j] = Fresh("running", n)
  <2>1. n \in 0..MaxGames /\ 0 \in 0..MaxGames
    BY GamesAssumption
  <2>2. Fresh("running", n) \in Progress
    BY <2>1 DEF Fresh, Progress, States
  <2>3. QED
    BY <1>2, <1>3, <2>2 DEF TypeOK
<1>10. TypeOK'
  <2>1. progress' \in [Jobs -> Progress]
    BY <1>2, <1>9 DEF TypeOK
  <2>2. next' \in 1..(MaxRuns + 1)
    BY <1>3, <1>4, RunsAssumption DEF TypeOK, Runs
  <2>3. QED
    BY <1>3, <1>4, <2>1, <2>2 DEF TypeOK, HandlerSteps, RunSteps
<1>11. JobsExist'
    BY <1>3 DEF TypeOK, JobsExist
<1>12. LaunchIsExclusive'
  <2>1. \A g \in Handlers : Starting(g)' =>
            Starting(g) /\ job'[g] = job[g] /\ job[g] # j /\ job[g] \in Jobs
    BY <1>3 DEF TypeOK, LaunchIsExclusive, Starting
  <2>2. \A i \in Jobs : i # j /\ ~Running(i) => ~Running(i)'
    BY <1>5, <1>7 DEF Running, Alive
  <2>3. QED
    BY <1>3, <1>4, <2>1, <2>2 DEF LaunchIsExclusive
<1>13. CurrentIsOwned'
  <2>1. \A r \in Runs : pc'[r] = "unborn" <=> next' <= r
    BY <1>3, <1>4, <1>5, <1>6, RunNumbers DEF TypeOK, CurrentIsOwned
  <2>2. \A i \in Jobs : current'[i] \in Runs =>
            pc'[current'[i]] # "unborn" /\ owner'[current'[i]] = i
    BY <1>3, <1>4, <1>5, <1>6, <1>7 DEF CurrentIsOwned
  <2>3. \A r \in Runs : Alive(r)' => owner'[r] \in Jobs /\ current'[owner'[r]] = r
    BY <1>3, <1>5, <1>6, <1>7, <1>8 DEF CurrentIsOwned
  <2>4. QED
    BY <2>1, <2>2, <2>3 DEF CurrentIsOwned
<1>14. ProgressOfRun'
  <2> SUFFICES ASSUME NEW r \in Runs, Alive(r)'
               PROVE  LET p == progress[owner[r]] IN
                      (/\ pc[r] # "ended" => p.state = "running"
                       /\ pc[r] \in {"agent", "test", "prepare", "pace"} => p.processed < p.total
                       /\ pc[r] = "last" => p.processed = p.total
                       /\ pc[r] = "finish" => verdict[r] \in {"done", "cancelled", "failed"}
                       /\ pc[r] = "finish" /\ verdict[r] = "done" => p.processed = p.total)'
    BY DEF ProgressOfRun
  <2>1. CASE r = next
    BY <1>6, <1>8, <1>9, <2>1 DEF Fresh
  <2>2. CASE r # next
    <3>1. Alive(r) /\ owner'[r] = owner[r] /\ pc'[r] = pc[r] /\ verdict'[r] = verdict[r]
          /\ progress'[owner[r]] = progress[owner[r]]
      BY <1>3, <1>5, <1>7, <1>8, <2>2 DEF CurrentIsOwned
    <3>2. QED
      BY <3>1 DEF ProgressOfRun
  <2>3. QED
    BY <2>1, <2>2
<1>15. RunningIsCurrent'
    BY <1>4, <1>5, <1>6, <1>7 DEF RunningIsCurrent
<1>16. (TallyIsOfProcessed /\ ProgressAddsUp)'
  <2>1. \A o \in Outcomes : progress'[j].tally[o] <= progress'[j].processed
    BY <1>9 DEF Fresh
  <2>2. /\ SumFunction(progress'[j].tally) = progress'[j].processed
        /\ progress'[j].processed <= progress'[j].total
        /\ progress'[j].state # "done"
    BY <1>9, OutcomesFinite, SumOfZeros DEF Fresh
  <2>3. QED
    BY <1>7, <2>1, <2>2 DEF TallyIsOfProcessed, ProgressAddsUp
<1>17. \A g \in Handlers :
          /\ at'[g] = "set" => at[g] = "set" /\ job'[g] = job[g] /\ meant'[g] = meant[g]
          /\ at'[g] = "launch" => at[g] = "launch" /\ job'[g] = job[g] /\ job[g] # j
    BY <1>3 DEF TypeOK, LaunchIsExclusive, Starting
<1>18. CancelIsMeant'
  <2>1. \A r \in asked : r # next
    BY <1>4, <1>6 DEF CancelIsMeant
  <2>2. \A r \in asked : (pc[r] # "unborn" /\ (Alive(r) => Cancelled(r)))'
    BY <1>3, <1>5, <1>8, <2>1 DEF TypeOK, CancelIsMeant, Cancelled
  <2>3. \A g \in Handlers : at[g] = "set" => meant[g] # next /\ meant[g] \in Runs
    BY <1>4, <1>6 DEF CancelIsMeant
  <2>4. QED
    BY <1>3, <1>5, <1>17, <2>2, <2>3 DEF CancelIsMeant
<1>19. EventIsAccounted'
  <2>1. j \in cancel \/ Underway(j) => j \in racing
    BY <1>3 DEF EventIsAccounted
  <2>2. ASSUME NEW g \in Handlers, (at[g] = "launch")',
               (Underway(job[g]) \/ job[g] \in cancel)'
        PROVE  (job[g] \in racing)'
    <3>1. at[g] = "launch" /\ job'[g] = job[g]
      BY <1>17, <2>2
    <3>2. Underway(job[g])' => Underway(job[g])
      BY <1>17, <3>1 DEF Underway
    <3>3. QED
      BY <1>3, <2>2, <3>1, <3>2 DEF EventIsAccounted
  <2>3. ASSUME NEW r \in Runs, (Alive(r) /\ Cancelled(r))'
        PROVE  (r \in asked \/ owner[r] \in racing)'
    <3>1. CASE r = next
      BY <1>3, <1>6, <2>1, <2>3, <3>1 DEF Cancelled
    <3>2. CASE r # next
      BY <1>3, <1>5, <1>8, <2>3, <3>2 DEF EventIsAccounted, Cancelled
    <3>3. QED
      BY <3>1, <3>2
  <2>4. ASSUME NEW g \in Handlers, (at[g] = "set")',
               NEW r \in Runs, (Alive(r) /\ owner[r] = job[g])'
        PROVE  (meant[g] = r \/ job[g] \in racing)'
    <3>1. at[g] = "set" /\ job'[g] = job[g] /\ meant'[g] = meant[g]
      BY <1>17, <2>4
    <3>2. CASE r = next
      <4>1. job[g] = j
        BY <1>6, <2>4, <3>1, <3>2
      <4>2. Underway(j)
        BY <3>1, <4>1 DEF Underway
      <4>3. QED
        BY <1>3, <2>1, <3>1, <4>1, <4>2
    <3>3. CASE r # next
      BY <1>3, <1>5, <1>8, <2>4, <3>1, <3>3 DEF EventIsAccounted
    <3>4. QED
      BY <3>2, <3>3
  <2>5. QED
    BY <2>2, <2>3, <2>4 DEF EventIsAccounted
<1>20. CancelledWasAsked'
  <2>1. \A r \in Runs : pc'[r] = "finish" => r # next
    BY <1>6
  <2>2. QED
    BY <1>3, <1>5, <2>1 DEF CancelledWasAsked
<1>21. QED
    BY <1>10, <1>11, <1>12, <1>13, <1>14, <1>15, <1>16, <1>18, <1>19, <1>20

\* cancel() sets the event without the lock: for the run it has seen alive, or,
\* when that one is gone, for whichever run raced the clear.
LEMMA SetCancelIInv ==
    ASSUME IInv, NEW h \in Handlers, SetCancel(h)
    PROVE  IInv'
<1> USE DEF IInv, SetCancel, Done, Go, runVars
<1>1. /\ job[h] \in created /\ job[h] \in Jobs
      /\ meant[h] \in Runs /\ pc[meant[h]] # "unborn" /\ owner[meant[h]] = job[h]
    BY DEF TypeOK, JobsExist, CancelIsMeant
<1>2. TypeOK'
    BY <1>1 DEF TypeOK, HandlerSteps
<1>3. JobsExist'
    BY DEF TypeOK, JobsExist
<1>4. \A g \in Handlers :
          /\ Starting(g)' <=> Starting(g)
          /\ at'[g] = "launch" <=> at[g] = "launch"
          /\ at'[g] = "set" => at[g] = "set" /\ meant'[g] = meant[g] /\ job'[g] = job[g]
          /\ Starting(g) => job'[g] = job[g]
    BY DEF TypeOK, Starting
<1>5. LaunchIsExclusive'
    BY <1>4 DEF LaunchIsExclusive, Running, Alive
<1>6. CurrentIsOwned'
    BY DEF TypeOK, CurrentIsOwned, Alive
<1>7. (ProgressOfRun /\ RunningIsCurrent)'
    BY DEF ProgressOfRun, RunningIsCurrent, Alive
<1>8. (TallyIsOfProcessed /\ ProgressAddsUp /\ CancelledWasAsked)'
    BY DEF TallyIsOfProcessed, ProgressAddsUp, CancelledWasAsked
<1>9. CancelIsMeant'
    BY <1>1, <1>4 DEF CancelIsMeant, Alive, Cancelled
<1>10. EventIsAccounted'
  <2>1. Underway(job[h])
    BY DEF Underway
  <2>2. ASSUME NEW g \in Handlers, (at[g] = "launch")',
               (Underway(job[g]) \/ job[g] \in cancel)'
        PROVE  (job[g] \in racing)'
    <3>1. at[g] = "launch" /\ job'[g] = job[g]
      BY <1>4, <2>2 DEF Starting
    <3>2. Underway(job[g])' => Underway(job[g])
      BY <1>4, <3>1 DEF Underway
    <3>3. QED
      BY <2>1, <2>2, <3>1, <3>2 DEF EventIsAccounted
  <2>3. ASSUME NEW r \in Runs, (Alive(r) /\ Cancelled(r))'
        PROVE  (r \in asked \/ owner[r] \in racing)'
    <3>1. Alive(r) /\ (Cancelled(r) \/ owner[r] = job[h])
      BY <2>3 DEF Alive, Cancelled
    <3>2. QED
      BY <3>1 DEF EventIsAccounted
  <2>4. ASSUME NEW g \in Handlers, (at[g] = "set")',
               NEW r \in Runs, (Alive(r) /\ owner[r] = job[g])'
        PROVE  (meant[g] = r \/ job[g] \in racing)'
    BY <1>4, <2>4 DEF EventIsAccounted, Alive
  <2>5. QED
    BY <2>2, <2>3, <2>4 DEF EventIsAccounted
<1>11. QED
    BY <1>2, <1>3, <1>5, <1>6, <1>7, <1>8, <1>9, <1>10

-----------------------------------------------------------------------------
(* The threads.                                                            *)

\* A thread that is at work is its job's current run, and the job's progress
\* says "running".
LEMMA AtWork ==
    ASSUME IInv, NEW r \in Runs, pc[r] \notin {"unborn", "dead", "lost"}
    PROVE  /\ Alive(r)
           /\ owner[r] \in Jobs
           /\ current[owner[r]] = r
           /\ progress[owner[r]] \in Progress
           /\ pc[r] # "ended" => progress[owner[r]].state = "running"
BY DEF IInv, TypeOK, Alive, CurrentIsOwned, ProgressOfRun

\* A thread's step moves itself and no other: what the other threads and the
\* handlers rely on stays as it was.
LEMMA ThreadMoves ==
    ASSUME IInv, NEW r \in Runs, pc[r] \notin {"unborn", "dead", "lost"},
           NEW step \in RunSteps \ {"unborn"}, pc' = [pc EXCEPT ![r] = step],
           UNCHANGED onlyThread
    PROVE  /\ JobsExist' /\ LaunchIsExclusive' /\ CurrentIsOwned'
           /\ CancelIsMeant' /\ EventIsAccounted'
           /\ \A s \in Runs : s # r =>
                /\ pc'[s] = pc[s]
                /\ Alive(s)' => Alive(s) /\ owner[s] \in Jobs /\ owner[s] # owner[r]
<1> USE DEF IInv, onlyThread, handlerVars
<1>1. \A s \in Runs : s # r => pc'[s] = pc[s]
    BY DEF TypeOK
<1>2. pc'[r] = step
    BY DEF TypeOK
<1>3. \A s \in Runs : Alive(s)' => Alive(s)
    BY <1>1, <1>2 DEF Alive
<1>4. \A s \in Runs : s # r =>
        (Alive(s)' => Alive(s) /\ owner[s] \in Jobs /\ owner[s] # owner[r])
    BY <1>3, AtWork DEF CurrentIsOwned
<1>5. JobsExist' /\ CancelIsMeant' /\ EventIsAccounted'
  <2>1. \A s \in Runs : pc'[s] = "unborn" <=> pc[s] = "unborn"
    BY <1>1, <1>2
  <2>2. CancelIsMeant'
    BY <1>3, <2>1 DEF CancelIsMeant, Cancelled, TypeOK, history
  <2>3. EventIsAccounted'
    BY <1>3 DEF EventIsAccounted, Cancelled, Underway, history
  <2>4. QED
    BY <2>2, <2>3 DEF JobsExist
<1>6. LaunchIsExclusive'
  <2>1. \A j \in Jobs : ~Running(j) => ~Running(j)'
    BY <1>3, RunNumbers DEF Running, Alive
  <2>2. \A h \in Handlers : Starting(h) => job[h] \in Jobs
    BY DEF TypeOK, JobsExist, Starting
  <2>3. \A h \in Handlers : Starting(h)' <=> Starting(h)
    BY DEF Starting
  <2>4. QED
    BY <2>1, <2>2, <2>3 DEF LaunchIsExclusive
<1>7. CurrentIsOwned'
  <2>1. \A s \in Runs : pc'[s] = "unborn" <=> pc[s] = "unborn"
    BY <1>1, <1>2
  <2>2. QED
    BY <1>3, <2>1 DEF CurrentIsOwned
<1>8. QED
    BY <1>1, <1>4, <1>5, <1>6, <1>7

\* A step that records nothing: the reads, the tests, the pauses and the ends.
LEMMA SilentThread ==
    ASSUME IInv, NEW r \in Runs,
           \/ ReadAgent(r) \/ AgentReadFails(r) \/ TestCancel(r) \/ PrepareRaises(r)
           \/ Pace(r) \/ LastTest(r) \/ Die(r)
    PROVE  IInv'
<1> DEFINE j == owner[r]
           Steps == /\ pc[r] \notin {"unborn", "dead", "lost", "finish"}
                    /\ progress' = progress
                    /\ UNCHANGED onlyThread
<1>1. PICK step \in RunSteps \ {"unborn", "ended"} :
          /\ Steps
          /\ pc' = [pc EXCEPT ![r] = step]
          /\ \/ /\ verdict' = verdict
                /\ step # "finish" /\ step # "last"
                /\ step = "dead" => pc[r] = "ended"
                /\ step \in {"test", "prepare", "pace"} => pc[r] \in {"agent", "test", "prepare", "pace"}
                /\ step # "agent"
             \/ /\ step = "finish"
                /\ \E state \in {"done", "cancelled", "failed"} :
                     /\ verdict' = [verdict EXCEPT ![r] = state]
                     /\ state = "cancelled" => Cancelled(r)
                     /\ state = "done" => pc[r] = "last"
                /\ pc[r] # "ended"
  BY DEF ReadAgent, AgentReadFails, TestCancel, PrepareRaises, Pace, LastTest, Die, Step,
     Conclude, RunSteps
<1> USE DEF IInv
<1>2. /\ Alive(r) /\ j \in Jobs /\ current[j] = r
      /\ pc[r] # "ended" => progress[j].state = "running"
    BY <1>1, AtWork
<1>3. /\ JobsExist' /\ LaunchIsExclusive' /\ CurrentIsOwned'
      /\ CancelIsMeant' /\ EventIsAccounted'
      /\ \A s \in Runs : s # r =>
           pc'[s] = pc[s] /\ (Alive(s)' => Alive(s) /\ owner[s] \in Jobs /\ owner[s] # j)
    BY <1>1, ThreadMoves
<1>4. pc'[r] = step /\ owner' = owner /\ current' = current /\ asked' = asked
    BY <1>1 DEF TypeOK, onlyThread, history
<1>5. TypeOK'
    BY <1>1 DEF TypeOK, onlyThread, handlerVars, history, States
<1>6. ProgressOfRun'
  <2> SUFFICES ASSUME NEW s \in Runs, Alive(s)'
               PROVE  LET q == progress[owner[s]] IN
                      (/\ pc[s] # "ended" => q.state = "running"
                       /\ pc[s] \in {"agent", "test", "prepare", "pace"} => q.processed < q.total
                       /\ pc[s] = "last" => q.processed = q.total
                       /\ pc[s] = "finish" => verdict[s] \in {"done", "cancelled", "failed"}
                       /\ pc[s] = "finish" /\ verdict[s] = "done" => q.processed = q.total)'
    BY DEF ProgressOfRun
  <2>1. CASE s = r
    <3>1. /\ pc[r] \in {"agent", "test", "prepare", "pace"} => progress[j].processed < progress[j].total
          /\ pc[r] = "last" => progress[j].processed = progress[j].total
      BY <1>2 DEF ProgressOfRun
    <3>2. step = "finish" => verdict'[r] \in {"done", "cancelled", "failed"}
                             /\ (verdict'[r] = "done" => pc[r] = "last")
      BY <1>1 DEF TypeOK
    <3>3. step \notin {"unborn", "dead", "lost", "ended"}
      BY <1>1, <1>4, <2>1 DEF Alive
    <3>4. QED
      BY <1>1, <1>2, <1>4, <2>1, <3>1, <3>2, <3>3 DEF RunSteps
  <2>2. CASE s # r
    <3>1. verdict'[s] = verdict[s]
      BY <1>1, <2>2 DEF TypeOK
    <3>2. QED
      BY <1>1, <1>3, <1>4, <2>2, <3>1 DEF ProgressOfRun
  <2>3. QED
    BY <2>1, <2>2
<1>7. RunningIsCurrent'
    BY <1>1, <1>2, <1>3, <1>4 DEF TypeOK, RunningIsCurrent
<1>8. (TallyIsOfProcessed /\ ProgressAddsUp)'
    BY <1>1 DEF TallyIsOfProcessed, ProgressAddsUp
<1>9. CancelledWasAsked'
  <2> SUFFICES ASSUME NEW s \in Runs, (pc[s] = "finish" /\ verdict[s] = "cancelled")'
               PROVE  (s \in asked \/ owner[s] \in racing)'
    BY DEF CancelledWasAsked
  <2>1. racing' = racing
    BY <1>1 DEF onlyThread, history
  <2>2. CASE s = r
    <3>1. Cancelled(r)
      BY <1>1, <1>4, <2>2 DEF TypeOK
    <3>2. QED
      BY <1>2, <1>4, <2>1, <2>2, <3>1 DEF EventIsAccounted
  <2>3. CASE s # r
    <3>1. verdict'[s] = verdict[s] /\ pc'[s] = pc[s]
      BY <1>1, <1>3, <2>3 DEF TypeOK
    <3>2. QED
      BY <1>4, <2>1, <3>1 DEF CancelledWasAsked
  <2>4. QED
    BY <2>2, <2>3
<1>10. QED
    BY <1>3, <1>5, <1>6, <1>7, <1>8, <1>9

\* A game is prepared and recorded: one more processed, one more of its outcome.
LEMMA PrepareIInv ==
    ASSUME IInv, NEW r \in Runs, Prepare(r) \/ PrepareUnauthorized(r)
    PROVE  IInv'
<1> DEFINE j == owner[r]
           p == progress[j]
<1>1. PICK outcome \in Outcomes, step \in {"last", "pace", "finish"} :
          /\ pc[r] = "prepare"
          /\ Record(r, outcome)
          /\ pc' = [pc EXCEPT ![r] = step]
          /\ UNCHANGED onlyThread
          /\ \/ step = "last" /\ Remaining(r) <= 1 /\ verdict' = verdict
             \/ step = "pace" /\ ~(Remaining(r) <= 1) /\ verdict' = verdict
             \/ step = "finish" /\ verdict' = [verdict EXCEPT ![r] = "failed"]
  BY OutcomesAssumption DEF Prepare, Prepares, PrepareUnauthorized, Step, Conclude
<1> USE DEF IInv
<1>2. /\ Alive(r) /\ j \in Jobs /\ current[j] = r
      /\ p \in Progress /\ p.state = "running"
    BY <1>1, AtWork
<1>3. /\ JobsExist' /\ LaunchIsExclusive' /\ CurrentIsOwned'
      /\ CancelIsMeant' /\ EventIsAccounted'
      /\ \A s \in Runs : s # r =>
           pc'[s] = pc[s] /\ (Alive(s)' => Alive(s) /\ owner[s] \in Jobs /\ owner[s] # j)
    BY <1>1, ThreadMoves DEF RunSteps
<1>4. pc'[r] = step /\ owner' = owner /\ current' = current /\ asked' = asked
    BY <1>1 DEF TypeOK, onlyThread, history
<1>5. p.processed < p.total /\ p.processed \in Nat /\ p.total \in Nat /\ p.total <= MaxGames
    BY <1>1, <1>2, GamesAssumption DEF ProgressOfRun, Progress
<1>6. p.tally \in [Outcomes -> 0..MaxGames] /\ p.tally[outcome] <= p.processed
    BY <1>2 DEF Progress, TallyIsOfProcessed
<1>7. /\ progress'[j].state = "running"
      /\ progress'[j].total = p.total
      /\ progress'[j].processed = p.processed + 1
      /\ progress'[j].tally = [p.tally EXCEPT ![outcome] = @ + 1]
    BY <1>1, <1>2 DEF Record, TypeOK, Progress
<1>8. progress'[j] = [p EXCEPT !.processed = @ + 1, !.tally[outcome] = @ + 1]
    BY <1>1, <1>2 DEF Record, TypeOK, Progress
<1>9. /\ \A i \in Jobs : i # j => progress'[i] = progress[i]
      /\ progress' = [progress EXCEPT ![j] = progress'[j]]
    BY <1>1, <1>2 DEF Record, TypeOK, Progress
<1>10. TypeOK'
  <2>1. progress'[j].tally \in [Outcomes -> 0..MaxGames]
    BY <1>5, <1>6, <1>7, GamesAssumption
  <2>2. p.processed + 1 \in 0..MaxGames
    BY <1>5, GamesAssumption
  <2>3. progress'[j] \in Progress
    BY <1>2, <1>7, <1>8, <2>1, <2>2 DEF Progress, States
  <2>4. progress' \in [Jobs -> Progress]
    BY <1>9, <2>3 DEF TypeOK
  <2>5. pc' \in [Runs -> RunSteps] /\ verdict' \in [Runs -> States]
    BY <1>1 DEF TypeOK, RunSteps, States
  <2>6. QED
    BY <1>1, <2>4, <2>5 DEF TypeOK, onlyThread, handlerVars, history
<1>11. ProgressOfRun'
  <2> SUFFICES ASSUME NEW s \in Runs, Alive(s)'
               PROVE  LET q == progress[owner[s]] IN
                      (/\ pc[s] # "ended" => q.state = "running"
                       /\ pc[s] \in {"agent", "test", "prepare", "pace"} => q.processed < q.total
                       /\ pc[s] = "last" => q.processed = q.total
                       /\ pc[s] = "finish" => verdict[s] \in {"done", "cancelled", "failed"}
                       /\ pc[s] = "finish" /\ verdict[s] = "done" => q.processed = q.total)'
    BY DEF ProgressOfRun
  <2>1. CASE s = r
    <3>1. Remaining(r) = p.total - p.processed
      BY DEF Remaining
    <3>2. step = "last" => p.processed + 1 = p.total
      BY <1>1, <1>5, <3>1
    <3>3. step = "pace" => p.processed + 1 < p.total
      BY <1>1, <1>5, <3>1
    <3>4. step = "finish" => verdict'[r] = "failed"
      BY <1>1 DEF TypeOK
    <3>5. QED
      BY <1>4, <1>7, <2>1, <3>2, <3>3, <3>4
  <2>2. CASE s # r
    <3>1. verdict'[s] = verdict[s]
      BY <1>1, <2>2 DEF TypeOK
    <3>2. Alive(s) /\ pc'[s] = pc[s] /\ owner'[s] = owner[s]
          /\ progress'[owner[s]] = progress[owner[s]]
      BY <1>3, <1>4, <1>9, <2>2
    <3>3. QED
      BY <3>1, <3>2 DEF ProgressOfRun
  <2>3. QED
    BY <2>1, <2>2
<1>12. RunningIsCurrent'
  <2>1. \A i \in Jobs : i # j => current[i] # r
    BY <1>1 DEF CurrentIsOwned
  <2>2. \A i \in Jobs : i # j /\ current[i] \in Runs => pc'[current[i]] = pc[current[i]]
    BY <1>3, <2>1
  <2>3. QED
    BY <1>1, <1>2, <1>4, <1>9, <2>2 DEF RunningIsCurrent
<1>13. TallyIsOfProcessed'
  <2>1. \A o \in Outcomes : progress'[j].tally[o] <= progress'[j].processed
    <3>1. \A o \in Outcomes : p.tally[o] \in Nat /\ p.tally[o] <= p.processed
      BY <1>2, <1>6, GamesAssumption DEF TallyIsOfProcessed
    <3>2. QED
      BY <1>5, <1>6, <1>7, <3>1
  <2>2. QED
    BY <1>9, <2>1 DEF TallyIsOfProcessed
<1>14. ProgressAddsUp'
  <2>1. p.tally \in [Outcomes -> Nat]
    BY <1>6, GamesAssumption
  <2>2. SumFunction(progress'[j].tally) = SumFunction(p.tally) + 1
    BY <1>7, <2>1, OutcomesFinite, SumOfOneMore
  <2>3. SumFunction(p.tally) = p.processed
    BY <1>2 DEF ProgressAddsUp
  <2>4. progress'[j].processed <= progress'[j].total /\ progress'[j].state # "done"
    BY <1>5, <1>7
  <2>5. QED
    BY <1>7, <1>9, <2>2, <2>3, <2>4 DEF ProgressAddsUp
<1>15. CancelledWasAsked'
    BY <1>1, <1>3, <1>4 DEF TypeOK, CancelledWasAsked, onlyThread, history
<1>16. QED
    BY <1>3, <1>10, <1>11, <1>12, <1>13, <1>14, <1>15

\* The run records how it ended: nothing of its job reads "running" after it.
LEMMA FinishIInv ==
    ASSUME IInv, NEW r \in Runs, Finish(r)
    PROVE  IInv'
<1> DEFINE j == owner[r]
<1> USE DEF IInv
<1>1. /\ pc[r] = "finish"
      /\ progress' = [progress EXCEPT ![j].state = verdict[r]]
      /\ pc' = [pc EXCEPT ![r] = "ended"]
      /\ verdict' = verdict
      /\ UNCHANGED onlyThread
    BY DEF Finish, Finishes, Step
<1>2. /\ Alive(r) /\ j \in Jobs /\ current[j] = r /\ progress[j] \in Progress
    BY <1>1, AtWork
<1>3. /\ JobsExist' /\ LaunchIsExclusive' /\ CurrentIsOwned'
      /\ CancelIsMeant' /\ EventIsAccounted'
      /\ \A s \in Runs : s # r =>
           pc'[s] = pc[s] /\ (Alive(s)' => Alive(s) /\ owner[s] \in Jobs /\ owner[s] # j)
    BY <1>1, ThreadMoves DEF RunSteps
<1>4. pc'[r] = "ended" /\ owner' = owner /\ current' = current /\ asked' = asked
    BY <1>1 DEF TypeOK, onlyThread, history
<1>5. /\ verdict[r] \in {"done", "cancelled", "failed"}
      /\ verdict[r] = "done" => progress[j].processed = progress[j].total
    BY <1>1, <1>2 DEF ProgressOfRun
<1>6. /\ progress'[j] = [progress[j] EXCEPT !.state = verdict[r]]
      /\ \A i \in Jobs : i # j => progress'[i] = progress[i]
    BY <1>1, <1>2 DEF TypeOK
<1>7. /\ progress'[j].state = verdict[r]
      /\ progress'[j].total = progress[j].total
      /\ progress'[j].processed = progress[j].processed
      /\ progress'[j].tally = progress[j].tally
    BY <1>2, <1>6 DEF Progress
<1>8. TypeOK'
  <2>1. progress'[j] \in Progress
    BY <1>2, <1>5, <1>6 DEF Progress, States
  <2>2. progress' \in [Jobs -> Progress]
    BY <1>1, <1>6, <2>1 DEF TypeOK
  <2>3. QED
    BY <1>1, <2>2 DEF TypeOK, onlyThread, handlerVars, history, RunSteps
<1>9. ProgressOfRun'
    BY <1>1, <1>3, <1>4, <1>6 DEF ProgressOfRun, Alive
<1>10. RunningIsCurrent'
  <2>1. \A i \in Jobs : i # j => current[i] # r
    BY <1>1 DEF CurrentIsOwned
  <2>2. \A i \in Jobs : i # j /\ current[i] \in Runs => pc'[current[i]] = pc[current[i]]
    BY <1>3, <2>1
  <2>3. QED
    BY <1>4, <1>5, <1>6, <1>7, <2>2 DEF RunningIsCurrent
<1>11. TallyIsOfProcessed'
    BY <1>6, <1>7 DEF TallyIsOfProcessed
<1>12. ProgressAddsUp'
  <2>1. ASSUME NEW i \in Jobs
        PROVE  /\ SumFunction(progress'[i].tally) = progress'[i].processed
               /\ progress'[i].processed <= progress'[i].total
               /\ progress'[i].state = "done" => progress'[i].processed = progress'[i].total
    <3>1. /\ SumFunction(progress[i].tally) = progress[i].processed
          /\ progress[i].processed <= progress[i].total
          /\ progress[i].state = "done" => progress[i].processed = progress[i].total
      BY DEF ProgressAddsUp
    <3>2. CASE i = j
      BY <1>5, <1>7, <3>1, <3>2
    <3>3. CASE i # j
      BY <1>6, <3>1, <3>3
    <3>4. QED
      BY <3>2, <3>3
  <2>2. QED
    BY <2>1 DEF ProgressAddsUp
<1>13. CancelledWasAsked'
    BY <1>1, <1>3, <1>4 DEF CancelledWasAsked, onlyThread, history
<1>14. QED
    BY <1>3, <1>8, <1>9, <1>10, <1>11, <1>12, <1>13

\* The invariant holds whatever handlers and threads do.
LEMMA Invariance == Spec => []IInv
<1>1. IInv /\ UNCHANGED vars => IInv'
    BY DEF IInv, TypeOK, JobsExist, LaunchIsExclusive, CurrentIsOwned, ProgressOfRun,
       RunningIsCurrent, TallyIsOfProcessed, ProgressAddsUp, CancelIsMeant,
       EventIsAccounted, CancelledWasAsked, Starting, Underway, Cancelled, Running, Alive,
       vars
<1>2. IInv /\ [Next]_vars => IInv'
  <2>1. ASSUME IInv, NEW h \in Handlers, Handler(h)
        PROVE  IInv'
    BY <2>1, QuietHandler, ClaimIInv, ClearIInv, LaunchIInv, SetCancelIInv DEF Handler
  <2>2. ASSUME IInv, NEW r \in Runs, Thread(r)
        PROVE  IInv'
    BY <2>2, SilentThread, PrepareIInv, FinishIInv DEF Thread
  <2>3. QED
    BY <1>1, <2>1, <2>2 DEF Next
<1>3. QED
    BY InitIInv, <1>2, PTL DEF Spec

\* Type correctness (PrecacheJob and the handlers of leaf_control.py).
THEOREM TypeCorrect == Spec => []TypeOK
<1>1. IInv => TypeOK
    BY DEF IInv
<1>2. QED
    BY <1>1, Invariance, PTL

\* One job never has two runs under way, whatever start and cancel requests
\* race each other and the end of the previous run (PrecacheJob.start).
THEOREM OneRunAtATime == Spec => []OneRunPerJob
<1>1. IInv => OneRunPerJob
    BY DEF IInv, CurrentIsOwned, OneRunPerJob
<1>2. QED
    BY <1>1, Invariance, PTL

\* What the UI reads adds up at every moment: each game counted once, none
\* after the end of the list, all of them when the run says it is done
\* (PrecacheJob._run, _record, _finish).
THEOREM ProgressIsHonest == Spec => []ProgressAddsUp
<1>1. IInv => ProgressAddsUp
    BY DEF IInv
<1>2. QED
    BY <1>1, Invariance, PTL

\* A job that reads "running" has a thread at work, a thread that could not be
\* started and one lost ahead of _run's try apart (PrecacheJob.snapshot).
THEOREM RunningMeansAlive == Spec => []RunningIsAlive
<1>1. IInv => RunningIsAlive
    BY DEF IInv, TypeOK, RunningIsCurrent, RunningIsAlive, Running, Alive
<1>2. QED
    BY <1>1, Invariance, PTL

\* A run ends as cancelled only when a cancel that had seen it alive was
\* answered, or when one meant for an earlier run raced its start's clear of
\* the event (PrecacheJob.cancel, start).
THEOREM NoCancelIsLeftOver == Spec => []CancelledWasAsked
<1>1. IInv => CancelledWasAsked
    BY DEF IInv
<1>2. QED
    BY <1>1, Invariance, PTL

\* A cancel that was answered is kept: the run it had seen alive begins no
\* further game (PrecacheJob.cancel, _run).
THEOREM AnsweredCancelsHold == Spec => NoGameAfterCancel
<1> DEFINE NoGame == \A r \in asked : pc'[r] = "prepare" => pc[r] = "prepare"
<1>1. IInv /\ [Next]_vars => [NoGame]_vars
  <2> SUFFICES ASSUME IInv, Next, NEW r \in asked, pc'[r] = "prepare", pc[r] # "prepare"
               PROVE  FALSE
    OBVIOUS
  <2>1. r \in Runs /\ pc[r] # "unborn" /\ (Alive(r) => Cancelled(r))
    BY DEF IInv, TypeOK, CancelIsMeant
  <2>2. ASSUME NEW h \in Handlers, Handler(h)
        PROVE  FALSE
    <3>1. pc' = pc \/ \E step \in {"agent", "lost"} : pc' = [pc EXCEPT ![next] = step]
      BY <2>2 DEF Handler, Request, Lookup, Create, Answer, Answers, Claim, Admit, Clear, Clears,
         Launch, LaunchFails, Begins, SeeRunning, SetCancel, runVars
    <3>2. QED
      BY <2>1, <3>1 DEF IInv, TypeOK
  <2>3. ASSUME NEW s \in Runs, Thread(s)
        PROVE  FALSE
    <3>1. PICK step \in RunSteps :
              /\ pc' = [pc EXCEPT ![s] = step]
              /\ step = "prepare" => pc[s] = "test" /\ ~Cancelled(s)
      BY <2>3 DEF Thread, ReadAgent, AgentReadFails, TestCancel, Prepare, Prepares,
         PrepareUnauthorized, PrepareRaises, Pace, LastTest, Finish, Finishes, Die, Step,
         Conclude, RunSteps
    <3>2. s = r /\ step = "prepare"
      BY <2>1, <3>1 DEF IInv, TypeOK
    <3>3. QED
      BY <2>1, <3>1, <3>2 DEF Alive
  <2>4. QED
    BY <2>2, <2>3 DEF Next
<1>2. QED
    BY <1>1, Invariance, PTL DEF Spec, NoGameAfterCancel
=============================================================================
