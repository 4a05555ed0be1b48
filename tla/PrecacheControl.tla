--------------------------- MODULE PrecacheControl ---------------------------
(***************************************************************************)
(* The pre-cache job behind the pak's UI: request handlers that start,     *)
(* cancel and watch it, and the background thread of each run.             *)
(*                                                                         *)
(* The job object hangs off the server and is created by the first request *)
(* that looks for it, without a lock.  start() runs under the job's lock;  *)
(* cancel() does not.  A run's thread takes the lock only to record        *)
(* progress.  Runs are numbered in the order they start; a job's current   *)
(* run is the last one it started.                                         *)
(***************************************************************************)
EXTENDS Naturals, FiniteSets, Functions

CONSTANTS Handlers,  \* request workers that serve /leaf/precache
          Outcomes,  \* what preparing a game may report, "auth" set apart
          MaxGames,  \* bound: games in a run
          MaxRuns,   \* bound: runs ever started
          NoJob      \* no job on the server yet

ASSUME GamesAssumption == MaxGames \in Nat
ASSUME RunsAssumption == MaxRuns \in Nat
ASSUME OutcomesAssumption == "failed" \in Outcomes
ASSUME NoJobAssumption == NoJob \notin Handlers
ASSUME HandlersFinite == IsFiniteSet(Handlers)
ASSUME OutcomesFinite == IsFiniteSet(Outcomes)

\* A handler creates at most one job: the job goes by its creator.
Jobs == Handlers
Runs == 1..MaxRuns
NoRun == 0

VARIABLES
    attr,      \* server._leaf_precache_job
    \* per handler
    at,        \* where the handler is
    wants,     \* its request: start, cancel or status
    job,       \* the job it found or created
    meant,     \* the run its cancel has seen alive
    \* per job
    created,   \* jobs that exist
    locked,    \* jobs whose _lock a handler holds
    cancel,    \* jobs whose _cancel is set
    current,   \* current[j]: the run of _thread
    progress,  \* progress[j]: _progress
    \* per run
    next,      \* the number of the next run
    owner,     \* owner[r]: the job that runs it
    pc,        \* pc[r]: where its thread is
    verdict,   \* verdict[r]: the state _finish will record
    \* history
    asked,     \* runs whose cancel was answered: seen alive, then set
    racing     \* jobs whose last clear of the event left a cancel still to set it

handlerVars == <<at, wants, job, meant>>
runVars == <<next, owner, pc, verdict>>
history == <<asked, racing>>
vars == <<attr, at, wants, job, meant, created, locked, cancel, current, progress,
          next, owner, pc, verdict, asked, racing>>

States == {"idle", "running", "done", "cancelled", "failed"}
HandlerSteps == {"free", "lookup", "create", "act", "clear", "launch", "set"}
RunSteps == {"unborn", "agent", "test", "prepare", "pace", "last", "finish", "ended", "dead", "lost"}
Progress == [state : States, total : 0..MaxGames, tally : [Outcomes -> 0..MaxGames],
             processed : 0..MaxGames]
Fresh(state, total) ==
    [state |-> state, total |-> total, tally |-> [o \in Outcomes |-> 0], processed |-> 0]

TypeOK ==
    /\ attr \in Jobs \cup {NoJob}
    /\ at \in [Handlers -> HandlerSteps]
    /\ wants \in [Handlers -> {"start", "cancel", "status"}]
    /\ job \in [Handlers -> Jobs \cup {NoJob}]
    /\ meant \in [Handlers -> {NoRun} \cup Runs]
    /\ created \subseteq Jobs
    /\ locked \subseteq created
    /\ cancel \subseteq created
    /\ current \in [Jobs -> {NoRun} \cup Runs]
    /\ progress \in [Jobs -> Progress]
    /\ next \in 1..(MaxRuns + 1)
    /\ owner \in [Runs -> Jobs \cup {NoJob}]
    /\ pc \in [Runs -> RunSteps]
    /\ verdict \in [Runs -> States]
    /\ asked \subseteq Runs
    /\ racing \subseteq Jobs

Alive(r) == r \in Runs /\ pc[r] \notin {"unborn", "dead", "lost"}
Running(j) == Alive(current[j])

-----------------------------------------------------------------------------
(* Request handlers.                                                       *)

Go(h, step) == at' = [at EXCEPT ![h] = step]

\* The request is answered: the handler takes another one.
Done(h) ==
    /\ Go(h, "free")
    /\ wants' = [wants EXCEPT ![h] = "status"]
    /\ job' = [job EXCEPT ![h] = NoJob]
    /\ meant' = [meant EXCEPT ![h] = NoRun]

Request(h) ==
    /\ at[h] = "free"
    /\ \E w \in {"start", "cancel", "status"} : wants' = [wants EXCEPT ![h] = w]
    /\ Go(h, "lookup")
    /\ UNCHANGED <<attr, job, meant, created, locked, cancel, current, progress, runVars,
                   history>>

\* _job: what the attribute holds, or a job to be made.
Lookup(h) ==
    /\ at[h] = "lookup"
    /\ job' = [job EXCEPT ![h] = attr]
    /\ Go(h, IF attr = NoJob THEN "create" ELSE "act")
    /\ UNCHANGED <<attr, wants, meant, created, locked, cancel, current, progress, runVars,
                   history>>

Create(h) ==
    /\ at[h] = "create"
    /\ created' = created \cup {h}
    /\ attr' = h
    /\ job' = [job EXCEPT ![h] = h]
    /\ Go(h, "act")
    /\ UNCHANGED <<wants, meant, locked, cancel, current, progress, runVars, history>>

Answers(h, event) ==
    /\ at[h] = "act"
    /\ wants[h] = "cancel" => ~Running(job[h])
    /\ wants[h] # "cancel" => job[h] \notin locked
    /\ cancel' = event
    /\ Done(h)
    /\ UNCHANGED <<attr, created, locked, current, progress, runVars, history>>

\* Mutant of Answer: start() clears the event before its refusals.
AnswerCleared(h) ==
    Answers(h, IF wants[h] = "start" THEN cancel \ {job[h]} ELSE cancel)

\* The snapshot, taken under the lock; cancel() with nothing running; start()
\* with a run alive, nothing to prepare, or no usable token.
Answer(h) == Answers(h, cancel)

Admit(h) ==
    /\ at[h] = "act"
    /\ wants[h] = "start"
    /\ job[h] \notin locked
    /\ next + Cardinality(locked) \in Runs
    /\ locked' = locked \cup {job[h]}
    /\ Go(h, "clear")
    /\ UNCHANGED <<attr, wants, job, meant, created, cancel, current, progress, runVars,
                   history>>

\* Mutant of Claim: a run under way is not looked for.
ClaimUnchecked(h) == Admit(h)

\* start() under the lock, past its refusals.
Claim(h) == Admit(h) /\ ~Running(job[h])

\* A cancel that has seen an earlier run of the job, and has yet to set the event.
Underway(j) == \E g \in Handlers : at[g] = "set" /\ job[g] = j

Clears(h, event) ==
    /\ at[h] = "clear"
    /\ cancel' = event
    /\ racing' = IF Underway(job[h]) THEN racing \cup {job[h]} ELSE racing \ {job[h]}
    /\ Go(h, "launch")
    /\ UNCHANGED <<attr, wants, job, meant, created, locked, current, progress, runVars, asked>>

\* Mutant of Clear: an earlier run's cancel stays.
ClearNothing(h) == Clears(h, cancel)

\* Still under it: _cancel.clear() ...
Clear(h) == Clears(h, cancel \ {job[h]})

Begins(h, step) ==
    /\ at[h] = "launch"
    /\ \E n \in 1..MaxGames :
         progress' = [progress EXCEPT ![job[h]] = Fresh("running", n)]
    /\ current' = [current EXCEPT ![job[h]] = next]
    /\ owner' = [owner EXCEPT ![next] = job[h]]
    /\ pc' = [pc EXCEPT ![next] = step]
    /\ next' = next + 1
    /\ locked' = locked \ {job[h]}
    /\ Done(h)
    /\ UNCHANGED <<attr, created, cancel, verdict, history>>

\* ... then the progress reset, and the thread assigned and started: until it
\* is started a cancel() sees no run.
Launch(h) == Begins(h, "agent")

\* No thread can be started: the progress says "running" all the same.
LaunchFails(h) == Begins(h, "lost")

\* cancel() has seen a live thread; it sets the event without the lock, and
\* another start may clear it, or launch its run, before it does.
SeeRunning(h) ==
    /\ at[h] = "act"
    /\ wants[h] = "cancel"
    /\ Running(job[h])
    /\ meant' = [meant EXCEPT ![h] = current[job[h]]]
    /\ Go(h, "set")
    /\ UNCHANGED <<attr, wants, job, created, locked, cancel, current, progress, runVars,
                   history>>

SetCancel(h) ==
    /\ at[h] = "set"
    /\ cancel' = cancel \cup {job[h]}
    /\ asked' = asked \cup {meant[h]}
    /\ Done(h)
    /\ UNCHANGED <<attr, created, locked, current, progress, runVars, racing>>

Handler(h) ==
    \/ Request(h) \/ Lookup(h) \/ Create(h) \/ Answer(h)
    \/ Claim(h) \/ Clear(h) \/ Launch(h) \/ LaunchFails(h)
    \/ SeeRunning(h) \/ SetCancel(h)

-----------------------------------------------------------------------------
(* A run's thread: PrecacheJob._run.                                       *)

Unlocked(r) == owner[r] \notin locked
Cancelled(r) == owner[r] \in cancel
Remaining(r) == progress[owner[r]].total - progress[owner[r]].processed

Step(r, step) == pc' = [pc EXCEPT ![r] = step]
Conclude(r, state) ==
    /\ verdict' = [verdict EXCEPT ![r] = state]
    /\ Step(r, "finish")
onlyThread == <<attr, handlerVars, created, locked, cancel, current, next, owner, history>>

ReadAgent(r) ==
    /\ pc[r] = "agent"
    /\ Step(r, "test")
    /\ UNCHANGED <<onlyThread, progress, verdict>>

\* The user agent is read ahead of the try: an exception ends the thread.
AgentReadFails(r) ==
    /\ pc[r] = "agent"
    /\ Step(r, "lost")
    /\ UNCHANGED <<onlyThread, progress, verdict>>

TestCancel(r) ==
    /\ pc[r] = "test"
    /\ IF Cancelled(r) THEN Conclude(r, "cancelled")
                       ELSE Step(r, "prepare") /\ verdict' = verdict
    /\ UNCHANGED <<onlyThread, progress>>

\* Mutant of Record: the outcome is not tallied.
RecordUncounted(r, outcome) ==
    progress' = [progress EXCEPT ![owner[r]].processed = @ + 1]

\* The game in hand is prepared, whatever is asked meanwhile, and recorded.
Record(r, outcome) ==
    progress' = [progress EXCEPT ![owner[r]].processed = @ + 1,
                                 ![owner[r]].tally[outcome] = @ + 1]

Prepares(r, last) ==
    /\ pc[r] = "prepare"
    /\ Unlocked(r)
    /\ \E outcome \in Outcomes : Record(r, outcome)
    /\ Step(r, IF last THEN "last" ELSE "pace")
    /\ UNCHANGED <<onlyThread, verdict>>

\* Mutant of Prepare: off by one at the end of the list.
PrepareOneMore(r) == Prepares(r, Remaining(r) <= 0)

Prepare(r) == Prepares(r, Remaining(r) <= 1)

\* A rejected token ends the run: every other game would fail the same way.
PrepareUnauthorized(r) ==
    /\ pc[r] = "prepare"
    /\ Unlocked(r)
    /\ Record(r, "failed")
    /\ Conclude(r, "failed")
    /\ UNCHANGED onlyThread

PrepareRaises(r) ==
    /\ pc[r] = "prepare"
    /\ Conclude(r, "failed")
    /\ UNCHANGED <<onlyThread, progress>>

\* The pause between games: it runs out, or the cancel event cuts it short.
Pace(r) ==
    /\ pc[r] = "pace"
    /\ Step(r, "test")
    /\ UNCHANGED <<onlyThread, progress, verdict>>

LastTest(r) ==
    /\ pc[r] = "last"
    /\ Conclude(r, IF Cancelled(r) THEN "cancelled" ELSE "done")
    /\ UNCHANGED <<onlyThread, progress>>

Finishes(r, state) ==
    /\ pc[r] = "finish"
    /\ Unlocked(r)
    /\ progress' = [progress EXCEPT ![owner[r]].state = state]
    /\ Step(r, "ended")
    /\ UNCHANGED <<onlyThread, verdict>>

\* Mutant of Finish: the state is left as it was.
FinishUnrecorded(r) == Finishes(r, progress[owner[r]].state)

Finish(r) == Finishes(r, verdict[r])

Die(r) ==
    /\ pc[r] = "ended"
    /\ Step(r, "dead")
    /\ UNCHANGED <<onlyThread, progress, verdict>>

Thread(r) ==
    \/ ReadAgent(r) \/ AgentReadFails(r) \/ TestCancel(r) \/ Prepare(r)
    \/ PrepareUnauthorized(r) \/ PrepareRaises(r) \/ Pace(r) \/ LastTest(r)
    \/ Finish(r) \/ Die(r)

Init ==
    /\ attr = NoJob
    /\ at = [h \in Handlers |-> "free"]
    /\ wants = [h \in Handlers |-> "status"]
    /\ job = [h \in Handlers |-> NoJob]
    /\ meant = [h \in Handlers |-> NoRun]
    /\ created = {}
    /\ locked = {}
    /\ cancel = {}
    /\ current = [j \in Jobs |-> NoRun]
    /\ progress = [j \in Jobs |-> Fresh("idle", 0)]
    /\ next = 1
    /\ owner = [r \in Runs |-> NoJob]
    /\ pc = [r \in Runs |-> "unborn"]
    /\ verdict = [r \in Runs |-> "idle"]
    /\ asked = {}
    /\ racing = {}

Next ==
    \/ \E h \in Handlers : Handler(h)
    \/ \E r \in Runs : Thread(r)

Spec == Init /\ [][Next]_vars

-----------------------------------------------------------------------------
(* Properties.                                                             *)

\* One job never has two runs under way, whatever start and cancel requests
\* race each other and the end of the previous run.
OneRunPerJob ==
    \A r, s \in Runs : Alive(r) /\ Alive(s) /\ owner[r] = owner[s] => r = s

\* "Only one runs at a time: the pacing budget is global to the device"
\* (PrecacheJob), and "two UIs cannot start two runs" (leaf_control).
OneRunPerDevice == \A r, s \in Runs : Alive(r) /\ Alive(s) => r = s

\* What the UI reads adds up at every moment: each game counted once, none
\* after the end of the list, all of them when the run says it is done.
ProgressAddsUp ==
    \A j \in Jobs :
        LET p == progress[j] IN
        /\ SumFunction(p.tally) = p.processed
        /\ p.processed <= p.total
        /\ p.state = "done" => p.processed = p.total

\* A job that reads "running" has a thread at work, so the UI does not wait for
\* a run that is gone; the exceptions are a thread that could not be started,
\* and one lost ahead of _run's try.
RunningIsAlive ==
    \A j \in Jobs : progress[j].state = "running" =>
                       Running(j) \/ pc[current[j]] = "lost"

\* A run is not ended by what is left of a cancel: it ends as cancelled only
\* when a cancel that had seen it alive was answered, or when one that had seen
\* an earlier run of the job had yet to set the event when this run's start
\* cleared it (cancel() does not take the lock start() holds).
CancelledWasAsked ==
    \A r \in Runs : pc[r] = "finish" /\ verdict[r] = "cancelled" =>
                       r \in asked \/ owner[r] \in racing

\* A cancel that was answered is kept: the run it had seen alive finishes the
\* game in hand and begins no other, whatever starts are refused meanwhile.
NoGameAfterCancel ==
    [][\A r \in asked : pc'[r] = "prepare" => pc[r] = "prepare"]_vars

-----------------------------------------------------------------------------
(* The inductive invariant.                                                *)

\* A handler acts on a job that exists.
JobsExist ==
    /\ attr # NoJob => attr \in created
    /\ \A h \in Handlers : at[h] \in {"act", "clear", "launch", "set"} => job[h] \in created

\* Between start()'s look at the thread and the new one's launch the job's lock
\* is held, by that handler alone: no run of the job begins in between.
Starting(h) == at[h] \in {"clear", "launch"}
LaunchIsExclusive ==
    /\ \A h \in Handlers : Starting(h) => job[h] \in locked /\ ~Running(job[h])
    /\ \A g, h \in Handlers : Starting(g) /\ Starting(h) /\ job[g] = job[h] => g = h
    /\ next + Cardinality(locked) \in 1..(MaxRuns + 1)

\* A job's current run is one it owns, and the only one that may be alive.
CurrentIsOwned ==
    /\ \A r \in Runs : pc[r] = "unborn" <=> next <= r
    /\ \A j \in Jobs : current[j] \in Runs =>
         pc[current[j]] # "unborn" /\ owner[current[j]] = j
    /\ \A r \in Runs : Alive(r) => owner[r] \in Jobs /\ current[owner[r]] = r

\* Where a run's thread is says how far its job's progress has come.
ProgressOfRun ==
    \A r \in Runs : Alive(r) =>
        LET p == progress[owner[r]] IN
        /\ pc[r] # "ended" => p.state = "running"
        /\ pc[r] \in {"agent", "test", "prepare", "pace"} => p.processed < p.total
        /\ pc[r] = "last" => p.processed = p.total
        /\ pc[r] = "finish" => verdict[r] \in {"done", "cancelled", "failed"}
        /\ pc[r] = "finish" /\ verdict[r] = "done" => p.processed = p.total

RunningIsCurrent ==
    \A j \in Jobs : progress[j].state = "running" =>
        current[j] \in Runs /\ pc[current[j]] \notin {"unborn", "ended", "dead"}

TallyIsOfProcessed ==
    \A j \in Jobs : \A o \in Outcomes : progress[j].tally[o] <= progress[j].processed

\* A cancel under way means a run of its job, and an answered one has set the
\* event its run will see.
CancelIsMeant ==
    /\ \A h \in Handlers : at[h] = "set" =>
         meant[h] \in Runs /\ pc[meant[h]] # "unborn" /\ owner[meant[h]] = job[h]
    /\ \A r \in asked : pc[r] # "unborn" /\ (Alive(r) => Cancelled(r))

\* An event that no answered cancel set for the run that sees it, or that is
\* yet to be set for an earlier run, has raced the clear.
EventIsAccounted ==
    /\ \A h \in Handlers : at[h] = "launch" /\ (Underway(job[h]) \/ job[h] \in cancel) =>
         job[h] \in racing
    /\ \A r \in Runs : Alive(r) /\ Cancelled(r) => r \in asked \/ owner[r] \in racing
    /\ \A h \in Handlers : at[h] = "set" =>
         \A r \in Runs : Alive(r) /\ owner[r] = job[h] => meant[h] = r \/ job[h] \in racing

IInv ==
    /\ TypeOK
    /\ JobsExist
    /\ LaunchIsExclusive
    /\ CurrentIsOwned
    /\ ProgressOfRun
    /\ RunningIsCurrent
    /\ TallyIsOfProcessed
    /\ ProgressAddsUp
    /\ CancelIsMeant
    /\ EventIsAccounted
    /\ CancelledWasAsked
=============================================================================
