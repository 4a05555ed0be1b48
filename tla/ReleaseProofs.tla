--------------------------- MODULE ReleaseProofs ---------------------------
(***************************************************************************)
(* Proofs about building a release, for any locks, codes, minimums and     *)
(* devices, and any number of changes and targets made.                    *)
(*                                                                         *)
(* IInv (Release) is inductive.  What carries it is that make forgets what *)
(* it has said of files it is about to write, that nothing is known of the *)
(* tree once it is changed, and that a job which has not been disturbed    *)
(* has read one tree.  The first part is about the version gate alone.     *)
(***************************************************************************)
EXTENDS Release, SequenceTheorems, TLAPS

-----------------------------------------------------------------------------
(* The version gate.                                                       *)

\* What the gate compares digit by digit is the order the minimums are meant
\* in, of which the catalog's client has its own notion.
LEMMA AtLeastIsNotBelow ==
    ASSUME NEW text, text.parts \in Seq(Nat), Len(text.parts) = 3, NEW m, IsMinimum(m)
    PROVE  AtLeast(text, Text(m)) <=> NotBelow(text.parts, m)
<1> DEFINE parts == text.parts
<1>1. parts \in [1..3 -> Nat] /\ m \in [1..3 -> Nat]
  <2>1. parts \in [1..3 -> Nat]
    BY LenProperties
  <2>2. m \in [1..3 -> Nat]
    <3>1. m \in [1..3 -> 0..MaxComponent]
      BY DEF IsMinimum
    <3>2. 0..MaxComponent \subseteq Nat
      BY DEF MaxComponent
    <3>3. QED
      BY <3>1, <3>2
  <2>3. QED
    BY <2>1, <2>2
<1>a. AtLeast(text, Text(m)) <=>
        \/ parts[1] > m[1]
        \/ parts[1] = m[1] /\ parts[2] > m[2]
        \/ parts[1] = m[1] /\ parts[2] = m[2] /\ parts[3] >= m[3]
    BY DEF AtLeast, Text
<1> HIDE DEF parts
<1>2. parts = m <=> parts[1] = m[1] /\ parts[2] = m[2] /\ parts[3] = m[3]
  <2>1. \A k \in 1..3 : k = 1 \/ k = 2 \/ k = 3
    OBVIOUS
  <2>2. QED
    BY <1>1, <2>1
<1>3. \A k \in 1..3 : parts[k] \in Nat /\ m[k] \in Nat
    BY <1>1
<1>4. NotBelow(parts, m) <=>
        \/ parts = m
        \/ parts[1] > m[1]
        \/ parts[1] = m[1] /\ parts[2] > m[2]
        \/ parts[1] = m[1] /\ parts[2] = m[2] /\ parts[3] > m[3]
  <2>1. /\ 1..(1 - 1) = {} /\ 1..(2 - 1) = {1} /\ 1..(3 - 1) = {1, 2}
        /\ 1..3 = {1, 2, 3}
    OBVIOUS
  <2>2. QED
    BY <2>1 DEF NotBelow
<1>5. QED
    BY <1>2, <1>3, <1>4, <1>a DEF parts

\* A package runs nowhere below its minimum.
LEMMA GateKeepsBelowOut ==
    ASSUME NEW m, IsMinimum(m), NEW device \in Devices,
           Runs([leaf |-> Text(m), jawaka |-> Text(m)], device)
    PROVE  /\ Reaches(device.leaf, m)
           /\ IsVersion(device.jawaka, TRUE) => Reaches(device.jawaka, m)
<1>1. /\ IsVersion(device.leaf, TRUE)
      /\ AtLeast(device.leaf, Text(m))
      /\ IsVersion(device.jawaka, TRUE) => AtLeast(device.jawaka, Text(m))
  <2> DEFINE manifest == [leaf |-> Text(m), jawaka |-> Text(m)]
  <2>1. manifest.leaf = Text(m) /\ manifest.jawaka = Text(m)
    OBVIOUS
  <2> HIDE DEF manifest
  <2>2. GateManifest(manifest, device) = Compatible
    BY DEF Runs, manifest
  <2>3. /\ IsVersion(device.leaf, TRUE)
        /\ ~(\/ ~AtLeast(device.leaf, manifest.leaf)
             \/ IsVersion(device.jawaka, TRUE) /\ ~AtLeast(device.jawaka, manifest.jawaka))
    <3>1. Compatible \notin {NoMinimum, UnknownLeaf, BelowMinimum}
      BY DEF NoMinimum, UnknownLeaf, BelowMinimum, Compatible
    <3>2. QED
      BY <2>2, <3>1, Zenon DEF GateManifest
  <2>4. QED
    BY <2>1, <2>3
<1>2. ASSUME NEW text \in [v : BOOLEAN, parts : Seq(Nat), suffix : BOOLEAN],
             IsVersion(text, TRUE), AtLeast(text, Text(m))
      PROVE  Reaches(text, m)
  <2>1. text.parts \in Seq(Nat) /\ Len(text.parts) = 3
    BY <1>2 DEF IsVersion
  <2>2. QED
    BY <1>2, <2>1, AtLeastIsNotBelow DEF Reaches
<1>3. {device.leaf, device.jawaka} \subseteq [v : BOOLEAN, parts : Seq(Nat), suffix : BOOLEAN]
    BY DevicesAssumption
<1>4. QED
    BY <1>1, <1>2, <1>3

\* A package runs wherever the catalog's client finds its minimum reached.
LEMMA GateLetsTheHandedIn ==
    ASSUME NEW m, IsMinimum(m), NEW device \in Devices, Reaches(device.leaf, m)
    PROVE  Runs([leaf |-> Text(m), jawaka |-> Text(m)], [device EXCEPT !.jawaka = Absent])
<1> DEFINE manifest == [leaf |-> Text(m), jawaka |-> Text(m)]
           known == [device EXCEPT !.jawaka = Absent]
<1>1. manifest.leaf = Text(m) /\ manifest.jawaka = Text(m)
    OBVIOUS
<1>2. known.leaf = device.leaf /\ known.jawaka = Absent
    BY DevicesAssumption
<1>3. IsVersion(Text(m), FALSE)
    BY DEF IsVersion, Text, IsMinimum
<1>4. ~IsVersion(Absent, TRUE)
    BY DEF IsVersion, Absent
<1>5. IsVersion(device.leaf, TRUE) /\ AtLeast(device.leaf, Text(m))
  <2>1. device.leaf.parts \in Seq(Nat)
    BY DevicesAssumption
  <2>2. IsVersion(device.leaf, TRUE) /\ NotBelow(device.leaf.parts, m)
    BY DEF Reaches
  <2>3. Len(device.leaf.parts) = 3
    BY <2>2 DEF IsVersion
  <2>4. QED
    BY <2>1, <2>2, <2>3, AtLeastIsNotBelow
<1> HIDE DEF manifest, known
<1>6. GateManifest(manifest, known) = Compatible
    BY <1>1, <1>2, <1>3, <1>4, <1>5, Zenon DEF GateManifest
<1>7. QED
    BY <1>6 DEF Runs, manifest, known

-----------------------------------------------------------------------------
(* The scripts of a target.                                                *)

\* One script follows another in test-package alone.
LEMMA ScriptsInTurn ==
    LET three == <<"package_mlp1", "package_floor", "package_check">>
        two == <<"package_floor", "package_check">>
        one == <<"package_check">>
    IN  /\ Head(three) = "package_mlp1" /\ Tail(three) = two /\ Len(three) = 3
        /\ Head(two) = "package_floor" /\ Tail(two) = one /\ Len(two) = 2
        /\ Head(one) = "package_check" /\ Len(one) = 1
BY SMT

\* What is left of a target's scripts tells which target it is.
LEMMA TargetOfScript ==
    ASSUME NEW target \in Targets, NEW todo \in Remaining(target)
    PROVE  /\ Head(todo) = "package_mlp1" => target \in {"package-mlp1", "test-package"}
           /\ Head(todo) = "package_floor" => target \in {"package-floor-mlp1", "test-package"}
           /\ Head(todo) = "package_check" => target \in {"package_check", "test-package"}
           /\ Head(todo) \in {"catalog-fixture", "dist-source", "test-version-metadata"} =>
                 target = Head(todo)
           /\ target \notin {"package-mlp1", "package-floor-mlp1", "test-package"} =>
                 Head(todo) = target
           /\ Len(todo) > 1 <=> target = "test-package" /\ Head(todo) # "package_check"
           /\ Len(todo) > 1 =>
                 /\ Tail(todo) \in Remaining(target)
                 /\ Head(todo) = "package_mlp1" => Head(Tail(todo)) = "package_floor"
                 /\ Head(todo) = "package_floor" => Head(Tail(todo)) = "package_check"
<1>1. CASE target = "test-package"
  <2>1. todo \in {<<"package_mlp1", "package_floor", "package_check">>,
                  <<"package_floor", "package_check">>, <<"package_check">>}
    BY <1>1 DEF Remaining
  <2>2. CASE todo = <<"package_mlp1", "package_floor", "package_check">>
    BY <1>1, <2>2, ScriptsInTurn DEF Remaining
  <2>3. CASE todo = <<"package_floor", "package_check">>
    BY <1>1, <2>3, ScriptsInTurn DEF Remaining
  <2>4. CASE todo = <<"package_check">>
    BY <1>1, <2>4, ScriptsInTurn DEF Remaining
  <2>5. QED
    BY <2>1, <2>2, <2>3, <2>4
<1>2. CASE target # "test-package"
  <2>1. PICK script : /\ todo = <<script>>
                      /\ script = CASE target = "package-mlp1"       -> "package_mlp1"
                                    [] target = "package-floor-mlp1" -> "package_floor"
                                    [] OTHER                         -> target
    BY <1>2 DEF Remaining, Scripts
  <2>2. Head(todo) = script /\ Len(todo) = 1
    BY <2>1
  <2>3. QED
    BY <1>2, <2>1, <2>2 DEF Targets
<1>3. QED
    BY <1>1, <1>2

\* A target begins with its first script.
LEMMA FirstScript ==
    ASSUME NEW target \in Targets
    PROVE  /\ Scripts(target) \in Remaining(target)
           /\ target = "test-package" => Head(Scripts(target)) = "package_mlp1"
BY ScriptsInTurn DEF Remaining, Scripts

-----------------------------------------------------------------------------
(* The invariant.                                                          *)

\* What is known of a script at one of its steps.
LEMMA AtStep ==
    ASSUME JobOK, NEW script, NEW step, At(script, step)
    PROVE  /\ job # Idle /\ job.target \in Targets /\ job.target # "none"
           /\ job.todo \in Remaining(job.target)
           /\ Head(job.todo) = script /\ job.step = step
           /\ job.lock \in Locks
           /\ {"target", "todo", "step", "lock"} \subseteq DOMAIN job
BY DEF JobOK, At, Targets

\* Nothing is under way.
LEMMA IdleIsOK ==
    ASSUME job' = Idle
    PROVE  JobOK' /\ HalfPacked' /\ PackedTogether' /\ QuietJobReadsOneTree' /\ VouchersAreSafe'
           /\ FixtureIsOfPackages'
BY DEF JobOK, HalfPacked, PackedTogether, QuietJobReadsOneTree, VouchersAreSafe,
       FixtureIsOfPackages, At

\* A script's turn has come.
LEMMA TurnIsAJob ==
    ASSUME NEW target \in Targets, NEW todo \in Remaining(target), TypeOK, tree' = tree,
           job' = Turn(target, todo)
    PROVE  /\ JobOK' /\ job' # Idle
           /\ job'.target = target /\ job'.todo = todo /\ job'.step = "start"
           /\ job'.lock = tree.lock
<1>1. /\ job'.target = target /\ job'.todo = todo /\ job'.step = "start"
      /\ job'.lock = tree.lock /\ DOMAIN job' = {"target", "todo", "step", "lock"}
    BY DEF Turn
<1>2. job' # Idle
    BY <1>1 DEF Idle, Targets
<1>3. tree.lock \in Locks
    BY DEF TypeOK, Trees
<1>4. "start" \in StepsOf(Head(todo))
    BY DEF StepsOf
<1>5. JobOK'
    BY <1>1, <1>3, <1>4 DEF JobOK
<1>6. QED
    BY <1>1, <1>2, <1>5

\* A script goes on to another of its steps.
LEMMA GoOnIsAJob ==
    ASSUME JobOK, job # Idle, NEW step \in StepsOf(Head(job.todo)),
           job' = [job EXCEPT !.step = step],
           job.target = "catalog-fixture" => job.step # "start" /\ step # "start"
    PROVE  /\ JobOK' /\ job' # Idle
           /\ job'.target = job.target /\ job'.todo = job.todo /\ job'.lock = job.lock
           /\ job'.step = step
           /\ job.target = "catalog-fixture" => job'.min = job.min
<1>1. /\ job.target \in Targets /\ job.todo \in Remaining(job.target) /\ job.lock \in Locks
      /\ DOMAIN job = {"target", "todo", "step", "lock"} \cup
             IF job.target = "catalog-fixture" /\ job.step # "start" THEN {"min"} ELSE {}
    BY DEF JobOK
<1>2. /\ DOMAIN job' = DOMAIN job
      /\ job'.target = job.target /\ job'.todo = job.todo /\ job'.lock = job.lock
      /\ job'.step = step
      /\ job.target = "catalog-fixture" => job'.min = job.min
    BY <1>1
<1>3. job' # Idle
    BY <1>1, <1>2 DEF Idle, Targets
<1>4. JobOK'
    BY <1>1, <1>2 DEF JobOK
<1>5. QED
    BY <1>2, <1>3, <1>4

\* How a script that succeeds leaves the job: over, or at the next script of
\* test-package.
Over ==
    /\ job' = Idle
    /\ passed' = passed \cup {[target |-> job.target, quiet |-> quiet]}
    /\ job.target = "test-package" => Head(job.todo) = "package_check"
NextScript ==
    /\ job' # Idle /\ job.target = "test-package" /\ job'.target = "test-package"
    /\ job'.step = "start" /\ job'.lock = tree.lock
    /\ \/ Head(job.todo) = "package_mlp1" /\ Head(job'.todo) = "package_floor"
       \/ Head(job.todo) = "package_floor" /\ Head(job'.todo) = "package_check"
    /\ passed' = passed

\* A script that succeeds does one of the two.
LEMMA SucceedIsAJob ==
    ASSUME TypeOK, JobOK, job # Idle, Succeed, tree' = tree
    PROVE  JobOK' /\ (Over \/ NextScript)
<1>1. job.target \in Targets /\ job.todo \in Remaining(job.target)
    BY DEF JobOK
<1>2. CASE Len(job.todo) > 1
  <2>1. job.target = "test-package" /\ Head(job.todo) # "package_check"
        /\ Tail(job.todo) \in Remaining(job.target)
        /\ (Head(job.todo) = "package_mlp1" => Head(Tail(job.todo)) = "package_floor")
        /\ (Head(job.todo) = "package_floor" => Head(Tail(job.todo)) = "package_check")
    BY <1>1, <1>2, TargetOfScript
  <2>2. Head(job.todo) \in {"package_mlp1", "package_floor"}
    BY <1>1, <2>1, ScriptsInTurn DEF Remaining
  <2>3. job' = Turn(job.target, Tail(job.todo)) /\ passed' = passed
    BY <1>2 DEF Succeed
  <2>4. /\ JobOK' /\ job' # Idle
        /\ job'.target = job.target /\ job'.todo = Tail(job.todo) /\ job'.step = "start"
        /\ job'.lock = tree.lock
    BY <1>1, <2>1, <2>3, TurnIsAJob
  <2>5. QED
    BY <2>1, <2>2, <2>3, <2>4 DEF NextScript
<1>3. CASE ~(Len(job.todo) > 1)
  <2>1. job' = Idle /\ passed' = passed \cup {[target |-> job.target, quiet |-> quiet]}
    BY <1>3 DEF Succeed
  <2>2. job.target = "test-package" => Head(job.todo) = "package_check"
    BY <1>1, <1>3, TargetOfScript
  <2>3. QED
    BY <2>1, <2>2, IdleIsOK DEF Over
<1>4. QED
    BY <1>2, <1>3

\* The first state: nothing has been built.
LEMMA InitIInv == Init => IInv
<1> SUFFICES ASSUME Init PROVE IInv
    OBVIOUS
<1>1. TypeOK
  <2>1. PICK l \in Locks, c \in Codes, m \in LockedMinimums :
            tree = [lock |-> l, manifest |-> [pak |-> l.pak, min |-> l.min],
                    floorMin |-> m, code |-> c]
    BY DEF Init
  <2>2. l.pak \in Versions /\ l.min \in LockedMinimums
    BY DEF Versions, LockedMinimums
  <2>3. tree \in Trees /\ head \in Trees
    BY <2>1, <2>2 DEF Init, Trees
  <2>4. \A v \in DOMAIN tags : tags[v] \in Trees /\ tags[v].lock.pak = v
    <3>1. CASE tags = <<>>
      BY <3>1
    <3>2. CASE tags # <<>>
      <4>1. PICK d \in Codes : tags = [v \in {tree.lock.pak} |-> [tree EXCEPT !.code = d]]
        BY <3>2 DEF Init
      <4>2. [tree EXCEPT !.code = d] \in Trees /\ [tree EXCEPT !.code = d].lock = tree.lock
        BY <2>3 DEF Trees
      <4>3. QED
        BY <4>1, <4>2
    <3>3. QED
      BY <3>1, <3>2
  <2>5. changes \in 0..MaxChanges /\ jobs \in 0..MaxJobs
    BY BoundsAssumption DEF Init
  <2>6. QED
    BY <2>3, <2>4, <2>5 DEF Init, TypeOK, Idle
<1>2. job = Idle /\ passed = {}
    BY DEF Init
<1>3. QED
    BY <1>1, <1>2 DEF IInv, JobOK, HalfPacked, PackedTogether, QuietJobReadsOneTree,
        VouchersAreSafe, PassedIsOfTheTree, FixtureIsOfPackages, CheckedIsReleasable,
        SourceIsItsCommit, HandedPaksRun, Passed, PassedInQuiet, At

\* What has been said of a catalog holds while it lies there.
LEMMA HandedKept ==
    ASSUME HandedPaksRun, storefront' = storefront,
           Passed("catalog-fixture")' => Passed("catalog-fixture")
    PROVE  HandedPaksRun'
BY DEF HandedPaksRun, Handed

\* The tree is edited or committed, or a version published: make forgets all.
LEMMA ChangeIInv ==
    ASSUME IInv, Edit \/ Commit \/ Tag
    PROVE  IInv'
<1>0. Change /\ TypeOK
    BY DEF Edit, Commit, Tag, IInv
<1>1. TypeOK'
  <2>1. {tree, head} \subseteq Trees
    BY <1>0 DEF TypeOK
  <2>2. ASSUME Edit PROVE tree' \in Trees /\ head' = head /\ tags' = tags
    <3>1. tree.lock.pak \in Versions /\ tree.lock.min \in LockedMinimums
      BY <2>1 DEF Trees, Versions, LockedMinimums
    <3>2. QED
      BY <2>1, <2>2, <3>1 DEF Edit, Trees
  <2>3. {tree', head'} \subseteq Trees
    BY <2>1, <2>2 DEF Commit, Tag, Edit
  <2>4. \A v \in DOMAIN tags' : tags'[v] \in Trees /\ tags'[v].lock.pak = v
    BY <1>0, <2>1, <2>2 DEF Commit, Tag, Edit, TypeOK
  <2>5. changes' \in 0..MaxChanges
    BY <1>0, BoundsAssumption DEF Change, TypeOK
  <2>6. QED
    BY <1>0, <2>3, <2>4, <2>5 DEF Change, TypeOK, files
<1>2. job' = job /\ UNCHANGED files /\ quiet' = FALSE /\ passed' = {}
    BY <1>0 DEF Change
<1>3. JobOK' /\ HalfPacked' /\ PackedTogether' /\ QuietJobReadsOneTree' /\ VouchersAreSafe'
    BY <1>2 DEF IInv, JobOK, HalfPacked, PackedTogether, QuietJobReadsOneTree, VouchersAreSafe,
                At, files
<1>4. FixtureIsOfPackages'
    BY <1>2 DEF IInv, FixtureIsOfPackages, At, files, Gated, Below
<1>5. PassedIsOfTheTree' /\ CheckedIsReleasable' /\ SourceIsItsCommit' /\ HandedPaksRun'
    BY <1>2 DEF PassedIsOfTheTree, CheckedIsReleasable, SourceIsItsCommit, HandedPaksRun,
                Passed, PassedInQuiet
<1>6. QED
    BY <1>1, <1>3, <1>4, <1>5 DEF IInv

\* make is asked for a target, and forgets what it has said of what that writes.
LEMMA MakeIInv ==
    ASSUME IInv, NEW target \in Targets, Make(target)
    PROVE  IInv'
<1>1. /\ UNCHANGED <<repo, files>> /\ quiet' = TRUE
      /\ passed' = {p \in passed : p.target \notin Spoils(target)}
      /\ job' = Turn(target, Scripts(target))
    BY DEF Make
<1>2. TypeOK'
  <2>1. jobs' \in 0..MaxJobs
    BY BoundsAssumption DEF IInv, TypeOK, Make
  <2>2. job'.target \in Targets
    BY <1>1 DEF Turn
  <2>3. QED
    BY <1>1, <2>1, <2>2 DEF IInv, TypeOK, repo, files
<1>3. /\ JobOK' /\ job' # Idle
      /\ job'.target = target /\ job'.todo = Scripts(target) /\ job'.step = "start"
      /\ job'.lock = tree.lock
    BY <1>1, TurnIsAJob, FirstScript DEF IInv, repo
<1>4. target = "test-package" => Head(job'.todo) = "package_mlp1"
    BY <1>3, FirstScript
<1>5. HalfPacked' /\ FixtureIsOfPackages'
    BY <1>3 DEF HalfPacked, FixtureIsOfPackages, At
<1>6. PackedTogether' /\ QuietJobReadsOneTree'
    BY <1>1, <1>3, <1>4 DEF PackedTogether, QuietJobReadsOneTree, At, repo
<1>7. VouchersAreSafe'
    BY <1>1, <1>3 DEF VouchersAreSafe
<1>8. PassedIsOfTheTree' /\ CheckedIsReleasable' /\ SourceIsItsCommit'
    BY <1>1 DEF IInv, PassedIsOfTheTree, CheckedIsReleasable, SourceIsItsCommit, Passed,
                PassedInQuiet, CopiesAgree, NotPublished, repo, files
<1>9. HandedPaksRun'
    BY <1>1, HandedKept DEF IInv, Passed, files
<1>10. QED
    BY <1>2, <1>3, <1>5, <1>6, <1>7, <1>8, <1>9 DEF IInv

\* A job ends, having written nothing more; what it was about to write, it may
\* have torn.
LEMMA FailIInv ==
    ASSUME IInv, Fail, UNCHANGED others, UNCHANGED files \/ Interrupt
    PROVE  IInv'
<1>1. job' = Idle /\ passed' = passed /\ UNCHANGED <<tree, head, tags, changes, jobs, quiet>>
    BY DEF Fail, others, repo
<1>2. TypeOK /\ JobOK /\ VouchersAreSafe
    BY DEF IInv
<1>3. TypeOK'
  <2>1. /\ real' \in {real, Torn} /\ floor' \in {floor, Torn}
        /\ realZip' \in {realZip, None, Torn, Short} /\ floorZip' \in {floorZip, None, Torn, Short}
    BY DEF Interrupt, files
  <2>2. job'.target \in Targets \cup {"none"}
    BY <1>1 DEF Idle
  <2>3. QED
    BY <1>1, <1>2, <2>1, <2>2 DEF TypeOK
<1>4. JobOK' /\ HalfPacked' /\ PackedTogether' /\ QuietJobReadsOneTree' /\ VouchersAreSafe'
      /\ FixtureIsOfPackages'
    BY <1>1, IdleIsOK
<1>5. Passed("test-package") => UNCHANGED <<real, realZip, floor, floorZip>>
  <2>1. CASE UNCHANGED files
    BY <2>1 DEF files
  <2>2. CASE Interrupt
    <3>1. SUFFICES ASSUME Passed("test-package")
                   PROVE  UNCHANGED <<real, realZip, floor, floorZip>>
      OBVIOUS
    <3>2. job # Idle /\ "test-package" \notin Spoils(job.target)
      BY <1>2, <2>2, <3>1 DEF Interrupt, VouchersAreSafe, Passed
    <3>3. job.target \notin {"package-mlp1", "package-floor-mlp1", "test-package"}
      BY <3>2 DEF Spoils
    <3>4. Head(job.todo) = job.target
      BY <1>2, <3>2, <3>3, TargetOfScript DEF JobOK
    <3>5. Head(job.todo) \notin {"package_mlp1", "package_floor"}
      BY <1>2, <3>2, <3>3, <3>4 DEF JobOK, Targets
    <3>6. QED
      BY <2>2, <3>5 DEF Interrupt, At
  <2>3. QED
    BY <2>1, <2>2
<1>6. Passed("dist-source") => source' = source
  <2>1. CASE Interrupt /\ At("dist-source", "archive")
    <3>1. job # Idle /\ job.target = "dist-source"
      BY <1>2, <2>1, AtStep, TargetOfScript
    <3>2. QED
      BY <1>2, <3>1 DEF VouchersAreSafe, Passed, Spoils
  <2>2. CASE ~(Interrupt /\ At("dist-source", "archive"))
    BY <2>2 DEF Interrupt, files
  <2>3. QED
    BY <2>1, <2>2
<1>7. Passed("catalog-fixture") => storefront' = storefront
  <2>1. CASE Interrupt /\ At("catalog-fixture", "feed")
    <3>1. job # Idle /\ job.target = "catalog-fixture"
      BY <1>2, <2>1, AtStep, TargetOfScript
    <3>2. QED
      BY <1>2, <3>1 DEF VouchersAreSafe, Passed, Spoils
  <2>2. CASE ~(Interrupt /\ At("catalog-fixture", "feed"))
    BY <2>2 DEF Interrupt, files
  <2>3. QED
    BY <2>1, <2>2
<1>8. CheckedIsReleasable' /\ PassedIsOfTheTree'
    BY <1>1, <1>5 DEF IInv, CheckedIsReleasable, PassedIsOfTheTree, Passed, PassedInQuiet,
                      CopiesAgree, NotPublished
<1>9. SourceIsItsCommit'
    BY <1>1, <1>6 DEF IInv, SourceIsItsCommit, Passed, PassedInQuiet
<1>10. HandedPaksRun'
  <2>1. Passed("catalog-fixture")' <=> Passed("catalog-fixture")
    BY <1>1 DEF Passed
  <2>2. CASE Passed("catalog-fixture")
    BY <1>7, <2>1, <2>2, HandedKept DEF IInv
  <2>3. CASE ~Passed("catalog-fixture")
    BY <2>1, <2>3 DEF HandedPaksRun
  <2>4. QED
    BY <2>2, <2>3
<1>11. QED
    BY <1>3, <1>4, <1>8, <1>9, <1>10 DEF IInv
-----------------------------------------------------------------------------
(* The steps of the scripts.                                               *)

\* Nothing more is said of a target than was said before.
NoMoreSaid(target) ==
    /\ Passed(target)' => Passed(target)
    /\ PassedInQuiet(target)' => PassedInQuiet(target)

\* Only the target that is over has more said of it.
LEMMA OnlyOverIsSaid ==
    ASSUME passed' = passed \/ Over, NEW target, job.target # target
    PROVE  NoMoreSaid(target)
BY DEF NoMoreSaid, Over, Passed, PassedInQuiet

\* A step that does not end a script says nothing.
LEMMA NothingIsSaid ==
    ASSUME passed' = passed, NEW target
    PROVE  NoMoreSaid(target)
BY DEF NoMoreSaid, Passed, PassedInQuiet

\* While a package is being packed nothing is said of the packages.
LEMMA PackingIsUnvouched ==
    ASSUME JobOK, VouchersAreSafe, NEW step, At("package_mlp1", step) \/ At("package_floor", step)
    PROVE  ~Passed("test-package")
<1>1. job # Idle /\ job.target \in {"package-mlp1", "package-floor-mlp1", "test-package"}
    BY AtStep, TargetOfScript
<1>2. QED
    BY <1>1 DEF VouchersAreSafe, Passed, Spoils

\* What was said of the packages holds while they lie there.
LEMMA PackagesKept ==
    ASSUME IInv, UNCHANGED <<tree, head, tags>>,
           NoMoreSaid("test-package"), NoMoreSaid("test-version-metadata"),
           Passed("test-package") => UNCHANGED <<real, realZip, floor, floorZip>>
    PROVE  CheckedIsReleasable' /\ PassedIsOfTheTree'
<1>1. PassedInQuiet("test-package") => Passed("test-package")
    BY DEF PassedInQuiet, Passed
<1>2. CheckedIsReleasable /\ PassedIsOfTheTree
    BY DEF IInv
<1>3. CheckedIsReleasable'
    BY <1>2 DEF CheckedIsReleasable, NoMoreSaid
<1>4. (CopiesAgree /\ NotPublished) => (CopiesAgree /\ NotPublished)'
    BY DEF CopiesAgree, NotPublished
<1>5. PassedIsOfTheTree'
    BY <1>1, <1>2, <1>4 DEF PassedIsOfTheTree, NoMoreSaid
<1>6. QED
    BY <1>3, <1>5

\* What was said of the source archive and of the catalog does, too.
LEMMA OutputsKept ==
    ASSUME IInv, NoMoreSaid("dist-source"), NoMoreSaid("catalog-fixture"),
           source' = source, storefront' = storefront
    PROVE  SourceIsItsCommit' /\ HandedPaksRun'
<1>1. SourceIsItsCommit'
    BY DEF IInv, SourceIsItsCommit, NoMoreSaid
<1>2. HandedPaksRun'
    BY HandedKept DEF IInv, NoMoreSaid
<1>3. QED
    BY <1>1, <1>2

\* A step within package_mlp1 or package_floor: what it has to see to is its
\* own directory.
LEMMA PackingGoesOn ==
    ASSUME IInv, UNCHANGED others, UNCHANGED <<realZip, floorZip, storefront, source>>,
           NEW script \in {"package_mlp1", "package_floor"}, NEW from, NEW step \in StepsOf(script),
           At(script, from), GoOn(step), script = "package_floor" => real' = real
    PROVE  /\ JobOK' /\ PackedTogether' /\ VouchersAreSafe' /\ FixtureIsOfPackages'
           /\ CheckedIsReleasable' /\ PassedIsOfTheTree' /\ SourceIsItsCommit' /\ HandedPaksRun'
           /\ job' # Idle /\ Head(job'.todo) = script /\ job'.step = step
           /\ job'.lock = job.lock /\ job'.target = job.target
<1>0. JobOK /\ PackedTogether /\ VouchersAreSafe /\ passed' = passed
      /\ UNCHANGED <<tree, head, tags>>
    BY DEF IInv, GoOn, others, repo
<1>1. job # Idle /\ Head(job.todo) = script
    BY DEF At
<1>2. job.target # "catalog-fixture"
    BY <1>0, <1>1, AtStep, TargetOfScript
<1>3. /\ JobOK' /\ job' # Idle
      /\ job'.target = job.target /\ job'.todo = job.todo /\ job'.lock = job.lock
      /\ job'.step = step
    BY <1>0, <1>1, <1>2, GoOnIsAJob DEF GoOn
<1>4. FixtureIsOfPackages'
    BY <1>1, <1>3 DEF FixtureIsOfPackages, At
<1>5. VouchersAreSafe'
    BY <1>0, <1>1, <1>3 DEF VouchersAreSafe
<1>6. PackedTogether'
  <2>1. CASE script = "package_mlp1"
    BY <1>1, <1>3, <2>1 DEF PackedTogether
  <2>2. CASE script = "package_floor"
    BY <1>0, <1>1, <1>3, <2>2 DEF PackedTogether
  <2>3. QED
    BY <2>1, <2>2
<1>7. ~Passed("test-package")
    BY <1>0, PackingIsUnvouched
<1>8. CheckedIsReleasable' /\ PassedIsOfTheTree' /\ SourceIsItsCommit' /\ HandedPaksRun'
    BY <1>0, <1>7, NothingIsSaid, PackagesKept, OutputsKept
<1>9. QED
    BY <1>1, <1>3, <1>4, <1>5, <1>6, <1>8

\* CheckLock and CheckFloorLock: the lock still is what the recipe read, or in
\* the floor's case has its version.
LEMMA CheckLockIInv ==
    ASSUME IInv, CheckLock \/ CheckFloorLock
    PROVE  IInv'
<1>1. CASE Fail
    BY <1>1, FailIInv DEF CheckLock, CheckFloorLock
<1>2. CASE ~Fail
  <2>1. PICK script \in {"package_mlp1", "package_floor"} : At(script, "start")
    BY DEF CheckLock, CheckFloorLock
  <2>2. GoOn("files") /\ UNCHANGED <<others, files>>
    BY <1>2 DEF CheckLock, CheckFloorLock
  <2>3. "files" \in StepsOf(script)
    BY <2>1 DEF StepsOf
  <2>4. /\ JobOK' /\ PackedTogether' /\ VouchersAreSafe' /\ FixtureIsOfPackages'
        /\ CheckedIsReleasable' /\ PassedIsOfTheTree' /\ SourceIsItsCommit' /\ HandedPaksRun'
        /\ job' # Idle /\ Head(job'.todo) = script /\ job'.step = "files"
        /\ job'.lock = job.lock /\ job'.target = job.target
    BY <2>1, <2>2, <2>3, PackingGoesOn DEF files
  <2>5. job'.target \in Targets
    BY <2>4 DEF JobOK
  <2>6. TypeOK'
    BY <2>2, <2>5 DEF IInv, TypeOK, GoOn, others, repo, files
  <2>7. HalfPacked'
    BY <2>4 DEF HalfPacked, At
  <2>8. QuietJobReadsOneTree'
    BY <2>1, <2>2, <2>4 DEF IInv, QuietJobReadsOneTree, At, others, repo, files
  <2>9. QED
    BY <2>4, <2>6, <2>7, <2>8 DEF IInv
<1>3. QED
    BY <1>1, <1>2

\* CopyFiles: the directory is made anew.
LEMMA CopyFilesIInv ==
    ASSUME IInv, CopyFiles
    PROVE  IInv'
<1>1. /\ At("package_mlp1", "files") /\ GoOn("licences") /\ real' = Packed
      /\ UNCHANGED <<others, realZip, floor, floorZip, storefront, source>>
    BY DEF CopyFiles
<1>2. job.lock \in Locks /\ tree \in Trees
    BY <1>1, AtStep DEF IInv, TypeOK
<1>3. /\ real' \in RealPaks /\ real'.pak = job.lock.pak /\ real'.min = job.lock.min
      /\ real'.code = tree.code
    BY <1>1, <1>2 DEF Packed, RealPaks, Versions, LockedMinimums, Trees
<1>4. "licences" \in StepsOf("package_mlp1")
    BY DEF StepsOf
<1>5. /\ JobOK' /\ PackedTogether' /\ VouchersAreSafe' /\ FixtureIsOfPackages'
      /\ CheckedIsReleasable' /\ PassedIsOfTheTree' /\ SourceIsItsCommit' /\ HandedPaksRun'
      /\ job' # Idle /\ Head(job'.todo) = "package_mlp1" /\ job'.step = "licences"
      /\ job'.lock = job.lock /\ job'.target = job.target
    BY <1>1, <1>4, PackingGoesOn
<1>6. TypeOK'
  <2>1. job'.target \in Targets
    BY <1>5 DEF JobOK
  <2>2. QED
    BY <1>1, <1>3, <2>1 DEF IInv, TypeOK, GoOn, others, repo
<1>7. HalfPacked'
    BY <1>3, <1>5 DEF HalfPacked, At
<1>8. QuietJobReadsOneTree'
  <2>1. quiet => job.lock = tree.lock
    BY <1>1 DEF IInv, QuietJobReadsOneTree, At
  <2>2. QED
    BY <1>1, <1>3, <1>5, <2>1 DEF QuietJobReadsOneTree, At, others, repo
<1>9. QED
    BY <1>5, <1>6, <1>7, <1>8 DEF IInv

\* CopyLicences: the lock is copied among the licences.
LEMMA CopyLicencesIInv ==
    ASSUME IInv, CopyLicences
    PROVE  IInv'
<1>1. /\ At("package_mlp1", "licences") /\ GoOn("zip")
      /\ real' = [real EXCEPT !.licences = <<tree.lock>>]
      /\ UNCHANGED <<others, realZip, floor, floorZip, storefront, source>>
    BY DEF CopyLicences
<1>2. real \in RealPaks /\ real.pak = job.lock.pak /\ real.min = job.lock.min
      /\ tree.lock \in Locks
    BY <1>1 DEF IInv, HalfPacked, TypeOK, Trees
<1>3. /\ real' \in RealPaks /\ real'.pak = real.pak /\ real'.min = real.min
      /\ real'.code = real.code /\ real'.licences # <<>>
    BY <1>1, <1>2 DEF RealPaks
<1>4. "zip" \in StepsOf("package_mlp1")
    BY DEF StepsOf
<1>5. /\ JobOK' /\ PackedTogether' /\ VouchersAreSafe' /\ FixtureIsOfPackages'
      /\ CheckedIsReleasable' /\ PassedIsOfTheTree' /\ SourceIsItsCommit' /\ HandedPaksRun'
      /\ job' # Idle /\ Head(job'.todo) = "package_mlp1" /\ job'.step = "zip"
      /\ job'.lock = job.lock /\ job'.target = job.target
    BY <1>1, <1>4, PackingGoesOn
<1>6. TypeOK'
  <2>1. job'.target \in Targets
    BY <1>5 DEF JobOK
  <2>2. QED
    BY <1>1, <1>3, <2>1 DEF IInv, TypeOK, GoOn, others, repo
<1>7. HalfPacked'
    BY <1>2, <1>3, <1>5 DEF HalfPacked, At
<1>8. QuietJobReadsOneTree'
    BY <1>1, <1>3, <1>5 DEF IInv, QuietJobReadsOneTree, At, others, repo
<1>9. QED
    BY <1>5, <1>6, <1>7, <1>8 DEF IInv

\* CopyFloorFiles: the floor's directory is made anew.
LEMMA CopyFloorFilesIInv ==
    ASSUME IInv, CopyFloorFiles
    PROVE  IInv'
<1>1. /\ At("package_floor", "files") /\ GoOn("zip")
      /\ floor' = [kind |-> "floor", pak |-> job.lock.floor, min |-> tree.floorMin]
      /\ UNCHANGED <<others, real, realZip, floorZip, storefront, source>>
    BY DEF CopyFloorFiles
<1>2. job.lock \in Locks /\ tree \in Trees
    BY <1>1, AtStep DEF IInv, TypeOK
<1>3. /\ floor' \in FloorPaks /\ floor'.pak = job.lock.floor /\ floor'.min = tree.floorMin
    BY <1>1, <1>2 DEF FloorPaks, Versions, Trees
<1>4. "zip" \in StepsOf("package_floor")
    BY DEF StepsOf
<1>5. /\ JobOK' /\ PackedTogether' /\ VouchersAreSafe' /\ FixtureIsOfPackages'
      /\ CheckedIsReleasable' /\ PassedIsOfTheTree' /\ SourceIsItsCommit' /\ HandedPaksRun'
      /\ job' # Idle /\ Head(job'.todo) = "package_floor" /\ job'.step = "zip"
      /\ job'.lock = job.lock /\ job'.target = job.target
    BY <1>1, <1>4, PackingGoesOn
<1>6. TypeOK'
  <2>1. job'.target \in Targets
    BY <1>5 DEF JobOK
  <2>2. QED
    BY <1>1, <1>3, <2>1 DEF IInv, TypeOK, GoOn, others, repo
<1>7. HalfPacked'
    BY <1>3, <1>5 DEF HalfPacked, At
<1>8. QuietJobReadsOneTree'
    BY <1>1, <1>3, <1>5 DEF IInv, QuietJobReadsOneTree, At, others, repo
<1>9. QED
    BY <1>5, <1>6, <1>7, <1>8 DEF IInv

\* A script that succeeds leaves the next one, or nothing, under way.
LEMMA AfterSucceed ==
    ASSUME IInv, job # Idle, Succeed, UNCHANGED others
    PROVE  /\ JobOK' /\ HalfPacked' /\ VouchersAreSafe' /\ FixtureIsOfPackages'
           /\ Over \/ NextScript
           /\ Over => PackedTogether' /\ QuietJobReadsOneTree'
           /\ job'.target \in Targets \cup {"none"}
           /\ passed' \subseteq [target : Targets, quiet : BOOLEAN]
<1>0. TypeOK /\ JobOK /\ VouchersAreSafe /\ tree' = tree
    BY DEF IInv, others, repo
<1>1. JobOK' /\ (Over \/ NextScript)
    BY <1>0, SucceedIsAJob
<1>2. CASE Over
  <2>1. /\ HalfPacked' /\ VouchersAreSafe' /\ FixtureIsOfPackages'
        /\ PackedTogether' /\ QuietJobReadsOneTree'
    BY <1>2, IdleIsOK DEF Over
  <2>2. job.target \in Targets /\ quiet \in BOOLEAN
    BY <1>0 DEF JobOK, TypeOK
  <2>3. [target |-> job.target, quiet |-> quiet] \in [target : Targets, quiet : BOOLEAN]
    BY <2>2
  <2>4. passed' \subseteq [target : Targets, quiet : BOOLEAN]
    BY <1>0, <1>2, <2>3 DEF Over, TypeOK
  <2>5. job'.target = "none"
    BY <1>2 DEF Over, Idle
  <2>6. QED
    BY <1>1, <2>1, <2>4, <2>5
<1>3. CASE NextScript
  <2>1. HalfPacked' /\ FixtureIsOfPackages'
    BY <1>3 DEF NextScript, HalfPacked, FixtureIsOfPackages, At
  <2>2. VouchersAreSafe'
    BY <1>0, <1>3 DEF NextScript, VouchersAreSafe
  <2>3. passed' \subseteq [target : Targets, quiet : BOOLEAN]
    BY <1>0, <1>3 DEF NextScript, TypeOK
  <2>4. job'.target \in Targets /\ ~Over
    BY <1>3 DEF NextScript, Over, Targets
  <2>5. QED
    BY <1>1, <1>3, <2>1, <2>2, <2>3, <2>4
<1>4. QED
    BY <1>1, <1>2, <1>3

\* WriteRealZip: the archive is the directory.
LEMMA WriteRealZipIInv ==
    ASSUME IInv, WriteRealZip
    PROVE  IInv'
<1>1. /\ At("package_mlp1", "zip") /\ Succeed /\ realZip' = real
      /\ UNCHANGED <<others, real, floor, floorZip, storefront, source>>
    BY DEF WriteRealZip
<1>2. JobOK /\ VouchersAreSafe /\ job # Idle /\ Head(job.todo) = "package_mlp1"
    BY <1>1 DEF IInv, At
<1>3. job.target \in {"package-mlp1", "test-package"}
    BY <1>1, <1>2, AtStep, TargetOfScript
<1>4. /\ JobOK' /\ HalfPacked' /\ VouchersAreSafe' /\ FixtureIsOfPackages'
      /\ Over \/ NextScript
      /\ Over => PackedTogether' /\ QuietJobReadsOneTree'
      /\ job'.target \in Targets \cup {"none"}
      /\ passed' \subseteq [target : Targets, quiet : BOOLEAN]
    BY <1>1, <1>2, AfterSucceed
<1>5. TypeOK'
  <2>1. real \in RealPaks /\ real.licences # <<>>
    BY <1>1 DEF IInv, HalfPacked
  <2>2. QED
    BY <1>1, <1>4, <2>1 DEF IInv, TypeOK, others, repo
<1>6. PackedTogether' /\ QuietJobReadsOneTree'
  <2>1. CASE NextScript
    <3>1. job'.step = "start" /\ job'.lock = tree.lock /\ Head(job'.todo) = "package_floor"
          /\ job'.target = "test-package" /\ job.target = "test-package"
      BY <1>2, <2>1 DEF NextScript
    <3>2. PackedTogether'
      BY <1>1, <3>1 DEF PackedTogether
    <3>3. quiet => real.code = tree.code /\ real.min = tree.lock.min
      BY <1>1, <1>2, <3>1 DEF IInv, QuietJobReadsOneTree, At
    <3>4. QuietJobReadsOneTree'
      BY <1>1, <3>1, <3>3 DEF QuietJobReadsOneTree, At, others, repo
    <3>5. QED
      BY <3>2, <3>4
  <2>2. QED
    BY <1>4, <2>1
<1>7. Over => job.target = "package-mlp1"
    BY <1>2, <1>3 DEF Over
<1>8. /\ NoMoreSaid("test-package") /\ NoMoreSaid("test-version-metadata")
      /\ NoMoreSaid("dist-source") /\ NoMoreSaid("catalog-fixture")
    BY <1>4, <1>7, OnlyOverIsSaid, NothingIsSaid DEF NextScript
<1>9. ~Passed("test-package")
    BY <1>1, <1>2, PackingIsUnvouched
<1>10. CheckedIsReleasable' /\ PassedIsOfTheTree' /\ SourceIsItsCommit' /\ HandedPaksRun'
    BY <1>1, <1>8, <1>9, PackagesKept, OutputsKept DEF others, repo
<1>11. QED
    BY <1>4, <1>5, <1>6, <1>10 DEF IInv

\* WriteFloorZip: so is the floor's.
LEMMA WriteFloorZipIInv ==
    ASSUME IInv, WriteFloorZip
    PROVE  IInv'
<1>1. /\ At("package_floor", "zip") /\ Succeed /\ floorZip' = floor
      /\ UNCHANGED <<others, real, realZip, floor, storefront, source>>
    BY DEF WriteFloorZip
<1>2. JobOK /\ VouchersAreSafe /\ job # Idle /\ Head(job.todo) = "package_floor"
    BY <1>1 DEF IInv, At
<1>3. job.target \in {"package-floor-mlp1", "test-package"}
    BY <1>1, <1>2, AtStep, TargetOfScript
<1>4. /\ JobOK' /\ HalfPacked' /\ VouchersAreSafe' /\ FixtureIsOfPackages'
      /\ Over \/ NextScript
      /\ Over => PackedTogether' /\ QuietJobReadsOneTree'
      /\ job'.target \in Targets \cup {"none"}
      /\ passed' \subseteq [target : Targets, quiet : BOOLEAN]
    BY <1>1, <1>2, AfterSucceed
<1>5. TypeOK'
  <2>1. floor \in FloorPaks
    BY <1>1 DEF IInv, HalfPacked
  <2>2. QED
    BY <1>1, <1>4, <2>1 DEF IInv, TypeOK, others, repo
<1>6. PackedTogether' /\ QuietJobReadsOneTree'
  <2>1. CASE NextScript
    <3>1. job'.step = "start" /\ job'.lock = tree.lock /\ Head(job'.todo) = "package_check"
          /\ job'.target = "test-package" /\ job.target = "test-package"
      BY <1>2, <2>1 DEF NextScript
    <3>2. realZip = real
      BY <1>2, <3>1 DEF IInv, PackedTogether
    <3>3. PackedTogether'
      BY <1>1, <3>1, <3>2 DEF PackedTogether
    <3>4. quiet => /\ real.code = tree.code /\ real.min = tree.lock.min
                   /\ floor.min = tree.floorMin
      BY <1>1, <1>2, <3>1 DEF IInv, QuietJobReadsOneTree, At
    <3>5. QuietJobReadsOneTree'
      BY <1>1, <3>1, <3>4 DEF QuietJobReadsOneTree, At, others, repo
    <3>6. QED
      BY <3>3, <3>5
  <2>2. QED
    BY <1>4, <2>1
<1>7. Over => job.target = "package-floor-mlp1"
    BY <1>2, <1>3 DEF Over
<1>8. /\ NoMoreSaid("test-package") /\ NoMoreSaid("test-version-metadata")
      /\ NoMoreSaid("dist-source") /\ NoMoreSaid("catalog-fixture")
    BY <1>4, <1>7, OnlyOverIsSaid, NothingIsSaid DEF NextScript
<1>9. ~Passed("test-package")
    BY <1>1, <1>2, PackingIsUnvouched
<1>10. CheckedIsReleasable' /\ PassedIsOfTheTree' /\ SourceIsItsCommit' /\ HandedPaksRun'
    BY <1>1, <1>8, <1>9, PackagesKept, OutputsKept DEF others, repo
<1>11. QED
    BY <1>4, <1>5, <1>6, <1>10 DEF IInv

\* CheckPackages: test-package has packed what it checks.
LEMMA CheckPackagesIInv ==
    ASSUME IInv, CheckPackages
    PROVE  IInv'
<1>1. CASE Fail
    BY <1>1, FailIInv DEF CheckPackages
<1>2. CASE ~Fail
  <2>1. /\ At("package_check", "start") /\ Succeed /\ ManifestsMatch
        /\ UNCHANGED <<others, files>>
    BY <1>2 DEF CheckPackages
  <2>2. JobOK /\ job # Idle /\ Head(job.todo) = "package_check" /\ job.step = "start"
    BY <2>1 DEF IInv, At
  <2>3. job.target \in {"package_check", "test-package"}
    BY <2>1, <2>2, AtStep, TargetOfScript
  <2>4. /\ JobOK' /\ HalfPacked' /\ VouchersAreSafe' /\ FixtureIsOfPackages'
        /\ Over \/ NextScript
        /\ Over => PackedTogether' /\ QuietJobReadsOneTree'
        /\ job'.target \in Targets \cup {"none"}
        /\ passed' \subseteq [target : Targets, quiet : BOOLEAN]
    BY <2>1, <2>2, AfterSucceed
  <2>5. Over
    BY <2>2, <2>4 DEF NextScript
  <2>6. TypeOK'
    BY <2>1, <2>4 DEF IInv, TypeOK, others, repo, files
  <2>7. /\ NoMoreSaid("test-version-metadata")
        /\ NoMoreSaid("dist-source") /\ NoMoreSaid("catalog-fixture")
    BY <2>3, <2>5, OnlyOverIsSaid
  <2>8. SourceIsItsCommit' /\ HandedPaksRun'
    BY <2>1, <2>7, OutputsKept DEF files
  <2>9. CASE job.target = "test-package"
    <3>1. /\ realZip = real /\ floorZip = floor
          /\ quiet => /\ real.code = tree.code /\ real.min = tree.lock.min
                      /\ floor.min = tree.floorMin
      BY <2>2, <2>9 DEF IInv, PackedTogether, QuietJobReadsOneTree
    <3>2. CheckedIsReleasable'
      BY <2>1, <3>1 DEF CheckedIsReleasable, ManifestsMatch, files, others, repo
    <3>3. PassedInQuiet("test-package")' => quiet \/ PassedInQuiet("test-package")
      BY <2>5 DEF Over, PassedInQuiet
    <3>4. Passed("test-version-metadata")' => (CopiesAgree /\ NotPublished)'
      BY <2>1, <2>7 DEF IInv, PassedIsOfTheTree, NoMoreSaid, CopiesAgree, NotPublished, others,
                        repo
    <3>5. PassedIsOfTheTree'
      BY <2>1, <3>1, <3>3, <3>4 DEF IInv, PassedIsOfTheTree, files, others, repo
    <3>6. QED
      BY <3>2, <3>5, <2>4, <2>5, <2>6, <2>8 DEF IInv
  <2>10. CASE job.target # "test-package"
    <3>1. NoMoreSaid("test-package")
      BY <2>5, <2>10, OnlyOverIsSaid
    <3>2. CheckedIsReleasable' /\ PassedIsOfTheTree'
      BY <2>1, <2>7, <3>1, PackagesKept DEF files, others, repo
    <3>3. QED
      BY <3>2, <2>4, <2>5, <2>6, <2>8 DEF IInv
  <2>11. QED
    BY <2>9, <2>10
<1>3. QED
    BY <1>1, <1>2

\* TestMetadata: the copies of a version are those of the lock.
LEMMA TestMetadataIInv ==
    ASSUME IInv, TestMetadata
    PROVE  IInv'
<1>1. CASE Fail
    BY <1>1, FailIInv DEF TestMetadata
<1>2. CASE ~Fail
  <2>1. /\ At("test-version-metadata", "start") /\ Succeed /\ CopiesAgree /\ NotPublished
        /\ UNCHANGED <<others, files>>
    BY <1>2 DEF TestMetadata
  <2>2. JobOK /\ job # Idle
    BY <2>1 DEF IInv, At
  <2>3. job.target = "test-version-metadata"
    BY <2>1, <2>2, AtStep, TargetOfScript
  <2>4. /\ JobOK' /\ HalfPacked' /\ VouchersAreSafe' /\ FixtureIsOfPackages'
        /\ Over \/ NextScript
        /\ Over => PackedTogether' /\ QuietJobReadsOneTree'
        /\ job'.target \in Targets \cup {"none"}
        /\ passed' \subseteq [target : Targets, quiet : BOOLEAN]
    BY <2>1, <2>2, AfterSucceed
  <2>5. Over
    BY <2>3, <2>4 DEF NextScript
  <2>6. TypeOK'
    BY <2>1, <2>4 DEF IInv, TypeOK, others, repo, files
  <2>7. NoMoreSaid("test-package") /\ NoMoreSaid("dist-source") /\ NoMoreSaid("catalog-fixture")
    BY <2>3, <2>5, OnlyOverIsSaid
  <2>8. SourceIsItsCommit' /\ HandedPaksRun'
    BY <2>1, <2>7, OutputsKept DEF files
  <2>9. CheckedIsReleasable'
    BY <2>1, <2>7 DEF IInv, CheckedIsReleasable, NoMoreSaid, files, others, repo
  <2>10. (CopiesAgree /\ NotPublished)'
    BY <2>1 DEF CopiesAgree, NotPublished, others, repo
  <2>11. PassedIsOfTheTree'
    BY <2>1, <2>7, <2>10 DEF IInv, PassedIsOfTheTree, NoMoreSaid, files, others, repo
  <2>12. QED
    BY <2>4, <2>5, <2>6, <2>8, <2>9, <2>11 DEF IInv
<1>3. QED
    BY <1>1, <1>2

\* A step within catalog-fixture or dist-source leaves the packages alone.
LEMMA OutputGoesOn ==
    ASSUME IInv, UNCHANGED <<others, real, realZip, floor, floorZip, passed>>, JobOK', job' # Idle,
           NEW script \in {"catalog-fixture", "dist-source"}, NEW step, At(script, step),
           job'.target = job.target, job'.todo = job.todo
    PROVE  /\ TypeOK' /\ HalfPacked' /\ PackedTogether' /\ VouchersAreSafe'
           /\ CheckedIsReleasable' /\ PassedIsOfTheTree'
           /\ job.target = script /\ Head(job'.todo) = script /\ ~Passed(script)
           /\ \A target : NoMoreSaid(target)
<1>1. JobOK /\ job # Idle /\ Head(job.todo) = script
    BY DEF IInv, At
<1>2. job.target = script
    BY <1>1, AtStep, TargetOfScript
<1>3. TypeOK'
    BY DEF IInv, TypeOK, others, repo, JobOK
<1>4. HalfPacked' /\ PackedTogether'
    BY <1>1, <1>2 DEF HalfPacked, PackedTogether, At
<1>5. VouchersAreSafe'
    BY <1>1 DEF IInv, VouchersAreSafe
<1>6. ~Passed(script)
    BY <1>1, <1>2 DEF IInv, VouchersAreSafe, Passed, Spoils
<1>7. \A target : NoMoreSaid(target)
    BY NothingIsSaid
<1>8. CheckedIsReleasable' /\ PassedIsOfTheTree'
    BY <1>7, PackagesKept DEF others, repo
<1>9. QED
    BY <1>1, <1>2, <1>3, <1>4, <1>5, <1>6, <1>7, <1>8

\* StartFixture: a fixture is begun of two packages that are there.
LEMMA StartFixtureIInv ==
    ASSUME IInv, StartFixture
    PROVE  IInv'
<1>1. CASE Fail
    BY <1>1, FailIInv DEF StartFixture
<1>2. CASE ~Fail
  <2>1. PICK minimum \in Minimums :
            /\ At("catalog-fixture", "start")
            /\ job.lock.pak > job.lock.floor
            /\ {real, floor} \cap {None, Torn} = {}
            /\ job' = [target |-> job.target, todo |-> job.todo, step |-> "feed",
                       lock |-> job.lock, min |-> minimum]
            /\ UNCHANGED <<others, files, passed>>
    BY <1>2 DEF StartFixture
  <2>2. JobOK /\ job # Idle /\ Head(job.todo) = "catalog-fixture"
    BY <2>1 DEF IInv, At
  <2>3. job.target = "catalog-fixture"
    BY <2>1, <2>2, AtStep, TargetOfScript
  <2>4. /\ job'.target = "catalog-fixture" /\ job'.todo = job.todo /\ job'.step = "feed"
        /\ job'.lock = job.lock /\ job'.min = minimum
        /\ DOMAIN job' = {"target", "todo", "step", "lock", "min"}
    BY <2>1, <2>3
  <2>5. job' # Idle /\ JobOK'
    BY <2>2, <2>3, <2>4 DEF JobOK, Idle, StepsOf
  <2>6. /\ TypeOK' /\ HalfPacked' /\ PackedTogether' /\ VouchersAreSafe'
        /\ CheckedIsReleasable' /\ PassedIsOfTheTree'
        /\ \A target : NoMoreSaid(target)
    BY <2>1, <2>3, <2>4, <2>5, OutputGoesOn DEF files
  <2>7. SourceIsItsCommit' /\ HandedPaksRun'
    BY <2>1, <2>6, OutputsKept DEF files
  <2>8. QuietJobReadsOneTree'
    BY <2>1, <2>2, <2>4 DEF IInv, QuietJobReadsOneTree, At, others, repo
  <2>9. FixtureIsOfPackages'
    BY <2>1, <2>4 DEF IInv, TypeOK, FixtureIsOfPackages, At, files
  <2>10. QED
    BY <2>5, <2>6, <2>7, <2>8, <2>9 DEF IInv
<1>3. QED
    BY <1>1, <1>2

\* GenerateFeed: the generator writes a feed of the two.
LEMMA GenerateFeedIInv ==
    ASSUME IInv, GenerateFeed
    PROVE  IInv'
<1>1. /\ At("catalog-fixture", "feed") /\ storefront' \in Feeds(Gated, Below)
      /\ job' = [job EXCEPT !.step = "check"]
      /\ UNCHANGED <<others, real, realZip, floor, floorZip, source, passed>>
    BY DEF GenerateFeed, GoOn
<1>2. JobOK /\ job # Idle /\ Head(job.todo) = "catalog-fixture" /\ job.step = "feed"
    BY <1>1 DEF IInv, At
<1>3. job.target = "catalog-fixture"
    BY <1>1, <1>2, AtStep, TargetOfScript
<1>4. "check" \in StepsOf("catalog-fixture")
    BY DEF StepsOf
<1>5. /\ JobOK' /\ job' # Idle
      /\ job'.target = job.target /\ job'.todo = job.todo /\ job'.lock = job.lock
      /\ job'.step = "check" /\ job'.min = job.min
    BY <1>1, <1>2, <1>3, <1>4, GoOnIsAJob
<1>6. /\ TypeOK' /\ HalfPacked' /\ PackedTogether' /\ VouchersAreSafe'
      /\ CheckedIsReleasable' /\ PassedIsOfTheTree'
      /\ ~Passed("catalog-fixture") /\ \A target : NoMoreSaid(target)
    BY <1>1, <1>5, OutputGoesOn
<1>7. SourceIsItsCommit'
    BY <1>1, <1>6 DEF IInv, SourceIsItsCommit, NoMoreSaid
<1>8. HandedPaksRun'
    BY <1>6 DEF HandedPaksRun, NoMoreSaid
<1>9. QuietJobReadsOneTree'
    BY <1>1, <1>2, <1>3, <1>5 DEF IInv, QuietJobReadsOneTree, At, others, repo
<1>10. FixtureIsOfPackages'
  <2>1. Gated' = Gated /\ Below' = Below
    BY <1>1, <1>5 DEF Gated, Below
  <2>2. /\ job.min \in Minimums /\ job.lock.pak > job.lock.floor
        /\ real \in RealPaks /\ floor \in FloorPaks
    BY <1>1 DEF IInv, FixtureIsOfPackages
  <2>3. QED
    BY <1>1, <1>5, <2>1, <2>2 DEF FixtureIsOfPackages
<1>11. QED
    BY <1>5, <1>6, <1>7, <1>8, <1>9, <1>10 DEF IInv

\* A feed that IsTwoVersions accepts hands out the floor, or the gated package
\* to a Leaf that reaches its minimum.
LEMMA AcceptedFeedHandsOut ==
    ASSUME FixtureIsOfPackages, At("catalog-fixture", "check"), JobOK, IsTwoVersions,
           NEW device, NEW package \in Handed(device)
    PROVE  \/ package = Below.artifact
           \/ package = Gated.artifact /\ Reaches(device.leaf, job.min)
<1>1. /\ job.lock.pak > job.lock.floor /\ storefront \in Feeds(Gated, Below)
      /\ job.lock.pak \in Nat /\ job.lock.floor \in Nat
  <2>1. job.lock \in Locks
    BY AtStep
  <2>2. QED
    BY <2>1, LocksAssumption DEF FixtureIsOfPackages
<1>2. job.lock.pak # job.lock.floor
    BY <1>1
<1>3. Gated.version = job.lock.pak /\ Below.version = job.lock.floor /\ Gated.min = job.min
    BY DEF Gated, Below, Entry
<1> DEFINE versions == storefront.versions
<1>4. versions \in {<<Gated, Below>>, <<Below, Gated>>, <<Gated>>}
    BY <1>1 DEF Feeds
<1>5. [k \in DOMAIN versions |-> versions[k].version] = <<job.lock.pak, job.lock.floor>>
    BY DEF IsTwoVersions, IsRealThenFloor
<1>6. storefront.legacy.artifact = versions[2].artifact
    BY DEF IsTwoVersions
<1> HIDE DEF versions
<1>7. DOMAIN versions = 1..2 /\ versions[1].version = job.lock.pak
  <2>1. DOMAIN [k \in DOMAIN versions |-> versions[k].version] = 1..2
    BY <1>5
  <2>2. [k \in DOMAIN versions |-> versions[k].version][1] = job.lock.pak
    BY <1>5
  <2>3. QED
    BY <2>1, <2>2
<1>8. versions = <<Gated, Below>>
  <2>1. CASE versions = <<Below, Gated>>
    BY <1>2, <1>3, <1>7, <2>1
  <2>2. CASE versions = <<Gated>>
    <3>1. DOMAIN versions = 1..1
      BY <2>2
    <3>2. 2 \in DOMAIN versions /\ 2 \notin 1..1
      BY <1>7
    <3>3. QED
      BY <3>1, <3>2
  <2>3. QED
    BY <1>4, <2>1, <2>2
<1>9. versions[1] = Gated /\ versions[2] = Below
    BY <1>8
<1>10. QED
    BY <1>3, <1>6, <1>9 DEF Handed, versions

\* CheckFixture: what a catalog that passes hands out may run.
LEMMA CheckFixtureIInv ==
    ASSUME IInv, CheckFixture
    PROVE  IInv'
<1>1. /\ At("catalog-fixture", "check")
      /\ UNCHANGED <<others, real, realZip, floor, floorZip, source>>
    BY DEF CheckFixture
<1>2. JobOK /\ job # Idle /\ TypeOK
    BY <1>1 DEF IInv, At
<1>3. job.target = "catalog-fixture"
    BY <1>1, <1>2, AtStep, TargetOfScript
<1>4. ~Passed("catalog-fixture")
    BY <1>2, <1>3 DEF IInv, VouchersAreSafe, Passed, Spoils
<1>5. CASE IsTwoVersions
  <2>1. Succeed /\ storefront' = storefront
    BY <1>5 DEF CheckFixture
  <2>2. /\ JobOK' /\ HalfPacked' /\ VouchersAreSafe' /\ FixtureIsOfPackages'
        /\ Over \/ NextScript
        /\ Over => PackedTogether' /\ QuietJobReadsOneTree'
        /\ job'.target \in Targets \cup {"none"}
        /\ passed' \subseteq [target : Targets, quiet : BOOLEAN]
    BY <1>1, <1>2, <2>1, AfterSucceed
  <2>3. Over
    BY <1>3, <2>2 DEF NextScript
  <2>4. TypeOK'
    BY <1>1, <1>2, <2>2 DEF TypeOK, others, repo
  <2>5. /\ NoMoreSaid("test-package") /\ NoMoreSaid("test-version-metadata")
        /\ NoMoreSaid("dist-source")
    BY <1>3, <2>3, OnlyOverIsSaid
  <2>6. CheckedIsReleasable' /\ PassedIsOfTheTree'
    BY <1>1, <2>5, PackagesKept DEF others, repo
  <2>7. SourceIsItsCommit'
    BY <1>1, <2>5 DEF IInv, SourceIsItsCommit, NoMoreSaid
  <2>8. HandedPaksRun'
    <3>1. SUFFICES ASSUME NEW device \in Devices, NEW package \in Handed(device)
                   PROVE  MayRun(package, device)
      BY <2>1 DEF HandedPaksRun, Handed
    <3>2. \/ package = Below.artifact
          \/ package = Gated.artifact /\ Reaches(device.leaf, job.min)
      BY <1>1, <1>2, <1>5, AcceptedFeedHandsOut DEF IInv
    <3>3. job.min \in Minimums /\ real \in RealPaks /\ floor \in FloorPaks
      BY <1>1 DEF IInv, FixtureIsOfPackages
    <3>4. Below.artifact.kind = "floor"
      BY <3>3 DEF Below, Entry, Align, FloorPaks
    <3>5. Gated.artifact.min = job.min
      BY <3>3 DEF Gated, Entry, Align, RealPaks
    <3>6. IsMinimum(job.min)
      BY <3>3, MinimumsAssumption
    <3>7. CASE package = Below.artifact
      BY <3>4, <3>7 DEF MayRun
    <3>8. CASE package = Gated.artifact /\ Reaches(device.leaf, job.min)
      BY <3>5, <3>6, <3>8, GateLetsTheHandedIn DEF MayRun
    <3>9. QED
      BY <3>2, <3>7, <3>8
  <2>9. QED
    BY <2>2, <2>3, <2>4, <2>6, <2>7, <2>8 DEF IInv
<1>6. CASE ~IsTwoVersions
  <2>1. job' = Idle /\ passed' = passed
    BY <1>6 DEF CheckFixture, Fail
  <2>2. JobOK' /\ HalfPacked' /\ PackedTogether' /\ QuietJobReadsOneTree' /\ VouchersAreSafe'
        /\ FixtureIsOfPackages'
    BY <2>1, IdleIsOK
  <2>3. TypeOK'
    BY <1>1, <1>2, <2>1 DEF TypeOK, others, repo, Idle
  <2>4. \A target : NoMoreSaid(target)
    BY <2>1, NothingIsSaid
  <2>5. CheckedIsReleasable' /\ PassedIsOfTheTree'
    BY <1>1, <2>4, PackagesKept DEF others, repo
  <2>6. SourceIsItsCommit'
    BY <1>1, <2>4 DEF IInv, SourceIsItsCommit, NoMoreSaid
  <2>7. HandedPaksRun'
    BY <1>4, <2>4 DEF HandedPaksRun, NoMoreSaid
  <2>8. QED
    BY <2>2, <2>3, <2>5, <2>6, <2>7 DEF IInv
<1>7. QED
    BY <1>5, <1>6

\* ReadLock: the lock is read before the tree is known to be the commit's.
LEMMA ReadLockIInv ==
    ASSUME IInv, ReadLock
    PROVE  IInv'
<1>1. /\ At("dist-source", "start")
      /\ job' = [job EXCEPT !.lock = tree.lock, !.step = "status"]
      /\ UNCHANGED <<others, files, passed>>
    BY DEF ReadLock
<1>2. JobOK /\ job # Idle /\ Head(job.todo) = "dist-source" /\ job.step = "start"
    BY <1>1 DEF IInv, At
<1>3. job.target = "dist-source"
    BY <1>1, <1>2, AtStep, TargetOfScript
<1>4. DOMAIN job = {"target", "todo", "step", "lock"}
    BY <1>2, <1>3 DEF JobOK
<1>5. /\ job'.target = "dist-source" /\ job'.todo = job.todo /\ job'.step = "status"
      /\ job'.lock = tree.lock /\ DOMAIN job' = {"target", "todo", "step", "lock"}
    BY <1>1, <1>3, <1>4
<1>6. tree.lock \in Locks
    BY DEF IInv, TypeOK, Trees
<1>7. job' # Idle /\ JobOK'
    BY <1>2, <1>3, <1>5, <1>6 DEF JobOK, Idle, StepsOf
<1>8. /\ TypeOK' /\ HalfPacked' /\ PackedTogether' /\ VouchersAreSafe'
      /\ CheckedIsReleasable' /\ PassedIsOfTheTree'
      /\ \A target : NoMoreSaid(target)
    BY <1>1, <1>3, <1>5, <1>7, OutputGoesOn DEF files
<1>9. SourceIsItsCommit' /\ HandedPaksRun'
    BY <1>1, <1>8, OutputsKept DEF files
<1>10. QuietJobReadsOneTree'
    BY <1>1, <1>5 DEF QuietJobReadsOneTree, At, others, repo
<1>11. FixtureIsOfPackages'
    BY <1>5 DEF FixtureIsOfPackages, At
<1>12. QED
    BY <1>7, <1>8, <1>9, <1>10, <1>11 DEF IInv

\* CheckClean: the tree is that of the commit.
LEMMA CheckCleanIInv ==
    ASSUME IInv, CheckClean
    PROVE  IInv'
<1>1. CASE Fail
    BY <1>1, FailIInv DEF CheckClean
<1>2. CASE ~Fail
  <2>1. /\ At("dist-source", "status") /\ tree = head /\ passed' = passed
        /\ job' = [job EXCEPT !.step = "archive"]
        /\ UNCHANGED <<others, files>>
    BY <1>2 DEF CheckClean, GoOn
  <2>2. JobOK /\ job # Idle /\ Head(job.todo) = "dist-source" /\ job.step = "status"
    BY <2>1 DEF IInv, At
  <2>3. job.target = "dist-source"
    BY <2>1, <2>2, AtStep, TargetOfScript
  <2>4. "archive" \in StepsOf("dist-source")
    BY DEF StepsOf
  <2>5. /\ JobOK' /\ job' # Idle
        /\ job'.target = job.target /\ job'.todo = job.todo /\ job'.lock = job.lock
        /\ job'.step = "archive"
    BY <2>1, <2>2, <2>3, <2>4, GoOnIsAJob
  <2>6. /\ TypeOK' /\ HalfPacked' /\ PackedTogether' /\ VouchersAreSafe'
        /\ CheckedIsReleasable' /\ PassedIsOfTheTree'
        /\ \A target : NoMoreSaid(target)
    BY <2>1, <2>5, OutputGoesOn DEF files
  <2>7. SourceIsItsCommit' /\ HandedPaksRun'
    BY <2>1, <2>6, OutputsKept DEF files
  <2>8. QuietJobReadsOneTree'
    BY <2>1, <2>2, <2>3, <2>5 DEF IInv, QuietJobReadsOneTree, At, others, repo
  <2>9. FixtureIsOfPackages'
    BY <2>2, <2>5 DEF FixtureIsOfPackages, At
  <2>10. QED
    BY <2>5, <2>6, <2>7, <2>8, <2>9 DEF IInv
<1>3. QED
    BY <1>1, <1>2

\* WriteSource: the commit is archived under the lock that was read.
LEMMA WriteSourceIInv ==
    ASSUME IInv, WriteSource
    PROVE  IInv'
<1>1. /\ At("dist-source", "archive") /\ Succeed /\ source' = SourceArchive
      /\ UNCHANGED <<others, real, realZip, floor, floorZip, storefront>>
    BY DEF WriteSource
<1>2. JobOK /\ job # Idle /\ Head(job.todo) = "dist-source"
    BY <1>1 DEF IInv, At
<1>3. job.target = "dist-source"
    BY <1>1, <1>2, AtStep, TargetOfScript
<1>4. /\ JobOK' /\ HalfPacked' /\ VouchersAreSafe' /\ FixtureIsOfPackages'
      /\ Over \/ NextScript
      /\ Over => PackedTogether' /\ QuietJobReadsOneTree'
      /\ job'.target \in Targets \cup {"none"}
      /\ passed' \subseteq [target : Targets, quiet : BOOLEAN]
    BY <1>1, <1>2, AfterSucceed
<1>5. Over
    BY <1>3, <1>4 DEF NextScript
<1>6. TypeOK'
    BY <1>1, <1>4 DEF IInv, TypeOK, others, repo
<1>7. /\ NoMoreSaid("test-package") /\ NoMoreSaid("test-version-metadata")
      /\ NoMoreSaid("catalog-fixture")
    BY <1>3, <1>5, OnlyOverIsSaid
<1>8. CheckedIsReleasable' /\ PassedIsOfTheTree'
    BY <1>1, <1>7, PackagesKept DEF others, repo
<1>9. HandedPaksRun'
    BY <1>1, <1>7, HandedKept DEF IInv, NoMoreSaid
<1>10. SourceIsItsCommit'
  <2>1. quiet => job.lock = tree.lock /\ tree = head
    BY <1>1, <1>2 DEF IInv, QuietJobReadsOneTree
  <2>2. ~Passed("dist-source")
    BY <1>2, <1>3 DEF IInv, VouchersAreSafe, Passed, Spoils
  <2>3. PassedInQuiet("dist-source")' => quiet
    BY <1>5, <2>2 DEF Over, Passed, PassedInQuiet
  <2>4. source'.lock = job.lock /\ source'.commit = head
    BY <1>1 DEF SourceArchive
  <2>5. QED
    BY <2>1, <2>3, <2>4 DEF SourceIsItsCommit
<1>11. QED
    BY <1>4, <1>5, <1>6, <1>8, <1>9, <1>10 DEF IInv

\* Every step preserves the invariant.
LEMMA NextIInv == IInv /\ [Next]_vars => IInv'
<1> SUFFICES ASSUME IInv, [Next]_vars PROVE IInv'
    OBVIOUS
<1>1. CASE Edit \/ Commit \/ Tag
    BY <1>1, ChangeIInv
<1>2. CASE \E target \in Targets : Make(target)
    BY <1>2, MakeIInv
<1>3. CASE CheckLock \/ CopyFiles \/ CopyLicences \/ WriteRealZip
    BY <1>3, CheckLockIInv, CopyFilesIInv, CopyLicencesIInv, WriteRealZipIInv
<1>4. CASE CheckFloorLock \/ CopyFloorFiles \/ WriteFloorZip
    BY <1>4, CheckLockIInv, CopyFloorFilesIInv, WriteFloorZipIInv
<1>5. CASE CheckPackages \/ TestMetadata
    BY <1>5, CheckPackagesIInv, TestMetadataIInv
<1>6. CASE StartFixture \/ GenerateFeed \/ CheckFixture
    BY <1>6, StartFixtureIInv, GenerateFeedIInv, CheckFixtureIInv
<1>7. CASE ReadLock \/ CheckClean \/ WriteSource
    BY <1>7, ReadLockIInv, CheckCleanIInv, WriteSourceIInv
<1>8. CASE Interrupt
    BY <1>8, FailIInv DEF Interrupt
<1>9. CASE UNCHANGED vars
  <2>1. UNCHANGED <<tree, head, tags, changes, job, jobs, real, realZip, floor, floorZip,
                    storefront, source, passed, quiet>>
    BY <1>9 DEF vars, repo, files
  <2>2. TypeOK' /\ JobOK' /\ HalfPacked' /\ PackedTogether' /\ QuietJobReadsOneTree'
        /\ VouchersAreSafe'
    BY <2>1 DEF IInv, TypeOK, JobOK, HalfPacked, PackedTogether, QuietJobReadsOneTree,
                VouchersAreSafe, At
  <2>3. FixtureIsOfPackages'
    BY <2>1 DEF IInv, FixtureIsOfPackages, At, Gated, Below
  <2>4. CheckedIsReleasable' /\ PassedIsOfTheTree' /\ SourceIsItsCommit' /\ HandedPaksRun'
    BY <2>1, NothingIsSaid, PackagesKept, OutputsKept
  <2>5. QED
    BY <2>2, <2>3, <2>4 DEF IInv
<1>10. QED
    BY <1>1, <1>2, <1>3, <1>4, <1>5, <1>6, <1>7, <1>8, <1>9 DEF Next

-----------------------------------------------------------------------------
(* The theorems.                                                           *)

\* What make has said, what lies in the build directory and what the job under
\* way has read fit together in every state the scripts reach.
THEOREM Invariance == Spec => []IInv
BY InitIInv, NextIInv, PTL DEF Spec

\* Every variable keeps its type: above all, a package that was written to its
\* end has the versions of some lock.
THEOREM TypeCorrect == Spec => []TypeOK
<1>1. IInv => TypeOK
    BY DEF IInv
<1>2. QED
    BY <1>1, Invariance, PTL

\* When test-package has passed, the archives are the packages it checked and
\* have the lock's versions, however often the tree was edited under it
\* (package_check.py compares manifests and opens archives, no more).
THEOREM CheckedPackagesAreReleasable == Spec => []CheckedIsReleasable
<1>1. IInv => CheckedIsReleasable
    BY DEF IInv
<1>2. QED
    BY <1>1, Invariance, PTL

\* When both tests pass, the floor asks for the minimum the gate asks for, though
\* the scripts take the two from different files.
THEOREM FloorAsksForTheMinimum == Spec => []FloorTellsTheMinimum
<1>1. IInv => FloorTellsTheMinimum
    BY DEF IInv, PassedIsOfTheTree, CopiesAgree, FloorTellsTheMinimum
<1>2. QED
    BY <1>1, Invariance, PTL

\* What passes both tests from a clean tree is no second build of a version that
\* was published with other contents.
THEOREM PublishedIsNotRebuilt == Spec => []PublishedStaysFixed
<1>1. ASSUME IInv, PassedInQuiet("test-package"), Passed("test-version-metadata"),
             tree = head, real.pak \in DOMAIN tags
      PROVE  real.code = tags[real.pak].code
  <2>1. Passed("test-package")
    BY <1>1 DEF Passed, PassedInQuiet
  <2>2. real.pak = tree.lock.pak
    BY <1>1, <2>1 DEF IInv, CheckedIsReleasable
  <2>3. tags[tree.lock.pak] = head
    BY <1>1, <2>2 DEF IInv, PassedIsOfTheTree, NotPublished
  <2>4. QED
    BY <1>1, <2>2, <2>3 DEF IInv, PassedIsOfTheTree
<1>2. IInv => PublishedStaysFixed
    BY <1>1 DEF PublishedStaysFixed
<1>3. QED
    BY <1>2, Invariance, PTL

\* The source archive's lock is the one in the commit it holds, unless the tree
\* was changed while it was written, though dist-source reads the lock first.
THEOREM SourceHasItsLock == Spec => []SourceIsItsCommit
<1>1. IInv => SourceIsItsCommit
    BY DEF IInv
<1>2. QED
    BY <1>1, Invariance, PTL

\* A catalog that passed hands no device a package that would refuse to run.
THEOREM CatalogHandsWhatRuns == Spec => []HandedPaksRun
<1>1. IInv => HandedPaksRun
    BY DEF IInv
<1>2. QED
    BY <1>1, Invariance, PTL

\* The gate in the package on the card keeps it from running below its minimum.
THEOREM GateHolds == Spec => []NeverRunsBelow
<1>1. TypeOK => NeverRunsBelow
  <2>1. SUFFICES ASSUME TypeOK, real.kind = "real", NEW device \in Devices,
                        Runs([leaf |-> Text(real.min), jawaka |-> Text(real.min)], device)
                 PROVE  /\ Reaches(device.leaf, real.min)
                        /\ IsVersion(device.jawaka, TRUE) => Reaches(device.jawaka, real.min)
    BY DEF NeverRunsBelow
  <2>2. real \in RealPaks
    BY <2>1 DEF TypeOK, None, Torn
  <2>3. IsMinimum(real.min)
    BY <2>2, LocksAssumption DEF RealPaks, LockedMinimums
  <2>4. QED
    BY <2>1, <2>3, GateKeepsBelowOut
<1>2. QED
    BY <1>1, TypeCorrect, PTL
=============================================================================
