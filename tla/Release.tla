------------------------------- MODULE Release -------------------------------
(***************************************************************************)
(* Building a release: the scripts that pack the two paks, check them,     *)
(* check the versions, make a catalog of them and cut their source, run    *)
(* by make one at a time, while somebody edits and commits the tree the    *)
(* scripts read.  A script may be interrupted at any step.                 *)
(*                                                                         *)
(* A commit is its tree, of which only what reaches a package is kept.     *)
(* Two packages are the same bytes when they are equal here.  Locked       *)
(* archives and Catastrophe are verified, or the script fails.  Leaf's     *)
(* feed generator and Jawaka's catalog client are external.                *)
(***************************************************************************)
EXTENDS VersionGate

CONSTANTS Locks,     \* release-lock.json: [pak, floor, min]
          Codes,     \* everything else that reaches the real package
          Minimums,  \* --min-leaf-version of a catalog fixture
          Devices,   \* [leaf, jawaka] of the devices out there
          MaxChanges, \* bound: edits, commits and tags
          MaxJobs     \* bound: targets made

\* pak and floor versions are numbered in their order; a minimum is three
\* numbers, and stands for the pair of Leaf's and Jawaka's.
IsMinimum(m) == m \in [1..3 -> 0..MaxComponent]
ASSUME LocksAssumption ==
    \A l \in Locks : l.pak \in Nat /\ l.floor \in Nat /\ IsMinimum(l.min)
ASSUME MinimumsAssumption == \A m \in Minimums : IsMinimum(m)
ASSUME DevicesAssumption ==
    LET Texts == [v : BOOLEAN, parts : Seq(Nat), suffix : BOOLEAN]
    IN  Devices \subseteq [leaf : Texts, jawaka : Texts]
ASSUME BoundsAssumption == {MaxChanges, MaxJobs} \subseteq Nat

VARIABLES
    tree,       \* the working tree: lock, manifest (pak.json), floorMin, code
    head,       \* the commit checked out
    tags,       \* the commit each published version is tagged at
    job,        \* the make target under way
    real,       \* build/mlp1/package
    realZip,
    floor,      \* build/mlp1/floor/package
    floorZip,
    storefront, \* of the catalog fixture
    source,     \* the source archive written last
    passed,     \* targets that have passed since the tree was last changed
    changes,
    jobs,       \* targets made so far
    \* history
    quiet       \* the tree has not been changed since the job began

files == <<real, realZip, floor, floorZip, storefront, source>>
repo == <<tree, head, tags, changes>>
\* What the steps of a script leave alone.
others == <<repo, jobs, quiet>>
vars == <<repo, job, jobs, files, passed, quiet>>

Versions == {l.pak : l \in Locks} \cup {l.floor : l \in Locks}
LockedMinimums == {l.min : l \in Locks}
Trees == [lock : Locks, manifest : [pak : Versions, min : LockedMinimums],
          floorMin : LockedMinimums, code : Codes]

\* What is in a file or directory that no script has written to its end.
None == [kind |-> "none"]
Torn == [kind |-> "torn"]
\* A ZIP that opens, closed before its last entry.
Short == [kind |-> "short"]

RealPaks == [kind : {"real"}, pak : Versions, min : LockedMinimums, code : Codes,
             licences : {<<>>} \cup {<<l>> : l \in Locks}]
FloorPaks == [kind : {"floor"}, pak : Versions, min : LockedMinimums]

Idle == [target |-> "none"]
Targets == {"package-mlp1", "package-floor-mlp1", "test-package", "package_check",
            "catalog-fixture", "dist-source", "test-version-metadata"}

\* The scripts a target runs, one after another.
Scripts(target) ==
    CASE target = "package-mlp1"       -> <<"package_mlp1">>
      [] target = "package-floor-mlp1" -> <<"package_floor">>
      [] target = "test-package"       -> <<"package_mlp1", "package_floor", "package_check">>
      [] OTHER                         -> <<target>>

TypeOK ==
    /\ {tree, head} \subseteq Trees
    /\ \A v \in DOMAIN tags : tags[v] \in Trees /\ tags[v].lock.pak = v
    /\ job.target \in Targets \cup {"none"}
    /\ real \in {None, Torn} \/ real \in RealPaks
    /\ floor \in {None, Torn} \/ floor \in FloorPaks
    /\ realZip \in {None, Torn, Short} \/ (realZip \in RealPaks /\ realZip.licences # <<>>)
    /\ floorZip \in {None, Torn, Short} \/ floorZip \in FloorPaks
    /\ passed \subseteq [target : Targets, quiet : BOOLEAN]
    /\ changes \in 0..MaxChanges
    /\ jobs \in 0..MaxJobs
    /\ quiet \in BOOLEAN

-----------------------------------------------------------------------------
(* The tree.                                                               *)

Change ==
    /\ changes < MaxChanges
    /\ changes' = changes + 1
    /\ quiet' = FALSE
    /\ passed' = {}
    /\ UNCHANGED <<job, jobs, files>>

\* Of the copies of a version, one is edited at a time; git may undo it all.
Edit ==
    /\ Change
    /\ \/ \E l \in Locks : tree' = [tree EXCEPT !.lock = l]
       \/ tree' = [tree EXCEPT !.manifest = [pak |-> tree.lock.pak, min |-> tree.lock.min]]
       \/ tree' = [tree EXCEPT !.floorMin = tree.lock.min]
       \/ \E c \in Codes : tree' = [tree EXCEPT !.code = c]
       \/ tree' = head
    /\ tree' # tree
    /\ UNCHANGED <<head, tags>>

Commit ==
    /\ Change
    /\ head # tree
    /\ head' = tree
    /\ UNCHANGED <<tree, tags>>

\* A version is published, from the commit checked out.
Tag ==
    /\ Change
    /\ head.lock.pak \notin DOMAIN tags
    /\ tags' = [v \in DOMAIN tags \cup {head.lock.pak} |->
                  IF v = head.lock.pak THEN head ELSE tags[v]]
    /\ UNCHANGED <<tree, head>>

-----------------------------------------------------------------------------
(* make.                                                                   *)

At(script, step) == job # Idle /\ Head(job.todo) = script /\ job.step = step

\* When its turn comes the recipe is expanded, with the lock's versions.
Turn(target, todo) == [target |-> target, todo |-> todo, step |-> "start", lock |-> tree.lock]

\* Targets that vouch for files this target writes.
Spoils(target) ==
    IF target \in {"package-mlp1", "package-floor-mlp1", "test-package"}
    THEN {"package-mlp1", "package-floor-mlp1", "test-package", "package_check"}
    ELSE {target}

Make(target) ==
    /\ job = Idle
    /\ jobs < MaxJobs
    /\ jobs' = jobs + 1
    /\ job' = Turn(target, Scripts(target))
    /\ quiet' = TRUE
    /\ passed' = {p \in passed : p.target \notin Spoils(target)}
    /\ UNCHANGED <<repo, files>>

\* A script exits with 0: the next one's turn, or the target has passed.
Succeed ==
    IF Len(job.todo) > 1
    THEN job' = Turn(job.target, Tail(job.todo)) /\ passed' = passed
    ELSE job' = Idle /\ passed' = passed \cup {[target |-> job.target, quiet |-> quiet]}

GoOn(step) == job' = [job EXCEPT !.step = step] /\ passed' = passed

\* A script exits with an error, and make with it.
Fail == job' = Idle /\ passed' = passed

-----------------------------------------------------------------------------
(* package_mlp1 and package_floor.                                         *)

\* The lock is read again; it may not be what the recipe read.
CheckLock ==
    /\ At("package_mlp1", "start")
    /\ IF tree.lock = job.lock THEN GoOn("files") ELSE Fail
    /\ UNCHANGED <<others, files>>

\* The programs, and pak.json with the versions of the arguments.
Packed == [kind |-> "real", pak |-> job.lock.pak, min |-> job.lock.min,
           code |-> tree.code, licences |-> <<>>]

\* The directory is made anew.
CopyFiles ==
    /\ At("package_mlp1", "files")
    /\ real' = Packed
    /\ GoOn("licences")
    /\ UNCHANGED <<others, realZip, floor, floorZip, storefront, source>>

\* The lock is copied among the licences, as it is now.
CopyLicences ==
    /\ At("package_mlp1", "licences")
    /\ real' = [real EXCEPT !.licences = <<tree.lock>>]
    /\ GoOn("zip")
    /\ UNCHANGED <<others, realZip, floor, floorZip, storefront, source>>

WriteRealZip ==
    /\ At("package_mlp1", "zip")
    /\ realZip' = real
    /\ Succeed
    /\ UNCHANGED <<others, real, floor, floorZip, storefront, source>>

\* The floor's script compares the floor version alone.
CheckFloorLock ==
    /\ At("package_floor", "start")
    /\ IF tree.lock.floor = job.lock.floor THEN GoOn("files") ELSE Fail
    /\ UNCHANGED <<others, files>>

\* The floor's minimums are those of its requirements files.
CopyFloorFiles ==
    /\ At("package_floor", "files")
    /\ floor' = [kind |-> "floor", pak |-> job.lock.floor, min |-> tree.floorMin]
    /\ GoOn("zip")
    /\ UNCHANGED <<others, real, realZip, floorZip, storefront, source>>

WriteFloorZip ==
    /\ At("package_floor", "zip")
    /\ floorZip' = floor
    /\ Succeed
    /\ UNCHANGED <<others, real, realZip, floor, storefront, source>>

-----------------------------------------------------------------------------
(* package_check and version-metadata-test.                                *)

\* Mutant of ManifestsMatch: the floor's version is not compared.
RealMatches == real.pak = tree.lock.pak /\ real.min = tree.lock.min

ManifestsMatch ==
    /\ real.pak = tree.lock.pak
    /\ real.min = tree.lock.min
    /\ floor.pak = tree.lock.floor

\* Directories in full, manifests that match the lock, archives that open; what
\* an archive holds is not compared.
CheckPackages ==
    /\ At("package_check", "start")
    /\ IF /\ real.kind = "real" /\ floor.kind = "floor"
          /\ real.licences # <<>>
          /\ ManifestsMatch
          /\ {realZip, floorZip} \cap {None, Torn} = {}
       THEN Succeed ELSE Fail
    /\ UNCHANGED <<others, files>>

\* Mutant of CopiesAgree: the floor's requirements are not looked at.
ManifestAgrees ==
    /\ tree.manifest = [pak |-> tree.lock.pak, min |-> tree.lock.min]
    /\ tree.lock.floor < tree.lock.pak

CopiesAgree ==
    /\ tree.manifest = [pak |-> tree.lock.pak, min |-> tree.lock.min]
    /\ tree.floorMin = tree.lock.min
    /\ tree.lock.floor < tree.lock.pak

\* Mutant of NotPublished: only the lock is compared with the tag's.
LockIsTagged ==
    tree.lock.pak \in DOMAIN tags => tags[tree.lock.pak].lock = head.lock

\* The lock's version is not tagged, or nothing that reaches a package has been
\* committed since.  What is not committed is not looked at.
NotPublished ==
    tree.lock.pak \in DOMAIN tags => tags[tree.lock.pak] = head

TestMetadata ==
    /\ At("test-version-metadata", "start")
    /\ IF CopiesAgree /\ NotPublished THEN Succeed ELSE Fail
    /\ UNCHANGED <<others, files>>

-----------------------------------------------------------------------------
(* build-catalog-fixture.                                                  *)

\* An entry of the catalog; the ungated floor's minimum is <<>>.
Entry(version, minimum, package) ==
    [version |-> version, min |-> minimum, artifact |-> package]

\* align_runtime_manifest: the copy's manifest says what its entry says.
Align(package, version, minimum) == [package EXCEPT !.pak = version, !.min = minimum]

\* Leaf's generator refuses a package whose minimum is not its entry's.  What
\* the legacy fields say, and in which order the versions come, is up to it.
Feeds(entry, history) ==
    IF entry.artifact.min # entry.min THEN {}
    ELSE {[legacy |-> [version |-> v.version, artifact |-> a.artifact], versions |-> vs] :
             v \in {entry, history}, a \in {entry, history},
             vs \in {<<entry, history>>, <<history, entry>>, <<entry>>}}

\* A minimum that could be shipped has to be asked for; the floor is the older.
StartFixture ==
    /\ At("catalog-fixture", "start")
    /\ \E minimum \in Minimums, allowed \in BOOLEAN :
         IF /\ allowed \/ minimum[1] >= 90
            /\ job.lock.pak > job.lock.floor
            /\ {real, floor} \cap {None, Torn} = {}
         THEN /\ job' = [target |-> job.target, todo |-> job.todo, step |-> "feed",
                         lock |-> job.lock, min |-> minimum]
              /\ passed' = passed
         ELSE Fail
    /\ UNCHANGED <<others, files>>

\* The two versions the generator is given.
Gated == Entry(job.lock.pak, job.min, Align(real, job.lock.pak, job.min))
Below == Entry(job.lock.floor, <<>>, Align(floor, job.lock.floor, <<>>))

GenerateFeed ==
    /\ At("catalog-fixture", "feed")
    /\ storefront' \in Feeds(Gated, Below)
    /\ GoOn("check")
    /\ UNCHANGED <<others, real, realZip, floor, floorZip, source>>

\* versions[] is [real, floor], and only the first is gated.
IsRealThenFloor(versions) ==
    /\ [k \in DOMAIN versions |-> versions[k].version] = <<job.lock.pak, job.lock.floor>>
    /\ versions[1].min = job.min
    /\ versions[2].min = <<>>

\* Mutant of IsTwoVersions: the legacy artifact is believed by its version.
LegacyByVersion ==
    /\ IsRealThenFloor(storefront.versions)
    /\ storefront.legacy.version = job.lock.floor

\* The legacy fields are the floor's, down to the bytes of the artifact.
IsTwoVersions ==
    /\ IsRealThenFloor(storefront.versions)
    /\ storefront.legacy.version = job.lock.floor
    /\ storefront.legacy.artifact = storefront.versions[2].artifact
    /\ storefront.legacy.artifact # storefront.versions[1].artifact

\* catalog-selection-smoke serves no feed that has failed.
CheckFixture ==
    /\ At("catalog-fixture", "check")
    /\ IF IsTwoVersions
       THEN Succeed /\ storefront' = storefront
       ELSE Fail /\ storefront' = None
    /\ UNCHANGED <<others, real, realZip, floor, floorZip, source>>

-----------------------------------------------------------------------------
(* dist-source: the lock is read before it is known to be the commit's.    *)

ReadLock ==
    /\ At("dist-source", "start")
    /\ job' = [job EXCEPT !.lock = tree.lock, !.step = "status"]
    /\ UNCHANGED <<others, files, passed>>

\* Mutant of CheckClean: a dirty tree is archived.
SkipStatus ==
    /\ At("dist-source", "status")
    /\ GoOn("archive")
    /\ UNCHANGED <<others, files>>

CheckClean ==
    /\ At("dist-source", "status")
    /\ IF tree = head THEN GoOn("archive") ELSE Fail
    /\ UNCHANGED <<others, files>>

\* HEAD, archived under the lock's version, with the Catastrophe the lock names
\* and the locked inputs: nothing else, the date included, tells two apart.
SourceArchive == [kind |-> "source", lock |-> job.lock, commit |-> head]

WriteSource ==
    /\ At("dist-source", "archive")
    /\ source' = SourceArchive
    /\ Succeed
    /\ UNCHANGED <<others, real, realZip, floor, floorZip, storefront>>

-----------------------------------------------------------------------------

\* An exception, an interrupt or a power cut: of what is being written, the old,
\* nothing, a part, or a ZIP closed too early is left.
Interrupt ==
    /\ job # Idle
    /\ Fail
    /\ real' \in IF At("package_mlp1", "files") THEN {real, Torn} ELSE {real}
    /\ realZip' \in IF At("package_mlp1", "zip") THEN {realZip, None, Torn, Short} ELSE {realZip}
    /\ floor' \in IF At("package_floor", "files") THEN {floor, Torn} ELSE {floor}
    /\ floorZip' \in IF At("package_floor", "zip") THEN {floorZip, None, Torn, Short} ELSE {floorZip}
    /\ storefront' \in IF At("catalog-fixture", "feed") THEN {storefront, None} ELSE {storefront}
    /\ source' \in IF At("dist-source", "archive") THEN {source, Torn} ELSE {source}
    /\ UNCHANGED others

\* A repository with nothing built; its copies may have drifted apart, and its
\* version may have been published, from this commit or an earlier one.
Init ==
    /\ \E l \in Locks, c \in Codes, m \in LockedMinimums :
         tree = [lock |-> l, manifest |-> [pak |-> l.pak, min |-> l.min],
                 floorMin |-> m, code |-> c]
    /\ head = tree
    /\ tags \in {<<>>} \cup {[v \in {tree.lock.pak} |-> [tree EXCEPT !.code = c]] : c \in Codes}
    /\ job = Idle
    /\ real = None /\ realZip = None
    /\ floor = None /\ floorZip = None
    /\ storefront = None /\ source = None
    /\ passed = {}
    /\ changes = 0
    /\ jobs = 0
    /\ quiet = TRUE

Next ==
    \/ Edit \/ Commit \/ Tag
    \/ \E target \in Targets : Make(target)
    \/ CheckLock \/ CopyFiles \/ CopyLicences \/ WriteRealZip
    \/ CheckFloorLock \/ CopyFloorFiles \/ WriteFloorZip
    \/ CheckPackages \/ TestMetadata
    \/ StartFixture \/ GenerateFeed \/ CheckFixture
    \/ ReadLock \/ CheckClean \/ WriteSource
    \/ Interrupt

Spec == Init /\ [][Next]_vars

-----------------------------------------------------------------------------
(* Properties.                                                             *)

Passed(target) == \E p \in passed : p.target = target
PassedInQuiet(target) == [target |-> target, quiet |-> TRUE] \in passed

\* After a test-package that passed, even if the tree was edited under it, the
\* archives are the packages checked, and these have the lock's versions.
\* package_check reads but the names in the archives: this rests on make having
\* packed both in the same run.
CheckedIsReleasable ==
    Passed("test-package") =>
        /\ realZip = real
        /\ floorZip = floor
        /\ <<real.pak, real.min, floor.pak>> = <<tree.lock.pak, tree.lock.min, tree.lock.floor>>

\* "0.1.0 shipped with pak.json saying 0.11.0, the floor's requirements saying
\* 0.11.0" (version-metadata-test): when both test-package and the metadata test
\* pass, the floor that was packed asks for what the real package's gate asks
\* for, though each takes it from a file of its own.
FloorTellsTheMinimum ==
    PassedInQuiet("test-package") /\ Passed("test-version-metadata") =>
        floor.min = real.min

\* "A published row is immutable" (version-metadata-test): what passes both
\* tests from a clean tree is no second build of a version already tagged.
PublishedStaysFixed ==
    /\ PassedInQuiet("test-package")
    /\ Passed("test-version-metadata")
    /\ tree = head
    /\ real.pak \in DOMAIN tags
    => real.code = tags[real.pak].code

\* The source archive's version, and the Catastrophe it brings, are those of
\* the commit in it, unless the tree was changed while it was written.
SourceIsItsCommit ==
    PassedInQuiet("dist-source") => source.lock = source.commit.lock

\* What Jawaka's client takes: one from before the gating the legacy artifact;
\* else the newest version whose minimum the device's Leaf is known to reach,
\* with a pre-release counted either way.
NotBelow(parts, minimum) ==
    \/ parts = minimum
    \/ \E k \in 1..3 :
         /\ \A j \in 1..(k - 1) : parts[j] = minimum[j]
         /\ parts[k] > minimum[k]
Reaches(version, minimum) == IsVersion(version, TRUE) /\ NotBelow(version.parts, minimum)
Handed(device) ==
    LET gated == storefront.versions[1]
        below == storefront.versions[2]
        taken == IF Reaches(device.leaf, gated.min)
                 THEN {gated} \cup (IF device.leaf.suffix THEN {below} ELSE {})
                 ELSE {below}
    IN {storefront.legacy.artifact} \cup {entry.artifact : entry \in taken}

\* The floor only shows its notice.
MayRun(package, device) ==
    package.kind = "real" =>
        Runs([leaf |-> Text(package.min), jawaka |-> Text(package.min)],
             [device EXCEPT !.jawaka = Absent])

\* A catalog that passed hands no device, whatever its client and its Leaf, a
\* package that would refuse to run there.  (Refusals over a Jawaka version are
\* left out: the catalog knows none.)
HandedPaksRun ==
    Passed("catalog-fixture") =>
        \A device \in Devices : \A package \in Handed(device) : MayRun(package, device)

\* Whatever is on the card, from an old catalog or from before Leaf was rolled
\* back, runs on no Leaf, and with no known Jawaka, below its minimum.
NeverRunsBelow ==
    real.kind = "real" =>
        \A device \in Devices :
            Runs([leaf |-> Text(real.min), jawaka |-> Text(real.min)], device) =>
                /\ Reaches(device.leaf, real.min)
                /\ IsVersion(device.jawaka, TRUE) => Reaches(device.jawaka, real.min)

-----------------------------------------------------------------------------
(* The inductive invariant.                                                *)

\* What may be left of a target's scripts, and where each of them may be.
Remaining(target) ==
    IF target = "test-package"
    THEN {<<"package_mlp1", "package_floor", "package_check">>,
          <<"package_floor", "package_check">>, <<"package_check">>}
    ELSE {Scripts(target)}

StepsOf(script) ==
    CASE script = "package_mlp1"    -> {"start", "files", "licences", "zip"}
      [] script = "package_floor"   -> {"start", "files", "zip"}
      [] script = "catalog-fixture" -> {"start", "feed", "check"}
      [] script = "dist-source"     -> {"start", "status", "archive"}
      [] OTHER                      -> {"start"}

JobOK ==
    job # Idle =>
        /\ job.target \in Targets
        /\ job.todo \in Remaining(job.target)
        /\ job.step \in StepsOf(Head(job.todo))
        /\ job.lock \in Locks
        /\ DOMAIN job = {"target", "todo", "step", "lock"} \cup
               IF job.target = "catalog-fixture" /\ job.step # "start" THEN {"min"} ELSE {}

\* A directory being packed has the versions the recipe was expanded with.
HalfPacked ==
    /\ At("package_mlp1", "licences") \/ At("package_mlp1", "zip") =>
           real \in RealPaks /\ real.pak = job.lock.pak /\ real.min = job.lock.min
    /\ At("package_mlp1", "zip") => real.licences # <<>>
    /\ At("package_floor", "zip") => floor \in FloorPaks /\ floor.pak = job.lock.floor

\* test-package checks what it has packed itself.
PackedTogether ==
    job # Idle /\ job.target = "test-package" =>
        /\ Head(job.todo) # "package_mlp1" => realZip = real
        /\ Head(job.todo) = "package_check" => floorZip = floor

\* While nobody touches the tree, what a job has read and written is of it.
QuietJobReadsOneTree ==
    quiet /\ job # Idle =>
        /\ job.lock = tree.lock
        /\ job.target = "test-package" =>
             /\ Head(job.todo) # "package_mlp1" \/ job.step \in {"licences", "zip"} =>
                    real.code = tree.code /\ real.min = tree.lock.min
             /\ Head(job.todo) = "package_check" \/ At("package_floor", "zip") =>
                    floor.min = tree.floorMin
        /\ At("dist-source", "archive") => tree = head

\* No job under way writes what a target that has passed vouches for.
VouchersAreSafe ==
    job # Idle => \A p \in passed : p.target \notin Spoils(job.target)

\* The tests that have passed are of the tree as it is.
PassedIsOfTheTree ==
    /\ PassedInQuiet("test-package") =>
           real.code = tree.code /\ real.min = tree.lock.min /\ floor.min = tree.floorMin
    /\ Passed("test-version-metadata") => CopiesAgree /\ NotPublished

\* A fixture is made of two packages that are there, in full.
FixtureIsOfPackages ==
    /\ At("catalog-fixture", "feed") \/ At("catalog-fixture", "check") =>
           /\ job.min \in Minimums
           /\ job.lock.pak > job.lock.floor
           /\ real \in RealPaks /\ floor \in FloorPaks
    /\ At("catalog-fixture", "check") => storefront \in Feeds(Gated, Below)

IInv ==
    /\ TypeOK
    /\ JobOK
    /\ HalfPacked
    /\ PackedTogether
    /\ QuietJobReadsOneTree
    /\ VouchersAreSafe
    /\ PassedIsOfTheTree
    /\ FixtureIsOfPackages
    /\ CheckedIsReleasable
    /\ SourceIsItsCommit
    /\ HandedPaksRun
=============================================================================
