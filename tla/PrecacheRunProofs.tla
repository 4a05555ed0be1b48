------------------------- MODULE PrecacheRunProofs -------------------------
(***************************************************************************)
(* Proofs about preparing games, for any accounts, ROMs, libraries and     *)
(* requests.                                                               *)
(*                                                                         *)
(* The first part is about the visits to one ROM (PrecacheGame): IInv is   *)
(* inductive.  The second is about what a request reads: that an ORDER BY  *)
(* finds an order, by induction over the subsets of a finite set, that the *)
(* recents are in theirs and what a page of the picker leaves out.  The    *)
(* third is about the run: it takes no step but those of the visits, and   *)
(* so inherits what holds of them, while RunIInv carries what was read     *)
(* and for whom to the end of the request and of the run.                  *)
(***************************************************************************)
EXTENDS PrecacheRun, FiniteSetTheorems, SequenceTheorems,
        WellFoundedInduction, TLAPS

-----------------------------------------------------------------------------
(* The visits to one ROM.                                                  *)

\* The first state: nothing is stored, reported or marked.
LEMMA InitIInv == Init => IInv
<1> SUFFICES ASSUME Init PROVE IInv
    OBVIOUS
<1>1. TypeOK
  <2>1. user \in Accounts /\ rom \in Roms
    BY InhabitedAssumption DEF Init
  <2>2. visits \in 0..MaxVisits
    BY VisitsAssumption DEF Init
  <2>3. QED
    BY <2>1, <2>2 DEF Init, TypeOK, Steps, Reports
<1>2. QED
    BY <1>1 DEF Init, IInv, TypeOK, StoredIsKnown, NothingReportedYet, PatchComesFirst,
                MarkIsAnAnswer, PreparedIsKnown, PatchClientsHavePatch, MarkedWasAnswered

\* A game is taken in hand.
LEMMA BeginIInv ==
    ASSUME IInv, NEW r \in Roms, NEW u \in Accounts, Begin(r, u)
    PROVE  IInv'
<1> USE DEF Begin, site, cache
<1>1. TypeOK'
  <2>1. visits' \in 0..MaxVisits
    BY VisitsAssumption DEF IInv, TypeOK
  <2>2. QED
    BY <2>1 DEF IInv, TypeOK, Steps, Reports
<1>2. QED
    BY <1>1 DEF IInv, TypeOK, StoredIsKnown, NothingReportedYet, PatchComesFirst,
                MarkIsAnAnswer, PreparedIsKnown, PatchClientsHavePatch, MarkedWasAnswered

\* The steps that store nothing: each report they make is either one that
\* promises nothing, or AlreadyCached has just been seen to hold.
LEMMA QuietIInv ==
    ASSUME IInv, CannotHash \/ Hash \/ Skip \/ SkipUnknown \/ Ask \/ SetsFailed
                 \/ ZeroGame
    PROVE  IInv'
<1> USE DEF IInv, TypeOK, site, cache, inHand, Report, Steps, Reports
<1>1. TypeOK'
    BY DEF CannotHash, Hash, Skip, SkipUnknown, Ask, SetsFailed, ZeroGame
<1>2. (StoredIsKnown /\ MarkedWasAnswered)'
    BY DEF StoredIsKnown, MarkedWasAnswered,
           CannotHash, Hash, Skip, SkipUnknown, Ask, SetsFailed, ZeroGame
<1>3. (NothingReportedYet /\ PatchComesFirst /\ MarkIsAnAnswer)'
    BY DEF NothingReportedYet, PatchComesFirst, MarkIsAnAnswer,
           CannotHash, Hash, Skip, SkipUnknown, Ask, SetsFailed, ZeroGame
<1>4. (PreparedIsKnown /\ PatchClientsHavePatch)'
  <2>1. CASE Skip
    BY <2>1 DEF Skip, AlreadyCached, StoredIsKnown, PreparedIsKnown, PatchClientsHavePatch
  <2>2. CASE ~Skip
    BY <2>2 DEF NothingReportedYet, PreparedIsKnown, PatchClientsHavePatch,
           CannotHash, Hash, SkipUnknown, Ask, SetsFailed, ZeroGame
  <2>3. QED
    BY <2>1, <2>2
<1>5. QED
    BY <1>1, <1>2, <1>3, <1>4

\* The second request: a mark may follow only once the answer it rests on has
\* been heard, and nothing is stored.
LEMMA ClassifyIInv ==
    ASSUME IInv, Classify
    PROVE  IInv'
<1> USE DEF IInv, TypeOK, cache, inHand
<1>1. /\ at = "classify" /\ outcome = "none"
      /\ UNCHANGED <<known, sets, rows, gameid, unknown, user, rom, visits>>
    BY DEF Classify, NothingReportedYet
<1>2. /\ refused \subseteq refused' /\ misled \subseteq misled'
      /\ refused' \subseteq Roms /\ misled' \subseteq Roms
    BY DEF Classify, Heard
<1>3. \/ at' = "idle" /\ outcome' \in {"failed", "auth"}
      \/ at' = "mark" /\ outcome' = "none" /\ rom \in refused' \cup misled'
  <2>1. ASSUME NEW f \in Failures, Heard(f), NotFound(f.text)
        PROVE  rom \in refused' \cup misled'
    BY <2>1 DEF Failures, Heard, SaysNotFound, NotFound
  <2>2. QED
    BY <1>1, <2>1 DEF Classify, Report
<1>4. TypeOK'
    BY <1>1, <1>2, <1>3 DEF Steps, Reports
<1>5. (StoredIsKnown /\ NothingReportedYet /\ PatchComesFirst)'
    BY <1>1, <1>3 DEF StoredIsKnown, NothingReportedYet, PatchComesFirst
<1>6. (MarkIsAnAnswer /\ MarkedWasAnswered)'
    BY <1>1, <1>2, <1>3 DEF MarkIsAnAnswer, MarkedWasAnswered
<1>7. (PreparedIsKnown /\ PatchClientsHavePatch)'
    BY <1>3 DEF PreparedIsKnown, PatchClientsHavePatch
<1>8. QED
    BY <1>4, <1>5, <1>6, <1>7

\* The site's answer is stored: a game's only if the site knows one.
LEMMA SetsIInv ==
    ASSUME IInv, SetsAnswered \/ SetsRejected
    PROVE  IInv'
<1> USE DEF IInv, TypeOK, site, inHand, Report, Steps, Reports
<1>a. ASSUME NEW answer \in {"none", "zero", "game"}, StoreSets(answer)
      PROVE  /\ sets' \in [Accounts -> [Roms -> {"none", "zero", "game"}]]
             /\ sets'[user][rom] = answer
             /\ \A u \in Accounts, r \in Roms :
                  u # user \/ r # rom => sets'[u][r] = sets[u][r]
    BY <1>a DEF StoreSets
<1>1. TypeOK'
  <2>1. sets' \in [Accounts -> [Roms -> {"none", "zero", "game"}]]
    BY <1>a DEF SetsAnswered, SetsRejected
  <2>2. at' = "game" => sets'[user'][rom'] = "game"
    BY <1>a DEF SetsAnswered, SetsRejected
  <2>3. QED
    BY <2>1, <2>2 DEF SetsAnswered, SetsRejected
<1>2. StoredIsKnown'
    BY <1>a DEF StoredIsKnown, SetsAnswered, SetsRejected
<1>3. MarkedWasAnswered'
    BY DEF MarkedWasAnswered, SetsAnswered, SetsRejected
<1>4. (NothingReportedYet /\ PatchComesFirst /\ MarkIsAnAnswer)'
    BY DEF NothingReportedYet, PatchComesFirst, MarkIsAnAnswer, SetsAnswered, SetsRejected
<1>5. (PreparedIsKnown /\ PatchClientsHavePatch)'
    BY DEF NothingReportedYet, PreparedIsKnown, PatchClientsHavePatch,
           SetsAnswered, SetsRejected
<1>6. QED
    BY <1>1, <1>2, <1>3, <1>4, <1>5

\* The mark is put on.
LEMMA MarkIInv ==
    ASSUME IInv, MarkUnknown
    PROVE  IInv'
<1> USE DEF IInv, TypeOK, site, inHand, Report, Steps, Reports, MarkUnknown
<1>1. TypeOK'
    OBVIOUS
<1>2. (StoredIsKnown /\ MarkedWasAnswered)'
    BY DEF StoredIsKnown, MarkedWasAnswered, MarkIsAnAnswer
<1>3. (NothingReportedYet /\ PatchComesFirst /\ MarkIsAnAnswer)'
    BY DEF NothingReportedYet, PatchComesFirst, MarkIsAnAnswer
<1>4. (PreparedIsKnown /\ PatchClientsHavePatch)'
    BY DEF PreparedIsKnown, PatchClientsHavePatch
<1>5. QED
    BY <1>1, <1>2, <1>3, <1>4

\* The other rows are stored, the gameid row and the patch first.
LEMMA RowsIInv ==
    ASSUME IInv, StoreGameId \/ FetchPatch \/ CacheUnlocks \/ CacheSession
    PROVE  IInv'
<1> USE DEF IInv, TypeOK, site, inHand, Report, Store, Steps, Reports, Rows
<1>1. TypeOK'
  <2>1. rows' \in [Accounts -> [Roms -> SUBSET Rows]]
    <3>1. ASSUME NEW row \in Rows, Store(row)
          PROVE  rows' \in [Accounts -> [Roms -> SUBSET Rows]]
      <4>1. rows[user][rom] \cup {row} \in SUBSET Rows
        BY <3>1
      <4>2. QED
        BY <3>1, <4>1
    <3>2. rows' = rows \/ \E row \in Rows : Store(row)
      BY DEF StoreGameId, FetchPatch, CacheUnlocks, CacheSession
    <3>3. QED
      BY <3>1, <3>2
  <2>2. gameid' \subseteq Roms
    BY DEF StoreGameId, FetchPatch, CacheUnlocks, CacheSession
  <2>3. at' \in Steps /\ outcome' \in Reports
    BY DEF StoreGameId, FetchPatch, CacheUnlocks, CacheSession
  <2>4. QED
    BY <2>1, <2>2, <2>3 DEF StoreGameId, FetchPatch, CacheUnlocks, CacheSession
<1>2. (StoredIsKnown /\ MarkedWasAnswered)'
    BY DEF StoredIsKnown, MarkedWasAnswered, StoreGameId, FetchPatch, CacheUnlocks, CacheSession
<1>3. (NothingReportedYet /\ MarkIsAnAnswer)'
    BY DEF NothingReportedYet, MarkIsAnAnswer,
           StoreGameId, FetchPatch, CacheUnlocks, CacheSession
<1>4. PatchComesFirst'
    BY DEF PatchComesFirst, StoreGameId, FetchPatch, CacheUnlocks, CacheSession
<1>5. PreparedIsKnown'
    BY DEF StoredIsKnown, NothingReportedYet, PreparedIsKnown,
           StoreGameId, FetchPatch, CacheUnlocks, CacheSession
<1>6. PatchClientsHavePatch'
    BY DEF NothingReportedYet, PatchComesFirst, PatchClientsHavePatch,
           StoreGameId, FetchPatch, CacheUnlocks, CacheSession
<1>7. QED
    BY <1>1, <1>2, <1>3, <1>4, <1>5, <1>6

\* A crash, the site's learning and time leave the rows alone.
LEMMA EnvironmentIInv ==
    ASSUME IInv, Crash \/ (\E r \in Roms : LearnRom(r) \/ Expire(r))
    PROVE  IInv'
<1> USE DEF IInv, TypeOK, site, cache, inHand, Steps, Reports
<1>1. CASE Crash
    BY <1>1 DEF Crash, StoredIsKnown, NothingReportedYet, PatchComesFirst, MarkIsAnAnswer,
                PreparedIsKnown, PatchClientsHavePatch, MarkedWasAnswered
<1>2. ASSUME NEW r \in Roms, LearnRom(r) PROVE IInv'
    BY <1>2 DEF LearnRom, StoredIsKnown, NothingReportedYet, PatchComesFirst, MarkIsAnAnswer,
                PreparedIsKnown, PatchClientsHavePatch, MarkedWasAnswered
<1>3. ASSUME NEW r \in Roms, Expire(r) PROVE IInv'
    BY <1>3 DEF Expire, StoredIsKnown, NothingReportedYet, PatchComesFirst, MarkIsAnAnswer,
                PreparedIsKnown, PatchClientsHavePatch, MarkedWasAnswered
<1>4. QED
    BY <1>1, <1>2, <1>3

\* Every step of a visit, or around it, keeps the invariant.
LEMMA GameStepIInv ==
    ASSUME IInv, [Next]_vars
    PROVE  IInv'
<1>1. CASE Next
    BY <1>1, BeginIInv, QuietIInv, ClassifyIInv, SetsIInv, MarkIInv, RowsIInv, EnvironmentIInv
       DEF Next, PrepareOne
<1>2. CASE UNCHANGED vars
    BY <1>2 DEF vars, gameVars, IInv, TypeOK, StoredIsKnown, NothingReportedYet,
                PatchComesFirst, MarkIsAnAnswer, PreparedIsKnown, PatchClientsHavePatch,
                MarkedWasAnswered
<1>3. QED
    BY <1>1, <1>2

\* IInv (PrecacheGame) holds however the visits to a ROM are strung together.
THEOREM GameInvariance == Spec => []IInv
<1>1. Init => IInv
    BY InitIInv
<1>2. IInv /\ [Next]_vars => IInv'
    BY GameStepIInv
<1>3. QED
    BY <1>1, <1>2, PTL DEF Spec

-----------------------------------------------------------------------------
(* What ORDER BY finds.                                                    *)

\* R puts no element of S before itself, and is transitive.
StrictOrder(R, S) ==
    /\ \A x \in S : <<x, x>> \notin R
    /\ \A x, y, z \in S : <<x, y>> \in R /\ <<y, z>> \in R => <<x, z>> \in R

\* Among the subsets that fail, one is left with none that fails by taking any
\* element out of it: induction over the subsets of a finite set.
LEMMA FirstToFail ==
    ASSUME NEW S, IsFiniteSet(S), NEW B \in SUBSET (SUBSET S), B # {}
    PROVE  \E s \in B : \A x \in s : s \ {x} \notin B
<1>1. FiniteSubsetsOf(S) = SUBSET S
    BY FS_FiniteSubsetsOfFinite
<1>2. PICK s \in B : \A t \in B : <<t, s>> \notin StrictSubsetOrdering(S)
    BY <1>1, FS_StrictSubsetOrderingWellFounded, WFMin
<1>3. \A x \in s : <<s \ {x}, s>> \in StrictSubsetOrdering(S)
    BY DEF StrictSubsetOrdering
<1>4. QED
    BY <1>2, <1>3

\* A finite set has an element that a strict order puts none before.
LEMMA FirstExists ==
    ASSUME NEW S, IsFiniteSet(S), S # {}, NEW R, StrictOrder(R, S)
    PROVE  \E m \in S : \A y \in S : <<y, m>> \notin R
<1> DEFINE Has(s) == \E m \in s : \A y \in s : <<y, m>> \notin R
           B == {s \in SUBSET S : s # {} /\ ~Has(s)}
<1>1. ASSUME B # {} PROVE FALSE
  <2>1. PICK s \in B : \A x \in s : s \ {x} \notin B
    <3>1. B \in SUBSET (SUBSET S)
      OBVIOUS
    <3> HIDE DEF B
    <3>2. QED
      BY <1>1, <3>1, FirstToFail
  <2>2. PICK x \in s : TRUE
    OBVIOUS
  <2>3. CASE s \ {x} = {}
    <3>1. s = {x} /\ <<x, x>> \notin R
      BY <2>2, <2>3 DEF StrictOrder
    <3>2. QED
      BY <2>1, <3>1
  <2>4. CASE s \ {x} # {}
    <3>1. Has(s \ {x})
      BY <2>1, <2>2, <2>4
    <3>2. PICK m \in s \ {x} : \A y \in s \ {x} : <<y, m>> \notin R
      BY <3>1
    <3>3. CASE <<x, m>> \notin R
      BY <2>1, <3>2, <3>3
    <3>4. CASE <<x, m>> \in R
      <4>1. ASSUME NEW y \in s PROVE <<y, x>> \notin R
        BY <3>2, <3>4, <2>2 DEF StrictOrder
      <4>2. QED
        BY <2>1, <2>2, <4>1
    <3>5. QED
      BY <3>3, <3>4
  <2>5. QED
    BY <2>3, <2>4
<1>2. QED
    BY <1>1

\* A finite set can be listed along a strict order.
LEMMA OrderExists ==
    ASSUME NEW S, IsFiniteSet(S), NEW R, StrictOrder(R, S)
    PROVE  \E q \in SetToSeqs(S) : \A i, j \in DOMAIN q : i < j => <<q[j], q[i]>> \notin R
<1> DEFINE Sorted(s, q) ==
              /\ q \in [1..Cardinality(s) -> s]
              /\ \A i, j \in 1..Cardinality(s) :
                   /\ i # j => q[i] # q[j]
                   /\ i < j => <<q[j], q[i]>> \notin R
           B == {s \in SUBSET S : ~\E q : Sorted(s, q)}
<1>1. ASSUME B # {} PROVE FALSE
  <2>1. PICK s \in B : \A x \in s : s \ {x} \notin B
    <3>1. B \in SUBSET (SUBSET S)
      OBVIOUS
    <3> HIDE DEF B
    <3>2. QED
      BY <1>1, <3>1, FirstToFail
  <2>2. IsFiniteSet(s) /\ StrictOrder(R, s)
    BY FS_Subset DEF StrictOrder
  <2>3. s # {}
    <3>1. Sorted({}, [i \in 1..0 |-> 0])
      BY FS_EmptySet
    <3> HIDE DEF Sorted
    <3>2. QED
      BY <3>1
  <2>4. PICK m \in s : \A y \in s : <<y, m>> \notin R
    BY <2>2, <2>3, FirstExists
  <2> DEFINE rest == s \ {m}
             n == Cardinality(rest)
  <2>5. n \in Nat /\ Cardinality(s) = n + 1
    <3>1. IsFiniteSet(rest) /\ Cardinality(rest) = Cardinality(s) - 1
      BY <2>2, FS_RemoveElement
    <3>2. n \in Nat /\ Cardinality(s) \in Nat
      BY <2>2, <3>1, FS_CardinalityType
    <3>3. QED
      BY <3>1, <3>2
  <2>6. PICK q : Sorted(rest, q)
    BY <2>1
  <2> DEFINE p == [i \in 1..(n + 1) |-> IF i = 1 THEN m ELSE q[i - 1]]
  <2>7. Sorted(s, p)
    <3>0. /\ q \in [1..n -> rest]
          /\ \A i, j \in 1..n : (i # j => q[i] # q[j]) /\ (i < j => <<q[j], q[i]>> \notin R)
      BY <2>6
    <3>a. rest \subseteq s /\ m \notin rest
      OBVIOUS
    <3> HIDE DEF n, rest
    <3>1. \A i \in 2..(n + 1) : i - 1 \in 1..n /\ p[i] = q[i - 1] /\ p[i] \in rest
      BY <2>5, <3>0
    <3>2. p[1] = m
      BY <2>5
    <3>3. p \in [1..(n + 1) -> s]
      BY <2>4, <2>5, <3>0, <3>1, <3>a
    <3>4. ASSUME NEW i \in 1..(n + 1), NEW j \in 1..(n + 1)
          PROVE  (i # j => p[i] # p[j]) /\ (i < j => <<p[j], p[i]>> \notin R)
      <4>1. CASE i = 1 \/ j = 1
        <5>1. (i = 1 \/ i \in 2..(n + 1)) /\ (j = 1 \/ j \in 2..(n + 1))
          BY <2>5
        <5>2. \A k \in 2..(n + 1) : p[k] # m /\ <<p[k], m>> \notin R
          BY <2>4, <3>1, <3>a
        <5> HIDE DEF p
        <5>3. QED
          BY <2>5, <3>2, <4>1, <5>1, <5>2
      <4>2. CASE i # 1 /\ j # 1
        <5>1. i \in 2..(n + 1) /\ j \in 2..(n + 1)
          BY <2>5, <4>2
        <5>2. i - 1 \in 1..n /\ j - 1 \in 1..n /\ p[i] = q[i - 1] /\ p[j] = q[j - 1]
          BY <3>1, <5>1
        <5>3. (i # j => i - 1 # j - 1) /\ (i < j => i - 1 < j - 1)
          BY <2>5, <5>1
        <5> HIDE DEF p
        <5>4. QED
          BY <3>0, <5>2, <5>3
      <4>3. QED
        BY <4>1, <4>2
    <3> HIDE DEF p
    <3>5. QED
      BY <2>5, <3>3, <3>4
  <2> HIDE DEF Sorted
  <2>8. QED
    BY <2>7
<1>2. PICK q : Sorted(S, q)
    BY <1>1
<1>3. QED
    BY <1>2 DEF SetToSeqs

\* A finite set of numbers that is not empty has a greatest one.
LEMMA MaxOfNats ==
    ASSUME NEW S \in SUBSET Nat, IsFiniteSet(S), S # {}
    PROVE  Max(S) \in S /\ \A y \in S : Max(S) >= y
<1> DEFINE R == {p \in S \X S : p[1] > p[2]}
<1>1. StrictOrder(R, S)
    BY DEF StrictOrder
<1>2. PICK m \in S : \A y \in S : <<y, m>> \notin R
    BY <1>1, FirstExists
<1>3. ASSUME NEW y \in S PROVE m >= y
  <2>1. <<y, m>> \in S \X S /\ ~(y > m)
    BY <1>2
  <2> HIDE DEF R
  <2>2. QED
    BY <2>1
<1> HIDE DEF R
<1>4. QED
    BY <1>3 DEF Max

\* A listing of a finite set has each of its elements, once.
LEMMA EachOnce ==
    ASSUME NEW S, IsFiniteSet(S), NEW q \in SetToSeqs(S)
    PROVE  /\ q \in Seq(S)
           /\ Len(q) = Cardinality(S) /\ Len(q) \in Nat
           /\ DOMAIN q = 1..Len(q)
           /\ \A i, j \in 1..Len(q) : i # j => q[i] # q[j]
           /\ \A x \in S : \E i \in 1..Len(q) : q[i] = x
<1> DEFINE n == Cardinality(S)
<1>1. n \in Nat
    BY FS_CardinalityType
<1>2. q \in [1..n -> S] /\ \A i, j \in 1..n : i # j => q[i] # q[j]
    BY DEF SetToSeqs
<1>3. q \in Injection(1..n, S)
    BY <1>2 DEF Injection, IsInjective
<1>4. Cardinality(1..n) = n
    BY <1>1, FS_Interval
<1>5. q \in Surjection(1..n, S)
    BY <1>3, <1>4, FS_Injection
<1>6. \A x \in S : \E i \in 1..n : q[i] = x
    BY <1>5 DEF Surjection
<1> HIDE DEF n
<1>7. q \in Seq(S)
    BY <1>1, <1>2, SeqDef
<1>8. Len(q) = n /\ DOMAIN q = 1..n
    BY <1>1, <1>2
<1>9. QED
    BY <1>1, <1>2, <1>6, <1>7, <1>8 DEF n

\* LastOpened is the last time the game was opened, 0 if it never was.
LEMMA LastOpenedIsLast ==
    ASSUME NEW l, IsLibrary(l), NEW g
    PROVE  LET opened == {e.opened : e \in {e \in l.recents : IsFor(e, g)}}
           IN  /\ opened \subseteq Nat \ {0}
               /\ LastOpened(l, g) \in {0} \cup opened
               /\ \A t \in opened : LastOpened(l, g) >= t
<1> DEFINE E == {e \in l.recents : IsFor(e, g)}
           opened == {e.opened : e \in E}
           T == {0} \cup opened
           f == [e \in E |-> e.opened]
<1>1. IsFiniteSet(E)
    BY FS_Subset DEF IsLibrary
<1>2. f \in Surjection(E, opened)
    BY DEF Surjection
<1>3. IsFiniteSet(opened)
    BY <1>1, <1>2, FS_Surjection
<1>4. IsFiniteSet(T)
    BY <1>3, FS_AddElement, FS_EmptySet, FS_Union, FS_Singleton
<1>5. opened \subseteq Nat \ {0}
    BY DEF IsLibrary
<1>6. LastOpened(l, g) = Max(T)
    BY DEF LastOpened
<1> HIDE DEF opened
<1>7. T \in SUBSET Nat /\ T # {}
    BY <1>5
<1>8. Max(T) \in T /\ \A y \in T : Max(T) >= y
    BY <1>4, <1>7, MaxOfNats
<1>9. LastOpened(l, g) \in {0} \cup opened /\ \A t \in opened : LastOpened(l, g) >= t
    BY <1>6, <1>8
<1>10. QED
    BY <1>5, <1>9 DEF opened

\* The recents are listed games that are recent or starred, each once, the last
\* opened first.
LEMMA RecentsInOrder ==
    ASSUME NEW l, IsLibrary(l)
    PROVE  LET q == RecentsAndFavourites(l)
           IN  /\ q \in Seq(l.games) /\ DOMAIN q = 1..Len(q) /\ Len(q) \in Nat
               /\ \A i \in 1..Len(q) :
                    /\ NotParked(q[i])
                    /\ IsRecent(l, q[i]) \/ IsFavourite(l, q[i])
               /\ \A i, j \in 1..Len(q) : j < i =>
                    /\ q[j] # q[i]
                    /\ LastOpened(l, q[j]) >= LastOpened(l, q[i])
<1> DEFINE S == {g \in Listed(l) : IsRecent(l, g) \/ IsFavourite(l, g)}
           R == {p \in S \X S : OpenedBefore(l, p[1], p[2])}
           q == RecentsAndFavourites(l)
<1>1. S \subseteq l.games /\ IsFiniteSet(S)
    BY FS_Subset DEF IsLibrary, Listed
<1>2. \A g \in S : LastOpened(l, g) \in Nat /\ g.name \in Nat
    BY <1>1, LastOpenedIsLast DEF IsLibrary, GameRow
<1>3. StrictOrder(R, S)
    BY <1>2 DEF StrictOrder, OpenedBefore
<1>4. \E p \in SetToSeqs(S) : \A i, j \in DOMAIN p : i < j => <<p[j], p[i]>> \notin R
    BY <1>1, <1>3, OrderExists
<1>5. \A p \in SetToSeqs(S) : \A i \in DOMAIN p : p[i] \in S
    BY DEF SetToSeqs
<1>6. \E p \in SetToSeqs(S) :
          \A i, j \in DOMAIN p : i < j => ~OpenedBefore(l, p[j], p[i])
    BY <1>4, <1>5
<1>7. q \in SetToSeqs(S) /\ \A i, j \in DOMAIN q : i < j => ~OpenedBefore(l, q[j], q[i])
    BY <1>6 DEF RecentsAndFavourites, OrderedBy
<1> HIDE DEF q
<1>8. /\ q \in Seq(S) /\ DOMAIN q = 1..Len(q) /\ Len(q) \in Nat
      /\ \A i, j \in 1..Len(q) : i # j => q[i] # q[j]
    BY <1>1, <1>7, EachOnce
<1>9. \A i \in 1..Len(q) : q[i] \in S
    BY <1>5, <1>7, <1>8
<1>10. ASSUME NEW i \in 1..Len(q), NEW j \in 1..Len(q), j < i
       PROVE  LastOpened(l, q[j]) >= LastOpened(l, q[i])
  <2>1. ~OpenedBefore(l, q[i], q[j])
    BY <1>7, <1>8, <1>10
  <2>2. LastOpened(l, q[i]) \in Nat /\ LastOpened(l, q[j]) \in Nat
    BY <1>2, <1>9
  <2>3. QED
    BY <2>1, <2>2 DEF OpenedBefore
<1>11. q \in Seq(l.games)
    BY <1>1, <1>8, SeqMonotonic
<1>12. \A i \in 1..Len(q) : NotParked(q[i]) /\ (IsRecent(l, q[i]) \/ IsFavourite(l, q[i]))
    BY <1>9 DEF Listed
<1>13. \A i, j \in 1..Len(q) : j < i => q[j] # q[i]
    BY <1>8
<1>14. QED
    BY <1>8, <1>10, <1>11, <1>12, <1>13 DEF q

\* What the picker's query may answer with.
Matching(games, console, search) ==
    {g \in games : /\ g.path # "parked"
                   /\ console \in {"", g.system.console}
                   /\ search = NoSearch \/ g.name \in search}

\* Without a limit all_games is a listing of what matches.
LEMMA AllGamesListsAll ==
    ASSUME NEW l, IsLibrary(l), NEW console, NEW search
    PROVE  AllGames(l, console, search, 0) \in SetToSeqs(Matching(l.games, console, search))
<1> DEFINE S == {g \in IF console = "" THEN Listed(l) ELSE OfConsole(l, console) :
                   search = NoSearch \/ g.name \in search}
           R == {p \in S \X S : ListedBefore(p[1], p[2])}
<1>1. S = Matching(l.games, console, search)
    BY DEF Matching, Listed, OfConsole, NotParked
<1>2. S \subseteq l.games /\ IsFiniteSet(S)
    BY <1>1, FS_Subset DEF IsLibrary, Matching
<1>3. \A g \in S : g.system.rank \in Nat /\ g.name \in Nat
    BY <1>2 DEF IsLibrary, GameRow, System
<1>4. StrictOrder(R, S)
  <2>1. \A x, y \in S : <<x, y>> \in R <=> ListedBefore(x, y)
    OBVIOUS
  <2> HIDE DEF R, S
  <2>2. \A x \in S : ~ListedBefore(x, x)
    BY <1>3 DEF ListedBefore
  <2>3. ASSUME NEW x \in S, NEW y \in S, NEW z \in S,
               ListedBefore(x, y), ListedBefore(y, z)
        PROVE  ListedBefore(x, z)
    <3>1. \A g \in {x, y, z} : g.system.rank \in Nat /\ g.name \in Nat
      BY <1>3
    <3>2. QED
      BY <2>3, <3>1 DEF ListedBefore
  <2>4. QED
    BY <2>1, <2>2, <2>3 DEF StrictOrder
<1>5. \E p \in SetToSeqs(S) : \A i, j \in DOMAIN p : i < j => <<p[j], p[i]>> \notin R
    BY <1>2, <1>4, OrderExists
<1>6. \A p \in SetToSeqs(S) : \A i \in DOMAIN p : p[i] \in S
    BY DEF SetToSeqs
<1>7. \E p \in SetToSeqs(S) : \A i, j \in DOMAIN p : i < j => ~ListedBefore(p[j], p[i])
    BY <1>5, <1>6
<1>8. OrderedBy(S, ListedBefore) \in SetToSeqs(S)
    BY <1>7 DEF OrderedBy
<1>9. AllGames(l, console, search, 0) = OrderedBy(S, ListedBefore)
    BY DEF AllGames
<1>10. QED
    BY <1>1, <1>8, <1>9

\* The first n elements of a sequence.
LEMMA FirstOnes ==
    ASSUME NEW S, NEW s \in Seq(S), NEW n \in Nat \ {0}, n <= Len(s)
    PROVE  /\ SubSeq(s, 1, n) \in Seq(S)
           /\ Len(SubSeq(s, 1, n)) = n
           /\ DOMAIN SubSeq(s, 1, n) = 1..n
           /\ \A i \in 1..n : SubSeq(s, 1, n)[i] = s[i]
<1>1. \A i \in 1..n : s[i] \in S
    BY ElementOfSeq, LenProperties
<1>2. /\ SubSeq(s, 1, n) \in Seq(S)
      /\ Len(SubSeq(s, 1, n)) = n
      /\ \A i \in 1..n : SubSeq(s, 1, n)[i] = s[i]
    BY <1>1, SubSeqProperties
<1>3. QED
    BY <1>2, LenProperties

\* With one it is what comes first in it.
LEMMA LimitCuts ==
    ASSUME NEW l, NEW console, NEW search, NEW limit \in Nat \ {0}
    PROVE  LET all == AllGames(l, console, search, 0)
           IN  AllGames(l, console, search, limit) =
                   IF Len(all) > limit THEN SubSeq(all, 1, limit) ELSE all
<1> DEFINE S == {g \in IF console = "" THEN Listed(l) ELSE OfConsole(l, console) :
                   search = NoSearch \/ g.name \in search}
           sorted == OrderedBy(S, ListedBefore)
           Cut(n) == IF n > 0 /\ Len(sorted) > n THEN SubSeq(sorted, 1, n) ELSE sorted
<1>1. AllGames(l, console, search, 0) = Cut(0)
    BY DEF AllGames
<1>2. AllGames(l, console, search, limit) = Cut(limit)
    BY DEF AllGames
<1> HIDE DEF sorted
<1>3. Cut(0) = sorted
    OBVIOUS
<1>4. QED
    BY <1>1, <1>2, <1>3

\* A page of the picker: at most MaxPicker of the games that match, and more
\* asked for only to tell that there are more.
LEMMA PageOfMatching ==
    ASSUME NEW l, IsLibrary(l), NEW console, NEW search
    PROVE  LET games == AllGames(l, console, search, MaxPicker + 1)
               more == Len(games) > MaxPicker
               got == IF more THEN SubSeq(games, 1, MaxPicker) ELSE games
               matching == Matching(l.games, console, search)
           IN  /\ got \in Seq(matching)
               /\ more <=> ToSet(got) # matching
<1> DEFINE matching == Matching(l.games, console, search)
           all == AllGames(l, console, search, 0)
           games == AllGames(l, console, search, MaxPicker + 1)
           more == Len(games) > MaxPicker
           got == IF more THEN SubSeq(games, 1, MaxPicker) ELSE games
<1>0. all \in SetToSeqs(matching)
    BY AllGamesListsAll
<1>1. IsFiniteSet(matching)
    BY FS_Subset DEF IsLibrary, Matching
<1> HIDE DEF all, matching
<1>2. /\ all \in Seq(matching)
      /\ Len(all) \in Nat /\ DOMAIN all = 1..Len(all)
      /\ \A i, j \in 1..Len(all) : i # j => all[i] # all[j]
      /\ \A x \in matching : \E i \in 1..Len(all) : all[i] = x
    BY <1>0, <1>1, EachOnce
<1>3. MaxPicker \in Nat \ {0}
    BY LimitsAssumption
<1>4. games = IF Len(all) > MaxPicker + 1 THEN SubSeq(all, 1, MaxPicker + 1) ELSE all
  <2>1. MaxPicker + 1 \in Nat \ {0}
    BY <1>3
  <2>2. QED
    BY <2>1, LimitCuts DEF all
<1> HIDE DEF games
<1>5. \A i \in 1..Len(all) : all[i] \in matching
    BY <1>2, ElementOfSeq
<1>6. ASSUME Len(all) <= MaxPicker
      PROVE  got \in Seq(matching) /\ (more <=> ToSet(got) # matching)
  <2>1. games = all /\ ~more
    <3>1. ~(Len(all) > MaxPicker + 1) /\ ~(Len(all) > MaxPicker)
      BY <1>2, <1>3, <1>6
    <3>2. games = all
      BY <1>4, <3>1
    <3>3. QED
      BY <3>1, <3>2
  <2>2. ToSet(all) = matching
    BY <1>2, <1>5 DEF ToSet
  <2>3. QED
    BY <1>2, <2>1, <2>2
<1>7. ASSUME Len(all) > MaxPicker
      PROVE  got \in Seq(matching) /\ (more <=> ToSet(got) # matching)
  <2>1. /\ games \in Seq(matching)
        /\ Len(games) = MaxPicker + 1
        /\ \A i \in 1..(MaxPicker + 1) : games[i] = all[i]
    <3>1. CASE Len(all) > MaxPicker + 1
      <4>1. games = SubSeq(all, 1, MaxPicker + 1)
        BY <1>4, <3>1
      <4>2. MaxPicker + 1 \in Nat \ {0} /\ MaxPicker + 1 <= Len(all)
        BY <1>2, <1>3, <3>1
      <4>3. QED
        BY <1>2, <4>1, <4>2, FirstOnes
    <3>2. CASE Len(all) = MaxPicker + 1
      BY <1>2, <1>4, <3>2
    <3>3. Len(all) > MaxPicker + 1 \/ Len(all) = MaxPicker + 1
      <4>1. \A n \in Nat : n > MaxPicker => n > MaxPicker + 1 \/ n = MaxPicker + 1
        BY <1>3
      <4>2. QED
        BY <1>2, <1>7, <4>1
    <3>4. QED
      BY <3>1, <3>2, <3>3
  <2>2. more /\ got = SubSeq(games, 1, MaxPicker)
    BY <1>3, <2>1
  <2>3. MaxPicker <= Len(games)
    BY <1>3, <2>1
  <2> HIDE DEF got, more
  <2>4. /\ got \in Seq(matching)
        /\ \A i \in 1..MaxPicker : got[i] = games[i]
    BY <1>3, <2>1, <2>2, <2>3, FirstOnes
  <2>5. DOMAIN got = 1..MaxPicker
    BY <1>3, <2>1, <2>2, <2>3, FirstOnes
  <2>6. \A i \in 1..MaxPicker : got[i] = all[i]
    BY <1>3, <2>1, <2>4
  <2>7. all[MaxPicker + 1] \in matching
    BY <1>2, <1>3, <1>5, <1>7
  <2>8. all[MaxPicker + 1] \notin ToSet(got)
    <3>1. ASSUME NEW i \in 1..MaxPicker PROVE all[MaxPicker + 1] # all[i]
      BY <1>2, <1>3, <1>7
    <3>2. QED
      BY <2>5, <2>6, <3>1 DEF ToSet
  <2>9. QED
    BY <2>2, <2>4, <2>7, <2>8 DEF got, more
<1>8. QED
    BY <1>2, <1>3, <1>6, <1>7 DEF games, matching

-----------------------------------------------------------------------------
(* The run.                                                                *)

\* What the invariant says of the library, of the request and of the run.
WorldOK ==
    /\ IsLibrary(lib)
    /\ "primary" \in slots /\ slots \subseteq {"primary", "secondary"}
    /\ trackless \subseteq Sheets
    /\ signedIn \in Accounts \cup {NoAccount}

CallOK ==
    /\ DOMAIN call = {"step", "request", "ids", "got", "truncated", "seen"}
    /\ call.step \in CallSteps
    /\ call.request \in Requests
    /\ call.ids \in Seq(Nat)
    /\ call.step # "count" => call.got \in Seq(GameRow)
    /\ RouteIsKnown
    /\ MostUsefulFirst
    /\ PageIsHonest

RunOK ==
    /\ list \in Seq(GameRow)
    /\ taken \in 0..Len(list)
    /\ account \in Accounts
    /\ at # "idle" => taken > 0
    /\ ForWhoStartedIt

\* The invariant, by its subjects.
LEMMA RunIInvParts == RunIInv <=> IInv /\ WorldOK /\ CallOK /\ RunOK
BY DEF RunIInv, RunTypeOK, WorldOK, CallOK, RunOK, IInv

\* The first state: nobody has asked for anything.
LEMMA RunInitIInv == RunInit => RunIInv
<1> SUFFICES ASSUME RunInit PROVE RunIInv
    OBVIOUS
<1>1. IInv
    BY InitIInv DEF RunInit
<1>2. WorldOK
    BY LibrariesAssumption DEF RunInit, WorldOK
<1>3. CallOK
  <2>1. (CHOOSE r \in Requests : TRUE) \in Requests
    BY RequestsAssumption
  <2>2. QED
    BY <2>1 DEF RunInit, NoCall, CallOK, CallSteps, RouteIsKnown, MostUsefulFirst, PageIsHonest
<1>4. RunOK
    BY <1>1 DEF RunInit, Init, RunOK, ForWhoStartedIt, IInv, TypeOK
<1>5. QED
    BY <1>1, <1>2, <1>3, <1>4, RunIInvParts

\* A run takes no step but those of the visits to its games.
LEMMA StepsAreVisits ==
    ASSUME RunIInv, [RunNext]_runVars
    PROVE  [Next]_vars
<1> USE DEF vars
<1>1. CASE Control
    BY <1>1 DEF Control, Receive, Open, Unavailable, Read, ReadSystems, BadRequest, ReadIds,
                ReadById, Count, StartRefused, StartRun
<1>2. CASE TakeNext
  <2>1. list \in Seq(GameRow) /\ taken \in 0..Len(list) /\ account \in Accounts
    BY DEF RunIInv, RunTypeOK
  <2>2. taken + 1 \in 1..Len(list)
    BY <1>2, <2>1 DEF TakeNext
  <2>3. list[taken + 1] \in GameRow
    BY <2>1, <2>2, ElementOfSeq
  <2>4. list[taken + 1].rom \in Roms
    BY <2>3 DEF GameRow
  <2>5. QED
    BY <1>2, <2>1, <2>4 DEF TakeNext, Next
<1>3. CASE PrepareGame
    BY <1>3 DEF PrepareGame, NoHasher, Missing, Unsupported, Hashed, PrepareOne, Next
<1>4. CASE EndRun
    BY <1>4 DEF EndRun
<1>5. CASE RunRaises \/ ServiceDies
    BY <1>5 DEF RunRaises, ServiceDies, Next
<1>6. CASE (\E u \in Accounts : SignIn(u)) \/ SwapCard \/ Rescan \/ Migrate
    BY <1>6 DEF SignIn, SwapCard, Rescan, Migrate, Changes
<1>7. CASE Site
    BY <1>7 DEF Site, Next
<1>8. CASE UNCHANGED runVars
    BY <1>8 DEF runVars
<1>9. QED
    BY <1>1, <1>2, <1>3, <1>4, <1>5, <1>6, <1>7, <1>8 DEF RunNext

\* Nothing but the library, the cards, and the login moves them, and a rescan
\* writes no row the launcher did not have.
LEMMA WorldIInv ==
    ASSUME RunIInv, [RunNext]_runVars
    PROVE  WorldOK' /\ lib'.recents = lib.recents /\ lib'.favourites = lib.favourites
<1>0. WorldOK
    BY RunIInvParts
<1>1. CASE UNCHANGED world
    BY <1>0, <1>1 DEF world, WorldOK
<1>2. ASSUME NEW u \in Accounts, SignIn(u)
      PROVE  WorldOK' /\ lib' = lib
    BY <1>0, <1>2 DEF SignIn, Changes, WorldOK
<1>3. ASSUME SwapCard
      PROVE  WorldOK' /\ lib' = lib
    BY <1>0, <1>3 DEF SwapCard, Changes, WorldOK
<1>4. CASE Migrate
    BY <1>0, <1>4 DEF Migrate, Changes, WorldOK, IsLibrary
<1>5. CASE Rescan
  <2> DEFINE Moved(g) == [g EXCEPT !.path = IF g.path = "relative" THEN @
                              ELSE IF "secondary" \in slots THEN "absolute" ELSE "parked"]
             games == {Moved(g) : g \in lib.games}
             f == [g \in lib.games |-> Moved(g)]
  <2>1. lib' = [lib EXCEPT !.games = games]
    BY <1>5 DEF Rescan
  <2>2. IsLibrary(lib)
    BY <1>0 DEF WorldOK
  <2>3. \A g \in lib.games : Moved(g) \in GameRow /\ Moved(g).id = g.id
    BY <2>2 DEF IsLibrary, GameRow, Paths
  <2> HIDE DEF Moved
  <2>4. f \in Surjection(lib.games, games)
    BY DEF Surjection
  <2>5. IsFiniteSet(games)
    BY <2>2, <2>4, FS_Surjection DEF IsLibrary
  <2>6. games \subseteq GameRow /\ \A g, h \in games : g.id = h.id => g = h
    BY <2>2, <2>3 DEF IsLibrary
  <2> HIDE DEF games
  <2>7. /\ DOMAIN lib' = DOMAIN lib /\ lib'.games = games
        /\ lib'.recents = lib.recents /\ lib'.favourites = lib.favourites
    BY <2>1, <2>2 DEF IsLibrary
  <2>8. IsLibrary(lib)'
    BY <2>2, <2>5, <2>6, <2>7 DEF IsLibrary
  <2>9. QED
    BY <1>0, <1>5, <2>7, <2>8 DEF Rescan, Changes, WorldOK
<1>6. UNCHANGED world \/ (\E u \in Accounts : SignIn(u)) \/ SwapCard \/ Rescan \/ Migrate
    BY DEF RunNext, runVars, Control, Receive, Open, Unavailable, Read, ReadSystems, BadRequest,
           ReadIds, ReadById, Count, StartRefused, StartRun, TakeNext, PrepareGame, EndRun,
           RunRaises, ServiceDies, Site
<1>7. QED
    BY <1>1, <1>2, <1>3, <1>4, <1>5, <1>6

\* What has been read is no less true when the launcher moves its files, for a
\* request's list is what it was.
LEMMA CallKept ==
    ASSUME RunIInv, call' = call, lib'.recents = lib.recents, lib'.favourites = lib.favourites
    PROVE  CallOK'
<1>1. \A g : Plays(lib', g) = Plays(lib, g) /\ Starred(lib', g) = Starred(lib, g)
    BY DEF Plays, Starred
<1>2. CallOK
    BY RunIInvParts
<1>3. MostUsefulFirst'
    BY <1>1, <1>2 DEF CallOK, MostUsefulFirst
<1>4. QED
    BY <1>2, <1>3 DEF CallOK, RouteIsKnown, PageIsHonest

\* A request that is over has read nothing.
LEMMA NoCallIsOK ==
    ASSUME call' = NoCall
    PROVE  CallOK'
<1>1. (CHOOSE q \in Requests : TRUE) \in Requests
    BY RequestsAssumption
<1>2. QED
    BY <1>1 DEF NoCall, CallOK, CallSteps, RouteIsKnown, MostUsefulFirst, PageIsHonest

\* Neither has a new one.
LEMMA NewCallIsOK ==
    ASSUME NEW r \in Requests, r.route # "other",
           call' = [NoCall EXCEPT !.step = "open", !.request = r, !.ids = r.ids]
    PROVE  CallOK'
<1>1. r.route \in {"games", "start"} /\ r.ids \in Seq(Nat)
    BY RequestsAssumption
<1>2. /\ DOMAIN call' = {"step", "request", "ids", "got", "truncated", "seen"}
      /\ call'.step = "open" /\ call'.request = r /\ call'.ids = r.ids /\ call'.got = <<>>
    BY DEF NoCall
<1>3. RouteIsKnown' /\ MostUsefulFirst' /\ PageIsHonest'
    BY <1>1, <1>2 DEF RouteIsKnown, MostUsefulFirst, PageIsHonest
<1>4. call'.got \in Seq(GameRow)
  <2>1. call'.got = <<>>
    BY <1>2
  <2>2. QED
    BY <2>1, EmptySeq, Zenon
<1>5. call'.ids \in Seq(Nat)
  <2>1. r.ids \in Seq(Nat)
    BY <1>1
  <2>2. QED
    BY <1>2, <2>1, Zenon
<1>6. call'.request \in Requests
    BY <1>2
<1>7. QED
    BY <1>2, <1>3, <1>4, <1>5, <1>6 DEF CallOK, CallSteps

\* The recents are read, most useful first.
LEMMA ReadRecents ==
    ASSUME RunIInv, Read, call.request.scope = "recents"
    PROVE  CallOK'
<1> DEFINE games == RecentsAndFavourites(lib)
           more == Len(games) > MaxPicker
           cut == call.request.route = "games" /\ more
           got == IF cut THEN SubSeq(games, 1, MaxPicker) ELSE games
           step == IF call.request.route = "start" THEN "start" ELSE "count"
<1>0. CallOK /\ IsLibrary(lib)
    BY RunIInvParts DEF WorldOK
<1>1. call' = [call EXCEPT !.step = step, !.truncated = cut, !.got = got, !.seen = lib.games]
    BY DEF Read
<1> HIDE DEF step, cut, got
<1>2. /\ call'.got = got /\ call'.request = call.request /\ call'.ids = call.ids
      /\ call'.step = step
      /\ DOMAIN call' = DOMAIN call
    BY <1>0, <1>1 DEF CallOK
<1> USE DEF cut, got
<1>3. /\ games \in Seq(lib.games) /\ DOMAIN games = 1..Len(games) /\ Len(games) \in Nat
      /\ \A i \in 1..Len(games) :
           /\ NotParked(games[i])
           /\ IsRecent(lib, games[i]) \/ IsFavourite(lib, games[i])
      /\ \A i, j \in 1..Len(games) : j < i =>
           /\ games[j] # games[i]
           /\ LastOpened(lib, games[j]) >= LastOpened(lib, games[i])
    BY <1>0, RecentsInOrder
<1>4. MaxPicker \in Nat \ {0}
    BY LimitsAssumption
<1> HIDE DEF games
<1>5. /\ got \in Seq(lib.games) /\ Len(got) \in Nat /\ Len(got) <= Len(games)
      /\ DOMAIN got = 1..Len(got)
      /\ \A i \in 1..Len(got) : got[i] = games[i]
  <2>1. CASE cut
    <3>1. MaxPicker <= Len(games)
      BY <1>3, <1>4, <2>1
    <3>2. got = SubSeq(games, 1, MaxPicker)
      BY <2>1
    <3> HIDE DEF got
    <3>3. /\ got \in Seq(lib.games) /\ Len(got) = MaxPicker
          /\ DOMAIN got = 1..MaxPicker
          /\ \A i \in 1..MaxPicker : got[i] = games[i]
      <4>1. games \in Seq(lib.games)
        BY <1>3
      <4>2. /\ SubSeq(games, 1, MaxPicker) \in Seq(lib.games)
            /\ Len(SubSeq(games, 1, MaxPicker)) = MaxPicker
            /\ DOMAIN SubSeq(games, 1, MaxPicker) = 1..MaxPicker
            /\ \A i \in 1..MaxPicker : SubSeq(games, 1, MaxPicker)[i] = games[i]
        BY <1>4, <3>1, <4>1, FirstOnes, Zenon
      <4>3. QED
        BY <3>2, <4>2
    <3>4. QED
      BY <1>3, <1>4, <3>1, <3>3
  <2>2. CASE ~cut
    BY <1>3, <2>2
  <2>3. QED
    BY <2>1, <2>2
<1> HIDE DEF got
<1>6. got \in Seq(GameRow)
    BY <1>0, <1>5, SeqMonotonic DEF IsLibrary
<1>7. \A i \in 1..Len(got) : got[i] \in lib.games /\ got[i] = games[i] /\ i \in 1..Len(games)
    BY <1>3, <1>5, ElementOfSeq
<1>8. lib' = lib
    BY DEF Read, world
<1>9. ASSUME NEW i \in DOMAIN got
      PROVE  /\ got[i].path # "parked"
             /\ Plays(lib, got[i]) # {} \/ Starred(lib, got[i])
    BY <1>3, <1>5, <1>7 DEF NotParked, IsRecent, IsFavourite, IsFor, Plays, Starred
<1>10. ASSUME NEW i \in DOMAIN got, NEW j \in 1..(i - 1)
       PROVE  /\ got[j].id # got[i].id
              /\ \A t \in Plays(lib, got[i]) : \E s \in Plays(lib, got[j]) : s >= t
  <2>1. i \in 1..Len(got) /\ j \in 1..Len(got) /\ j < i
    BY <1>5
  <2>2. got[i] # got[j] /\ LastOpened(lib, got[j]) >= LastOpened(lib, got[i])
    BY <1>3, <1>7, <2>1
  <2>3. got[j].id # got[i].id
    BY <1>0, <1>7, <2>1, <2>2 DEF IsLibrary
  <2>4. ASSUME NEW g
        PROVE  /\ Plays(lib, g) \subseteq Nat \ {0}
               /\ LastOpened(lib, g) \in {0} \cup Plays(lib, g)
               /\ \A t \in Plays(lib, g) : LastOpened(lib, g) >= t
    BY <1>0, LastOpenedIsLast DEF Plays, IsFor
  <2>5. ASSUME NEW t \in Plays(lib, got[i])
        PROVE  \E s \in Plays(lib, got[j]) : s >= t
    <3>1. LastOpened(lib, got[j]) >= t /\ t > 0
      BY <2>2, <2>4
    <3>2. LastOpened(lib, got[j]) \in Plays(lib, got[j])
      BY <2>4, <3>1
    <3>3. QED
      BY <3>1, <3>2
  <2>6. QED
    BY <2>3, <2>5
<1>11. MostUsefulFirst'
    BY <1>2, <1>8, <1>9, <1>10 DEF MostUsefulFirst
<1>12. /\ step \in {"start", "count"}
       /\ step = "count" => call.request.route # "start"
    BY DEF step
<1>13. PageIsHonest' /\ RouteIsKnown'
    BY <1>0, <1>2, <1>12 DEF CallOK, PageIsHonest, RouteIsKnown, Read
<1>14. QED
    BY <1>0, <1>2, <1>6, <1>11, <1>12, <1>13 DEF CallOK, CallSteps

\* A page of the whole library is read.
LEMMA ReadPage ==
    ASSUME RunIInv, Read, call.request.scope = "all"
    PROVE  CallOK'
<1> DEFINE r == call.request
           games == AllGames(lib, r.console, r.search, MaxPicker + 1)
           more == Len(games) > MaxPicker
           got == IF more THEN SubSeq(games, 1, MaxPicker) ELSE games
           matching == Matching(lib.games, r.console, r.search)
<1>0. CallOK /\ IsLibrary(lib)
    BY RunIInvParts DEF WorldOK
<1>1. r.route = "games"
    BY <1>0 DEF CallOK, RouteIsKnown, Read, ScopeKnown
<1>2. call' = [call EXCEPT !.step = "count", !.truncated = more, !.got = got, !.seen = lib.games]
    BY <1>1 DEF Read, Fetched
<1>3. got \in Seq(matching) /\ (more <=> ToSet(got) # matching)
    BY <1>0, PageOfMatching
<1> HIDE DEF games, got, more, matching
<1>4. /\ call'.step = "count" /\ call'.truncated = more /\ call'.got = got
      /\ call'.seen = lib.games /\ call'.request = r /\ call'.ids = call.ids
      /\ DOMAIN call' = DOMAIN call
    BY <1>0, <1>2 DEF CallOK
<1>5. ToSet(got) \subseteq matching
    BY <1>3, ElementOfSeq, LenProperties DEF ToSet
<1>6. PageIsHonest'
    BY <1>3, <1>4, <1>5 DEF PageIsHonest, matching, Matching
<1>7. MostUsefulFirst' /\ RouteIsKnown'
    BY <1>1, <1>4 DEF MostUsefulFirst, RouteIsKnown
<1>8. QED
    BY <1>0, <1>4, <1>6, <1>7 DEF CallOK, CallSteps

\* A request keeps to what it was made for and to what it has read.
LEMMA CallIInv ==
    ASSUME RunIInv, [RunNext]_runVars
    PROVE  CallOK'
<1>0. CallOK /\ WorldOK /\ WorldOK' /\ lib'.recents = lib.recents /\ lib'.favourites = lib.favourites
    BY RunIInvParts, WorldIInv
<1>1. CASE call' = call
    BY <1>0, <1>1, CallKept
<1>2. CASE call' = NoCall
    BY <1>2, NoCallIsOK
<1>3. ASSUME NEW r \in Requests, Receive(r) PROVE CallOK'
  <2>1. CASE r.route = "other" \/ r.body # "object"
    BY <1>2, <1>3, <2>1 DEF Receive
  <2>2. CASE ~(r.route = "other" \/ r.body # "object")
    BY <1>3, <2>2, NewCallIsOK DEF Receive
  <2>3. QED
    BY <2>1, <2>2
<1>4. CASE Open \/ ReadIds
  <2>1. CASE Open /\ lib.version # LibrarySchemaVersion
    BY <1>2, <2>1 DEF Open, Answers
  <2>2. CASE (Open /\ lib.version = LibrarySchemaVersion) \/ ReadIds
    <3>1. /\ call'.step \in {"read", "byId"}
          /\ call'.step = "byId" => call.request.scope = "games"
      BY <1>0, <2>2 DEF Open, ReadIds, Goes, TakesIds, CallOK
    <3>2. /\ call'.request = call.request /\ call'.ids = call.ids
          /\ call'.got = call.got /\ DOMAIN call' = DOMAIN call
      BY <1>0, <2>2 DEF Open, ReadIds, Goes, CallOK
    <3>3. call.step \in {"open", "read"}
      BY <2>2 DEF Open, ReadIds
    <3>4. RouteIsKnown' /\ MostUsefulFirst' /\ PageIsHonest'
      BY <1>0, <3>1, <3>2, <3>3 DEF CallOK, RouteIsKnown, MostUsefulFirst, PageIsHonest
    <3>5. QED
      BY <1>0, <3>1, <3>2, <3>3, <3>4 DEF CallOK, CallSteps
  <2>3. QED
    BY <1>4, <2>1, <2>2
<1>5. CASE Read
    BY <1>5, ReadRecents, ReadPage DEF Read
<1>6. CASE ReadSystems
  <2>1. /\ call'.step = "count" /\ call'.request = call.request /\ call'.ids = call.ids
        /\ DOMAIN call' = DOMAIN call
    BY <1>0, <1>6 DEF ReadSystems, CallOK
  <2>2. call.request.scope = "systems" /\ call.request.route = "games"
    BY <1>0, <1>6 DEF ReadSystems, ScopeKnown, CallOK, RouteIsKnown
  <2>3. QED
    BY <1>0, <2>1, <2>2 DEF CallOK, CallSteps, RouteIsKnown, MostUsefulFirst, PageIsHonest
<1>7. CASE ReadById
  <2>1. call.step = "byId" /\ call.request.scope = "games" /\ call.got \in Seq(GameRow)
    BY <1>0, <1>7 DEF ReadById, CallOK, RouteIsKnown
  <2>2. CASE call.ids = <<>>
    <3>1. /\ call'.step = "start" /\ call'.request = call.request /\ call'.ids = call.ids
          /\ call'.got = call.got /\ DOMAIN call' = DOMAIN call
      BY <1>0, <1>7, <2>2 DEF ReadById, Goes, CallOK
    <3>2. QED
      BY <1>0, <2>1, <3>1 DEF CallOK, CallSteps, RouteIsKnown, MostUsefulFirst, PageIsHonest
  <2>3. CASE call.ids # <<>>
    <3> DEFINE found == GameById(lib, Head(call.ids))
               got == call.got \o found
               ids == Tail(call.ids)
    <3>1. found \in Seq(GameRow)
      BY <1>0 DEF GameById, WorldOK, IsLibrary
    <3>2. got \in Seq(GameRow)
      BY <2>1, <3>1, ConcatProperties
    <3>3. ids \in Seq(Nat)
      BY <1>0, <2>3, HeadTailProperties DEF CallOK
    <3>4. call' = [call EXCEPT !.ids = ids, !.got = got]
      BY <1>7, <2>3 DEF ReadById
    <3> HIDE DEF ids, got
    <3>5. /\ call'.step = call.step /\ call'.request = call.request /\ call'.ids = ids
          /\ call'.got = got /\ DOMAIN call' = DOMAIN call
      BY <1>0, <3>4 DEF CallOK
    <3>6. QED
      BY <1>0, <2>1, <3>2, <3>3, <3>5
         DEF CallOK, CallSteps, RouteIsKnown, MostUsefulFirst, PageIsHonest
  <2>4. QED
    BY <2>2, <2>3
<1>8. \/ call' = call \/ call' = NoCall \/ Open \/ ReadIds \/ Read \/ ReadSystems \/ ReadById
      \/ \E r \in Requests : Receive(r)
    BY DEF RunNext, runVars, Control, Unavailable, BadRequest, Count, StartRefused, StartRun, Answers,
           TakeNext, PrepareGame, EndRun, RunRaises, ServiceDies, SignIn, SwapCard, Rescan,
           Migrate, Changes, Site
<1>9. QED
    BY <1>1, <1>2, <1>3, <1>4, <1>5, <1>6, <1>7, <1>8

\* A run keeps its account, and its place in its list.
LEMMA RunIInvRun ==
    ASSUME RunIInv, [RunNext]_runVars
    PROVE  RunOK'
<1>0. RunOK /\ CallOK /\ IInv
    BY RunIInvParts
<1>1. CASE UNCHANGED run /\ user' = user /\ (at' # "idle" => at # "idle")
    BY <1>0, <1>1 DEF RunOK, run, ForWhoStartedIt
<1>2. CASE StartRun
  <2>1. call.got \in Seq(GameRow) /\ account' \in Accounts
    BY <1>0, <1>2 DEF StartRun, CallOK, RunIInv, RunTypeOK
  <2>2. at = "idle"
    BY <1>0, <1>2 DEF StartRun, Running, RunOK
  <2>3. QED
    BY <1>2, <2>1, <2>2 DEF StartRun, RunOK, ForWhoStartedIt, gameVars
<1>3. CASE TakeNext
    BY <1>0, <1>3 DEF TakeNext, Begin, RunOK, ForWhoStartedIt
<1>4. CASE EndRun \/ RunRaises \/ ServiceDies
  <2>1. list' = <<>> /\ taken' = 0 /\ account' = account /\ at' = "idle"
    BY <1>4 DEF EndRun, RunRaises, ServiceDies, Crash, gameVars
  <2>2. <<>> \in Seq(GameRow) /\ 0 \in 0..Len(<<>>)
    BY EmptySeq
  <2>3. QED
    BY <1>0, <2>1, <2>2 DEF RunOK, ForWhoStartedIt
<1>5. \/ UNCHANGED run /\ user' = user /\ (at' # "idle" => at # "idle")
      \/ StartRun \/ TakeNext \/ EndRun \/ RunRaises \/ ServiceDies
  <2>1. CASE PrepareGame
    <3>1. UNCHANGED run
      BY <2>1 DEF PrepareGame
    <3>2. PrepareOne
      BY <2>1 DEF PrepareGame, NoHasher, Missing, Unsupported, Hashed, PrepareOne
    <3>3. user' = user /\ at # "idle"
      BY <3>2 DEF PrepareOne, inHand, CannotHash, Hash, Skip, SkipUnknown, Ask, SetsAnswered,
                  SetsRejected, SetsFailed, Classify, ZeroGame, MarkUnknown, StoreGameId,
                  FetchPatch, CacheUnlocks, CacheSession
    <3>4. QED
      BY <3>1, <3>3
  <2>2. CASE Control
    BY <2>2 DEF Control, gameVars, Receive, Open, Unavailable, Read, ReadSystems, BadRequest,
                ReadIds, ReadById, Count, StartRefused
  <2>3. CASE (\E u \in Accounts : SignIn(u)) \/ SwapCard \/ Rescan \/ Migrate
    BY <2>3 DEF SignIn, SwapCard, Rescan, Migrate, Changes, gameVars
  <2>4. CASE Site
    BY <2>4 DEF Site, LearnRom, Expire, inHand
  <2>5. CASE UNCHANGED runVars
    BY <2>5 DEF runVars, gameVars
  <2>6. QED
    BY <2>1, <2>2, <2>3, <2>4, <2>5 DEF RunNext
<1>6. QED
    BY <1>1, <1>2, <1>3, <1>4, <1>5

\* RunIInv (PrecacheRun) holds in every reachable state.
THEOREM Invariance == RunSpec => []RunIInv
<1>1. RunInit => RunIInv
    BY RunInitIInv
<1>2. RunIInv /\ [RunNext]_runVars => RunIInv'
  <2> SUFFICES ASSUME RunIInv, [RunNext]_runVars PROVE RunIInv'
    OBVIOUS
  <2>1. IInv'
    BY StepsAreVisits, GameStepIInv DEF RunIInv
  <2>2. RunTypeOK' /\ RouteIsKnown' /\ ForWhoStartedIt' /\ MostUsefulFirst' /\ PageIsHonest'
    BY <2>1, WorldIInv, CallIInv, RunIInvRun DEF WorldOK, CallOK, RunOK, RunTypeOK, IInv
  <2>3. QED
    BY <2>1, <2>2 DEF RunIInv
<1>3. QED
    BY <1>1, <1>2, PTL DEF RunSpec

\* A run of the library's games is made of visits to single ROMs, in the order
\* and for the accounts that PrecacheGame allows.
THEOREM RunsAreVisits == RunSpec => Spec
<1>1. RunInit => Init
    BY DEF RunInit
<1>2. RunIInv /\ [RunNext]_runVars => [Next]_vars
    BY StepsAreVisits
<1>3. QED
    BY <1>1, <1>2, Invariance, PTL DEF RunSpec, Spec

\* Every variable keeps its type.
THEOREM TypeCorrect == RunSpec => []RunTypeOK
BY Invariance, PTL DEF RunIInv

\* A ROM that reads as prepared is one the site has a game for, stored for the
\* run's account.
THEOREM PreparedMeansKnown == RunSpec => []PreparedIsKnown
BY Invariance, PTL DEF RunIInv, IInv

\* A Dreamcast game that reads as prepared has its patch row.
THEOREM PreparedHasPatch == RunSpec => []PatchClientsHavePatch
BY Invariance, PTL DEF RunIInv, IInv

\* What makes a ROM uncacheable is an answer about that ROM: the site's, or the
\* 404 of something on the way that _classify_failure takes for the site's.
THEOREM OnlyAnsweredAreMarked == RunSpec => []MarkedWasAnswered
BY Invariance, PTL DEF RunIInv, IInv

\* Every game of a run is prepared for the account that started it.
THEOREM OneAccountPerRun == RunSpec => []ForWhoStartedIt
BY Invariance, PTL DEF RunIInv

\* A run over the recents has done the most useful games whenever it stops.
THEOREM RecentsFirst == RunSpec => []MostUsefulFirst
BY Invariance, PTL DEF RunIInv

\* The picker says "truncated" exactly when it leaves a match out.
THEOREM TruncationIsTold == RunSpec => []PageIsHonest
BY Invariance, PTL DEF RunIInv

\* A game is reported missing only if its card or one of its tracks was gone.
THEOREM MissingMeansAbsent == RunSpec => MissingIsAbsent
<1>1. ASSUME RunIInv, [RunNext]_runVars, Running, Running',
             outcome' = "missing", outcome # "missing"
      PROVE  \/ list[taken].path = "parked"
             \/ list[taken].path = "absolute" /\ "secondary" \notin slots
             \/ rom \in trackless
  <2>1. Missing
    <3>1. ~PrepareOne \/ CannotHash
      BY <1>1 DEF PrepareOne, Report, Hash, Skip, SkipUnknown, Ask, SetsAnswered,
                  SetsRejected, SetsFailed, Classify, ZeroGame, MarkUnknown, StoreGameId,
                  FetchPatch, CacheUnlocks, CacheSession
    <3>2. PrepareGame
      BY <1>1 DEF RunNext, runVars, gameVars, Control, Receive, Open, Unavailable, Read, ReadSystems,
                  BadRequest, ReadIds, ReadById, Count, StartRefused, StartRun, TakeNext,
                  Begin, EndRun, RunRaises, ServiceDies, Crash, SignIn, SwapCard, Rescan,
                  Migrate, Changes, Site, LearnRom, Expire
    <3>3. QED
      BY <1>1, <3>1, <3>2 DEF PrepareGame, NoHasher, Unsupported, Hashed, Hash, CannotHash
  <2>2. "primary" \in slots
    BY <1>1 DEF RunIInv, RunTypeOK
  <2>3. list[taken].path \in Paths
    <3>1. list \in Seq(GameRow) /\ taken \in 1..Len(list)
      BY <1>1, <2>1 DEF RunIInv, RunTypeOK, Missing, CannotHash
    <3>2. list[taken] \in GameRow
      BY <3>1, ElementOfSeq
    <3>3. QED
      BY <3>2 DEF GameRow
  <2>4. QED
    BY <2>1, <2>2, <2>3 DEF Missing, TrackMissing, FileThere, Game, ResolveRomPath, Paths
<1>2. RunIInv /\ [RunNext]_runVars =>
         [Running /\ Running' /\ outcome' = "missing" /\ outcome # "missing" =>
             \/ list[taken].path = "parked"
             \/ list[taken].path = "absolute" /\ "secondary" \notin slots
             \/ rom \in trackless]_runVars
    BY <1>1
<1>3. QED
    BY <1>2, Invariance, PTL DEF RunSpec, MissingIsAbsent
=============================================================================
