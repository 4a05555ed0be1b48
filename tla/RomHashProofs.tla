--------------------------- MODULE RomHashProofs ---------------------------
(***************************************************************************)
(* Theorems about ROM hashing and the CHD reader: for discs with any       *)
(* tracks and hunks of any size, what rc_hash is handed is user data of    *)
(* the sectors it asks for; for any library, what hash_rom answers is of   *)
(* the ROM, and no spill file is left behind.                              *)
(*                                                                         *)
(* The reader's part rests on Layout: the counters raproxy_read_tracks     *)
(* carries from track to track agree with the disc and the image as they   *)
(* are laid down.  It is an induction over the tracks, put as a statement  *)
(* about a set of numbers (Induction) since the provers take no operator   *)
(* as a parameter.                                                         *)
(***************************************************************************)
EXTENDS RomHash, FiniteSetTheorems, SequenceTheorems, TLAPS

\* Of some numbers there is a least.
LEMMA LeastNat ==
    ASSUME NEW T \in SUBSET Nat, T # {}
    PROVE  \E m \in T : \A k \in T : m <= k
<1> DEFINE R == {p \in Nat \X Nat : p[1] < p[2]}
<1>1. IsWellFoundedOn(R, Nat)
  <2>1. R = OpToRel(<, Nat)
    BY DEF OpToRel
  <2>2. QED
    BY <2>1, NatLessThanWellFounded
<1>2. PICK m \in T : \A k \in T : ~(<<k, m>> \in R)
  <2> HIDE DEF R
  <2>1. QED
    BY <1>1, WFMin
<1>3. ASSUME NEW k \in T PROVE m <= k
  <2>1. k \in Nat /\ m \in Nat /\ <<k, m>> \notin R
    BY <1>2
  <2>2. QED
    BY <2>1
<1>4. QED
    BY <1>3

\* What holds at 0 and goes on from one number to the next holds up to n.
LEMMA Induction ==
    ASSUME NEW n \in Nat, NEW S, 0 \in S, \A k \in 1..n : k - 1 \in S => k \in S
    PROVE  0..n \subseteq S
<1> DEFINE T == {k \in 0..n : k \notin S}
<1>1. SUFFICES ASSUME T # {} PROVE FALSE
    OBVIOUS
<1>2. PICK m \in T : \A k \in T : m <= k
  <2>1. T \in SUBSET Nat
    OBVIOUS
  <2> HIDE DEF T
  <2>2. QED
    BY <1>1, <2>1, LeastNat
<1>3. m \in 1..n /\ m - 1 \notin T
  <2>1. m \in 0..n /\ m # 0
    OBVIOUS
  <2>2. m - 1 \notin T
    <3> HIDE DEF T
    <3>1. QED
      BY <1>2, <2>1
  <2>3. QED
    BY <2>1, <2>2
<1>4. QED
    BY <1>3

\* G[k] takes what a function is at k - 1 to what it is at k; f is the function
\* that goes by these steps from b.
Steps(V, n) == [1..n -> [V -> V]]
Goes(f, V, n, b, G) == f \in [0..n -> V] /\ f[0] = b /\ \A k \in 1..n : f[k] = G[k][f[k - 1]]

\* There is such a function.
LEMMA Recursion ==
    ASSUME NEW V, NEW n \in Nat, NEW b \in V, NEW G \in Steps(V, n)
    PROVE  \E f : Goes(f, V, n, b, G)
<1> USE DEF Goes, Steps
<1> DEFINE Upto(f, m) == /\ f \in [0..m -> V]
                         /\ f[0] = b
                         /\ \A k \in 1..m : f[k] = G[k][f[k - 1]]
           S == {m \in 0..n : \E f : Upto(f, m)}
<1>1. 0 \in S
  <2>1. Upto([k \in 0..0 |-> b], 0)
    OBVIOUS
  <2> HIDE DEF Upto
  <2>2. QED
    BY <2>1
<1>2. ASSUME NEW k \in 1..n, k - 1 \in S PROVE k \in S
  <2>1. PICK f : Upto(f, k - 1)
    BY <1>2
  <2> DEFINE g == [j \in 0..k |-> IF j = k THEN G[k][f[k - 1]] ELSE f[j]]
  <2>2. \A j \in 0..(k - 1) : g[j] = f[j] /\ f[j] \in V
    BY <2>1
  <2>3. g[k] = G[k][f[k - 1]] /\ g[k] \in V
    BY <2>2
  <2>4. \A j \in 0..k : j = k \/ j \in 0..(k - 1)
    OBVIOUS
  <2>5. g \in [0..k -> V]
    BY <2>2, <2>3, <2>4
  <2>6. g[0] = b
    BY <2>1, <2>2
  <2>7. ASSUME NEW j \in 1..k PROVE g[j] = G[j][g[j - 1]]
    <3>1. j - 1 \in 0..(k - 1) /\ g[j - 1] = f[j - 1]
      BY <2>2
    <3>2. CASE j = k
      BY <2>3, <3>1, <3>2
    <3>3. CASE j # k
      <4>1. j \in 1..(k - 1) /\ j \in 0..(k - 1)
        BY <3>3
      <4>2. QED
        BY <2>1, <2>2, <3>1, <4>1
    <3>4. QED
      BY <3>2, <3>3
  <2> HIDE DEF g
  <2>8. Upto(g, k)
    BY <2>5, <2>6, <2>7
  <2> HIDE DEF Upto
  <2>9. QED
    BY <2>8
<1>3. n \in S
  <2> HIDE DEF S
  <2>1. 0..n \subseteq S
    BY <1>1, <1>2, Induction
  <2>2. QED
    BY <2>1
<1>4. QED
  BY <1>3

-----------------------------------------------------------------------------
(* The track table and the disc's image.                                   *)

\* What the walk is made of.
TableEntry == [number : Nat, type : Types, frames : Nat, chdStart : Nat, absStart : Nat]
Walks == [tracks : Seq(TableEntry), chdFrame : Nat, absSector : Nat]

\* What a disc's declarations are.
LEMMA DiscFacts ==
    ASSUME NEW d \in Discs
    PROVE  /\ d \in Seq(Declaration) /\ Len(d) \in Nat /\ Len(d) >= 1 /\ DOMAIN d = 1..Len(d)
           /\ \A k \in 1..Len(d) :
                /\ d[k] \in Declaration
                /\ d[k].number \in Nat /\ d[k].type \in Types /\ d[k].frames \in Nat
                /\ d[k].pregap \in Nat /\ d[k].stored \in BOOLEAN
           /\ \A j, k \in 1..Len(d) : d[j].number = d[k].number => j = k
<1>1. IsDisc(d)
    BY DiscsAssumption
<1>2. d \in Seq(Declaration) /\ Len(d) \in 1..MaxTracks
    BY <1>1 DEF IsDisc
<1>3. Len(d) \in Nat /\ Len(d) >= 1 /\ DOMAIN d = 1..Len(d)
  <2>1. Len(d) \in Nat /\ DOMAIN d = 1..Len(d)
    BY <1>2, LenProperties
  <2>2. QED
    BY <1>2, <2>1
<1>4. \A k \in 1..Len(d) : d[k] \in Declaration
    BY <1>2, <1>3
<1>5. QED
    BY <1>1, <1>2, <1>3, <1>4 DEF IsDisc, Declaration

\* A track begins no earlier than the last one ends, and at a multiple of
\* Padding.
LEMMA PadUpFills ==
    ASSUME NEW n \in Nat
    PROVE  /\ PadUp(n) \in Nat
           /\ PadUp(n) = n + ((Padding - (n % Padding)) % Padding)
<1> DEFINE q == n \div 4
           r == n % 4
<1>1. q \in Nat /\ r \in 0..3 /\ n = 4 * q + r
    OBVIOUS
<1> HIDE DEF q
<1>2. (n + 3) \div 4 = IF r = 0 THEN q ELSE q + 1
    BY <1>1
<1>3. (4 - r) % 4 = IF r = 0 THEN 0 ELSE 4 - r
    BY <1>1
<1> HIDE DEF r
<1>4. PadUp(n) = 4 * (IF r = 0 THEN q ELSE q + 1)
    BY <1>1, <1>2 DEF PadUp, Padding
<1>5. PadUp(n) = n + (IF r = 0 THEN 0 ELSE 4 - r)
    BY <1>1, <1>4
<1>6. PadUp(n) \in Nat
    BY <1>1, <1>5
<1>7. PadUp(n) = n + ((4 - r) % 4)
    BY <1>1, <1>3, <1>5
<1>8. QED
    BY <1>6, <1>7 DEF Padding, r

\* One step of the walk.
LEMMA AddTrackType ==
    ASSUME NEW walk \in Walks, NEW t \in Declaration
    PROVE  AddTrack(walk, t) \in Walks
<1>1. StoredPregap(t) \in Nat
    BY DEF StoredPregap, Declaration
<1>2. PadUp(walk.chdFrame + StoredPregap(t) + t.frames) \in Nat
  <2>1. walk.chdFrame + StoredPregap(t) + t.frames \in Nat
    BY <1>1 DEF Walks, Declaration
  <2>2. QED
    BY <2>1, PadUpFills
<1> DEFINE e == [number |-> t.number, type |-> t.type, frames |-> t.frames,
                 chdStart |-> walk.chdFrame + StoredPregap(t),
                 absStart |-> walk.absSector + t.pregap]
<1>3. e \in TableEntry
    BY <1>1 DEF TableEntry, Walks, Declaration
<1> HIDE DEF e
<1>4. Append(walk.tracks, e) \in Seq(TableEntry)
    BY <1>3 DEF Walks
<1>5. walk.absSector + t.pregap + t.frames \in Nat
    BY DEF Walks, Declaration
<1>6. AddTrack(walk, t) =
        [tracks |-> Append(walk.tracks, e),
         chdFrame |-> PadUp(walk.chdFrame + StoredPregap(t) + t.frames),
         absSector |-> walk.absSector + t.pregap + t.frames]
    BY DEF AddTrack, e
<1>7. QED
    BY <1>2, <1>4, <1>5, <1>6 DEF Walks

\* The walk is what its definition says.
LEMMA WalkIsDefined ==
    ASSUME NEW d \in Discs
    PROVE  Walk(d) = [k \in 0..Len(d) |->
                        IF k = 0 THEN [tracks |-> <<>>, chdFrame |-> 0, absSector |-> 0]
                        ELSE AddTrack(Walk(d)[k - 1], d[k])]
<1> DEFINE b == [tracks |-> <<>>, chdFrame |-> 0, absSector |-> 0]
           G == [k \in 1..Len(d) |-> [w \in Walks |-> AddTrack(w, d[k])]]
           E(f) == [k \in 0..Len(d) |-> IF k = 0 THEN b ELSE AddTrack(f[k - 1], d[k])]
<1>a. Len(d) \in Nat
    BY DiscFacts
<1>1. b \in Walks
  <2>1. <<>> \in Seq(TableEntry)
    BY EmptySeq, Zenon
  <2>2. QED
    BY <2>1 DEF Walks
<1>2. G \in Steps(Walks, Len(d))
    BY DiscFacts, AddTrackType DEF Steps
<1>3. PICK f : Goes(f, Walks, Len(d), b, G)
  <2> HIDE DEF b, G
  <2>1. QED
    BY <1>1, <1>2, <1>a, Recursion
<1>4. f = E(f)
  <2>1. ASSUME NEW k \in 0..Len(d)
        PROVE  f[k] = IF k = 0 THEN b ELSE AddTrack(f[k - 1], d[k])
    <3>1. CASE k = 0
      BY <1>3, <3>1 DEF Goes
    <3>2. CASE k # 0
      <4>1. k \in 1..Len(d) /\ k - 1 \in 0..Len(d)
        BY <3>2, DiscFacts
      <4>2. f[k - 1] \in Walks
        BY <1>3, <4>1 DEF Goes
      <4>3. f[k] = AddTrack(f[k - 1], d[k])
        BY <1>3, <4>1, <4>2 DEF Goes
      <4>4. QED
        BY <3>2, <4>3
    <3>3. QED
      BY <3>1, <3>2
  <2>2. f \in [0..Len(d) -> Walks]
    BY <1>3 DEF Goes
  <2>3. QED
    BY <2>1, <2>2
<1>5. Walk(d) = CHOOSE g : g = E(g)
    BY DEF Walk
<1> HIDE DEF E
<1>6. Walk(d) = E(Walk(d))
    BY <1>4, <1>5
<1>7. QED
    BY <1>6 DEF E

\* What a sector of the disc or a frame of the image may hold.
Contents == Nat \X Int

\* t begins with s.
Extends(t, s) ==
    /\ s \in Seq(Contents) /\ t \in Seq(Contents)
    /\ Len(s) \in Nat /\ Len(t) \in Nat /\ Len(s) <= Len(t)
    /\ \A i \in 1..Len(s) : t[i] = s[i]

\* A stretch of silence ...
LEMMA SilenceIs ==
    ASSUME NEW n \in Nat
    PROVE  /\ Repeat(Silence, n) \in Seq(Contents) /\ Len(Repeat(Silence, n)) = n
           /\ \A i \in 1..n : Repeat(Silence, n)[i] = Silence
<1>1. Silence \in Contents
    BY DEF Silence, Contents
<1>2. Repeat(Silence, n) \in [1..n -> Contents]
    BY <1>1 DEF Repeat
<1>3. Repeat(Silence, n) \in Seq(Contents)
    BY <1>2, SeqDef
<1>4. DOMAIN Repeat(Silence, n) = 1..n
    BY DEF Repeat
<1>5. Len(Repeat(Silence, n)) = n
    BY <1>3, <1>4, LenProperties
<1>6. QED
    BY <1>3, <1>5 DEF Repeat

\* ... and the frames of a track, as sequences.
LEMMA BodyIs ==
    ASSUME NEW d \in Discs, NEW k \in 1..Len(d)
    PROVE  /\ Body(d, k) \in Seq(Contents) /\ Len(Body(d, k)) = d[k].frames
           /\ \A i \in 1..d[k].frames : Body(d, k)[i] = <<k, i>>
<1>1. d[k].frames \in Nat /\ k \in Nat
    BY DiscFacts
<1>2. Body(d, k) \in [1..d[k].frames -> Contents]
    BY <1>1 DEF Body, Contents
<1>3. Body(d, k) \in Seq(Contents)
    BY <1>1, <1>2, SeqDef
<1>4. DOMAIN Body(d, k) = 1..d[k].frames
    BY DEF Body
<1>5. Len(Body(d, k)) = d[k].frames
    BY <1>1, <1>3, <1>4, LenProperties
<1>6. QED
    BY <1>3, <1>5 DEF Body

\* One sequence behind another.
LEMMA JoinIs ==
    ASSUME NEW s \in Seq(Contents), NEW t \in Seq(Contents)
    PROVE  /\ s \o t \in Seq(Contents)
           /\ Len(s) \in Nat /\ Len(t) \in Nat /\ Len(s \o t) = Len(s) + Len(t)
           /\ \A i \in 1..Len(s) : (s \o t)[i] = s[i]
           /\ \A i \in 1..Len(t) : (s \o t)[Len(s) + i] = t[i]
<1>1. /\ s \o t \in Seq(Contents) /\ Len(s \o t) = Len(s) + Len(t)
      /\ \A i \in 1..(Len(s) + Len(t)) :
            (s \o t)[i] = IF i <= Len(s) THEN s[i] ELSE t[i - Len(s)]
    BY ConcatProperties
<1>2. Len(s) \in Nat /\ Len(t) \in Nat
    BY LenProperties
<1> DEFINE r == s \o t
           l == Len(s)
           m == Len(t)
<1>3. l \in Nat /\ m \in Nat /\ \A i \in 1..(l + m) : r[i] = IF i <= l THEN s[i] ELSE t[i - l]
    BY <1>1, <1>2
<1> HIDE DEF r, l, m
<1>4. \A i \in 1..l : r[i] = s[i]
    BY <1>3
<1>5. ASSUME NEW i \in 1..m PROVE r[l + i] = t[i]
  <2>1. l + i \in 1..(l + m) /\ ~(l + i <= l) /\ (l + i) - l = i
    BY <1>3
  <2>2. QED
    BY <1>3, <2>1
<1>6. QED
    BY <1>1, <1>2, <1>4, <1>5 DEF r, l, m

\* A track laid down behind what is there.
LEMMA LaidIs ==
    ASSUME NEW d \in Discs, NEW k \in 1..Len(d), NEW s \in Seq(Contents), NEW n \in Nat
    PROVE  LET r == s \o Repeat(Silence, n) \o Body(d, k)
           IN  /\ Extends(r, s)
               /\ Len(r) = Len(s) + n + d[k].frames
               /\ \A i \in (Len(s) + 1)..(Len(s) + n) : r[i] = Silence
               /\ \A i \in 1..d[k].frames : r[Len(s) + n + i] = <<k, i>>
<1> DEFINE q == Repeat(Silence, n)
           b == Body(d, k)
           m == d[k].frames
           p == s \o q
           r == p \o b
           l == Len(s)
<1>1. /\ q \in Seq(Contents) /\ Len(q) = n /\ \A i \in 1..n : q[i] = Silence
    BY SilenceIs
<1>2. /\ b \in Seq(Contents) /\ Len(b) = m /\ m \in Nat /\ \A i \in 1..m : b[i] = <<k, i>>
    BY BodyIs, DiscFacts
<1> HIDE DEF q, b, m
<1>3. /\ p \in Seq(Contents) /\ l \in Nat /\ Len(p) = l + n
      /\ \A i \in 1..l : p[i] = s[i]
      /\ \A i \in 1..n : p[l + i] = q[i]
    BY <1>1, JoinIs
<1> HIDE DEF p
<1>4. /\ r \in Seq(Contents) /\ Len(r) = l + n + m
      /\ \A i \in 1..(l + n) : r[i] = p[i]
      /\ \A i \in 1..m : r[l + n + i] = b[i]
  <2>1. /\ r \in Seq(Contents) /\ Len(r) = Len(p) + Len(b)
        /\ \A i \in 1..Len(p) : r[i] = p[i]
        /\ \A i \in 1..Len(b) : r[Len(p) + i] = b[i]
    BY <1>2, <1>3, JoinIs
  <2> HIDE DEF r, l
  <2>2. QED
    BY <1>2, <1>3, <2>1
<1> HIDE DEF r, l
<1>5. \A i \in 1..l : r[i] = s[i]
    BY <1>3, <1>4
<1>6. ASSUME NEW i \in (l + 1)..(l + n) PROVE r[i] = Silence
  <2>1. i \in 1..(l + n) /\ i - l \in 1..n /\ l + (i - l) = i
    BY <1>3
  <2>2. p[i] = q[i - l]
    BY <1>3, <2>1
  <2>3. QED
    BY <1>1, <1>4, <2>1, <2>2
<1>7. Extends(r, s)
  <2>1. l + n + m \in Nat /\ l <= l + n + m
    BY <1>2, <1>3
  <2>2. QED
    BY <1>3, <1>4, <1>5, <2>1 DEF Extends, l
<1>8. QED
    BY <1>2, <1>4, <1>6, <1>7 DEF r, p, q, b, m, l

\* The image is filled up to where the reader takes the next track to begin.
LEMMA FilledIs ==
    ASSUME NEW s \in Seq(Contents)
    PROVE  Extends(Filled(s), s) /\ Len(Filled(s)) = PadUp(Len(s))
<1> DEFINE n == (Padding - (Len(s) % Padding)) % Padding
           q == Repeat(Silence, n)
<1>1. Len(s) \in Nat
    BY LenProperties
<1>2. n \in Nat
    BY <1>1 DEF Padding
<1>3. q \in Seq(Contents) /\ Len(q) = n
    BY <1>2, SilenceIs
<1>4. PadUp(Len(s)) = Len(s) + n
    BY <1>1, PadUpFills
<1>5. Filled(s) = s \o q
    BY DEF Filled
<1> HIDE DEF n, q
<1>6. /\ s \o q \in Seq(Contents) /\ Len(s \o q) = Len(s) + n
      /\ \A i \in 1..Len(s) : (s \o q)[i] = s[i]
    BY <1>3, JoinIs
<1>7. QED
    BY <1>1, <1>2, <1>4, <1>5, <1>6 DEF Extends

\* So are the sectors of the disc ...
LEMMA SectorsIsDefined ==
    ASSUME NEW d \in Discs
    PROVE  Sectors(d) = [k \in 0..Len(d) |->
                        IF k = 0 THEN <<>>
                        ELSE Sectors(d)[k - 1] \o Repeat(Silence, d[k].pregap) \o Body(d, k)]
<1> DEFINE V == Seq(Contents)
           Step(k, s) == s \o Repeat(Silence, d[k].pregap) \o Body(d, k)
           G == [k \in 1..Len(d) |-> [s \in V |-> Step(k, s)]]
           E(f) == [k \in 0..Len(d) |-> IF k = 0 THEN <<>> ELSE Step(k, f[k - 1])]
<1>1. <<>> \in V
    BY EmptySeq, Zenon
<1>2. Len(d) \in Nat
    BY DiscFacts
<1>3. G \in Steps(V, Len(d))
  <2>1. ASSUME NEW k \in 1..Len(d), NEW s \in V PROVE Step(k, s) \in V
    BY LaidIs, DiscFacts DEF Extends
  <2> HIDE DEF Step, V
  <2>2. QED
    BY <2>1 DEF Steps
<1>4. PICK f : Goes(f, V, Len(d), <<>>, G)
  <2> HIDE DEF V, G
  <2>1. QED
    BY <1>1, <1>2, <1>3, Recursion
<1> HIDE DEF Step, V
<1>5. f = E(f)
  <2>1. f \in [0..Len(d) -> V] /\ f[0] = <<>> /\ \A k \in 1..Len(d) : f[k] = G[k][f[k - 1]]
    BY <1>4 DEF Goes
  <2>2. ASSUME NEW k \in 1..Len(d) PROVE f[k] = Step(k, f[k - 1])
    <3>1. f[k - 1] \in V
      BY <1>2, <2>1
    <3>2. QED
      BY <2>1, <3>1
  <2>3. \A k \in 0..Len(d) : k = 0 \/ (k # 0 /\ k \in 1..Len(d))
    BY <1>2
  <2>4. QED
    BY <2>1, <2>2, <2>3
<1>6. Sectors(d) = CHOOSE g : g = E(g)
    BY DEF Sectors, Step
<1> HIDE DEF E
<1>7. Sectors(d) = E(Sectors(d))
    BY <1>5, <1>6
<1>8. QED
    BY <1>7 DEF E, Step

\* ... and the frames of the image.
LEMMA FramesIsDefined ==
    ASSUME NEW d \in Discs
    PROVE  Frames(d) = [k \in 0..Len(d) |->
                        IF k = 0 THEN <<>>
                        ELSE Filled(Frames(d)[k - 1]
                                    \o Repeat(Silence, IF d[k].stored THEN d[k].pregap ELSE 0)
                                    \o Body(d, k))]
<1> DEFINE V == Seq(Contents)
           Step(k, s) == Filled(s \o Repeat(Silence, IF d[k].stored THEN d[k].pregap ELSE 0)
                                \o Body(d, k))
           G == [k \in 1..Len(d) |-> [s \in V |-> Step(k, s)]]
           E(f) == [k \in 0..Len(d) |-> IF k = 0 THEN <<>> ELSE Step(k, f[k - 1])]
<1>1. <<>> \in V
    BY EmptySeq, Zenon
<1>2. Len(d) \in Nat
    BY DiscFacts
<1>3. G \in Steps(V, Len(d))
  <2>1. ASSUME NEW k \in 1..Len(d), NEW s \in V PROVE Step(k, s) \in V
    <3>1. (IF d[k].stored THEN d[k].pregap ELSE 0) \in Nat
      BY DiscFacts
    <3>2. QED
      BY <3>1, LaidIs, FilledIs DEF Extends
  <2> HIDE DEF Step, V
  <2>2. QED
    BY <2>1 DEF Steps
<1>4. PICK f : Goes(f, V, Len(d), <<>>, G)
  <2> HIDE DEF V, G
  <2>1. QED
    BY <1>1, <1>2, <1>3, Recursion
<1> HIDE DEF Step, V
<1>5. f = E(f)
  <2>1. f \in [0..Len(d) -> V] /\ f[0] = <<>> /\ \A k \in 1..Len(d) : f[k] = G[k][f[k - 1]]
    BY <1>4 DEF Goes
  <2>2. ASSUME NEW k \in 1..Len(d) PROVE f[k] = Step(k, f[k - 1])
    <3>1. f[k - 1] \in V
      BY <1>2, <2>1
    <3>2. QED
      BY <2>1, <3>1
  <2>3. \A k \in 0..Len(d) : k = 0 \/ (k # 0 /\ k \in 1..Len(d))
    BY <1>2
  <2>4. QED
    BY <2>1, <2>2, <2>3
<1>6. Frames(d) = CHOOSE g : g = E(g)
    BY DEF Frames, Step
<1> HIDE DEF E
<1>7. Frames(d) = E(Frames(d))
    BY <1>5, <1>6
<1>8. QED
    BY <1>7 DEF E, Step

\* What a step of the walk adds.
LEMMA AddTrackIs ==
    ASSUME NEW walk \in Walks, NEW t \in Declaration
    PROVE  LET next == AddTrack(walk, t)
               n == Len(walk.tracks)
           IN  /\ next \in Walks /\ n \in Nat /\ Len(next.tracks) = n + 1
               /\ \A k \in 1..n : next.tracks[k] = walk.tracks[k]
               /\ next.tracks[n + 1].number = t.number
               /\ next.tracks[n + 1].type = t.type
               /\ next.tracks[n + 1].frames = t.frames
               /\ next.tracks[n + 1].chdStart = walk.chdFrame + StoredPregap(t)
               /\ next.tracks[n + 1].absStart = walk.absSector + t.pregap
               /\ next.chdFrame = PadUp(walk.chdFrame + StoredPregap(t) + t.frames)
               /\ next.absSector = walk.absSector + t.pregap + t.frames
<1> DEFINE next == AddTrack(walk, t)
           n == Len(walk.tracks)
           e == [number |-> t.number, type |-> t.type, frames |-> t.frames,
                 chdStart |-> walk.chdFrame + StoredPregap(t),
                 absStart |-> walk.absSector + t.pregap]
<1>1. next \in Walks
    BY AddTrackType
<1>2. walk.tracks \in Seq(TableEntry) /\ n \in Nat
    BY LenProperties DEF Walks
<1>3. e \in TableEntry
    BY DEF TableEntry, Walks, Declaration, StoredPregap
<1>4. next.tracks = Append(walk.tracks, e)
    BY DEF AddTrack
<1>5. /\ next.chdFrame = PadUp(walk.chdFrame + StoredPregap(t) + t.frames)
      /\ next.absSector = walk.absSector + t.pregap + t.frames
    BY DEF AddTrack
<1>6. /\ e.number = t.number /\ e.type = t.type /\ e.frames = t.frames
      /\ e.chdStart = walk.chdFrame + StoredPregap(t)
      /\ e.absStart = walk.absSector + t.pregap
    OBVIOUS
<1> HIDE DEF next, e
<1>7. /\ Len(next.tracks) = n + 1 /\ next.tracks[n + 1] = e
      /\ \A k \in 1..n : next.tracks[k] = walk.tracks[k]
    BY <1>2, <1>3, <1>4, AppendProperties
<1>8. QED
    BY <1>1, <1>2, <1>5, <1>6, <1>7 DEF next

\* A track is where its entry of the table says, of the disc and of the image.
TrackIsLaid(d, t, k, sectors, frames) ==
    /\ t \in TableEntry
    /\ t.number = d[k].number /\ t.type = d[k].type /\ t.frames = d[k].frames
    /\ t.absStart + t.frames <= Len(sectors)
    /\ t.chdStart + t.frames <= Len(frames)
    /\ \A i \in 1..t.frames :
         sectors[t.absStart + i] = <<k, i>> /\ frames[t.chdStart + i] = <<k, i>>

\* A place within a block that ends before the last.
LEMMA Within ==
    ASSUME NEW start \in Nat, NEW length \in Nat, NEW last \in Nat,
           start + length <= last, NEW i \in 1..length
    PROVE  start + i \in 1..last
OBVIOUS

\* And it stays there when more is laid behind.
LEMMA TrackStaysLaid ==
    ASSUME NEW d, NEW t, NEW k, NEW sectors, NEW frames, NEW longer, NEW more,
           TrackIsLaid(d, t, k, sectors, frames), Extends(longer, sectors), Extends(more, frames)
    PROVE  TrackIsLaid(d, t, k, longer, more)
<1>1. /\ t.absStart \in Nat /\ t.chdStart \in Nat /\ t.frames \in Nat
      /\ t.absStart + t.frames <= Len(sectors) /\ t.chdStart + t.frames <= Len(frames)
    BY DEF TrackIsLaid, TableEntry
<1>2. /\ Len(sectors) \in Nat /\ Len(longer) \in Nat /\ Len(sectors) <= Len(longer)
      /\ Len(frames) \in Nat /\ Len(more) \in Nat /\ Len(frames) <= Len(more)
    BY DEF Extends
<1>3. t.absStart + t.frames <= Len(longer) /\ t.chdStart + t.frames <= Len(more)
    BY <1>1, <1>2
<1>4. ASSUME NEW i \in 1..t.frames
      PROVE  longer[t.absStart + i] = <<k, i>> /\ more[t.chdStart + i] = <<k, i>>
  <2>1. t.absStart + i \in 1..Len(sectors) /\ t.chdStart + i \in 1..Len(frames)
    BY <1>1, <1>2, Within, Zenon
  <2>2. /\ longer[t.absStart + i] = sectors[t.absStart + i]
        /\ more[t.chdStart + i] = frames[t.chdStart + i]
    BY <2>1 DEF Extends
  <2>3. QED
    BY <2>2 DEF TrackIsLaid
<1>5. QED
    BY <1>3, <1>4 DEF TrackIsLaid

\* The walk, the sectors and the frames of the first n tracks agree.
LaidOut(d, n) ==
    LET tracks == Walk(d)[n].tracks
        sectors == Sectors(d)[n]
        frames == Frames(d)[n]
    IN
    /\ Walk(d)[n] \in Walks /\ Len(tracks) = n
    /\ sectors \in Seq(Contents) /\ Len(sectors) = Walk(d)[n].absSector
    /\ frames \in Seq(Contents) /\ Len(frames) = Walk(d)[n].chdFrame
    /\ \A k \in 1..n : TrackIsLaid(d, tracks[k], k, sectors, frames)
    /\ \A s \in 1..Len(sectors) :
         \/ sectors[s] = Silence
         \/ \E k \in 1..n : \E i \in 1..tracks[k].frames :
              s = tracks[k].absStart + i /\ sectors[s] = <<k, i>>

\* One more track, and they still do.
LEMMA LayoutStep ==
    ASSUME NEW d \in Discs, NEW n \in 1..Len(d), LaidOut(d, n - 1)
    PROVE  LaidOut(d, n)
<1> DEFINE walk == Walk(d)[n - 1]
           next == Walk(d)[n]
           sectors == Sectors(d)[n - 1]
           longer == Sectors(d)[n]
           frames == Frames(d)[n - 1]
           more == Frames(d)[n]
           pregap == d[n].pregap
           stored == IF d[n].stored THEN d[n].pregap ELSE 0
           unfilled == frames \o Repeat(Silence, stored) \o Body(d, n)
<1>1. /\ d[n] \in Declaration /\ pregap \in Nat /\ stored \in Nat /\ stored = StoredPregap(d[n])
      /\ d[n].frames \in Nat /\ Len(d) \in Nat
    BY DiscFacts DEF StoredPregap
<1>2. /\ walk \in Walks /\ Len(walk.tracks) = n - 1
      /\ sectors \in Seq(Contents) /\ Len(sectors) = walk.absSector
      /\ frames \in Seq(Contents) /\ Len(frames) = walk.chdFrame
      /\ \A k \in 1..(n - 1) : TrackIsLaid(d, walk.tracks[k], k, sectors, frames)
      /\ \A s \in 1..Len(sectors) :
           \/ sectors[s] = Silence
           \/ \E k \in 1..(n - 1) : \E i \in 1..walk.tracks[k].frames :
                s = walk.tracks[k].absStart + i /\ sectors[s] = <<k, i>>
    BY DEF LaidOut
<1>3. n \in 0..Len(d) /\ n # 0 /\ (n - 1) + 1 = n
    BY <1>1
<1>4. /\ next = AddTrack(walk, d[n])
      /\ longer = sectors \o Repeat(Silence, pregap) \o Body(d, n)
      /\ more = Filled(unfilled)
    BY <1>3, WalkIsDefined, SectorsIsDefined, FramesIsDefined
<1> HIDE DEF walk, next, sectors, longer, frames, more, pregap, stored
<1>5. /\ next \in Walks /\ Len(next.tracks) = n
      /\ \A k \in 1..(n - 1) : next.tracks[k] = walk.tracks[k]
      /\ next.tracks[n].number = d[n].number
      /\ next.tracks[n].type = d[n].type
      /\ next.tracks[n].frames = d[n].frames
      /\ next.tracks[n].chdStart = walk.chdFrame + stored
      /\ next.tracks[n].absStart = walk.absSector + pregap
      /\ next.chdFrame = PadUp(walk.chdFrame + stored + d[n].frames)
      /\ next.absSector = walk.absSector + pregap + d[n].frames
  <2> DEFINE t == d[n]
  <2>1. t \in Declaration /\ stored = StoredPregap(t) /\ pregap = t.pregap
    BY <1>1 DEF pregap
  <2> HIDE DEF t
  <2>2. LET m == Len(walk.tracks) IN
        /\ next \in Walks /\ Len(next.tracks) = m + 1
        /\ \A k \in 1..m : next.tracks[k] = walk.tracks[k]
        /\ next.tracks[m + 1].number = t.number
        /\ next.tracks[m + 1].type = t.type
        /\ next.tracks[m + 1].frames = t.frames
        /\ next.tracks[m + 1].chdStart = walk.chdFrame + StoredPregap(t)
        /\ next.tracks[m + 1].absStart = walk.absSector + t.pregap
        /\ next.chdFrame = PadUp(walk.chdFrame + StoredPregap(t) + t.frames)
        /\ next.absSector = walk.absSector + t.pregap + t.frames
    <3>1. next = AddTrack(walk, t)
      BY <1>4 DEF t
    <3>2. QED
      BY <1>2, <2>1, <3>1, AddTrackIs
  <2>3. QED
    BY <1>2, <1>3, <2>1, <2>2 DEF t
<1>6. /\ Extends(longer, sectors)
      /\ Len(longer) = Len(sectors) + pregap + d[n].frames
      /\ \A i \in (Len(sectors) + 1)..(Len(sectors) + pregap) : longer[i] = Silence
      /\ \A i \in 1..d[n].frames : longer[Len(sectors) + pregap + i] = <<n, i>>
    BY <1>1, <1>2, <1>4, LaidIs
<1>7. /\ Extends(unfilled, frames)
      /\ Len(unfilled) = Len(frames) + stored + d[n].frames
      /\ \A i \in 1..d[n].frames : unfilled[Len(frames) + stored + i] = <<n, i>>
    BY <1>1, <1>2, LaidIs
<1> HIDE DEF unfilled
<1>8. Extends(more, unfilled) /\ Len(more) = PadUp(Len(unfilled))
    BY <1>4, <1>7, FilledIs DEF Extends
<1>9. Extends(more, frames)
    BY <1>7, <1>8 DEF Extends
<1>10. Len(longer) = next.absSector /\ Len(more) = next.chdFrame
    BY <1>2, <1>5, <1>6, <1>7, <1>8
<1>11. TrackIsLaid(d, next.tracks[n], n, longer, more)
  <2> DEFINE t == next.tracks[n]
  <2>1. t \in TableEntry
    <3>1. next.tracks \in Seq(TableEntry)
      BY <1>5 DEF Walks
    <3>2. QED
      BY <1>1, <1>5, <3>1, ElementOfSeq
  <2>2. /\ t.absStart = Len(sectors) + pregap /\ t.chdStart = Len(frames) + stored
        /\ t.frames = d[n].frames /\ t.number = d[n].number /\ t.type = d[n].type
    BY <1>2, <1>5
  <2>3. Len(sectors) \in Nat /\ Len(frames) \in Nat /\ Len(more) \in Nat
    BY <1>6, <1>9 DEF Extends
  <2> HIDE DEF t
  <2>4. t.absStart + t.frames <= Len(longer) /\ t.chdStart + t.frames <= Len(more)
    <3>1. Len(unfilled) <= Len(more)
      BY <1>8 DEF Extends
    <3>2. QED
      BY <1>1, <1>6, <1>7, <2>2, <2>3, <3>1
  <2>5. ASSUME NEW i \in 1..t.frames
        PROVE  longer[t.absStart + i] = <<n, i>> /\ more[t.chdStart + i] = <<n, i>>
    <3>1. t.chdStart + i \in 1..Len(unfilled)
      <4>1. i \in 1..d[n].frames
        BY <2>2
      <4>2. Len(frames) + stored + i \in 1..Len(unfilled)
        <5> DEFINE l == Len(frames)
                   m == d[n].frames
                   u == Len(unfilled)
        <5>1. l \in Nat /\ m \in Nat /\ stored \in Nat /\ u = l + stored + m /\ i \in 1..m
          BY <1>1, <1>7, <2>3, <4>1
        <5> HIDE DEF l, m, u
        <5>2. l + stored + i \in 1..u
          BY <5>1
        <5>3. QED
          BY <5>2 DEF l, u
      <4>3. QED
        BY <2>2, <4>2
    <3>2. more[t.chdStart + i] = unfilled[t.chdStart + i]
      BY <1>8, <3>1 DEF Extends
    <3>3. QED
      BY <1>6, <1>7, <2>2, <3>2
  <2>6. QED
    BY <2>1, <2>2, <2>4, <2>5 DEF TrackIsLaid, t
<1>12. ASSUME NEW k \in 1..n PROVE TrackIsLaid(d, next.tracks[k], k, longer, more)
  <2>1. CASE k = n
    BY <1>11, <2>1
  <2>2. CASE k # n
    <3>1. k \in 1..(n - 1)
      BY <2>2
    <3>2. TrackIsLaid(d, walk.tracks[k], k, sectors, frames) /\ next.tracks[k] = walk.tracks[k]
      BY <1>2, <1>5, <3>1
    <3>3. QED
      BY <1>6, <1>9, <3>2, TrackStaysLaid
  <2>3. QED
    BY <2>1, <2>2
<1>13. ASSUME NEW s \in 1..Len(longer)
       PROVE  \/ longer[s] = Silence
              \/ \E k \in 1..n : \E i \in 1..next.tracks[k].frames :
                   s = next.tracks[k].absStart + i /\ longer[s] = <<k, i>>
  <2>1. Len(sectors) \in Nat
    BY <1>6 DEF Extends
  <2>2. CASE s \in 1..Len(sectors)
    <3>1. longer[s] = sectors[s]
      BY <1>6, <2>2 DEF Extends
    <3>2. CASE sectors[s] # Silence
      <4>1. PICK k \in 1..(n - 1) : \E i \in 1..walk.tracks[k].frames :
                s = walk.tracks[k].absStart + i /\ sectors[s] = <<k, i>>
        BY <1>2, <2>2, <3>2
      <4>2. k \in 1..n /\ next.tracks[k] = walk.tracks[k]
        BY <1>5
      <4>3. QED
        BY <3>1, <4>1, <4>2
    <3>3. QED
      BY <3>1, <3>2
  <2>3. CASE s \in (Len(sectors) + 1)..(Len(sectors) + pregap)
    BY <1>6, <2>3
  <2>4. CASE s > Len(sectors) + pregap
    <3> DEFINE i == s - (Len(sectors) + pregap)
    <3>1. i \in 1..d[n].frames /\ s = Len(sectors) + pregap + i
      BY <1>1, <1>6, <2>1, <2>4
    <3> HIDE DEF i
    <3>2. longer[s] = <<n, i>>
      BY <1>6, <3>1
    <3>3. n \in 1..n /\ i \in 1..next.tracks[n].frames /\ s = next.tracks[n].absStart + i
      BY <1>2, <1>5, <3>1
    <3>4. QED
      BY <3>2, <3>3
  <2>5. QED
    BY <1>1, <1>6, <2>1, <2>2, <2>3, <2>4
<1>14. longer \in Seq(Contents) /\ more \in Seq(Contents)
    BY <1>6, <1>9 DEF Extends
<1>15. QED
    BY <1>5, <1>10, <1>12, <1>13, <1>14 DEF LaidOut, next, longer, more

\* So they do for a whole disc: the reader's table is that of the layout.
LEMMA Layout ==
    ASSUME NEW d \in Discs
    PROVE  LaidOut(d, Len(d))
<1> DEFINE S == {n \in 0..Len(d) : LaidOut(d, n)}
<1>1. Len(d) \in Nat
    BY DiscFacts
<1>2. 0 \in S
  <2>1. /\ Walk(d)[0] = [tracks |-> <<>>, chdFrame |-> 0, absSector |-> 0]
        /\ Sectors(d)[0] = <<>> /\ Frames(d)[0] = <<>>
    <3>1. 0 \in 0..Len(d)
      BY <1>1
    <3>2. QED
      BY <3>1, WalkIsDefined, SectorsIsDefined, FramesIsDefined
  <2>2. <<>> \in Seq(TableEntry) /\ <<>> \in Seq(Contents) /\ Len(<<>>) = 0
    BY EmptySeq, Zenon
  <2>3. Walk(d)[0] \in Walks
    BY <2>1, <2>2 DEF Walks
  <2>4. LaidOut(d, 0)
    BY <2>1, <2>2, <2>3 DEF LaidOut
  <2>5. QED
    BY <1>1, <2>4
<1>3. \A n \in 1..Len(d) : n - 1 \in S => n \in S
    BY <1>1, LayoutStep
<1> HIDE DEF S
<1>4. 0..Len(d) \subseteq S
    BY <1>1, <1>2, <1>3, Induction
<1>5. Len(d) \in S
    BY <1>1, <1>4
<1>6. QED
    BY <1>5 DEF S

\* An entry of the table is that of a declaration, and says where it lies.
LEMMA TableIs ==
    ASSUME NEW d \in Discs
    PROVE  /\ ReadTracks(d) \in Seq(TableEntry) /\ Len(ReadTracks(d)) = Len(d)
           /\ DOMAIN ReadTracks(d) = 1..Len(d)
           /\ Programme(d) \in Seq(Contents) /\ Image(d) \in Seq(Contents)
           /\ Len(Programme(d)) \in Nat /\ Len(Image(d)) \in Nat
           /\ \A k \in 1..Len(d) :
                TrackIsLaid(d, ReadTracks(d)[k], k, Programme(d), Image(d))
           /\ \A s \in 1..Len(Programme(d)) :
                \/ Programme(d)[s] = Silence
                \/ \E k \in 1..Len(d) : \E i \in 1..ReadTracks(d)[k].frames :
                     s = ReadTracks(d)[k].absStart + i /\ Programme(d)[s] = <<k, i>>
<1>1. /\ ReadTracks(d) = Walk(d)[Len(d)].tracks
      /\ Programme(d) = Sectors(d)[Len(d)] /\ Image(d) = Frames(d)[Len(d)]
    BY DEF ReadTracks, Programme, Image
<1>2. LaidOut(d, Len(d))
    BY Layout
<1>3. ReadTracks(d) \in Seq(TableEntry)
    BY <1>1, <1>2 DEF LaidOut, Walks
<1>4. QED
    BY <1>1, <1>2, <1>3, LenProperties DEF LaidOut

\* A sector of a track is the frame of the image the reader takes it for.
LEMMA FrameOfSector ==
    ASSUME NEW d \in Discs, NEW t \in Range(ReadTracks(d)), NEW sector \in Nat,
           sector >= t.absStart, sector - t.absStart < t.frames
    PROVE  /\ t.chdStart + sector - t.absStart \in 0..(Len(Image(d)) - 1)
           /\ Image(d)[t.chdStart + sector - t.absStart + 1] = Programme(d)[sector + 1]
           /\ Programme(d)[sector + 1] \in Contents
<1>1. PICK k \in 1..Len(d) : t = ReadTracks(d)[k]
    BY TableIs DEF Range
<1>2. TrackIsLaid(d, t, k, Programme(d), Image(d))
    BY <1>1, TableIs
<1>3. /\ t.absStart \in Nat /\ t.chdStart \in Nat /\ t.frames \in Nat
      /\ t.absStart + t.frames <= Len(Programme(d)) /\ t.chdStart + t.frames <= Len(Image(d))
    BY <1>2 DEF TrackIsLaid, TableEntry
<1>4. /\ Programme(d) \in Seq(Contents) /\ Len(Programme(d)) \in Nat /\ Len(Image(d)) \in Nat
    BY TableIs
<1> DEFINE i == sector - t.absStart + 1
<1>5. /\ i \in 1..t.frames /\ t.absStart + i = sector + 1
      /\ t.chdStart + i = t.chdStart + sector - t.absStart + 1
      /\ t.chdStart + sector - t.absStart \in 0..(Len(Image(d)) - 1)
      /\ sector + 1 \in 1..Len(Programme(d))
  <2> DEFINE a == t.absStart
             c == t.chdStart
             m == t.frames
             p == Len(Programme(d))
             q == Len(Image(d))
  <2>1. /\ a \in Nat /\ c \in Nat /\ m \in Nat /\ p \in Nat /\ q \in Nat
        /\ a + m <= p /\ c + m <= q /\ sector >= a /\ sector - a < m
        /\ i = sector - a + 1
    BY <1>3, <1>4
  <2> HIDE DEF a, c, m, p, q, i
  <2>2. /\ i \in 1..m /\ a + i = sector + 1
        /\ c + i = c + sector - a + 1
        /\ c + sector - a \in 0..(q - 1)
        /\ sector + 1 \in 1..p
    BY <2>1
  <2>3. QED
    BY <2>2 DEF a, c, m, p, q
<1> HIDE DEF i
<1>6. Programme(d)[t.absStart + i] = <<k, i>> /\ Image(d)[t.chdStart + i] = <<k, i>>
    BY <1>2, <1>5 DEF TrackIsLaid
<1>7. Programme(d)[sector + 1] \in Contents
    BY <1>4, <1>5, ElementOfSeq
<1>8. QED
    BY <1>5, <1>6, <1>7

\* What lies outside a track is no data of the track's.
LEMMA OutsideTrack ==
    ASSUME NEW d \in Discs, NEW t \in Range(ReadTracks(d)), NEW sector \in Nat,
           ~(sector >= t.absStart /\ sector - t.absStart < t.frames),
           sector < Len(Programme(d)), Programme(d)[sector + 1] # Silence
    PROVE  d[Programme(d)[sector + 1][1]].number # t.number
<1>1. PICK j \in 1..Len(d) : t = ReadTracks(d)[j]
    BY TableIs DEF Range
<1>2. sector + 1 \in 1..Len(Programme(d))
    BY TableIs
<1>3. PICK k \in 1..Len(d) : \E i \in 1..ReadTracks(d)[k].frames :
            sector + 1 = ReadTracks(d)[k].absStart + i /\ Programme(d)[sector + 1] = <<k, i>>
    BY <1>2, TableIs
<1>4. PICK i \in 1..ReadTracks(d)[k].frames :
            sector + 1 = ReadTracks(d)[k].absStart + i /\ Programme(d)[sector + 1] = <<k, i>>
    BY <1>3
<1>5. ASSUME k = j PROVE FALSE
  <2>1. i \in 1..t.frames /\ sector + 1 = t.absStart + i
    BY <1>1, <1>4, <1>5
  <2>2. t.absStart \in Nat /\ t.frames \in Nat
    BY <1>1, TableIs DEF TrackIsLaid, TableEntry
  <2>3. QED
    BY <2>1, <2>2
<1>6. d[k].number # d[j].number
    BY <1>5, DiscFacts
<1>7. t.number = d[j].number
    BY <1>1, TableIs DEF TrackIsLaid
<1>8. QED
    BY <1>4, <1>6, <1>7

\* The bytes the reader skips are those ahead of the user data.
LEMMA SkipsToUserData ==
    ASSUME NEW type \in Types
    PROVE  /\ HeaderSize(type) = UserOffset(type)
           /\ HeaderSize(type) \in Nat /\ DataSize(type) \in Nat
BY DEF Types, HeaderSize, UserOffset, DataSize, Sync, Header, SubHeader, MaxSectorData

\* A track that is selected is there.
LEMMA SelectedIsThere ==
    ASSUME NEW tracks, NEW wanted, DOMAIN tracks = 1..Len(tracks), Len(tracks) \in Nat,
           SelectTrack(tracks, wanted) # 0
    PROVE  SelectTrack(tracks, wanted) \in DOMAIN tracks
<1>1. ASSUME NEW S \in SUBSET DOMAIN tracks, FirstOf(S) # 0 PROVE FirstOf(S) \in DOMAIN tracks
  <2>1. S # {} /\ S \in SUBSET Nat
    BY <1>1 DEF FirstOf
  <2>2. \E m \in S : \A k \in S : m <= k
    BY <2>1, LeastNat
  <2>3. Min(S) \in S
    BY <2>2 DEF Min
  <2>4. QED
    BY <1>1, <2>1, <2>3 DEF FirstOf
<1>2. Len(tracks) # 0 => Len(tracks) \in DOMAIN tracks
    OBVIOUS
<1> DEFINE data == {k \in DOMAIN tracks : IsData(tracks[k])}
           largest == {k \in data : \A j \in data : tracks[j].frames <= tracks[k].frames}
           named == {k \in DOMAIN tracks : tracks[k].number = wanted}
<1>3. SelectTrack(tracks, wanted)
        \in {FirstOf(data), Len(tracks), FirstOf(largest), 0, FirstOf(named)}
    BY DEF SelectTrack
<1>4. /\ data \in SUBSET DOMAIN tracks /\ largest \in SUBSET DOMAIN tracks
      /\ named \in SUBSET DOMAIN tracks
    OBVIOUS
<1> HIDE DEF data, largest, named
<1>5. QED
    BY <1>1, <1>2, <1>3, <1>4

\* The hunk of a frame, of those the frames of the image fill.
LEMMA HunkOfFrame ==
    ASSUME NEW n \in Nat, NEW f \in 0..(n - 1)
    PROVE  /\ f \div FramesPerHunk \in Nat
           /\ f \div FramesPerHunk <= ((n + FramesPerHunk - 1) \div FramesPerHunk) - 1
           /\ (n + FramesPerHunk - 1) \div FramesPerHunk \in Nat
<1> DEFINE F == FramesPerHunk
           p == f \div F
           q == (n + F - 1) \div F
<1>1. F \in Nat /\ F >= 1
    BY HunkAssumption
<1> HIDE DEF F
<1>2. p \in Nat /\ F * p <= f /\ f < F * (p + 1)
    BY <1>1
<1>3. q \in Nat /\ F * q <= n + F - 1 /\ n + F - 1 < F * (q + 1)
    BY <1>1
<1> HIDE DEF p, q
<1>4. F * p + F <= n + F - 1
    BY <1>1, <1>2
<1>5. F * (p + 1) < F * (q + 1)
    BY <1>1, <1>2, <1>3, <1>4
<1>6. p < q
    BY <1>1, <1>2, <1>3, <1>5
<1>7. QED
    BY <1>2, <1>3, <1>6 DEF p, q, F

-----------------------------------------------------------------------------
(* The reader.                                                             *)

\* What a read is.
Calls == [step : {"none", "read", "done", "failed"}, sector : Nat, left : Nat, reply : Seq(Copied)]

\* A handle that has read nothing.
LEMMA FreshHandle ==
    ASSUME disc \in Discs, disc' = disc, track' = NoTrack \/ track' \in Range(ReadTracks(disc)),
           cached' = Unread, buffer' = Unread, call' = NoCall, failed' = FALSE
    PROVE  ReaderIInv'
<1>1. <<>> \in Seq(Copied) /\ Len(<<>>) = 0
    BY EmptySeq, Zenon
<1>2. NoCall \in Calls
    BY <1>1 DEF NoCall, Calls
<1>3. Hunks' \in Nat
  <2>1. Len(Image(disc)) \in Nat
    BY TableIs
  <2>2. Len(Image(disc')) \in Nat
    BY <2>1
  <2>3. \A n \in Nat : (n + FramesPerHunk - 1) \div FramesPerHunk \in Nat
    BY HunkAssumption
  <2>4. QED
    BY <2>2, <2>3 DEF Hunks
<1>4. cached' \in Unread..(Hunks' - 1) /\ buffer' \in Torn..(Hunks' - 1)
  <2>1. \A n \in Nat : Unread \in Unread..(n - 1) /\ Unread \in Torn..(n - 1)
    BY DEF Unread, Torn
  <2>2. QED
    BY <1>3, <2>1
<1>5. IsOpen' => track' \in Range(ReadTracks(disc'))
    BY DEF IsOpen
<1>6. TypeOK'
    BY <1>2, <1>4, <1>5 DEF TypeOK, Calls
<1>7. CacheIsTrue'
    BY DEF CacheIsTrue
<1>8. SoundReadsAreUserData' /\ ReadsSpanTheTrack'
    BY <1>1 DEF SoundReadsAreUserData, ReadsSpanTheTrack, NoCall
<1>9. QED
    BY <1>6, <1>7, <1>8 DEF ReaderIInv

\* No handle is open to begin with.
LEMMA ReaderInit ==
    ASSUME Init
    PROVE  ReaderIInv
<1>1. <<>> \in Seq(Copied) /\ Len(<<>>) = 0
    BY EmptySeq, Zenon
<1>2. NoCall \in Calls
    BY <1>1 DEF NoCall, Calls
<1>3. Hunks \in Nat
  <2>1. Len(Image(disc)) \in Nat
    BY TableIs DEF Init
  <2>2. \A n \in Nat : (n + FramesPerHunk - 1) \div FramesPerHunk \in Nat
    BY HunkAssumption
  <2>3. QED
    BY <2>1, <2>2 DEF Hunks
<1>4. cached \in Unread..(Hunks - 1) /\ buffer \in Torn..(Hunks - 1)
    BY <1>3 DEF Unread, Torn, Init
<1>5. TypeOK
    BY <1>2, <1>4 DEF TypeOK, Calls, Init, IsOpen
<1>6. CacheIsTrue
    BY DEF CacheIsTrue, Init
<1>7. SoundReadsAreUserData /\ ReadsSpanTheTrack
    BY <1>1 DEF SoundReadsAreUserData, ReadsSpanTheTrack, NoCall, Init
<1>8. QED
    BY <1>5, <1>6, <1>7 DEF ReaderIInv

\* What is read when the next sector is the track's.
LEMMA NextSector ==
    ASSUME ReaderIInv, Copying
    PROVE  /\ Hunk \in 0..(Hunks - 1) /\ Hunks \in Nat
           /\ Image(disc)[Frame + 1] = Programme(disc)[call.sector + 1]
           /\ Image(disc)[Frame + 1] \in Contents
           /\ Chunk \in Nat /\ Chunk <= call.left
           /\ HeaderSize(track.type) = UserOffset(track.type)
           /\ HeaderSize(track.type) \in Nat
<1>1. /\ disc \in Discs /\ track \in Range(ReadTracks(disc))
      /\ call.sector \in Nat /\ call.left \in Nat
      /\ call.sector >= track.absStart /\ call.sector - track.absStart < track.frames
    BY DEF ReaderIInv, TypeOK, Copying, InTrack
<1>2. /\ Frame \in 0..(Len(Image(disc)) - 1)
      /\ Image(disc)[Frame + 1] = Programme(disc)[call.sector + 1]
      /\ Programme(disc)[call.sector + 1] \in Contents
    BY <1>1, FrameOfSector DEF Frame
<1>3. Hunk \in 0..(Hunks - 1) /\ Hunks \in Nat
  <2>1. Len(Image(disc)) \in Nat
    BY <1>1, TableIs
  <2>2. QED
    <3>1. Frame \div FramesPerHunk \in Nat
          /\ Frame \div FramesPerHunk <= ((Len(Image(disc)) + FramesPerHunk - 1) \div FramesPerHunk) - 1
          /\ (Len(Image(disc)) + FramesPerHunk - 1) \div FramesPerHunk \in Nat
      BY <1>2, <2>1, HunkOfFrame
    <3>2. Hunk \in Nat /\ Hunk <= Hunks - 1 /\ Hunks \in Nat
      BY <3>1 DEF Hunk, Hunks
    <3>3. QED
      BY <3>2
<1>4. track.type \in Types
  <2>1. PICK k \in 1..Len(disc) : track = ReadTracks(disc)[k]
    BY <1>1, TableIs DEF Range
  <2>2. track \in TableEntry
    BY <1>1, <2>1, TableIs DEF TrackIsLaid
  <2>3. QED
    BY <2>2 DEF TableEntry
<1>5. Chunk \in Nat /\ Chunk <= call.left
    BY <1>1, <1>4, SkipsToUserData DEF Chunk
<1>6. QED
    BY <1>2, <1>3, <1>4, <1>5, SkipsToUserData

\* A copy is of the sector asked for, or of a torn buffer.
LEMMA CopyIsSound ==
    ASSUME NEW h, ReaderIInv, Copying, Copy(h), UNCHANGED <<disc, track, failed>>,
           h = Hunk \/ (failed /\ h = Torn)
    PROVE  call' \in Calls /\ call'.step = "read" /\ SoundReadsAreUserData'
<1> DEFINE e == [sector |-> call.sector, content |-> Content(h),
                 skip |-> HeaderSize(track.type), bytes |-> Chunk]
           r == Append(call.reply, e)
           n == Len(call.reply)
<1>1. /\ call \in Calls /\ call.sector \in Nat /\ call.left \in Nat /\ call.reply \in Seq(Copied)
      /\ call.step = "read" /\ n \in Nat
    BY LenProperties DEF ReaderIInv, TypeOK, Calls, Copying
<1>2. /\ Hunk \in 0..(Hunks - 1)
      /\ Image(disc)[Frame + 1] = Programme(disc)[call.sector + 1]
      /\ Image(disc)[Frame + 1] \in Contents
      /\ Chunk \in Nat /\ Chunk <= call.left
      /\ HeaderSize(track.type) = UserOffset(track.type)
      /\ HeaderSize(track.type) \in Nat
    BY NextSector
<1>3. \/ Content(h) = Programme(disc)[call.sector + 1]
      \/ failed /\ Content(h) = Garbage
    BY <1>2 DEF Content, Torn
<1>4. Content(h) \in Nat \X Int
    BY <1>2 DEF Content, Contents, Garbage
<1>5. e \in Copied
    BY <1>1, <1>2, <1>4 DEF Copied
<1>6. /\ e.sector = call.sector /\ e.content = Content(h) /\ e.skip = UserOffset(track.type)
    BY <1>2
<1>7. call' = [call EXCEPT !.sector = @ + 1, !.left = @ - Chunk, !.reply = r]
    BY DEF Copy
<1> HIDE DEF e
<1>8. /\ r \in Seq(Copied) /\ Len(r) = n + 1 /\ r[n + 1] = e
      /\ \A k \in 1..n : r[k] = call.reply[k]
      /\ DOMAIN r = 1..(n + 1) /\ DOMAIN call.reply = 1..n
    BY <1>1, <1>5, AppendProperties, LenProperties
<1> HIDE DEF r, n
<1>9. /\ call' \in Calls /\ call'.step = "read" /\ call'.reply = r
  <2>1. DOMAIN call = {"step", "sector", "left", "reply"}
    BY <1>1 DEF Calls
  <2>2. /\ DOMAIN call' = {"step", "sector", "left", "reply"}
        /\ call'.step = "read" /\ call'.sector = call.sector + 1
        /\ call'.left = call.left - Chunk /\ call'.reply = r
    BY <1>1, <1>7, <2>1
  <2>3. call.sector + 1 \in Nat /\ call.left - Chunk \in Nat
    BY <1>1, <1>2
  <2>4. call' = [step |-> "read", sector |-> call.sector + 1, left |-> call.left - Chunk,
                 reply |-> r]
    BY <1>1, <1>7 DEF Calls
  <2>5. QED
    BY <1>8, <2>2, <2>3, <2>4 DEF Calls
<1>10. ASSUME NEW k \in 1..(n + 1)
       PROVE  IsUserData(r[k]) \/ (failed /\ r[k].content = Garbage)
  <2>1. CASE k = n + 1
    BY <1>3, <1>6, <1>8, <2>1 DEF IsUserData
  <2>2. CASE k \in 1..n
    BY <1>8, <2>2 DEF ReaderIInv, SoundReadsAreUserData
  <2>3. QED
    BY <1>1, <2>1, <2>2
<1>11. SoundReadsAreUserData'
    BY <1>8, <1>9, <1>10 DEF SoundReadsAreUserData, IsUserData
<1>12. QED
    BY <1>9, <1>11

\* Every step of the reader's keeps its invariant.
LEMMA ReaderStep ==
    ASSUME ReaderIInv, Next
    PROVE  ReaderIInv'
<1>1. /\ disc \in Discs /\ call \in Calls /\ failed \in BOOLEAN
      /\ call.step \in {"none", "read", "done", "failed"} /\ call.sector \in Nat
      /\ call.left \in Nat /\ call.reply \in Seq(Copied)
      /\ cached \in Unread..(Hunks - 1) /\ buffer \in Torn..(Hunks - 1)
    BY DEF ReaderIInv, TypeOK, Calls
<1>2. ASSUME NEW wanted \in Wanted, OpenTrack(wanted) PROVE ReaderIInv'
  <2> DEFINE tracks == ReadTracks(disc)
             index == SelectTrack(tracks, wanted)
  <2>1. /\ index # 0 /\ track' = tracks[index] /\ cached' = Unread /\ buffer' = Unread
        /\ call' = NoCall /\ failed' = FALSE /\ disc' = disc
    BY <1>2 DEF OpenTrack
  <2>2. index \in DOMAIN tracks
    BY <1>1, <2>1, TableIs, DiscFacts, SelectedIsThere
  <2>3. track' \in Range(tracks)
    BY <2>1, <2>2 DEF Range
  <2>4. QED
    BY <1>1, <2>1, <2>3, FreshHandle
<1>3. CASE CloseTrack
    BY <1>1, <1>3, FreshHandle DEF CloseTrack
<1>4. ASSUME NEW sector \in 0..Len(Programme(disc)), NEW size \in Sizes, ReadSector(sector, size)
      PROVE  ReaderIInv'
  <2>1. /\ IsOpen /\ UNCHANGED <<disc, track, cached, buffer, failed>>
        /\ call' = [step |-> "read", sector |-> sector, left |-> size, reply |-> <<>>]
    BY <1>4 DEF ReadSector
  <2>2. <<>> \in Seq(Copied) /\ Len(<<>>) = 0
    BY EmptySeq, Zenon
  <2>3. sector \in Nat /\ size \in Nat
    BY <1>1, TableIs, SizesAssumption
  <2>4. call' \in Calls
    BY <2>1, <2>2, <2>3 DEF Calls
  <2>5. TypeOK'
    BY <2>1, <2>4 DEF ReaderIInv, TypeOK, Calls, IsOpen, Hunks
  <2>6. CacheIsTrue'
    BY <2>1 DEF ReaderIInv, CacheIsTrue, IsOpen
  <2>7. SoundReadsAreUserData' /\ ReadsSpanTheTrack'
    BY <2>1, <2>2 DEF SoundReadsAreUserData, ReadsSpanTheTrack
  <2>8. QED
    BY <2>5, <2>6, <2>7 DEF ReaderIInv
<1>5. CASE CopyCached
  <2>1. /\ Copying /\ Hunk = cached /\ Copy(buffer) /\ IsOpen
        /\ UNCHANGED <<disc, track, cached, buffer, failed>>
    BY <1>5 DEF CopyCached, Copying
  <2>2. buffer = Hunk \/ (failed /\ buffer = Torn)
    BY <2>1 DEF ReaderIInv, CacheIsTrue
  <2>3. call' \in Calls /\ call'.step = "read" /\ SoundReadsAreUserData'
    BY <2>1, <2>2, CopyIsSound
  <2>4. TypeOK'
    BY <2>1, <2>3 DEF ReaderIInv, TypeOK, Calls, IsOpen, Hunks
  <2>5. CacheIsTrue' /\ ReadsSpanTheTrack'
    BY <2>1, <2>3 DEF ReaderIInv, CacheIsTrue, ReadsSpanTheTrack, IsOpen
  <2>6. QED
    BY <2>3, <2>4, <2>5 DEF ReaderIInv
<1>6. CASE ReadHunk
  <2>1. /\ Copying /\ cached' = Hunk /\ buffer' = Hunk /\ Copy(Hunk) /\ IsOpen
        /\ UNCHANGED <<disc, track, failed>>
    BY <1>6 DEF ReadHunk, Copying
  <2>2. call' \in Calls /\ call'.step = "read" /\ SoundReadsAreUserData'
    BY <2>1, CopyIsSound
  <2>3. Hunk \in 0..(Hunks - 1) /\ Hunks \in Nat /\ Hunks' = Hunks
    BY <2>1, NextSector DEF Hunks
  <2>4. cached' \in Unread..(Hunks' - 1) /\ buffer' \in Torn..(Hunks' - 1)
    BY <2>1, <2>3 DEF Unread, Torn
  <2>5. TypeOK'
    BY <2>1, <2>2, <2>4 DEF ReaderIInv, TypeOK, Calls, IsOpen
  <2>6. CacheIsTrue' /\ ReadsSpanTheTrack'
    BY <2>1, <2>2 DEF ReaderIInv, CacheIsTrue, ReadsSpanTheTrack, IsOpen
  <2>7. QED
    BY <2>2, <2>5, <2>6 DEF ReaderIInv
<1>7. CASE ReadHunkFails
  <2>1. /\ Copying /\ buffer' \in {buffer, Torn} /\ call' = [call EXCEPT !.step = "failed"]
        /\ failed' = TRUE /\ UNCHANGED <<disc, track, cached>> /\ IsOpen
    BY <1>7 DEF ReadHunkFails, Copying
  <2>2. call' \in Calls /\ call'.step = "failed" /\ call'.reply = call.reply
    BY <1>1, <2>1 DEF Calls
  <2>3. Hunks \in Nat /\ Hunks' = Hunks
    BY <2>1, NextSector DEF Hunks
  <2>4. cached' \in Unread..(Hunks' - 1) /\ buffer' \in Torn..(Hunks' - 1)
    BY <1>1, <2>1, <2>3 DEF Unread, Torn
  <2>5. TypeOK'
    BY <2>1, <2>2, <2>4 DEF ReaderIInv, TypeOK, Calls, IsOpen
  <2>6. CacheIsTrue' /\ ReadsSpanTheTrack'
    BY <2>1, <2>2 DEF ReaderIInv, CacheIsTrue, ReadsSpanTheTrack, IsOpen
  <2>7. SoundReadsAreUserData'
    BY <2>1, <2>2 DEF ReaderIInv, SoundReadsAreUserData, IsUserData
  <2>8. QED
    BY <2>5, <2>6, <2>7 DEF ReaderIInv
<1>8. CASE ReadEnds
  <2>1. /\ IsOpen /\ (call.left = 0 \/ ~InTrack) /\ call' = [call EXCEPT !.step = "done"]
        /\ UNCHANGED <<disc, track, cached, buffer, failed>>
    BY <1>8 DEF ReadEnds
  <2>2. /\ call' \in Calls /\ call'.step = "done" /\ call'.reply = call.reply
        /\ call'.sector = call.sector /\ call'.left = call.left
    BY <1>1, <2>1 DEF Calls
  <2>3. TypeOK'
    BY <2>1, <2>2 DEF ReaderIInv, TypeOK, Calls, IsOpen, Hunks
  <2>4. CacheIsTrue'
    BY <2>1 DEF ReaderIInv, CacheIsTrue, IsOpen
  <2>5. SoundReadsAreUserData'
    BY <2>1, <2>2 DEF ReaderIInv, SoundReadsAreUserData, IsUserData
  <2>6. ReadsSpanTheTrack'
    <3>1. SUFFICES ASSUME call.left > 0, ~(call.sector >= Len(Programme(disc))),
                          Programme(disc)[call.sector + 1] # Silence
                   PROVE  disc[Programme(disc)[call.sector + 1][1]].number # track.number
      BY <2>1, <2>2 DEF ReadsSpanTheTrack
    <3>2. track \in Range(ReadTracks(disc)) /\ Len(Programme(disc)) \in Nat
      BY <1>1, <2>1, TableIs DEF ReaderIInv, TypeOK
    <3>3. ~InTrack /\ call.sector < Len(Programme(disc))
      BY <1>1, <2>1, <3>1, <3>2
    <3>4. QED
      BY <1>1, <3>1, <3>2, <3>3, OutsideTrack DEF InTrack
  <2>7. QED
    BY <2>3, <2>4, <2>5, <2>6 DEF ReaderIInv
<1>9. QED
    BY <1>2, <1>3, <1>4, <1>5, <1>6, <1>7, <1>8 DEF Next

\* Where the reader does nothing.
LEMMA ReaderStutters ==
    ASSUME ReaderIInv, UNCHANGED vars
    PROVE  ReaderIInv'
<1>1. UNCHANGED <<disc, track, cached, buffer, call, failed>>
    BY DEF vars
<1>2. TypeOK'
    BY <1>1 DEF ReaderIInv, TypeOK, IsOpen, Hunks
<1>3. CacheIsTrue' /\ ReadsSpanTheTrack'
    BY <1>1 DEF ReaderIInv, CacheIsTrue, ReadsSpanTheTrack, IsOpen
<1>4. SoundReadsAreUserData'
    BY <1>1 DEF ReaderIInv, SoundReadsAreUserData, IsUserData
<1>5. QED
    BY <1>2, <1>3, <1>4 DEF ReaderIInv

\* For any disc with tracks of any length, pregap and type, and hunks of any
\* size: the invariant of raproxy_chd_open_track, read_sector and close_track.
THEOREM ReaderInvariance == Spec => []ReaderIInv
<1>1. Init => ReaderIInv
    BY ReaderInit
<1>2. ReaderIInv /\ [Next]_vars => ReaderIInv'
    BY ReaderStep, ReaderStutters
<1>3. QED
    BY <1>1, <1>2, PTL DEF Spec

\* Whoever reads a disc through the handle (chd_cdreader.c) gets user data of
\* the sector asked for, and the whole track, until a hunk read fails.
THEOREM ReaderIsSound == Spec => []SoundReadsAreUserData /\ []ReadsSpanTheTrack
<1>1. ReaderIInv => SoundReadsAreUserData /\ ReadsSpanTheTrack
    BY DEF ReaderIInv
<1>2. QED
    BY <1>1, ReaderInvariance, PTL

-----------------------------------------------------------------------------
(* hash_rom.                                                               *)

\* An archive with a ROM has a largest one.
LEMMA LargestIs ==
    ASSUME file \in Files, RomMembers # {}
    PROVE  LargestMember \in RomMembers
<1>1. IsFiniteSet(file.members) /\ \A m \in file.members : m.size \in Nat
    BY FilesAssumption DEF IsFile
<1>2. IsFiniteSet(RomMembers) /\ \A m \in RomMembers : m.size \in Nat /\ m.size > 0
    BY <1>1, FS_Subset DEF RomMembers
<1>3. PICK n \in Nat : ExistsSurjection(1..n, RomMembers)
    BY <1>2, FS_NatSurjection
<1>4. PICK f \in [1..n -> RomMembers] : \A m \in RomMembers : \E k \in 1..n : f[k] = m
    BY <1>3 DEF ExistsSurjection, Surjection
<1> DEFINE Bounds(k) == {b \in Nat : \A j \in 1..k : f[j].size <= b}
           S == {k \in 0..n : Bounds(k) # {}}
<1>5. n \in S
  <2>1. 0 \in S
    <3>1. 0 \in Bounds(0)
      OBVIOUS
    <3> HIDE DEF Bounds
    <3>2. QED
      BY <3>1
  <2>2. ASSUME NEW k \in 1..n, k - 1 \in S PROVE k \in S
    <3>1. PICK b \in Nat : \A j \in 1..(k - 1) : f[j].size <= b
      BY <2>2
    <3>2. f[k].size \in Nat /\ \A j \in 1..(k - 1) : f[j].size \in Nat
      BY <1>2
    <3> DEFINE c == IF f[k].size <= b THEN b ELSE f[k].size
    <3>3. c \in Nat /\ b <= c /\ f[k].size <= c
      BY <3>2
    <3> HIDE DEF c
    <3>4. ASSUME NEW j \in 1..k PROVE f[j].size <= c
      <4>1. j = k \/ j \in 1..(k - 1)
        OBVIOUS
      <4>2. QED
        BY <3>1, <3>2, <3>3, <4>1
    <3>5. c \in Bounds(k)
      BY <3>3, <3>4
    <3> HIDE DEF Bounds
    <3>6. QED
      BY <3>5
  <2> HIDE DEF S
  <2>3. 0..n \subseteq S
    BY <2>1, <2>2, Induction
  <2>4. QED
    BY <2>3
<1> DEFINE All == {b \in Nat : \A m \in RomMembers : m.size <= b}
<1>6. All # {}
  <2>1. PICK b \in Nat : \A j \in 1..n : f[j].size <= b
    BY <1>5
  <2>2. b \in All
    BY <1>4, <2>1
  <2>3. QED
    BY <2>2
<1>7. PICK b \in All : \A c \in All : b <= c
  <2>1. All \in SUBSET Nat
    OBVIOUS
  <2> HIDE DEF All
  <2>2. QED
    BY <1>6, <2>1, LeastNat
<1>8. PICK m \in RomMembers : m.size = b
  <2>1. SUFFICES ASSUME \A m \in RomMembers : m.size # b PROVE FALSE
    OBVIOUS
  <2>2. \A m \in RomMembers : m.size <= b - 1
    BY <1>2, <2>1
  <2>3. b - 1 \in Nat
    BY <1>2, <2>2
  <2>4. QED
    BY <1>7, <2>2, <2>3
<1>9. \E l \in RomMembers : \A k \in RomMembers : k.size <= l.size
    BY <1>8
<1>10. QED
    BY <1>9 DEF LargestMember

\* Before the first call.
LEMMA HashInitially ==
    ASSUME HashInit
    PROVE  HashIInv
<1>1. /\ ReaderIInv /\ TypeOK /\ stage = "idle" /\ result = NoHash /\ spills = {} /\ hashes = 0
      /\ orphans = {} /\ lost = FALSE /\ tainted = FALSE /\ loaded \in BOOLEAN /\ ~IsOpen /\ ~failed
    BY ReaderInit DEF HashInit, ReaderIInv, Init, IsOpen
<1>2. HashTypeOK
  <2>1. hashes \in 0..MaxHashes /\ ~(hashes > 0) /\ spills \subseteq 1..hashes
    BY <1>1, HashesAssumption
  <2>2. QED
    BY <1>1, <2>1, Zenon DEF HashTypeOK
<1>3. FeedIsExpected /\ AnswerIsExpected /\ SpillIsOurs
    BY <1>1 DEF FeedIsExpected, AnswerIsExpected, SpillIsOurs
<1>4. QED
    BY <1>1, <1>2, <1>3 DEF HashIInv

\* Every step of a call keeps the invariant.
LEMMA HashStep ==
    ASSUME HashIInv, HashNext
    PROVE  HashIInv'
<1> USE DEF HashIInv
<1>1. /\ TypeOK /\ disc \in Discs /\ loaded \in BOOLEAN /\ hashes \in 0..MaxHashes
      /\ spills \subseteq 1..hashes /\ orphans \subseteq spills
      /\ lost \in BOOLEAN /\ tainted \in BOOLEAN
      /\ (IsOpen => stage = "disc") /\ (hashes > 0 => file \in Files)
      /\ stage \in {"idle", "extract", "spill", "buffer", "hash", "disc", "unlink"}
    BY DEF HashTypeOK, TypeOK
<1>2. /\ stage # "idle" => hashes \in 1..hashes /\ file \in Files /\ hashes \notin orphans
      /\ ~IsOpen => ~failed
    BY <1>1 DEF SpillIsOurs, ReaderIInv, CacheIsTrue
<1>a. ASSUME UNCHANGED vars PROVE ReaderIInv' /\ TypeOK' /\ IsOpen' = IsOpen /\ failed' = failed
    BY <1>a, ReaderStutters DEF ReaderIInv, vars, IsOpen
<1>b. ASSUME disc' = disc, track' = NoTrack, cached' = Unread, buffer' = Unread, call' = NoCall,
             failed' = FALSE
      PROVE  ReaderIInv' /\ TypeOK' /\ ~IsOpen' /\ ~failed'
    BY <1>1, <1>b, FreshHandle DEF ReaderIInv, IsOpen
<1>c. ASSUME file' = file PROVE Expected' = Expected
    BY <1>c DEF Expected, Archived
<1>3. ASSUME NEW f \in Files, HashRom(f) PROVE HashIInv'
  <2>1. /\ stage = "idle" /\ hashes < MaxHashes /\ hashes' = hashes + 1 /\ file' = f
        /\ lost' = FALSE /\ tainted' = FALSE
        /\ loaded' = loaded /\ spills' = spills /\ orphans' = orphans
        /\ ReaderIInv' /\ TypeOK' /\ ~IsOpen' /\ ~failed'
    BY <1>1, <1>2, <1>3, <1>a DEF HashRom
  <2>2. /\ result' = NoHash
        /\ \/ stage' = "idle"
           \/ stage' = "extract" /\ f.suffix = "zip" /\ f.console # "arcade"
           \/ stage' \in {"hash", "disc"} /\ feed' \in Expected'
    <3>1. CASE ~loaded \/ f.console = "none" \/ ~f.there
      BY <1>3, <3>1 DEF HashRom, Return
    <3>2. CASE ~(~loaded \/ f.console = "none" \/ ~f.there)
      <4>1. /\ stage' = CASE Extracts(f)                          -> "extract"
                          [] ~Extracts(f) /\ f.suffix = "chd"     -> "disc"
                          [] ~Extracts(f) /\ f.suffix # "chd"     -> "hash"
            /\ feed' = (IF f.suffix = "zip" THEN ItsName
                        ELSE IF f.suffix = "chd" THEN TheDisc ELSE TheFile)
            /\ result' = NoHash
        BY <1>3, <3>2 DEF HashRom
      <4>2. CASE Extracts(f)
        BY <4>1, <4>2 DEF Extracts
      <4>3. CASE ~Extracts(f) /\ f.suffix = "chd"
        BY <2>1, <4>1, <4>3 DEF Expected
      <4>4. CASE ~Extracts(f) /\ f.suffix # "chd"
        BY <2>1, <4>1, <4>4 DEF Expected, Extracts
      <4>5. QED
        BY <4>2, <4>3, <4>4
    <3>3. QED
      BY <3>1, <3>2
  <2>3. HashTypeOK'
    <3>1. hashes' \in 0..MaxHashes /\ spills' \subseteq 1..hashes' /\ orphans' \subseteq spills'
      BY <1>1, <2>1, HashesAssumption
    <3>2. /\ file' \in Files /\ {lost', tainted'} \subseteq BOOLEAN
          /\ stage' \in {"idle", "extract", "spill", "buffer", "hash", "disc", "unlink"}
      BY <2>1, <2>2
    <3>3. QED
      BY <1>1, <2>1, <3>1, <3>2, Zenon DEF HashTypeOK
  <2>4. FeedIsExpected' /\ AnswerIsExpected'
    <3>1. failed' = FALSE
      BY <2>1 DEF TypeOK
    <3>2. QED
      BY <2>1, <2>2, <3>1 DEF FeedIsExpected, AnswerIsExpected
  <2>5. SpillIsOurs'
    BY <1>1, <2>1, <2>2 DEF SpillIsOurs
  <2>6. QED
    BY <2>1, <2>3, <2>4, <2>5
<1>4. CASE ExtractToBuffer
  <2>1. /\ stage = "extract" /\ stage' = "buffer" /\ feed' = LargestMember.name
        /\ UNCHANGED <<vars, loaded, file, spills, hashes, orphans, lost, tainted>>
        /\ LargestMember \in RomMembers
    BY <1>2, <1>4, LargestIs DEF ExtractToBuffer, onlyStage
  <2>2. feed' \in Expected'
    BY <1>c, <2>1 DEF FeedIsExpected, Expected, Archived, RomMembers
  <2>3. QED
    BY <1>1, <1>2, <1>a, <2>1, <2>2
       DEF HashTypeOK, FeedIsExpected, AnswerIsExpected, SpillIsOurs
<1>5. CASE ExtractToSpill
  <2>1. /\ stage = "extract" /\ stage' = "spill" /\ feed' = LargestMember.name
        /\ spills' = spills \cup {hashes}
        /\ UNCHANGED <<vars, loaded, file, result, hashes, orphans, lost, tainted>>
        /\ LargestMember \in RomMembers
    BY <1>2, <1>5, LargestIs DEF ExtractToSpill
  <2>2. feed' \in Expected'
    BY <1>c, <2>1 DEF FeedIsExpected, Expected, Archived, RomMembers
  <2>3. QED
    BY <1>1, <1>2, <1>a, <2>1, <2>2
       DEF HashTypeOK, FeedIsExpected, AnswerIsExpected, SpillIsOurs
<1>6. CASE ExtractFails \/ ExtractRaises
  <2>1. /\ stage = "extract" /\ stage' = "idle" /\ result' \in {NoHash, Raised}
        /\ UNCHANGED <<vars, loaded, file, spills, hashes, orphans, lost, tainted>>
    BY <1>6 DEF ExtractFails, ExtractRaises, Return, onlyStage
  <2>2. QED
    BY <1>1, <1>2, <1>a, <2>1 DEF HashTypeOK, FeedIsExpected, AnswerIsExpected, SpillIsOurs
<1>7. CASE SpillCopied
  <2>1. /\ stage = "spill" /\ stage' = "hash" /\ feed' = feed
        /\ UNCHANGED <<vars, loaded, file, spills, hashes, orphans, lost, tainted>>
    BY <1>7 DEF SpillCopied, onlyStage
  <2>2. QED
    BY <1>1, <1>2, <1>a, <1>c, <2>1
       DEF HashTypeOK, FeedIsExpected, AnswerIsExpected, SpillIsOurs
<1>8. CASE SpillFails
  <2>1. /\ stage = "spill" /\ stage' = "idle" /\ result' \in {NoHash, Raised}
        /\ spills' = spills \ {hashes}
        /\ UNCHANGED <<vars, loaded, file, hashes, orphans, lost, tainted>>
    BY <1>8 DEF SpillFails, Return, CopyError
  <2>2. QED
    BY <1>1, <1>2, <1>a, <2>1 DEF HashTypeOK, FeedIsExpected, AnswerIsExpected, SpillIsOurs
<1>9. CASE Hashed
  <2>1. /\ stage \in {"buffer", "hash"} /\ result' \in {feed, NoHash}
        /\ stage' = (IF hashes \in spills THEN "unlink" ELSE "idle") /\ feed' = feed
        /\ UNCHANGED <<vars, loaded, file, spills, hashes, orphans, lost, tainted>>
    BY <1>9 DEF Hashed, onlyStage
  <2>2. feed \in Expected /\ Expected' = Expected
    BY <1>c, <2>1 DEF FeedIsExpected
  <2>3. HashTypeOK' /\ FeedIsExpected' /\ AnswerIsExpected' /\ ReaderIInv'
    BY <1>1, <1>2, <1>a, <2>1, <2>2 DEF HashTypeOK, FeedIsExpected, AnswerIsExpected
  <2>4. SpillIsOurs'
    BY <1>1, <1>2, <2>1 DEF SpillIsOurs
  <2>5. QED
    BY <2>3, <2>4
<1>10. CASE Unlink
  <2>1. /\ stage = "unlink" /\ stage' = "idle" /\ spills' = spills \ {hashes}
        /\ UNCHANGED <<vars, loaded, file, feed, result, hashes, orphans, lost, tainted>>
    BY <1>10 DEF Unlink
  <2>2. QED
    BY <1>1, <1>2, <1>a, <1>c, <2>1
       DEF HashTypeOK, FeedIsExpected, AnswerIsExpected, SpillIsOurs
<1>11. CASE ReadDisc
  <2>1. /\ stage = "disc" /\ Next /\ lost' = (lost \/ failed')
        /\ tainted' = (tainted \/ ~Sound')
        /\ UNCHANGED <<loaded, stage, file, feed, result, spills, hashes, orphans>>
    BY <1>11 DEF ReadDisc, hashVars
  <2>2. ReaderIInv' /\ TypeOK' /\ failed' \in BOOLEAN
    BY <2>1, ReaderStep DEF ReaderIInv, TypeOK
  <2>3. tainted => lost
    BY DEF FeedIsExpected
  <2>4. ~Sound' => failed'
    BY <2>2 DEF ReaderIInv, SoundReadsAreUserData, Sound
  <2>5. /\ lost' \in BOOLEAN /\ tainted' \in BOOLEAN
        /\ failed' => lost'
        /\ tainted' => lost'
    BY <2>1, <2>3, <2>4, Zenon
  <2>6. HashTypeOK'
    BY <1>1, <2>1, <2>2, <2>5 DEF HashTypeOK
  <2>7. FeedIsExpected'
    BY <1>c, <2>1, <2>5 DEF FeedIsExpected
  <2>8. AnswerIsExpected' /\ SpillIsOurs'
    BY <2>1 DEF AnswerIsExpected, SpillIsOurs
  <2>9. QED
    BY <2>2, <2>6, <2>7, <2>8
<1>12. CASE DiscFails
  <2>1. /\ stage = "disc" /\ stage' = "idle" /\ result' = NoHash
        /\ UNCHANGED <<loaded, file, feed, spills, hashes, orphans, lost, tainted>>
        /\ ReaderIInv' /\ TypeOK' /\ ~IsOpen' /\ ~failed'
    BY <1>12, <1>b DEF DiscFails, Return
  <2>2. QED
    BY <1>1, <1>2, <2>1 DEF HashTypeOK, FeedIsExpected, AnswerIsExpected, SpillIsOurs
<1>13. CASE DiscHashed
  <2>1. /\ stage = "disc" /\ stage' = "idle" /\ result' = feed /\ ~IsOpen
        /\ UNCHANGED <<vars, loaded, file, spills, hashes, orphans, lost, tainted>>
    BY <1>13 DEF DiscHashed, Return, onlyStage
  <2>2. feed \in Expected /\ Expected' = Expected
    BY <1>c, <2>1 DEF FeedIsExpected
  <2>3. QED
    BY <1>1, <1>2, <1>a, <2>1, <2>2
       DEF HashTypeOK, FeedIsExpected, AnswerIsExpected, SpillIsOurs
<1>14. CASE Dies
  <2>1. /\ stage' = "idle" /\ result' = NoHash /\ orphans' = spills
        /\ UNCHANGED <<loaded, file, feed, spills, hashes, lost, tainted>>
        /\ ReaderIInv' /\ TypeOK' /\ ~IsOpen' /\ ~failed'
    BY <1>14, <1>b DEF Dies, Return
  <2>2. tainted' => lost'
    BY <2>1 DEF FeedIsExpected
  <2>3. QED
    BY <1>1, <2>1, <2>2 DEF HashTypeOK, FeedIsExpected, AnswerIsExpected, SpillIsOurs
<1>15. QED
    BY <1>3, <1>4, <1>5, <1>6, <1>7, <1>8, <1>9, <1>10, <1>11, <1>12, <1>13, <1>14 DEF HashNext

\* And so does a step of none of them.
LEMMA HashStutters ==
    ASSUME HashIInv, UNCHANGED romVars
    PROVE  HashIInv'
<1>1. /\ UNCHANGED vars
      /\ UNCHANGED <<loaded, stage, file, feed, result, spills, hashes, orphans, lost, tainted>>
    BY DEF romVars, hashVars
<1>2. ReaderIInv' /\ TypeOK' /\ IsOpen' = IsOpen /\ failed' = failed
    BY <1>1, ReaderStutters DEF HashIInv, ReaderIInv, vars, IsOpen
<1>3. Expected' = Expected
    BY <1>1 DEF Expected, Archived
<1>4. HashTypeOK'
    BY <1>1, <1>2 DEF HashIInv, HashTypeOK
<1>5. FeedIsExpected' /\ AnswerIsExpected' /\ SpillIsOurs'
    BY <1>1, <1>2, <1>3 DEF HashIInv, FeedIsExpected, AnswerIsExpected, SpillIsOurs
<1>6. QED
    BY <1>2, <1>4, <1>5 DEF HashIInv

\* The inductive invariant of hash_rom over the reader, for any library, any
\* discs, and however the calls end.
THEOREM Invariance == HashSpec => []HashIInv
<1>1. HashInit => HashIInv
    BY HashInitially
<1>2. HashIInv /\ [HashNext]_romVars => HashIInv'
    BY HashStep, HashStutters
<1>3. QED
    BY <1>1, <1>2, PTL DEF HashSpec

\* What rc_hash is handed of a disc is user data of the sectors it asks for
\* (chd_cdreader.c, raproxy_chd_read_sector), until a hunk read fails.
THEOREM HandedDataIsUserData == HashSpec => []SoundReadsAreUserData
<1>1. HashIInv => SoundReadsAreUserData
    BY DEF HashIInv, ReaderIInv
<1>2. QED
    BY <1>1, Invariance, PTL

\* Nor is any of it left out: a read ends early only where its track ends.
THEOREM WholeTracksAreHanded == HashSpec => []ReadsSpanTheTrack
<1>1. HashIInv => ReadsSpanTheTrack
    BY DEF HashIInv, ReaderIInv
<1>2. QED
    BY <1>1, Invariance, PTL

\* A hash that hash_rom returns is of the file, the name, the member or the disc
\* that RetroArch would hash, and a disc's is over right and whole reads of every
\* track the call opened, unless a hunk read of the call failed: rc_hash cannot
\* tell such a read from the end of a track, so nothing is claimed of its hash.
THEOREM HashesAreOfTheRom == HashSpec => []HashIsOfTheRom
<1>1. HashIInv => HashIsOfTheRom
    BY DEF HashIInv, FeedIsExpected, AnswerIsExpected, HashIsOfTheRom
<1>2. QED
    BY <1>1, Invariance, PTL

\* No spill file outlives the call that made it, unless the service died in it
\* (leaf_precache, the finally clause of hash_rom).
THEOREM SpillsAreUnlinked == HashSpec => []NoSpillIsLeft
<1>1. HashIInv => NoSpillIsLeft
  <2>1. SUFFICES ASSUME HashIInv PROVE NoSpillIsLeft
    OBVIOUS
  <2>2. stage \in {"spill", "hash", "unlink"} => stage # "idle"
    OBVIOUS
  <2>3. QED
    BY <2>1, <2>2 DEF HashIInv, SpillIsOurs, NoSpillIsLeft
<1>2. QED
    BY <1>1, Invariance, PTL
=============================================================================
