------------------------------ MODULE MCRomHash ------------------------------
(* A library of small files, and small discs for those that are CHDs.        *)
EXTENDS RomHash

T(n, type, frames, pregap, stored) ==
    [number |-> n, type |-> type, frames |-> frames, pregap |-> pregap, stored |-> stored]

\* Every sector type, ahead of another track.
TypeDiscs == {<<T(1, type, 2, 0, FALSE), T(2, "AUDIO", 1, 0, FALSE)>> : type \in Types}

\* A first track of each length modulo the padding, pregaps stored or not, and
\* a second track that crosses a hunk.
PregapKinds == {<<0, FALSE>>, <<3, FALSE>>, <<3, TRUE>>}
LayoutDiscs ==
    {<<T(1, type, n, p[1], p[2]), T(2, "MODE1_RAW", 9, q[1], q[2])>> :
        type \in {"AUDIO", "MODE2_RAW"}, n \in 3..6, p \in PregapKinds, q \in PregapKinds}

\* The shape of a GD-ROM.
GdRom == <<T(1, "MODE1_RAW", 6, 0, FALSE), T(2, "AUDIO", 10, 0, FALSE),
           T(3, "MODE1_RAW", 9, 0, FALSE)>>

SmallDiscs == TypeDiscs \cup LayoutDiscs \cup {GdRom}
AllWanted == {FirstData, LastTrack, Largest, FirstOfSecondSession, 1, 2, 3}

Member(name, size, kind) == [name |-> name, size |-> size, kind |-> kind]
F(suffix, console, members) ==
    [suffix |-> suffix, console |-> console, there |-> TRUE, damaged |-> FALSE,
     members |-> members]
Rom == Member("rom", 1, "file")
BigRom == Member("big rom", 3, "file")
Readme == Member("finder", 2, "__MACOSX")
SmallFiles ==
    {F("chd", "other", {}), F("bin", "other", {}), F("bin", "none", {}),
     F("zip", "arcade", {Rom}), F("zip", "other", {Rom, Readme}),
     F("zip", "other", {BigRom, Readme, Member("folder", 0, "directory")}),
     F("zip", "other", {Readme}),
     [F("zip", "other", {Rom}) EXCEPT !.damaged = TRUE],
     [F("zip", "other", {BigRom}) EXCEPT !.damaged = TRUE],
     [F("bin", "other", {}) EXCEPT !.there = FALSE]}
=============================================================================
