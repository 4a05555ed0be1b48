----------------------------- MODULE VersionGate -----------------------------
(***************************************************************************)
(* The version gate both packages carry (lib/leaf-version-gate.sh): may a  *)
(* pak with these minimums run on a device with this Leaf?                 *)
(*                                                                         *)
(* A version as it is written is a record: the letter v ahead, the numbers *)
(* between its dots, and whether anything but a dot follows.  A field that *)
(* is not there, is there twice, or is no string, is Absent.               *)
(***************************************************************************)
EXTENDS Integers, Sequences

Absent == [v |-> FALSE, parts |-> <<>>, suffix |-> FALSE]
Text(parts) == [v |-> FALSE, parts |-> parts, suffix |-> FALSE]

MaxComponent == 9999

\* leaf_version_components succeeds.  Only an installed version may have a v
\* ahead or a suffix.
IsVersion(text, installed) ==
    /\ Len(text.parts) = 3
    /\ \A k \in 1..3 : text.parts[k] \in 0..MaxComponent
    /\ ~installed => ~text.v /\ ~text.suffix

\* Mutant of AtLeast: what is greater in any component is greater.
AtLeastInAnyPart(installed, required) ==
    LET i == installed.parts
        r == required.parts
    IN
    i[1] > r[1] \/ i[2] > r[2] \/ i[3] >= r[3]

\* leaf_version_at_least, of versions.  A suffix does not count: a pre-release
\* satisfies the minimum that is its release.
AtLeast(installed, required) ==
    LET i == installed.parts
        r == required.parts
    IN
    \/ i[1] > r[1]
    \/ i[1] = r[1] /\ i[2] > r[2]
    \/ i[1] = r[1] /\ i[2] = r[2] /\ i[3] >= r[3]

NoMinimum == 65
UnknownLeaf == 66
BelowMinimum == 67
Compatible == 0

\* leaf_version_gate_manifest.  Nothing on a device says which Jawaka it has:
\* one that is not known does not count.
GateManifest(manifest, device) ==
    IF ~IsVersion(manifest.leaf, FALSE) \/ ~IsVersion(manifest.jawaka, FALSE) THEN NoMinimum
    ELSE IF ~IsVersion(device.leaf, TRUE) THEN UnknownLeaf
    ELSE IF \/ ~AtLeast(device.leaf, manifest.leaf)
            \/ IsVersion(device.jawaka, TRUE) /\ ~AtLeast(device.jawaka, manifest.jawaka)
    THEN BelowMinimum
    ELSE Compatible

\* service-run starts the service, and launch.sh the menu; else the one exits
\* with 64 and the other shows the floor's notice.
Runs(manifest, device) == GateManifest(manifest, device) = Compatible
=============================================================================
