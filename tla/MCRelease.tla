------------------------------ MODULE MCRelease ------------------------------
(* A version bump, a raised minimum and floor, and devices after the version  *)
(* gate's test and the catalog smoke.                                         *)
EXTENDS Release, TLC

Lock(pak, floorPak, min) == [pak |-> pak, floor |-> floorPak, min |-> min]
TwoReleases == {Lock(1, 0, <<0, 10, 0>>), Lock(2, 1, <<0, 12, 0>>)}
Edits == Permutations(Codes)
SomeMinimums == {<<99, 99, 99>>, <<0, 12, 0>>}

V(parts, pre) == [v |-> TRUE, parts |-> parts, suffix |-> pre]
LeafVersions ==
    {Absent, Text(<<0, 12>>), Text(<<0, 12, 0, 1>>), Text(<<0, 10000, 0>>),
     V(<<0, 9, 9>>, FALSE), V(<<0, 9, 13>>, FALSE), V(<<0, 10, 0>>, TRUE),
     V(<<0, 11, 3>>, FALSE), V(<<0, 12, 0>>, TRUE), Text(<<0, 12, 0>>),
     V(<<1, 0, 0>>, FALSE), V(<<99, 99, 99>>, FALSE), V(<<100, 0, 0>>, FALSE)}
SomeDevices ==
    [leaf : LeafVersions,
     jawaka : {Absent, Text(<<0, 9, 20>>), Text(<<1, 0, 0>>)}]
=============================================================================
