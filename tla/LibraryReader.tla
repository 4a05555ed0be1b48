---------------------------- MODULE LibraryReader ----------------------------
(***************************************************************************)
(* The pak's read-only view of the launcher's game library: what each      *)
(* query of leaf_library answers for a library as it stands.               *)
(*                                                                         *)
(* A library is a record: its schema version and the rows of its tables.   *)
(* A name is its rank in the launcher's collation.  A system is a console  *)
(* id in upper case, the rank of that, and the spelling of the row.  A ROM *)
(* path says how the launcher wrote it: relative to its own card, absolute *)
(* on the other one, or parked for a card that is out.                     *)
(***************************************************************************)
EXTENDS Naturals, FiniteSets, Sequences, SequencesExt

LibrarySchemaVersion == 6
Paths == {"relative", "absolute", "parked"}

\* A search text is the set of names that contain it literally.
NoSearch == {0}

-----------------------------------------------------------------------------

NotParked(g) == g.path # "parked"

\* What the launcher lists, and the pak with it.
Listed(lib) == {g \in lib.games : NotParked(g)}
GameCount(lib) == Cardinality(Listed(lib))

\* Mutant of IsFor: an app of the same id will do.
IsForAnyKind(e, g) == e.target = g.id

\* recents and favorites hold apps as well.
IsFor(e, g) == e.kind = "game" /\ e.target = g.id

IsRecent(lib, g) == \E e \in lib.recents : IsFor(e, g)
IsFavourite(lib, g) == \E e \in lib.favourites : IsFor(e, g)

\* 0 stands for NULL: never opened.
LastOpened(lib, g) == Max({0} \cup {e.opened : e \in {e \in lib.recents : IsFor(e, g)}})

\* ORDER BY: no row ahead of one that sorts before it, ties as they fall.
OrderedBy(S, Before(_, _)) ==
    CHOOSE q \in SetToSeqs(S) : \A i, j \in DOMAIN q : i < j => ~Before(q[j], q[i])

OpenedBefore(lib, g, h) ==
    \/ LastOpened(lib, g) > LastOpened(lib, h)
    \/ LastOpened(lib, g) = LastOpened(lib, h) /\ g.name < h.name

RecentsAndFavourites(lib) ==
    OrderedBy({g \in Listed(lib) : IsRecent(lib, g) \/ IsFavourite(lib, g)},
              LAMBDA g, h : OpenedBefore(lib, g, h))

\* A console's rows, however its id is spelled.
OfConsole(lib, console) == {g \in Listed(lib) : g.system.console = console}

\* GROUP BY system tells the spellings apart.
Systems(lib) ==
    OrderedBy({[system |-> s, count |-> Cardinality({g \in Listed(lib) : g.system = s})] :
                 s \in {g.system : g \in Listed(lib)}},
              LAMBDA a, b : \/ a.count > b.count
                            \/ a.count = b.count /\ a.system.rank < b.system.rank)

\* The picker's order: by console, then by name.
ListedBefore(g, h) ==
    \/ g.system.rank < h.system.rank
    \/ g.system.rank = h.system.rank /\ g.name < h.name

\* All consoles and all names when console is "" and search is NoSearch; all
\* rows when limit is 0.
AllGames(lib, console, search, limit) ==
    LET found == {g \in IF console = "" THEN Listed(lib) ELSE OfConsole(lib, console) :
                    search = NoSearch \/ g.name \in search}
        sorted == OrderedBy(found, ListedBefore)
    IN IF limit > 0 /\ Len(sorted) > limit THEN SubSeq(sorted, 1, limit) ELSE sorted

\* Parked rows included.
GameById(lib, id) ==
    IF \E g \in lib.games : g.id = id
    THEN <<CHOOSE g \in lib.games : g.id = id>> ELSE <<>>

\* Mutant of ResolveRomPath: the path as it is, from the working directory.
ResolveFromHere(path) == IF path = "absolute" THEN "secondary" ELSE "nowhere"

\* The card the file is looked for on.  SDCARD_PATH and the card the library
\* lies on are both the launcher's.
ResolveRomPath(path) ==
    CASE path = "relative" -> "primary"
      [] path = "absolute" -> "secondary"
      [] OTHER             -> "nowhere"
=============================================================================
