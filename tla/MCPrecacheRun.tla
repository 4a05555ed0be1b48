---------------------------- MODULE MCPrecacheRun ----------------------------
(* A small library: a Dreamcast game on the secondary card, a Game Boy game  *)
(* on the launcher's card whose folder is spelled in two ways, and an app    *)
(* with a game's id.                                                         *)
EXTENDS PrecacheRun

CONSTANTS dc, gb

Rank(c) == IF c = "DC" THEN 1 ELSE 2
Upper(c) == [console |-> c, rank |-> Rank(c), spelling |-> 1]
Lower(c) == [console |-> c, rank |-> Rank(c), spelling |-> 2]
Row(id, name, system, path, r) ==
    [id |-> id, name |-> name, system |-> system, path |-> path, rom |-> r]

Sonic == Row(1, 2, Upper("DC"), "absolute", dc)
Tetris == Row(2, 3, Upper("GB"), "relative", gb)
Kirby == Row(3, 1, Lower("GB"), "relative", gb)

Of(kind, id, opened) == [kind |-> kind, target |-> id, opened |-> opened]
Library(recents, favourites) ==
    [version |-> LibrarySchemaVersion, games |-> {Sonic, Tetris, Kirby},
     recents |-> recents, favourites |-> favourites]

SmallLibraries ==
    {Library({Of("game", 1, 1), Of("game", 2, 2), Of("app", 3, 3)}, {Of("app", 2, 0)}),
     Library({Of("game", 1, 2), Of("app", 2, 1)}, {Of("game", 1, 0), Of("game", 3, 0)})}

RequestFor(route, scope, ids) ==
    [route |-> route, body |-> "object", scope |-> scope, ids |-> ids,
     console |-> "", search |-> NoSearch]
SmallRequests ==
    {RequestFor("games", "systems", <<>>), RequestFor("games", "recents", <<>>),
     RequestFor("games", "all", <<>>), [RequestFor("games", "all", <<>>) EXCEPT !.console = "GB"],
     [RequestFor("games", "all", <<>>) EXCEPT !.search = {1}],
     RequestFor("start", "recents", <<>>), RequestFor("start", "games", <<1, 1>>),
     RequestFor("start", "games", <<2, 9>>), RequestFor("start", "games", <<1, 2, 3>>),
     RequestFor("start", "all", <<>>), RequestFor("other", "recents", <<>>),
     [RequestFor("start", "recents", <<>>) EXCEPT !.body = "garbled"]}
=============================================================================
