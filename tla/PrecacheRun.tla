----------------------------- MODULE PrecacheRun -----------------------------
(***************************************************************************)
(* From the launcher's library to prepared games: a request to the control *)
(* routes reads the library, a start request makes a run of what it read,  *)
(* and the run prepares the list game by game (PrecacheGame), for the      *)
(* account that was signed in when it started.                             *)
(*                                                                         *)
(* Everything moves meanwhile: the launcher rescans or migrates its        *)
(* library between two queries, a card leaves its slot and comes back,     *)
(* another account signs in, the service dies.  Requests that race each    *)
(* other for the job are PrecacheControl's subject: here they come one     *)
(* after another.                                                          *)
(***************************************************************************)
EXTENDS PrecacheGame, LibraryReader

CONSTANTS Libraries,    \* libraries to start from
          Requests,     \* requests of the pak's UI
          Sheets,       \* ROMs that are a .gdi or .cue sheet with track files
          Consoles,     \* consoles that have a RetroAchievements id
          MaxPicker,    \* MAX_PICKER_GAMES
          MaxExplicit,  \* MAX_EXPLICIT_GAMES
          MaxRequests,  \* bound: requests
          MaxChanges,   \* bound: changes of the library, the cards, the account
          NoAccount     \* nobody has signed in yet

System == [console : STRING, rank : Nat, spelling : Nat]
GameRow == [id : Nat, name : Nat, system : System, path : Paths, rom : Roms]

\* A library the launcher may have written: its game ids are a key.
IsLibrary(l) ==
    /\ DOMAIN l = {"version", "games", "recents", "favourites"}
    /\ l.games \subseteq GameRow
    /\ IsFiniteSet(l.games)
    /\ \A g, h \in l.games : g.id = h.id => g = h
    /\ IsFiniteSet(l.recents)
    /\ \A e \in l.recents : e.opened \in Nat \ {0}

ASSUME LibrariesAssumption == \A l \in Libraries : IsLibrary(l)
ASSUME RequestsAssumption ==
    /\ Requests # {}
    /\ \A r \in Requests : r.route \in {"games", "start", "other"} /\ r.ids \in Seq(Nat)
ASSUME LimitsAssumption == {MaxPicker, MaxExplicit} \subseteq Nat \ {0}
ASSUME NoAccountAssumption == NoAccount \notin Accounts

VARIABLES
    lib,       \* the launcher's library
    slots,     \* cards in their slots
    trackless, \* sheets with a track file gone
    signedIn,  \* the stored login
    changes,
    \* the request
    call,      \* where it is, what it asks for, and what it has read
    requests,
    \* the run
    list,      \* the games of the run, <<>> when none is under way
    taken,     \* how many of them have been taken in hand
    account    \* the account of its credentials

world == <<lib, slots, trackless, signedIn, changes>>
run == <<list, taken, account>>
runVars == <<gameVars, world, call, requests, run>>

NoCall == [step |-> "free", request |-> CHOOSE r \in Requests : TRUE, ids |-> <<>>,
           got |-> <<>>, truncated |-> FALSE, seen |-> {}]

CallSteps == {"free", "open", "read", "byId", "count", "start"}

RunTypeOK ==
    /\ TypeOK
    /\ IsLibrary(lib)
    /\ "primary" \in slots /\ slots \subseteq {"primary", "secondary"}
    /\ trackless \subseteq Sheets
    /\ signedIn \in Accounts \cup {NoAccount}
    /\ DOMAIN call = {"step", "request", "ids", "got", "truncated", "seen"}
    /\ call.step \in CallSteps
    /\ call.request \in Requests
    /\ call.ids \in Seq(Nat)
    /\ call.step # "count" => call.got \in Seq(GameRow)
    /\ list \in Seq(GameRow)
    /\ taken \in 0..Len(list)
    /\ account \in Accounts
    /\ at # "idle" => taken > 0

Running == list # <<>>

-----------------------------------------------------------------------------
(* leaf_control.                                                           *)

Goes(step) == call' = [call EXCEPT !.step = step]
Answers == call' = NoCall

\* An unknown route, a body that is no JSON (400) or no object (500) is
\* answered at once.
Receive(r) ==
    /\ call.step = "free"
    /\ requests < MaxRequests
    /\ requests' = requests + 1
    /\ call' = IF r.route = "other" \/ r.body # "object" THEN NoCall
               ELSE [NoCall EXCEPT !.step = "open", !.request = r, !.ids = r.ids]
    /\ UNCHANGED <<gameVars, world, run>>

\* LibraryReader.__init__: anything but the known schema is LibraryUnavailable.
Open ==
    /\ call.step = "open"
    /\ IF lib.version = LibrarySchemaVersion THEN Goes("read") ELSE Answers
    /\ UNCHANGED <<gameVars, world, requests, run>>

\* No library, or the launcher keeps it locked past the busy timeout: 409.
Unavailable ==
    /\ call.step \in {"open", "read", "byId", "count"}
    /\ Answers
    /\ UNCHANGED <<gameVars, world, requests, run>>

\* Mutant of Fetched: the query stops at the page.
FetchedPage(r) == AllGames(lib, r.console, r.search, MaxPicker)

\* One more than a page holds, to tell that there is more.
Fetched(r) == AllGames(lib, r.console, r.search, MaxPicker + 1)

\* Each route has scopes of its own.
ScopeKnown(r) ==
    r.scope \in IF r.route = "start" THEN {"recents", "games"}
                                     ELSE {"recents", "all", "systems"}

Read ==
    LET r == call.request
        games == IF r.scope = "recents" THEN RecentsAndFavourites(lib) ELSE Fetched(r)
        more == Len(games) > MaxPicker
    IN
    /\ call.step = "read"
    /\ ScopeKnown(r)
    /\ r.scope \in {"recents", "all"}
    /\ call' = [call EXCEPT
           !.step = IF r.route = "start" THEN "start" ELSE "count",
           !.truncated = r.route = "games" /\ more,
           !.got = IF r.route = "games" /\ more THEN SubSeq(games, 1, MaxPicker) ELSE games,
           !.seen = lib.games]
    /\ UNCHANGED <<gameVars, world, requests, run>>

ReadSystems ==
    /\ call.step = "read"
    /\ ScopeKnown(call.request)
    /\ call.request.scope = "systems"
    /\ call' = [call EXCEPT !.step = "count", !.got = Systems(lib), !.seen = lib.games]
    /\ UNCHANGED <<gameVars, world, requests, run>>

\* An unknown scope, ids that are no list of integers, too many of them: 400.
BadRequest ==
    /\ call.step = "read"
    /\ \/ ~ScopeKnown(call.request)
       \/ call.request.scope = "games" /\ Len(call.ids) > MaxExplicit
    /\ Answers
    /\ UNCHANGED <<gameVars, world, requests, run>>

TakesIds == call.request.scope = "games" /\ Len(call.ids) <= MaxExplicit

ReadIds ==
    /\ call.step = "read"
    /\ ScopeKnown(call.request)
    /\ TakesIds
    /\ Goes("byId")
    /\ UNCHANGED <<gameVars, world, requests, run>>

\* One query for each id; an id the library lacks is dropped.
ReadById ==
    /\ call.step = "byId"
    /\ IF call.ids = <<>>
       THEN Goes("start")
       ELSE call' = [call EXCEPT !.ids = Tail(@),
                                 !.got = @ \o GameById(lib, Head(call.ids))]
    /\ UNCHANGED <<gameVars, world, requests, run>>

\* The total of the reply is a query of its own.
Count ==
    /\ call.step = "count"
    /\ Answers
    /\ UNCHANGED <<gameVars, world, requests, run>>

\* A run under way, nothing to prepare, no login, or a token known to be bad.
StartRefused ==
    /\ call.step = "start"
    /\ Answers
    /\ UNCHANGED <<gameVars, world, requests, run>>

StartRun ==
    /\ call.step = "start"
    /\ ~Running
    /\ call.got # <<>>
    /\ signedIn # NoAccount
    /\ list' = call.got
    /\ taken' = 0
    /\ account' = signedIn
    /\ Answers
    /\ UNCHANGED <<gameVars, world, requests>>

Control ==
    \/ \E r \in Requests : Receive(r)
    \/ Open \/ Unavailable \/ Read \/ ReadSystems \/ BadRequest \/ ReadIds \/ ReadById
    \/ Count \/ StartRefused \/ StartRun

-----------------------------------------------------------------------------
(* leaf_precache: the run.                                                 *)

Game == list[taken]
FileThere(g) == ResolveRomPath(g.path) \in slots

\* Mutant of TakeNext: the login as it is now.
TakeNextForCurrent ==
    /\ Running
    /\ taken < Len(list)
    /\ taken > 0 => outcome # "auth"
    /\ taken' = taken + 1
    /\ signedIn # NoAccount /\ Begin(list[taken + 1].rom, signedIn)
    /\ UNCHANGED <<world, call, requests, list, account>>

TakeNext ==
    /\ Running
    /\ taken < Len(list)
    /\ taken > 0 => outcome # "auth"
    /\ taken' = taken + 1
    /\ Begin(list[taken + 1].rom, account)
    /\ UNCHANGED <<world, call, requests, list, account>>

\* missing_disc_files: the ROM in hand is a sheet that names a track file the
\* card lacks.  A sheet that cannot be read names none.
TrackMissing == rom \in trackless

\* The first tests of _prepare_one, in their order.
NoHasher == CannotHash /\ outcome' = "failed"
Missing ==
    /\ CannotHash
    /\ outcome' = "missing"
    /\ ~FileThere(Game) \/ TrackMissing
Unsupported ==
    /\ CannotHash
    /\ outcome' = "unsupported"
    /\ FileThere(Game)
    /\ ~TrackMissing
Hashed ==
    /\ Hash
    /\ FileThere(Game)
    /\ ~TrackMissing
    /\ Game.system.console \in Consoles

PrepareGame ==
    /\ \/ NoHasher \/ Missing \/ Unsupported \/ Hashed
       \/ at # "hash" /\ PrepareOne
    /\ UNCHANGED <<world, call, requests, run>>

\* The list is done, the run is cancelled, or the token was refused.
EndRun ==
    /\ Running
    /\ at = "idle"
    /\ list' = <<>>
    /\ taken' = 0
    /\ UNCHANGED <<gameVars, world, call, requests, account>>

\* An exception ends the run in the middle of a game.
RunRaises ==
    /\ Crash
    /\ list' = <<>>
    /\ taken' = 0
    /\ UNCHANGED <<world, call, requests, account>>

\* The service dies with the run and the request.
ServiceDies ==
    /\ Crash
    /\ list' = <<>>
    /\ taken' = 0
    /\ call' = NoCall
    /\ UNCHANGED <<world, requests, account>>

-----------------------------------------------------------------------------
(* The launcher, the user and the site.                                    *)

Changes ==
    /\ changes < MaxChanges
    /\ changes' = changes + 1
    /\ UNCHANGED <<gameVars, trackless, call, requests, run>>

SignIn(u) ==
    /\ Changes
    /\ signedIn # u
    /\ signedIn' = u
    /\ UNCHANGED <<lib, slots>>

\* The secondary card is taken out, or put back.
SwapCard ==
    /\ Changes
    /\ slots' = IF "secondary" \in slots THEN slots \ {"secondary"}
                                         ELSE slots \cup {"secondary"}
    /\ UNCHANGED <<lib, signedIn>>

\* The launcher parks the rows of a card that is out, and takes them back.
Rescan ==
    /\ Changes
    /\ lib' = [lib EXCEPT !.games =
           {[g EXCEPT !.path = IF g.path = "relative" THEN @
                               ELSE IF "secondary" \in slots THEN "absolute" ELSE "parked"] :
              g \in @}]
    /\ lib' # lib
    /\ UNCHANGED <<slots, signedIn>>

\* A newer launcher changes the schema.
Migrate ==
    /\ Changes
    /\ lib.version = LibrarySchemaVersion
    /\ lib' = [lib EXCEPT !.version = LibrarySchemaVersion + 1]
    /\ UNCHANGED <<slots, signedIn>>

Site ==
    /\ \E r \in Roms : LearnRom(r) \/ Expire(r)
    /\ UNCHANGED <<world, call, requests, run>>

RunInit ==
    /\ Init
    /\ lib \in Libraries
    /\ slots = {"primary", "secondary"}
    /\ trackless \in SUBSET Sheets
    /\ signedIn = NoAccount
    /\ changes = 0
    /\ call = NoCall
    /\ requests = 0
    /\ list = <<>>
    /\ taken = 0
    /\ account = user

RunNext ==
    \/ Control
    \/ TakeNext \/ PrepareGame \/ EndRun \/ RunRaises \/ ServiceDies
    \/ \E u \in Accounts : SignIn(u)
    \/ SwapCard \/ Rescan \/ Migrate \/ Site

RunSpec == RunInit /\ [][RunNext]_runVars

-----------------------------------------------------------------------------
(* Properties.                                                             *)

\* Every game of a run is prepared for the account that started it, though
\* another may have signed in meanwhile: no row is asked for under a token of
\* one account and stored for another.
ForWhoStartedIt == at # "idle" => user = account

\* "An interrupted run has done the most useful work" (recents_and_favourites):
\* whenever a run over the recents may stop, each game it has not reached was
\* opened no later than those it has, and each was a listed game the user has
\* opened or starred, once.  An app with a game's id brings no game in.
Plays(l, g) == {e.opened : e \in {e \in l.recents : e.kind = "game" /\ e.target = g.id}}
Starred(l, g) == \E e \in l.favourites : e.kind = "game" /\ e.target = g.id
MostUsefulFirst ==
    call.step \in {"start", "count"} /\ call.request.scope = "recents" =>
        \A i \in DOMAIN call.got :
            /\ call.got[i].path # "parked"
            /\ Plays(lib, call.got[i]) # {} \/ Starred(lib, call.got[i])
            /\ \A j \in 1..(i - 1) :
                 /\ call.got[j].id # call.got[i].id
                 /\ \A t \in Plays(lib, call.got[i]) : \E s \in Plays(lib, call.got[j]) : s >= t

\* The picker says "truncated" exactly when the launcher lists games that match
\* and the page leaves out; without it the page is all there is.
PageIsHonest ==
    LET r == call.request
        matching == {g \in call.seen : /\ g.path # "parked"
                                       /\ r.console \in {"", g.system.console}
                                       /\ r.search = NoSearch \/ g.name \in r.search}
    IN call.step = "count" /\ r.scope = "all" =>
           /\ ToSet(call.got) \subseteq matching
           /\ call.truncated <=> ToSet(call.got) # matching

\* A game is reported missing only if its card was out when it was taken in
\* hand or listed, or one of its tracks is gone: a game on the launcher's own
\* card, whose path is relative, never is.
MissingIsAbsent ==
    [][Running /\ Running' /\ outcome' = "missing" /\ outcome # "missing" =>
          \/ list[taken].path = "parked"
          \/ list[taken].path = "absolute" /\ "secondary" \notin slots
          \/ rom \in trackless]_runVars

-----------------------------------------------------------------------------
(* The inductive invariant.                                                *)

\* A request past Receive is for one of the two routes that read the library;
\* the picker's is counted, the other one looks its games up by their ids.
RouteIsKnown ==
    /\ call.step # "free" => call.request.route \in {"games", "start"}
    /\ call.step = "count" => call.request.route = "games"
    /\ call.step = "byId" => call.request.scope = "games"

RunIInv ==
    /\ IInv
    /\ RunTypeOK
    /\ RouteIsKnown
    /\ ForWhoStartedIt
    /\ MostUsefulFirst
    /\ PageIsHonest
=============================================================================
