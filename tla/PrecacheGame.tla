---------------------------- MODULE PrecacheGame ----------------------------
(***************************************************************************)
(* Preparing one ROM for offline play: the cache rows the job stores, one  *)
(* request after another, and how a later run tells what is already there. *)
(*                                                                         *)
(* The rows are durable and are the only resume state; the service may die *)
(* between any two of them.  The site answers, does not know the ROM,      *)
(* refuses the token, or does not answer at all, and may learn about the   *)
(* ROM later; a portal or a proxy on the way may answer in its place.      *)
(* Rows are an account's, but for the gameid row and the mark of an        *)
(* unknown ROM, which belong to the hash.  cache_achievementsets,          *)
(* cache_unlocks, cache_session and refresh_game_patch belong to the       *)
(* upstream program: each stores its row when it succeeds, and the job     *)
(* looks at the results of the first and the last only.                    *)
(***************************************************************************)
EXTENDS Naturals

CONSTANTS Accounts,     \* RetroAchievements accounts
          Roms,         \* ROMs that can be hashed
          PatchClients, \* those of PATCH_CLIENT_SYSTEMS (Dreamcast)
          MaxVisits     \* bound: times the job takes a ROM in hand

ASSUME InhabitedAssumption == Accounts # {} /\ Roms # {}
ASSUME PatchClientsAssumption == PatchClients \subseteq Roms
ASSUME VisitsAssumption == MaxVisits \in Nat

VARIABLES
    known,    \* known[r]: the site has a game for r's hash
    \* durable
    sets,     \* sets[u][r]: the achievementsets row: none, GameId zero, or a game's
    rows,     \* rows[u][r]: the account's other rows
    gameid,   \* ROMs with a gameid row
    unknown,  \* unknown[r]: the unknown-rom mark: none, fresh, or past its TTL
    \* the job
    at,       \* where the job is
    user,     \* the account it prepares for
    rom,      \* the ROM in hand, or the last one
    outcome,  \* what the visit to it has reported
    visits,
    \* history
    refused,  \* ROMs the site has said it lacks
    misled    \* ROMs for which the 404 of something else has passed for the site's

site == <<known, refused, misled>>
cache == <<sets, rows, gameid, unknown>>
inHand == <<user, rom, visits>>
gameVars == <<known, sets, rows, gameid, unknown, at, user, rom, outcome, visits, refused,
              misled>>
vars == gameVars

Rows == {"patch", "unlocks", "session"}
Reports == {"none", "cached", "skipped", "missing", "unsupported", "failed", "auth"}
Steps == {"idle", "hash", "look", "sets", "classify", "zero", "game", "patch",
          "unlocks", "session", "mark"}

\* What an offline launch of r asks the cache for.
Needed(r) == IF r \in PatchClients THEN Rows ELSE Rows \ {"patch"}
Prepared(u, r) == sets[u][r] = "game" /\ r \in gameid /\ Needed(r) \subseteq rows[u][r]

TypeOK ==
    /\ known \in [Roms -> BOOLEAN]
    /\ sets \in [Accounts -> [Roms -> {"none", "zero", "game"}]]
    /\ rows \in [Accounts -> [Roms -> SUBSET Rows]]
    /\ gameid \subseteq Roms
    /\ unknown \in [Roms -> {"none", "fresh", "expired"}]
    /\ at \in Steps
    /\ user \in Accounts
    /\ rom \in Roms
    /\ outcome \in Reports
    /\ visits \in 0..MaxVisits
    /\ refused \subseteq Roms
    /\ misled \subseteq Roms
    \* The rows behind the definitions are fetched for a stored game only.
    /\ at \in {"game", "patch", "unlocks", "session"} => sets[user][rom] = "game"

-----------------------------------------------------------------------------
(* _prepare_one.                                                           *)

Report(o) ==
    /\ outcome' = o
    /\ at' = "idle"
Store(row) == rows' = [rows EXCEPT ![user][rom] = @ \cup {row}]
StoreSets(answer) == sets' = [sets EXCEPT ![user][rom] = answer]

\* A game with ROM r comes up in a run for account u.
Begin(r, u) ==
    /\ at = "idle"
    /\ visits < MaxVisits
    /\ visits' = visits + 1
    /\ rom' = r
    /\ user' = u
    /\ outcome' = "none"
    /\ at' = "hash"
    /\ UNCHANGED <<site, cache>>

\* No rc_hash, the file or a track of it absent, no such console, no hash.
CannotHash ==
    /\ at = "hash"
    /\ \E o \in {"failed", "missing", "unsupported"} : Report(o)
    /\ UNCHANGED <<site, cache, inHand>>

Hash ==
    /\ at = "hash"
    /\ at' = "look"
    /\ UNCHANGED <<site, cache, inHand, outcome>>

\* Mutant of AlreadyCached: the definitions are anybody's.
AnyAccountsRows(r) ==
    /\ \E u \in Accounts : sets[u][r] = "game"
    /\ r \in PatchClients => r \in gameid /\ "patch" \in rows[user][r]
\* Mutant of AlreadyCached: a patch client needs no patch row.
SetsAreEnough(r) == sets[user][r] = "game"

\* _already_cached: a game's achievementsets row, and for a patch client the
\* patch row reached through the gameid row.
AlreadyCached(r) ==
    /\ sets[user][r] = "game"
    /\ r \in PatchClients => r \in gameid /\ "patch" \in rows[user][r]

Skip ==
    /\ at = "look"
    /\ AlreadyCached(rom)
    /\ Report("skipped")
    /\ UNCHANGED <<site, cache, inHand>>

\* _known_unknown: the mark is there and its TTL has not run out.
KnownUnknown(r) == unknown[r] = "fresh"

SkipUnknown ==
    /\ at = "look"
    /\ ~AlreadyCached(rom)
    /\ KnownUnknown(rom)
    /\ Report("unsupported")
    /\ UNCHANGED <<site, cache, inHand>>

Ask ==
    /\ at = "look"
    /\ ~AlreadyCached(rom)
    /\ ~KnownUnknown(rom)
    /\ at' = "sets"
    /\ UNCHANGED <<site, cache, inHand, outcome>>

\* The site answers with a game, or with GameId 0; either answer is stored.
SetsAnswered ==
    /\ at = "sets"
    /\ \/ /\ known[rom]
          /\ StoreSets("game")
          /\ at' = "game"
          /\ refused' = refused
       \/ /\ ~known[rom]
          /\ StoreSets("zero")
          /\ at' = "zero"
          /\ refused' = refused \cup {rom}
    /\ UNCHANGED <<known, misled, rows, gameid, unknown, inHand, outcome>>

\* An answer that is no JSON, or an error of the site's: the row it may leave
\* behind names no game.
SetsRejected ==
    /\ at = "sets"
    /\ sets' = sets \/ StoreSets("zero")
    /\ \E o \in {"failed", "auth"} : Report(o)
    /\ UNCHANGED <<site, rows, gameid, unknown, inHand>>

SetsFailed ==
    /\ at = "sets"
    /\ at' = "classify"
    /\ UNCHANGED <<site, cache, inHand, outcome>>

\* What the second request meets: whose answer it is, and which of the phrases
\* looked for its exception's text has in it ("401" stands for the four of a bad
\* token).  The site says not found only of a ROM it lacks; a 404 may be anybody's.
Failures == [from : {"site", "elsewhere"}, text : {"unknown game", "404", "401", "other"}]
SaysNotFound(f) == f.text \in {"unknown game", "404"}
MayMeet(f) ==
    /\ f.text = "unknown game" => f.from = "site"
    /\ f.from = "site" /\ SaysNotFound(f) => ~known[rom]

\* Who has spoken, if that passes for an answer.
Heard(f) ==
    /\ refused' = refused \cup {r \in {rom} : SaysNotFound(f) /\ f.from = "site"}
    /\ misled' = misled \cup {r \in {rom} : SaysNotFound(f) /\ f.from = "elsewhere"}

\* Mutant of NotFound: every failure reads as an unknown ROM.
AnyFailure(text) == TRUE

\* "unknown game" or "404" in the text.
NotFound(text) == text \in {"unknown game", "404"}

\* _classify_failure asks once more: not found, the token is refused, any other
\* failure, or an answer after all.
Classify ==
    /\ at = "classify"
    /\ \/ \E f \in Failures :
              /\ MayMeet(f)
              /\ Heard(f)
              /\ IF NotFound(f.text) THEN at' = "mark" /\ outcome' = outcome
                 ELSE Report(IF f.text = "401" THEN "auth" ELSE "failed")
       \/ Report("failed") /\ UNCHANGED <<refused, misled>>
    /\ UNCHANGED <<known, cache, inHand>>

\* A stored GameId of 0 is marked like a not-found answer.
ZeroGame ==
    /\ at = "zero"
    /\ at' = "mark"
    /\ UNCHANGED <<site, cache, inHand, outcome>>

MarkUnknown ==
    /\ at = "mark"
    /\ unknown' = [unknown EXCEPT ![rom] = "fresh"]
    /\ Report("unsupported")
    /\ UNCHANGED <<site, sets, rows, gameid, inHand>>

StoreGameId ==
    /\ at = "game"
    /\ gameid' = gameid \cup {rom}
    /\ at' = IF rom \in PatchClients THEN "patch" ELSE "unlocks"
    /\ UNCHANGED <<site, sets, rows, unknown, inHand, outcome>>

FetchPatch ==
    /\ at = "patch"
    /\ \/ Store("patch") /\ at' = "unlocks" /\ outcome' = outcome
       \/ rows' = rows /\ \E o \in {"failed", "auth"} : Report(o)
    /\ UNCHANGED <<site, sets, gameid, unknown, inHand>>

\* What cache_unlocks and cache_session return is not looked at.
CacheUnlocks ==
    /\ at = "unlocks"
    /\ Store("unlocks") \/ rows' = rows
    /\ at' = "session"
    /\ UNCHANGED <<site, sets, gameid, unknown, inHand, outcome>>

CacheSession ==
    /\ at = "session"
    /\ Store("session") \/ rows' = rows
    /\ Report("cached")
    /\ UNCHANGED <<site, sets, gameid, unknown, inHand>>

PrepareOne ==
    \/ CannotHash \/ Hash \/ Skip \/ SkipUnknown \/ Ask
    \/ SetsAnswered \/ SetsRejected \/ SetsFailed \/ Classify \/ ZeroGame \/ MarkUnknown
    \/ StoreGameId \/ FetchPatch \/ CacheUnlocks \/ CacheSession

-----------------------------------------------------------------------------
(* The environment.                                                        *)

\* The service stops or the battery dies in the middle of a game.
Crash ==
    /\ at # "idle"
    /\ at' = "idle"
    /\ UNCHANGED <<site, cache, inHand, outcome>>

\* RetroAchievements gains a game.
LearnRom(r) ==
    /\ ~known[r]
    /\ known' = [known EXCEPT ![r] = TRUE]
    /\ UNCHANGED <<cache, at, inHand, outcome, refused, misled>>

\* Thirty days pass.
Expire(r) ==
    /\ unknown[r] = "fresh"
    /\ unknown' = [unknown EXCEPT ![r] = "expired"]
    /\ UNCHANGED <<site, sets, rows, gameid, at, inHand, outcome>>

Init ==
    /\ known \in [Roms -> BOOLEAN]
    /\ sets = [u \in Accounts |-> [r \in Roms |-> "none"]]
    /\ rows = [u \in Accounts |-> [r \in Roms |-> {}]]
    /\ gameid = {}
    /\ unknown = [r \in Roms |-> "none"]
    /\ at = "idle"
    /\ user = CHOOSE u \in Accounts : TRUE
    /\ rom = CHOOSE r \in Roms : TRUE
    /\ outcome = "none"
    /\ visits = 0
    /\ refused = {}
    /\ misled = {}

Next ==
    \/ \E r \in Roms, u \in Accounts : Begin(r, u)
    \/ \E r \in Roms : LearnRom(r) \/ Expire(r)
    \/ PrepareOne
    \/ Crash

Spec == Init /\ [][Next]_vars

-----------------------------------------------------------------------------
(* Properties.                                                             *)

\* A ROM reported as prepared or as already cached is one the site has a game
\* for, with its row under the account the run is for: neither a stored "no such
\* game" answer, left by a run that died before it could mark the ROM, nor
\* another account's row passes for preparation.
PreparedIsKnown ==
    outcome \in {"cached", "skipped"} => known[rom] /\ sets[user][rom] = "game"

\* A Dreamcast game that reads as prepared has the patch row its emulator asks
\* for, under the same account, although it may have been prepared in two
\* interrupted visits and for two accounts.
PatchClientsHavePatch ==
    outcome \in {"cached", "skipped"} /\ rom \in PatchClients =>
        rom \in gameid /\ "patch" \in rows[user][rom]

\* A ROM is marked unknown only once somebody has said "not found" of that ROM:
\* no dead network, bad token, other ROM's answer or crash between two rows makes
\* one uncacheable.  Exempted by name is the 404 of a portal or a proxy, which
\* _classify_failure cannot tell from the site's.
MarkedWasAnswered == \A r \in Roms : unknown[r] # "none" => r \in refused \cup misled

\* "A run that is interrupted [...] leaves every completed game cached.
\* Re-running skips them by checking for the cache keys" (leaf_precache): a
\* game that is skipped as already cached has every row a launch asks for.
SkippedIsPrepared == outcome = "skipped" => Prepared(user, rom)

-----------------------------------------------------------------------------
(* The inductive invariant.                                                *)

\* The site does not forget a game it knew.
StoredIsKnown == \A u \in Accounts, r \in Roms : sets[u][r] = "game" => known[r]

\* A visit under way has reported nothing: what it stores changes no report.
NothingReportedYet == at # "idle" => outcome = "none"

\* On the way to the end of a patch client's visit its two rows are stored.
PatchComesFirst ==
    /\ at = "patch" => rom \in gameid
    /\ at \in {"unlocks", "session"} /\ rom \in PatchClients =>
         rom \in gameid /\ "patch" \in rows[user][rom]

\* What leads to a mark is an answer about the ROM in hand.
MarkIsAnAnswer == at \in {"zero", "mark"} => rom \in refused \cup misled

IInv ==
    /\ TypeOK
    /\ StoredIsKnown
    /\ NothingReportedYet
    /\ PatchComesFirst
    /\ MarkIsAnAnswer
    /\ PreparedIsKnown
    /\ PatchClientsHavePatch
    /\ MarkedWasAnswered
=============================================================================
