------------------------------- MODULE RomHash -------------------------------
(***************************************************************************)
(* Hashing a ROM for the pre-cache: which bytes of which file reach        *)
(* rc_hash.  A disc image is read through the CHD reader (ChdReader), an   *)
(* arcade set goes by its archive's name, any other archive is unpacked,   *)
(* into memory or into a spill file, and all else is hashed in place.      *)
(*                                                                         *)
(* rc_hash is external: it reads what it likes and hashes what it is       *)
(* handed, or gives up.  A hunk that cannot be read comes back to it as    *)
(* the short count that the end of a track does, so it may go on behind    *)
(* it and return a hash all the same.                                      *)
(***************************************************************************)
EXTENDS ChdReader, FiniteSets

CONSTANTS Files,     \* files a library row may name
          MaxBuffer, \* MAX_BUFFER_BYTES
          MaxHashes  \* bound: calls of hash_rom

\* console is "arcade" (ARCADE and NEOGEO), "other", or "none" for a system
\* that is not in SYSTEM_CONSOLE_IDS.
IsFile(f) ==
    /\ f.suffix \in {"zip", "chd", "bin"}
    /\ f.console \in {"arcade", "other", "none"}
    /\ {f.there, f.damaged} \subseteq BOOLEAN
    /\ IsFiniteSet(f.members)
    /\ \A m \in f.members : m.size \in Nat /\ m.kind \in {"file", "directory", "__MACOSX"}

ASSUME FilesAssumption == \A f \in Files : IsFile(f)
ASSUME BufferAssumption == MaxBuffer \in Nat
ASSUME HashesAssumption == MaxHashes \in Nat

VARIABLES
    loaded,  \* libraproxy_rchash has been loaded
    stage,   \* where hash_rom is
    file,    \* the file it is called for
    feed,    \* what rc_hash is handed: the file, its name, a member, a disc
    result,  \* the bytes the hash is of, NoHash, or Raised
    spills,  \* spill files on the card, by the call that made them
    hashes,
    \* history
    orphans, \* spill files of calls the service died in
    lost,    \* a hunk read has failed in this call
    tainted  \* rc_hash has been handed other bytes than the sectors' user data, or fewer

hashVars == <<loaded, stage, file, feed, result, spills, hashes, orphans>>
romVars == <<vars, hashVars, lost, tainted>>

NoHash == "none"
Raised == "raised"
TheFile == "the file"
ItsName == "its name"
TheDisc == "the disc"

HashTypeOK ==
    /\ TypeOK
    /\ loaded \in BOOLEAN
    /\ stage \in {"idle", "extract", "spill", "buffer", "hash", "disc", "unlink"}
    /\ hashes \in 0..MaxHashes
    /\ hashes > 0 => file \in Files
    /\ spills \subseteq 1..hashes
    /\ orphans \subseteq spills
    /\ {lost, tainted} \subseteq BOOLEAN
    /\ IsOpen => stage = "disc"

-----------------------------------------------------------------------------
(* hash_rom.                                                               *)

Return(r) ==
    /\ stage' = "idle"
    /\ result' = r

onlyStage == <<vars, loaded, file, spills, hashes, orphans, lost, tainted>>

\* Mutant of Extracts: an arcade set is unpacked like any archive.
ExtractsArcade(f) == f.suffix = "zip"

\* An arcade hash is of the archive's name.
Extracts(f) == f.suffix = "zip" /\ f.console # "arcade"

\* No rc_hash, no console id and no file are answered at once.
HashRom(f) ==
    /\ stage = "idle"
    /\ hashes < MaxHashes
    /\ hashes' = hashes + 1
    /\ file' = f
    /\ IF ~loaded \/ f.console = "none" \/ ~f.there
       THEN Return(NoHash) /\ feed' = feed
       ELSE /\ stage' = CASE Extracts(f)                          -> "extract"
                          [] ~Extracts(f) /\ f.suffix = "chd"     -> "disc"
                          [] ~Extracts(f) /\ f.suffix # "chd"     -> "hash"
            /\ feed' = IF f.suffix = "zip" THEN ItsName
                       ELSE IF f.suffix = "chd" THEN TheDisc ELSE TheFile
            /\ result' = NoHash
    /\ lost' = FALSE
    /\ tainted' = FALSE
    /\ UNCHANGED <<vars, loaded, spills, orphans>>

\* Neither directories nor empty or Finder's files.
RomMembers == {m \in file.members : m.kind = "file" /\ m.size > 0}
LargestMember == CHOOSE m \in RomMembers : \A n \in RomMembers : n.size <= m.size

Spills == LargestMember.size > MaxBuffer

\* A small member is read into a buffer.
ExtractToBuffer ==
    /\ stage = "extract"
    /\ RomMembers # {}
    /\ ~Spills
    /\ ~file.damaged
    /\ feed' = LargestMember.name
    /\ stage' = "buffer"
    /\ UNCHANGED <<onlyStage, result>>

\* A large one is copied to a new spill file.
ExtractToSpill ==
    /\ stage = "extract"
    /\ RomMembers # {}
    /\ Spills
    /\ feed' = LargestMember.name
    /\ stage' = "spill"
    /\ spills' = spills \cup {hashes}
    /\ UNCHANGED <<vars, loaded, file, result, hashes, orphans, lost, tainted>>

\* A bad archive, one without a ROM, a card that cannot take the spill file.
ExtractFails ==
    /\ stage = "extract"
    /\ Return(NoHash)
    /\ UNCHANGED <<onlyStage, feed>>

\* The member cannot be decoded: the exception is none that hash_rom expects.
ExtractRaises ==
    /\ stage = "extract"
    /\ RomMembers # {}
    /\ ~Spills
    /\ file.damaged
    /\ Return(Raised)
    /\ UNCHANGED <<onlyStage, feed>>

SpillCopied ==
    /\ stage = "spill"
    /\ ~file.damaged
    /\ stage' = "hash"
    /\ UNCHANGED <<onlyStage, feed, result>>

\* The card fails, or the member cannot be decoded.
CopyError == {NoHash} \cup (IF file.damaged THEN {Raised} ELSE {})

\* Mutant of SpillFails: the spill file stays.
SpillFailsKeeping ==
    /\ stage = "spill"
    /\ \E r \in CopyError : Return(r)
    /\ UNCHANGED <<onlyStage, feed>>

\* The copy ends in an exception: the spill file is unlinked first.
SpillFails ==
    /\ stage = "spill"
    /\ spills' = spills \ {hashes}
    /\ \E r \in CopyError : Return(r)
    /\ UNCHANGED <<vars, loaded, file, feed, hashes, orphans, lost, tainted>>

\* raproxy_hash_buffer, or raproxy_hash_file on anything but a CHD.
Hashed ==
    /\ stage \in {"buffer", "hash"}
    /\ result' \in {feed, NoHash}
    /\ stage' = IF hashes \in spills THEN "unlink" ELSE "idle"
    /\ UNCHANGED <<onlyStage, feed>>

Unlink ==
    /\ stage = "unlink"
    /\ spills' = spills \ {hashes}
    /\ stage' = "idle"
    /\ UNCHANGED <<vars, loaded, file, feed, result, hashes, orphans, lost, tainted>>

\* The read under way has copied user data of the sectors asked for, and has not
\* stopped short of the track's end.
Sound ==
    /\ \A k \in DOMAIN call.reply : IsUserData(call.reply[k])
    /\ ReadsSpanTheTrack

\* rc_hash opens tracks of the disc, reads sectors and closes them, behind a
\* failed read as behind any other.
ReadDisc ==
    /\ stage = "disc"
    /\ Next
    /\ lost' = (lost \/ failed')
    /\ tainted' = (tainted \/ ~Sound')
    /\ UNCHANGED hashVars

\* rc_hash finds no such track, or less than it needs, and closes what it has open.
DiscFails ==
    /\ stage = "disc"
    /\ call.step # "read"
    /\ Return(NoHash)
    /\ track' = NoTrack /\ cached' = Unread /\ buffer' = Unread
    /\ call' = NoCall /\ failed' = FALSE
    /\ UNCHANGED <<disc, loaded, file, feed, spills, hashes, orphans, lost, tainted>>

DiscHashed ==
    /\ stage = "disc"
    /\ ~IsOpen
    /\ Return(feed)
    /\ UNCHANGED <<onlyStage, feed>>

-----------------------------------------------------------------------------

\* The process stops while its thread hashes: the thread is a daemon.
Dies ==
    /\ stage # "idle"
    /\ Return(NoHash)
    /\ orphans' = spills
    /\ track' = NoTrack /\ cached' = Unread /\ buffer' = Unread
    /\ call' = NoCall /\ failed' = FALSE
    /\ UNCHANGED <<disc, loaded, file, feed, spills, hashes, lost, tainted>>

HashInit ==
    /\ Init
    /\ loaded \in BOOLEAN
    /\ stage = "idle"
    /\ file = CHOOSE f \in Files : TRUE
    /\ feed = TheFile
    /\ result = NoHash
    /\ spills = {}
    /\ hashes = 0
    /\ orphans = {}
    /\ lost = FALSE
    /\ tainted = FALSE

HashNext ==
    \/ \E f \in Files : HashRom(f)
    \/ ExtractToBuffer \/ ExtractToSpill \/ ExtractFails \/ ExtractRaises
    \/ SpillCopied \/ SpillFails
    \/ Hashed \/ Unlink \/ ReadDisc \/ DiscFails \/ DiscHashed \/ Dies

HashSpec == HashInit /\ [][HashNext]_romVars

-----------------------------------------------------------------------------
(* Properties.                                                             *)

\* What RetroArch hashes for the file: the name of an arcade set, the ROM of an
\* archive that holds one, the user data of a disc, else the file.
Archived == {m.name : m \in {m \in file.members : m.kind = "file" /\ m.size > 0}}
Expected ==
    CASE file.suffix = "zip" /\ file.console = "arcade" -> {ItsName}
      [] file.suffix = "zip" /\ file.console # "arcade" -> Archived
      [] file.suffix = "chd"                            -> {TheDisc}
      [] OTHER                                          -> {TheFile}

\* "A wrong hash is worse than no hash" (leaf_precache): a hash that is
\* returned is of the bytes RetroArch would hash, and if of a disc, of sectors
\* read right and whole from the first to the last, over all the tracks the call
\* has opened.  Exempted is the call a hunk read has failed in: nothing tells
\* rc_hash of it, and its hash may be over missing or torn data.
HashIsOfTheRom ==
    stage = "idle" /\ result \notin {NoHash, Raised} =>
        result \in Expected /\ (tainted => lost)

\* A spill file, tens of megabytes, does not outlive its call, however the call
\* ends: at most one is on the card, but for calls the service died in.
NoSpillIsLeft == spills \ orphans \subseteq (IF stage = "idle" THEN {} ELSE {hashes})

-----------------------------------------------------------------------------
(* The inductive invariant.                                                *)

\* rc_hash is handed what RetroArch would hash; a failed read of the handle that
\* is open is one of this call's, and only such a read taints.
FeedIsExpected ==
    /\ stage = "extract" => file.suffix = "zip" /\ file.console # "arcade"
    /\ stage \in {"spill", "buffer", "hash", "disc"} => feed \in Expected
    /\ failed => lost
    /\ tainted => lost

\* A call that is over, or has but to unlink, has its answer.
AnswerIsExpected ==
    stage \in {"unlink", "idle"} /\ result \notin {NoHash, Raised} =>
        result \in Expected

\* Of this call's spill file, and of no other, something is still to be done.
SpillIsOurs ==
    /\ stage # "idle" => hashes > 0 /\ hashes \notin orphans
    /\ spills \ orphans \subseteq
           (IF stage \in {"spill", "hash", "unlink"} THEN {hashes} ELSE {})

HashIInv == HashTypeOK /\ ReaderIInv /\ FeedIsExpected /\ AnswerIsExpected /\ SpillIsOurs
=============================================================================
