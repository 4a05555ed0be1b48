--------------------------- MODULE StorageStartup ---------------------------
(***************************************************************************)
(* The service's database across starts, crashes and corruption.           *)
(*                                                                         *)
(* Every start opens the database, enforces the durability contract as     *)
(* read back (journal_mode DELETE, synchronous FULL), checks integrity,    *)
(* and either creates the schema and serves, or refuses.  A database the   *)
(* start cannot trust is moved aside under a name of its own, then the     *)
(* incident is recorded, and the process exits; a start may also end       *)
(* between the two.  The supervisor, or the user with the UI's Restart,    *)
(* starts the service again.                                               *)
(*                                                                         *)
(* SQLite and the card are external: a read of the image may fail though   *)
(* the image is sound, a commit is durable only under the contract, and a  *)
(* power loss may damage the image.                                        *)
(***************************************************************************)
EXTENDS Naturals, FiniteSets

CONSTANTS Awards,      \* achievement ids
          MaxStarts,   \* bound: starts of the service
          MaxDamage    \* bound: power losses that damage the image

ASSUME StartsAssumption == MaxStarts \in Nat
ASSUME DamageAssumption == MaxDamage \in Nat

VARIABLES
    image,     \* the file at the database path: absent, sound or damaged
    tables,    \* the tables it has
    queued,    \* the awards in its pending_awards
    shelved,   \* the awards in the images moved aside
    aside,     \* an image has been moved aside
    incident,  \* storage_corruption holds an incident
    stage,     \* where the process is
    weak,      \* the connection runs outside the durability contract
    unsynced,  \* committed, but not yet safe from a power loss
    acked,     \* awards the client was told are queued
    settled,   \* awards a flush has replayed
    lapsed,    \* a start ended between moving an image aside and recording it
    starts, damages

onCard == <<image, tables, queued, shelved, aside, incident>>
connection == <<weak, unsynced>>
history == <<acked, settled, lapsed, damages>>
vars == <<image, tables, queued, shelved, aside, incident, stage, weak, unsynced,
          acked, settled, lapsed, starts, damages>>

Tables == {"api_cache", "pending_awards"}
Stages == {"down", "pragmas", "readback", "integrity", "schema", "quarantine", "record",
           "serving"}

TypeOK ==
    /\ image \in {"absent", "sound", "damaged"}
    /\ tables \subseteq Tables
    /\ queued \subseteq Awards
    /\ shelved \subseteq Awards
    /\ aside \in BOOLEAN
    /\ incident \in BOOLEAN
    /\ stage \in Stages
    /\ weak \in BOOLEAN
    /\ unsynced \subseteq queued
    /\ acked \subseteq Awards
    /\ settled \subseteq Awards
    /\ lapsed \in BOOLEAN
    /\ starts \in 0..MaxStarts
    /\ damages \in 0..MaxDamage
    \* An absent file has no tables and no rows.
    /\ image = "absent" => tables = {} /\ queued = {}

-----------------------------------------------------------------------------
(* Starting.                                                               *)

\* sqlite3.connect: an absent file is created empty.
Connect ==
    /\ stage = "down"
    /\ starts < MaxStarts
    /\ starts' = starts + 1
    /\ image' = IF image = "absent" THEN "sound" ELSE image
    /\ stage' = "pragmas"
    /\ UNCHANGED <<tables, queued, shelved, aside, incident, connection, history>>

\* PRAGMA journal_mode=DELETE and PRAGMA synchronous=FULL.  Either may not
\* settle; what holds afterwards is what the read-back shows.
SetModes ==
    /\ stage = "pragmas"
    /\ weak' \in BOOLEAN
    /\ stage' = "readback"
    /\ UNCHANGED <<onCard, unsynced, starts, history>>

\* sqlite3.DatabaseError from a pragma: a malformed image, or any other error
\* of that class (a failed read) over a sound one.
DatabaseError ==
    /\ stage \in {"pragmas", "readback", "integrity"}
    /\ stage' = "quarantine"
    /\ weak' = FALSE
    /\ UNCHANGED <<onCard, unsynced, starts, history>>

\* Mutant of ReadBack: what was asked for is taken as set.
ReadBackTrusts ==
    /\ stage = "readback"
    /\ stage' = "integrity"
    /\ UNCHANGED <<onCard, connection, starts, history>>

\* The read-back refuses a weakened contract; the image stays where it is.
ReadBack ==
    /\ stage = "readback"
    /\ stage' = IF weak THEN "down" ELSE "integrity"
    /\ weak' = FALSE
    /\ UNCHANGED <<onCard, unsynced, starts, history>>

\* Mutant of IntegrityCheck: its verdict is not looked at.
IntegrityUnchecked ==
    /\ stage = "integrity"
    /\ stage' = "schema"
    /\ UNCHANGED <<onCard, connection, starts, history>>

IntegrityCheck ==
    /\ stage = "integrity"
    /\ stage' = IF image = "sound" THEN "schema" ELSE "quarantine"
    /\ UNCHANGED <<onCard, connection, starts, history>>

\* _quarantine_corrupt_sqlite: the image is renamed ...
MoveAside ==
    /\ stage = "quarantine"
    /\ shelved' = shelved \cup queued
    /\ aside' = TRUE
    /\ queued' = {}
    /\ tables' = {}
    /\ image' = "absent"
    /\ stage' = "record"
    /\ UNCHANGED <<incident, connection, starts, history>>

\* ... then record_incident is called, and the start raises.
RecordIncident ==
    /\ stage = "record"
    /\ incident' = TRUE
    /\ stage' = "down"
    /\ UNCHANGED <<image, tables, queued, shelved, aside, connection, starts, history>>

\* record_incident raises: the start ends as it would have, unrecorded.
RecordFails ==
    /\ stage = "record"
    /\ stage' = "down"
    /\ lapsed' = TRUE
    /\ UNCHANGED <<onCard, connection, starts, acked, settled, damages>>

\* Mutant of RenameFails: the failure is logged and the incident recorded.
RenameFailsGoesOn ==
    /\ stage = "quarantine"
    /\ stage' = "record"
    /\ UNCHANGED <<onCard, connection, starts, history>>

\* The stat or the rename fails: the image stays, no incident is recorded, the
\* start raises all the same.
RenameFails ==
    /\ stage = "quarantine"
    /\ stage' = "down"
    /\ UNCHANGED <<onCard, connection, starts, history>>

\* _create_schema: one committed CREATE TABLE IF NOT EXISTS after the other.
CreateTable ==
    /\ stage = "schema"
    /\ tables # Tables
    /\ tables' = IF tables = {} THEN {"api_cache"} ELSE Tables
    /\ UNCHANGED <<image, queued, shelved, aside, incident, stage, connection, starts,
                   history>>

Serve ==
    /\ stage = "schema"
    /\ tables = Tables
    /\ stage' = "serving"
    /\ UNCHANGED <<onCard, connection, starts, history>>

Start ==
    \/ Connect \/ SetModes \/ DatabaseError \/ ReadBack \/ IntegrityCheck
    \/ MoveAside \/ RecordIncident \/ RecordFails \/ RenameFails
    \/ CreateTable \/ Serve

-----------------------------------------------------------------------------
(* Serving.                                                                *)

\* queue_award commits a row; only outside the contract is it not yet safe.
Queue(a) ==
    /\ stage = "serving"
    /\ "pending_awards" \in tables
    /\ a \notin queued
    /\ queued' = queued \cup {a}
    /\ unsynced' = IF weak THEN unsynced \cup {a} ELSE unsynced
    /\ acked' = acked \cup {a}
    /\ UNCHANGED <<image, tables, shelved, aside, incident, stage, weak, settled, lapsed,
                   starts, damages>>

Flush(a) ==
    /\ stage = "serving"
    /\ a \in queued
    /\ queued' = queued \ {a}
    /\ unsynced' = unsynced \ {a}
    /\ settled' = settled \cup {a}
    /\ UNCHANGED <<image, tables, shelved, aside, incident, stage, weak, acked, lapsed,
                   starts, damages>>

-----------------------------------------------------------------------------
(* The environment.                                                        *)

\* The process dies, at any stage; what was not synced may not be there.
Crash ==
    /\ stage # "down"
    /\ stage' = "down"
    /\ queued' \in {queued, queued \ unsynced}
    /\ unsynced' = {}
    /\ weak' = FALSE
    /\ lapsed' = (lapsed \/ stage = "record")
    /\ UNCHANGED <<image, tables, shelved, aside, incident, starts, acked, settled, damages>>

\* A power loss takes the card's image with it.  The rows are still in it.
PowerLoss ==
    /\ stage # "down"
    /\ image = "sound"
    /\ damages < MaxDamage
    /\ damages' = damages + 1
    /\ image' = "damaged"
    /\ stage' = "down"
    /\ queued' \in {queued, queued \ unsynced}
    /\ unsynced' = {}
    /\ weak' = FALSE
    /\ UNCHANGED <<tables, shelved, aside, incident, acked, settled, lapsed, starts>>

Init ==
    /\ image = "absent"
    /\ tables = {}
    /\ queued = {}
    /\ shelved = {}
    /\ aside = FALSE
    /\ incident = FALSE
    /\ stage = "down"
    /\ weak = FALSE
    /\ unsynced = {}
    /\ acked = {}
    /\ settled = {}
    /\ lapsed = FALSE
    /\ starts = 0
    /\ damages = 0

Next ==
    \/ Start
    \/ \E a \in Awards : Queue(a) \/ Flush(a)
    \/ Crash
    \/ PowerLoss

Spec == Init /\ [][Next]_vars

-----------------------------------------------------------------------------
(* Properties.                                                             *)

\* An award the client was told is queued is on the card for good: replayed,
\* in the database, or in an image moved aside, whatever crashes, power
\* losses and refused starts follow (_enforce_durability_contract).
AckedOnCard == acked \subseteq settled \cup queued \cup shelved

\* A corrupt image never serves, and a serving database has its whole schema,
\* although a start may die half way through creating it.
ServesSoundSchema == stage = "serving" => image = "sound" /\ tables = Tables

\* The record tells of a database that is gone, and of nothing else: an image
\* moved aside by an earlier start is on record unless that start ended, killed
\* or by the record's own failure, between the rename and the record; and no
\* incident is recorded for an image that could not be renamed and may be
\* serving again (_quarantine_corrupt_sqlite).
IncidentTellsTheShelf ==
    /\ aside => incident \/ lapsed \/ stage = "record"
    /\ incident => aside

\* "Refusing to start over a fresh database because pending awards are never
\* silently reset" (_quarantine_and_refuse): a service that is serving has
\* every award it acknowledged and did not replay.
NeverReset == stage = "serving" => acked \subseteq settled \cup queued

-----------------------------------------------------------------------------
(* The inductive invariant.                                                *)

\* No row is ever committed outside the contract: a start that reads a weak
\* connection back lets go of it before it creates a table or serves.
ContractHolds == unsynced = {} /\ (weak => stage = "readback")

\* Only an image that passed the integrity check is given a schema.
SchemaOnSound == stage = "schema" => image = "sound"

\* What is about to be recorded has been moved: nothing is left at its path.
RecordsAMove == stage = "record" => aside /\ image = "absent"

IInv ==
    /\ TypeOK
    /\ ContractHolds
    /\ SchemaOnSound
    /\ AckedOnCard
    /\ ServesSoundSchema
    /\ RecordsAMove
    /\ IncidentTellsTheShelf
=============================================================================
