------------------------ MODULE StorageStartupProofs ------------------------
(***************************************************************************)
(* Proofs about the database across starts, for any awards and any number  *)
(* of starts and power losses.                                             *)
(*                                                                         *)
(* AckedOnCard rests on the durability contract: were a weak connection    *)
(* ever to get past the read-back, a crash could take back a row the       *)
(* client was told of.  ContractHolds says it never does, and so there is  *)
(* never a row to lose.                                                    *)
(***************************************************************************)
EXTENDS StorageStartup, TLAPS

\* An absent database, and nothing promised.
LEMMA InitIInv == Init => IInv
<1> SUFFICES ASSUME Init PROVE IInv
    OBVIOUS
<1>1. TypeOK
  <2>1. starts \in 0..MaxStarts /\ damages \in 0..MaxDamage
    BY StartsAssumption, DamageAssumption DEF Init
  <2>2. QED
    BY <2>1, Zenon DEF Init, TypeOK, Stages
<1>2. /\ ContractHolds /\ SchemaOnSound /\ AckedOnCard /\ ServesSoundSchema
      /\ RecordsAMove /\ IncidentTellsTheShelf
    BY DEF Init, ContractHolds, SchemaOnSound, AckedOnCard, ServesSoundSchema, RecordsAMove,
       IncidentTellsTheShelf
<1>3. QED
    BY <1>1, <1>2 DEF IInv

\* A step of a start: the image and the contract are what it must get right.
LEMMA StartIInv == IInv /\ Start => IInv'
<1> SUFFICES ASSUME IInv, Start PROVE IInv'
    OBVIOUS
<1> USE DEF IInv, onCard, connection, history
<1>1. CASE Connect
  <2> USE <1>1 DEF Connect
  <2>1. TypeOK'
    BY StartsAssumption DEF TypeOK, Stages
  <2>2. (/\ ContractHolds /\ SchemaOnSound /\ AckedOnCard /\ ServesSoundSchema
         /\ RecordsAMove /\ IncidentTellsTheShelf)'
    BY DEF ContractHolds, SchemaOnSound, AckedOnCard, ServesSoundSchema, RecordsAMove,
       IncidentTellsTheShelf
  <2>3. QED
    BY <2>1, <2>2
<1>2. CASE SetModes
  BY <1>2 DEF SetModes, TypeOK, Stages, ContractHolds, SchemaOnSound, AckedOnCard,
     ServesSoundSchema, RecordsAMove, IncidentTellsTheShelf
<1>3. CASE DatabaseError
  BY <1>3 DEF DatabaseError, TypeOK, Stages, ContractHolds, SchemaOnSound, AckedOnCard,
     ServesSoundSchema, RecordsAMove, IncidentTellsTheShelf
<1>4. CASE ReadBack
  BY <1>4 DEF ReadBack, TypeOK, Stages, ContractHolds, SchemaOnSound, AckedOnCard,
     ServesSoundSchema, RecordsAMove, IncidentTellsTheShelf
<1>5. CASE IntegrityCheck
  BY <1>5 DEF IntegrityCheck, TypeOK, Stages, ContractHolds, SchemaOnSound, AckedOnCard,
     ServesSoundSchema, RecordsAMove, IncidentTellsTheShelf
<1>6. CASE MoveAside
  BY <1>6 DEF MoveAside, TypeOK, Stages, ContractHolds, SchemaOnSound, AckedOnCard,
     ServesSoundSchema, RecordsAMove, IncidentTellsTheShelf
<1>7. CASE RecordIncident
  BY <1>7 DEF RecordIncident, TypeOK, Stages, ContractHolds, SchemaOnSound, AckedOnCard,
     ServesSoundSchema, RecordsAMove, IncidentTellsTheShelf
<1>8. CASE RecordFails
  BY <1>8 DEF RecordFails, TypeOK, Stages, ContractHolds, SchemaOnSound, AckedOnCard,
     ServesSoundSchema, RecordsAMove, IncidentTellsTheShelf
<1>9. CASE RenameFails
  BY <1>9 DEF RenameFails, TypeOK, Stages, ContractHolds, SchemaOnSound, AckedOnCard,
     ServesSoundSchema, RecordsAMove, IncidentTellsTheShelf
<1>10. CASE CreateTable
  BY <1>10 DEF CreateTable, TypeOK, Stages, Tables, ContractHolds, SchemaOnSound,
     AckedOnCard, ServesSoundSchema, RecordsAMove, IncidentTellsTheShelf
<1>11. CASE Serve
  BY <1>11 DEF Serve, TypeOK, Stages, ContractHolds, SchemaOnSound, AckedOnCard,
     ServesSoundSchema, RecordsAMove, IncidentTellsTheShelf
<1>12. QED
  BY <1>1, <1>2, <1>3, <1>4, <1>5, <1>6, <1>7, <1>8, <1>9, <1>10, <1>11 DEF Start

\* A row that is committed while serving is safe at once, and leaves only by
\* being replayed.
LEMMA ServingIInv ==
    ASSUME IInv, NEW a \in Awards, Queue(a) \/ Flush(a)
    PROVE  IInv'
<1> USE DEF IInv
<1>1. CASE Queue(a)
  <2>1. ~weak
    BY <1>1 DEF Queue, ContractHolds
  <2>2. image # "absent"
    BY <1>1 DEF Queue, ServesSoundSchema
  <2>3. QED
    BY <1>1, <2>1, <2>2 DEF Queue, TypeOK, ContractHolds, SchemaOnSound, AckedOnCard,
       ServesSoundSchema, RecordsAMove, IncidentTellsTheShelf
<1>2. CASE Flush(a)
  BY <1>2 DEF Flush, TypeOK, ContractHolds, SchemaOnSound, AckedOnCard, ServesSoundSchema,
     RecordsAMove, IncidentTellsTheShelf
<1>3. QED
  BY <1>1, <1>2

\* A crash or a power loss: with nothing unsynced the rows stay.
LEMMA EnvironmentIInv == IInv /\ (Crash \/ PowerLoss) => IInv'
<1> SUFFICES ASSUME IInv, Crash \/ PowerLoss PROVE IInv'
    OBVIOUS
<1> USE DEF IInv
<1>1. queued' = queued
    BY DEF Crash, PowerLoss, ContractHolds
<1>2. CASE Crash
  BY <1>1, <1>2 DEF Crash, TypeOK, Stages, ContractHolds, SchemaOnSound, AckedOnCard,
     ServesSoundSchema, RecordsAMove, IncidentTellsTheShelf
<1>3. CASE PowerLoss
  <2> USE <1>1, <1>3 DEF PowerLoss
  <2>1. damages' \in 0..MaxDamage
    BY DamageAssumption DEF TypeOK
  <2>2. TypeOK'
    BY <2>1 DEF TypeOK, Stages
  <2>3. (/\ ContractHolds /\ SchemaOnSound /\ AckedOnCard /\ ServesSoundSchema
         /\ RecordsAMove /\ IncidentTellsTheShelf)'
    BY DEF ContractHolds, SchemaOnSound, AckedOnCard, ServesSoundSchema, RecordsAMove,
       IncidentTellsTheShelf
  <2>4. QED
    BY <2>2, <2>3
<1>4. QED
  BY <1>2, <1>3

\* The invariant holds in every state of every run of the service.
LEMMA Invariance == Spec => []IInv
<1>1. IInv /\ UNCHANGED vars => IInv'
    BY DEF IInv, TypeOK, ContractHolds, SchemaOnSound, AckedOnCard, ServesSoundSchema,
       RecordsAMove, IncidentTellsTheShelf, vars
<1>2. IInv /\ [Next]_vars => IInv'
    BY <1>1, StartIInv, ServingIInv, EnvironmentIInv DEF Next
<1>3. QED
    BY InitIInv, <1>2, PTL DEF Spec

\* Type correctness (the variables of sqlite_storage.py's start and its image).
THEOREM TypeCorrect == Spec => []TypeOK
<1>1. IInv => TypeOK
    BY DEF IInv
<1>2. QED
    BY <1>1, Invariance, PTL

\* An award the client was told is queued is replayed, in the database, or in
\* an image moved aside, whatever crashes, power losses and refused starts
\* follow (_enforce_durability_contract, _quarantine_and_refuse).
THEOREM AcknowledgedStaysOnCard == Spec => []AckedOnCard
<1>1. IInv => AckedOnCard
    BY DEF IInv
<1>2. QED
    BY <1>1, Invariance, PTL

\* A corrupt image never serves, and a serving database has its whole schema,
\* although a start may die half way through creating it (_initialize).
THEOREM OnlySoundServes == Spec => []ServesSoundSchema
<1>1. IInv => ServesSoundSchema
    BY DEF IInv
<1>2. QED
    BY <1>1, Invariance, PTL

\* An image moved aside by an earlier start is on record unless that start
\* ended between the rename and the record, and no incident is recorded for an
\* image that could not be renamed (_quarantine_corrupt_sqlite).
THEOREM RecordMatchesShelf == Spec => []IncidentTellsTheShelf
<1>1. IInv => IncidentTellsTheShelf
    BY DEF IInv
<1>2. QED
    BY <1>1, Invariance, PTL
=============================================================================
