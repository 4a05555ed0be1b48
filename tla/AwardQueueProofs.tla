-------------------------- MODULE AwardQueueProofs --------------------------
(***************************************************************************)
(* Proofs about the award queue, for every value of the constants: any     *)
(* number of accounts, workers and flushers, any requests and sign-ins.    *)
(*                                                                         *)
(* IInv (AwardQueue) is inductive: InitIInv, then one lemma per actor for  *)
(* the steps.  The safety properties follow from it, and with it every     *)
(* step of the queue is a step of the ledger.                              *)
(***************************************************************************)
EXTENDS AwardQueue, FiniteSetTheorems, TLAPS

\* The empty queue of a fresh process.
LEMMA InitIInv == Init => IInv
<1> SUFFICES ASSUME Init PROVE IInv
    OBVIOUS
<1> USE DEF Init
<1>1. TypeOK
    BY MaxRowsAssumption DEF TypeOK, Owners, Steps, FlushSteps, Ids
<1>2. Busy /\ TailIsLast /\ ChainOrdered
    BY DEF Busy, TailIsLast, ChainOrdered
<1>3. EveryRowKept
    BY DEF EveryRowKept
<1>4. FlushIsExclusive /\ FlushIsOneAccounts /\ FlushOwnsItsRows /\ OwnTokenOnly
    BY DEF FlushIsExclusive, FlushIsOneAccounts, FlushOwnsItsRows, OwnTokenOnly
<1>5. QED
    BY <1>1, <1>2, <1>3, <1>4 DEF IInv

\* A request worker: only InsertRow touches the table, and the lock keeps the
\* tail it chains to the newest row.
LEMMA WorkerIInv ==
    ASSUME IInv, NEW w \in Workers, Worker(w)
    PROVE  IInv'
<1> USE DEF IInv
<1>1. CASE Receive(w)
  <2> USE <1>1 DEF Receive, flushVars, history, durable
  <2>1. TypeOK'
    BY RequestsAssumption, NobodyAssumption, MaxRowsAssumption
    DEF TypeOK, Busy, TailIsLast, EveryRowKept, Steps, Row, Request, Ids, Statuses, Genesis
  <2>2. (Busy /\ TailIsLast /\ ChainOrdered)'
    BY NobodyAssumption DEF TypeOK, Busy, TailIsLast, ChainOrdered, Steps, Row, Ids, Genesis
  <2>3. EveryRowKept'
    BY DEF TypeOK, EveryRowKept, Kept, Pending, Steps, Ids
  <2>4. (FlushIsExclusive /\ FlushIsOneAccounts /\ FlushOwnsItsRows /\ OwnTokenOnly)'
    BY DEF TypeOK, FlushIsExclusive, FlushIsOneAccounts, FlushOwnsItsRows, OwnTokenOnly,
           Pending, Ids
  <2>5. QED
    BY <2>1, <2>2, <2>3, <2>4
<1>2. CASE Refuse(w)
  <2> USE <1>2 DEF Refuse, Answer, flushVars, history, durable
  <2>1. TypeOK'
    BY RequestsAssumption, NobodyAssumption, MaxRowsAssumption
    DEF TypeOK, Busy, TailIsLast, EveryRowKept, Steps, Row, Request, Ids, Statuses, Genesis
  <2>2. (Busy /\ TailIsLast /\ ChainOrdered)'
    BY NobodyAssumption DEF TypeOK, Busy, TailIsLast, ChainOrdered, Steps, Row, Ids, Genesis
  <2>3. EveryRowKept'
    BY DEF TypeOK, EveryRowKept, Kept, Pending, Steps, Ids
  <2>4. (FlushIsExclusive /\ FlushIsOneAccounts /\ FlushOwnsItsRows /\ OwnTokenOnly)'
    BY DEF TypeOK, FlushIsExclusive, FlushIsOneAccounts, FlushOwnsItsRows, OwnTokenOnly,
           Pending, Ids
  <2>5. QED
    BY <2>1, <2>2, <2>3, <2>4
<1>3. CASE CheckAccount(w)
  <2> USE <1>3 DEF CheckAccount, Answer, flushVars, history, durable
  <2>1. TypeOK'
    BY RequestsAssumption, NobodyAssumption, MaxRowsAssumption
    DEF TypeOK, Busy, TailIsLast, EveryRowKept, Steps, Row, Request, Ids, Statuses, Genesis
  <2>2. (Busy /\ TailIsLast /\ ChainOrdered)'
    BY NobodyAssumption DEF TypeOK, Busy, TailIsLast, ChainOrdered, Steps, Row, Ids, Genesis
  <2>3. EveryRowKept'
    BY DEF TypeOK, EveryRowKept, Kept, Pending, Steps, Ids
  <2>4. (FlushIsExclusive /\ FlushIsOneAccounts /\ FlushOwnsItsRows /\ OwnTokenOnly)'
    BY DEF TypeOK, FlushIsExclusive, FlushIsOneAccounts, FlushOwnsItsRows, OwnTokenOnly,
           Pending, Ids
  <2>5. QED
    BY <2>1, <2>2, <2>3, <2>4
<1>4. CASE LockQueue(w)
  <2> USE <1>4 DEF LockQueue, IsChainTail, flushVars, history, durable
  <2>1. TypeOK'
    BY RequestsAssumption, NobodyAssumption, MaxRowsAssumption
    DEF TypeOK, Busy, TailIsLast, EveryRowKept, Steps, Row, Request, Ids, Statuses, Genesis
  <2>2. (Busy /\ TailIsLast /\ ChainOrdered)'
    BY NobodyAssumption DEF TypeOK, Busy, TailIsLast, ChainOrdered, Steps, Row, Ids, Genesis
  <2>3. EveryRowKept'
    BY DEF TypeOK, EveryRowKept, Kept, Pending, Steps, Ids
  <2>4. (FlushIsExclusive /\ FlushIsOneAccounts /\ FlushOwnsItsRows /\ OwnTokenOnly)'
    BY DEF TypeOK, FlushIsExclusive, FlushIsOneAccounts, FlushOwnsItsRows, OwnTokenOnly,
           Pending, Ids
  <2>5. QED
    BY <2>1, <2>2, <2>3, <2>4
<1>5. CASE InsertRow(w)
  <2> USE <1>5 DEF InsertRow, flushVars, history
  <2>1. TypeOK'
    BY RequestsAssumption, NobodyAssumption, MaxRowsAssumption
    DEF TypeOK, Busy, TailIsLast, EveryRowKept, Steps, Row, Request, Ids, Statuses, Genesis
  <2>2. (Busy /\ TailIsLast /\ ChainOrdered)'
    BY NobodyAssumption DEF TypeOK, Busy, TailIsLast, ChainOrdered, Steps, Row, Ids, Genesis
  <2>3. EveryRowKept'
    BY DEF TypeOK, EveryRowKept, Kept, Pending, Steps, Ids
  <2>4. (FlushIsExclusive /\ FlushIsOneAccounts /\ FlushOwnsItsRows /\ OwnTokenOnly)'
    BY DEF TypeOK, FlushIsExclusive, FlushIsOneAccounts, FlushOwnsItsRows, OwnTokenOnly,
           Pending, Ids
  <2>5. QED
    BY <2>1, <2>2, <2>3, <2>4
<1>6. CASE StoreNothing(w)
  <2> USE <1>6 DEF StoreNothing, Answer, flushVars, history, durable
  <2>1. TypeOK'
    BY RequestsAssumption, NobodyAssumption, MaxRowsAssumption
    DEF TypeOK, Busy, TailIsLast, EveryRowKept, Steps, Row, Request, Ids, Statuses, Genesis
  <2>2. (Busy /\ TailIsLast /\ ChainOrdered)'
    BY NobodyAssumption DEF TypeOK, Busy, TailIsLast, ChainOrdered, Steps, Row, Ids, Genesis
  <2>3. EveryRowKept'
    BY DEF TypeOK, EveryRowKept, Kept, Pending, Steps, Ids
  <2>4. (FlushIsExclusive /\ FlushIsOneAccounts /\ FlushOwnsItsRows /\ OwnTokenOnly)'
    BY DEF TypeOK, FlushIsExclusive, FlushIsOneAccounts, FlushOwnsItsRows, OwnTokenOnly,
           Pending, Ids
  <2>5. QED
    BY <2>1, <2>2, <2>3, <2>4
<1>7. CASE Acknowledge(w)
  <2> USE <1>7 DEF Acknowledge, Answer, flushVars, history, durable
  <2>0. tail[w] \in Ids
    BY MaxRowsAssumption DEF TypeOK, EveryRowKept, Ids
  <2>1. TypeOK'
    BY <2>0, RequestsAssumption, NobodyAssumption, MaxRowsAssumption
    DEF TypeOK, Busy, TailIsLast, EveryRowKept, Steps, Row, Request, Ids, Statuses, Genesis
  <2>2. (Busy /\ TailIsLast /\ ChainOrdered)'
    BY NobodyAssumption DEF TypeOK, Busy, TailIsLast, ChainOrdered, Steps, Row, Ids, Genesis
  <2>3. EveryRowKept'
    BY DEF TypeOK, EveryRowKept, Kept, Pending, Steps, Ids
  <2>4. (FlushIsExclusive /\ FlushIsOneAccounts /\ FlushOwnsItsRows /\ OwnTokenOnly)'
    BY DEF TypeOK, FlushIsExclusive, FlushIsOneAccounts, FlushOwnsItsRows, OwnTokenOnly,
           Pending, Ids
  <2>5. QED
    BY <2>1, <2>2, <2>3, <2>4
<1>8. QED
    BY <1>1, <1>2, <1>3, <1>4, <1>5, <1>6, <1>7 DEF Worker

\* A sign-in changes only what a later flush may resolve to.
LEMMA SignInIInv ==
    ASSUME IInv, NEW s \in SignIns, SignIn(s[1], s[2])
    PROVE  IInv'
<1> USE DEF IInv, SignIn, workerVars, flushVars, history
<1>1. TypeOK'
    BY SignInsAssumption DEF TypeOK, Owners
<1>2. (Busy /\ TailIsLast /\ ChainOrdered)'
    BY DEF Busy, TailIsLast, ChainOrdered
<1>3. EveryRowKept'
    BY DEF EveryRowKept, Kept, Pending
<1>4. (FlushIsExclusive /\ FlushIsOneAccounts /\ FlushOwnsItsRows /\ OwnTokenOnly)'
    BY DEF FlushIsExclusive, FlushIsOneAccounts, FlushOwnsItsRows, OwnTokenOnly, Pending
<1>5. QED
    BY <1>1, <1>2, <1>3, <1>4

\* A flush that resolves its credentials has a snapshot of one account's rows.
LEMMA ResolvedOwner ==
    ASSUME TypeOK, NEW S \in SUBSET DOMAIN rows, Resolve(S) # NoUser
    PROVE  /\ Resolve(S) \in Users
           /\ \A i \in S : rows[i].user \in {NoUser, Resolve(S)}
<1> DEFINE owners == {rows[i].user : i \in S} \ {NoUser}
<1>1. \A i \in S : rows[i].user = NoUser \/ rows[i].user \in owners
    OBVIOUS
<1>2. CASE owners = {}
    BY <1>1, <1>2 DEF Resolve, TypeOK, Owners
<1>3. ASSUME NEW u \in owners, owners = {u}
      PROVE  Resolve(S) = u /\ u \in Users
  <2>1. Resolve(S) = LoginFor(u)
    BY <1>3 DEF Resolve
  <2>2. LoginFor(u) = u
    BY <2>1 DEF LoginFor
  <2>3. u \in Users
    BY DEF TypeOK, Row, Owners
  <2>4. QED
    BY <2>1, <2>2, <2>3
<1>4. CASE owners # {}
  <2>1. PICK u \in owners : owners = {u}
    BY <1>4 DEF Resolve
  <2>2. QED
    BY <1>1, <1>3, <2>1
<1>5. QED
    BY <1>2, <1>4

\* A flusher: it changes the status of, or removes, only rows it holds or
\* rows already settled.
LEMMA FlusherIInv ==
    ASSUME IInv, NEW f \in Flushers, Flusher(f)
    PROVE  IInv'
<1> USE DEF IInv
<1>1. CASE FlushStart(f)
  <2> USE <1>1 DEF FlushStart, workerVars, history, durable
  <2>0. Pending \in SUBSET Ids
    BY MaxRowsAssumption DEF TypeOK, Pending, Ids
  <2>1. TypeOK'
    BY <2>0, NobodyAssumption DEF TypeOK, FlushSteps, FlushIsOneAccounts, FlushOwnsItsRows, Pending,
           Owners, Row, Statuses, Ids
  <2>2. (Busy /\ TailIsLast /\ ChainOrdered)'
    BY DEF TypeOK, Busy, TailIsLast, ChainOrdered, Pending, Row
  <2>3. EveryRowKept'
    BY DEF TypeOK, EveryRowKept, Kept, Pending, Row, FlushOwnsItsRows
  <2>4. (FlushIsExclusive /\ FlushIsOneAccounts /\ FlushOwnsItsRows /\ OwnTokenOnly)'
    BY NobodyAssumption DEF TypeOK, FlushSteps, FlushIsExclusive, FlushIsOneAccounts, FlushOwnsItsRows,
           OwnTokenOnly, Pending, Row
  <2>5. QED
    BY <2>1, <2>2, <2>3, <2>4
<1>2. CASE FlushResolve(f)
  <2> USE <1>2 DEF FlushResolve, workerVars, history, durable
  <2>1. TypeOK'
    BY ResolvedOwner, NobodyAssumption DEF TypeOK, FlushSteps, FlushIsOneAccounts, FlushOwnsItsRows, Pending,
           Owners, Row, Statuses, Ids
  <2>2. (Busy /\ TailIsLast /\ ChainOrdered)'
    BY DEF TypeOK, Busy, TailIsLast, ChainOrdered, Pending, Row
  <2>3. EveryRowKept'
    BY DEF TypeOK, EveryRowKept, Kept, Pending, Row, FlushOwnsItsRows
  <2>4. (FlushIsExclusive /\ FlushIsOneAccounts /\ FlushOwnsItsRows /\ OwnTokenOnly)'
    BY ResolvedOwner, NobodyAssumption DEF TypeOK, FlushSteps, FlushIsExclusive, FlushIsOneAccounts, FlushOwnsItsRows,
           OwnTokenOnly, Pending, Row
  <2>5. QED
    BY <2>1, <2>2, <2>3, <2>4
<1>3. CASE FlushDefer(f)
  <2> USE <1>3 DEF FlushDefer, FlushDone, workerVars, history, durable
  <2>1. TypeOK'
    BY NobodyAssumption DEF TypeOK, FlushSteps, FlushIsOneAccounts, FlushOwnsItsRows, Pending,
           Owners, Row, Statuses, Ids
  <2>2. (Busy /\ TailIsLast /\ ChainOrdered)'
    BY DEF TypeOK, Busy, TailIsLast, ChainOrdered, Pending, Row
  <2>3. EveryRowKept'
    BY DEF TypeOK, EveryRowKept, Kept, Pending, Row, FlushOwnsItsRows
  <2>4. (FlushIsExclusive /\ FlushIsOneAccounts /\ FlushOwnsItsRows /\ OwnTokenOnly)'
    BY NobodyAssumption DEF TypeOK, FlushSteps, FlushIsExclusive, FlushIsOneAccounts, FlushOwnsItsRows,
           OwnTokenOnly, Pending, Row
  <2>5. QED
    BY <2>1, <2>2, <2>3, <2>4
<1>4. CASE FlushSweep(f)
  <2> USE <1>4 DEF FlushSweep, FlushDone, SweepRows, workerVars, history
  <2>1. TypeOK'
    BY NobodyAssumption DEF TypeOK, FlushSteps, FlushIsOneAccounts, FlushOwnsItsRows, Pending,
           Owners, Row, Statuses, Ids
  <2>2. (Busy /\ TailIsLast /\ ChainOrdered)'
    BY DEF TypeOK, Busy, TailIsLast, ChainOrdered, Pending, Row
  <2>3. EveryRowKept'
    BY DEF TypeOK, EveryRowKept, Kept, Pending, Row, FlushOwnsItsRows
  <2>4. (FlushIsExclusive /\ FlushIsOneAccounts /\ FlushOwnsItsRows /\ OwnTokenOnly)'
    BY NobodyAssumption DEF TypeOK, FlushSteps, FlushIsExclusive, FlushIsOneAccounts, FlushOwnsItsRows,
           OwnTokenOnly, Pending, Row
  <2>5. QED
    BY <2>1, <2>2, <2>3, <2>4
<1>5. ASSUME NEW i \in DOMAIN rows, SendAccepted(f, i)
      PROVE  IInv'
  <2> USE <1>5 DEF SendAccepted, NextToSend, Post, Mark, workerVars, history
  <2>1. TypeOK'
    BY NobodyAssumption DEF TypeOK, FlushSteps, FlushIsOneAccounts, FlushOwnsItsRows, Pending,
           Owners, Row, Statuses, Ids
  <2>2. (Busy /\ TailIsLast /\ ChainOrdered)'
    BY DEF TypeOK, Busy, TailIsLast, ChainOrdered, Pending, Row
  <2>3. EveryRowKept'
    <3>1. Pending' = Pending \ {i}
      BY DEF Pending, TypeOK, Row
    <3>2. [id |-> i, owner |-> rows[i].user, account |-> creds[f]] \in sent'
      OBVIOUS
    <3>3. \A j : Kept(j) => Kept(j)'
      BY <3>1, <3>2 DEF Kept
    <3>4. QED
      BY <3>3 DEF EveryRowKept
  <2>4. (FlushIsExclusive /\ FlushIsOneAccounts /\ FlushOwnsItsRows /\ OwnTokenOnly)'
    BY NobodyAssumption DEF TypeOK, FlushSteps, FlushIsExclusive, FlushIsOneAccounts, FlushOwnsItsRows,
           OwnTokenOnly, Pending, Row
  <2>5. QED
    BY <2>1, <2>2, <2>3, <2>4
<1>6. ASSUME NEW i \in DOMAIN rows, SendUnanswered(f, i)
      PROVE  IInv'
  <2> USE <1>6 DEF SendUnanswered, NextToSend, Post, workerVars, history, durable
  <2>1. TypeOK'
    BY NobodyAssumption DEF TypeOK, FlushSteps, FlushIsOneAccounts, FlushOwnsItsRows, Pending,
           Owners, Row, Statuses, Ids
  <2>2. (Busy /\ TailIsLast /\ ChainOrdered)'
    BY DEF TypeOK, Busy, TailIsLast, ChainOrdered, Pending, Row
  <2>3. EveryRowKept'
    BY DEF TypeOK, EveryRowKept, Kept, Pending, Row, FlushOwnsItsRows
  <2>4. (FlushIsExclusive /\ FlushIsOneAccounts /\ FlushOwnsItsRows /\ OwnTokenOnly)'
    BY NobodyAssumption DEF TypeOK, FlushSteps, FlushIsExclusive, FlushIsOneAccounts, FlushOwnsItsRows,
           OwnTokenOnly, Pending, Row
  <2>5. QED
    BY <2>1, <2>2, <2>3, <2>4
<1>7. ASSUME NEW i \in DOMAIN rows, SendFailed(f, i)
      PROVE  IInv'
  <2> USE <1>7 DEF SendFailed, NextToSend, workerVars, history, durable
  <2>1. TypeOK'
    BY NobodyAssumption DEF TypeOK, FlushSteps, FlushIsOneAccounts, FlushOwnsItsRows, Pending,
           Owners, Row, Statuses, Ids
  <2>2. (Busy /\ TailIsLast /\ ChainOrdered)'
    BY DEF TypeOK, Busy, TailIsLast, ChainOrdered, Pending, Row
  <2>3. EveryRowKept'
    BY DEF TypeOK, EveryRowKept, Kept, Pending, Row, FlushOwnsItsRows
  <2>4. (FlushIsExclusive /\ FlushIsOneAccounts /\ FlushOwnsItsRows /\ OwnTokenOnly)'
    BY NobodyAssumption DEF TypeOK, FlushSteps, FlushIsExclusive, FlushIsOneAccounts, FlushOwnsItsRows,
           OwnTokenOnly, Pending, Row
  <2>5. QED
    BY <2>1, <2>2, <2>3, <2>4
<1>8. ASSUME NEW i \in DOMAIN rows, SkipStale(f, i)
      PROVE  IInv'
  <2> USE <1>8 DEF SkipStale, NextToSend, Mark, workerVars, history
  <2>1. TypeOK'
    BY NobodyAssumption DEF TypeOK, FlushSteps, FlushIsOneAccounts, FlushOwnsItsRows, Pending,
           Owners, Row, Statuses, Ids
  <2>2. (Busy /\ TailIsLast /\ ChainOrdered)'
    BY DEF TypeOK, Busy, TailIsLast, ChainOrdered, Pending, Row
  <2>3. EveryRowKept'
    BY DEF TypeOK, EveryRowKept, Kept, Pending, Row, FlushOwnsItsRows
  <2>4. (FlushIsExclusive /\ FlushIsOneAccounts /\ FlushOwnsItsRows /\ OwnTokenOnly)'
    BY NobodyAssumption DEF TypeOK, FlushSteps, FlushIsExclusive, FlushIsOneAccounts, FlushOwnsItsRows,
           OwnTokenOnly, Pending, Row
  <2>5. QED
    BY <2>1, <2>2, <2>3, <2>4
<1>9. QED
    BY <1>1, <1>2, <1>3, <1>4, <1>5, <1>6, <1>7, <1>8 DEF Flusher

LEMMA CrashIInv == IInv /\ Crash => IInv'
<1> SUFFICES ASSUME IInv, Crash PROVE IInv'
    OBVIOUS
<1> USE DEF IInv, Crash, durable, history
<1>1. TypeOK'
    BY DEF TypeOK, Owners, Steps, FlushSteps
<1>2. (Busy /\ TailIsLast /\ ChainOrdered)'
    BY DEF Busy, TailIsLast, ChainOrdered
<1>3. EveryRowKept'
    BY DEF EveryRowKept, Kept, Pending
<1>4. (FlushIsExclusive /\ FlushIsOneAccounts /\ FlushOwnsItsRows /\ OwnTokenOnly)'
    BY DEF FlushIsExclusive, FlushIsOneAccounts, FlushOwnsItsRows, OwnTokenOnly, Pending
<1>5. QED
    BY <1>1, <1>2, <1>3, <1>4

LEMMA StutterIInv == IInv /\ UNCHANGED vars => IInv'
    BY DEF IInv, vars, TypeOK, Busy, TailIsLast, ChainOrdered, EveryRowKept, Kept, Pending,
           FlushIsExclusive, FlushIsOneAccounts, FlushOwnsItsRows, OwnTokenOnly

\* IInv holds in every reachable state.
THEOREM Invariance == Spec => []IInv
<1>1. IInv /\ [Next]_vars => IInv'
    BY WorkerIInv, SignInIInv, FlusherIInv, CrashIInv, StutterIInv DEF Next
<1>2. QED
    BY InitIInv, <1>1, PTL DEF Spec

-----------------------------------------------------------------------------
(* Safety.                                                                 *)

\* Every variable has its type in every reachable state.
THEOREM TypeCorrect == Spec => []TypeOK
BY Invariance, PTL DEF IInv

\* No award is ever posted with another account's token: a flush sends with
\* the token of the one account its snapshot's rows name, or not at all.
THEOREM OwnTokenSafety == Spec => []OwnTokenOnly
BY Invariance, PTL DEF IInv

\* An award answered with "queued" is pending, was posted, or was disowned by
\* the site, across crashes, sweeps and account switches.
THEOREM AckedSafety == Spec => []AckedNotLost
<1>1. IInv => AckedNotLost
    BY DEF IInv, EveryRowKept, Kept, AckedNotLost
<1>2. QED
    BY <1>1, Invariance, PTL

\* The hash chain never forks, however many workers append to it.
THEOREM ChainSafety == Spec => []ChainNeverForks
<1>1. IInv => ChainNeverForks
  <2> SUFFICES ASSUME IInv, NEW i \in DOMAIN rows, NEW j \in DOMAIN rows, i < j
               PROVE  rows[i].prev # rows[j].prev
    BY DEF IInv, TypeOK, ChainNeverForks
  <2>1. rows[i].prev < i /\ i <= rows[j].prev
    BY DEF IInv, ChainOrdered
  <2>2. i \in Nat /\ rows[i].prev \in Nat /\ rows[j].prev \in Nat
    BY MaxRowsAssumption DEF IInv, TypeOK, Row, Genesis, Ids
  <2>3. QED
    BY <2>1, <2>2
<1>2. QED
    BY <1>1, Invariance, PTL

\* A flush only ever has pending rows left to send.
THEOREM FlushSafety == Spec => []FlushOwnsItsRows
BY Invariance, PTL DEF IInv

-----------------------------------------------------------------------------
(* What the account guard achieves.                                        *)

\* The owners of the queue and of the workers past the guard are accounts,
\* hence finitely many.
LEMMA ClaimsFinite ==
    ASSUME IInv
    PROVE  IsFiniteSet(PendingOwners \cup Admitted)
<1>1. PendingOwners \cup Admitted \subseteq Users
    BY RequestsAssumption
    DEF IInv, TypeOK, Busy, PendingOwners, Pending, Row, Admitted, PastGuard, Request, Owners
<1>2. QED
    BY <1>1, UsersFinite, FS_Subset

\* The workers past the guard bring at most one owner each.
LEMMA AdmittedBounded ==
    /\ IsFiniteSet(Admitted)
    /\ Cardinality(Admitted) <= Cardinality(Workers)
<1>1. IsFiniteSet(PastGuard) /\ Cardinality(PastGuard) <= Cardinality(Workers)
    BY WorkersFinite, FS_Subset DEF PastGuard
<1> DEFINE users == {req[w].user : w \in PastGuard}
           user == [w \in PastGuard |-> req[w].user]
<1>2. user \in Surjection(PastGuard, users)
    BY DEF Surjection
<1>3. IsFiniteSet(users) /\ Cardinality(users) <= Cardinality(PastGuard)
    BY <1>1, <1>2, FS_Surjection
<1>4. IsFiniteSet(Admitted) /\ Cardinality(Admitted) <= Cardinality(users)
    BY <1>3, FS_Subset DEF Admitted
<1>5. QED
  <2>1. /\ Cardinality(Workers) \in Nat /\ Cardinality(PastGuard) \in Nat
        /\ Cardinality(users) \in Nat /\ Cardinality(Admitted) \in Nat
    BY <1>1, <1>3, <1>4, WorkersFinite, FS_CardinalityType
  <2>2. QED
    BY <1>1, <1>3, <1>4, <2>1

\* A step brings in a new owner only through the guard, and only while no
\* award is pending.
LEMMA NewOwnerOnlyWhenEmpty ==
    ASSUME IInv, [Next]_vars
    PROVE  \/ (PendingOwners \cup Admitted)' \subseteq PendingOwners \cup Admitted
           \/ PendingOwners' = {}
<1>1. ASSUME NEW w \in Workers, Worker(w)
      PROVE  \/ (PendingOwners \cup Admitted)' \subseteq PendingOwners \cup Admitted
             \/ PendingOwners' = {}
  <2> USE DEF IInv, TypeOK
  <2>1. CASE CheckAccount(w)
    <3>1. PendingOwners' = PendingOwners
      BY <2>1 DEF CheckAccount, durable, PendingOwners, Pending
    <3>2. CASE Mismatch(req[w].user)
      BY <2>1, <3>1, <3>2 DEF CheckAccount, Answer, Admitted, PastGuard
    <3>3. CASE PendingOwners # {} /\ ~Mismatch(req[w].user)
      BY <2>1, <3>1, <3>3 DEF CheckAccount, Mismatch, Admitted, PastGuard
    <3>4. QED
      BY <3>1, <3>2, <3>3
  <2>2. CASE InsertRow(w)
    <3>1. PendingOwners' \subseteq PendingOwners \cup ({req[w].user} \ {NoUser})
      BY <2>2 DEF InsertRow, PendingOwners, Pending
    <3>2. req[w].user \in Admitted \cup {NoUser}
      BY <2>2 DEF InsertRow, Admitted, PastGuard
    <3>3. Admitted' \subseteq Admitted
      BY <2>2 DEF InsertRow, Admitted, PastGuard
    <3>4. QED
      BY <3>1, <3>2, <3>3
  <2>3. CASE ~CheckAccount(w) /\ ~InsertRow(w)
    <3>1. PendingOwners' = PendingOwners
      BY <1>1, <2>3 DEF Worker, Receive, Refuse, LockQueue, StoreNothing, Acknowledge,
         durable, PendingOwners, Pending
    <3>2. Admitted' \subseteq Admitted
      BY <1>1, <2>3 DEF Worker, Receive, Refuse, LockQueue, StoreNothing, Acknowledge, Answer,
         Admitted, PastGuard
    <3>3. QED
      BY <3>1, <3>2
  <2>4. QED
    BY <2>1, <2>2, <2>3
<1>2. ASSUME NEW f \in Flushers, Flusher(f)
      PROVE  (PendingOwners \cup Admitted)' \subseteq PendingOwners \cup Admitted
  <2>1. Admitted' = Admitted
    BY <1>2 DEF Flusher, FlushStart, FlushResolve, FlushDefer, FlushSweep, SendAccepted,
       SendUnanswered, SendFailed, SkipStale, workerVars, Admitted, PastGuard
  <2>2. CASE rows' = rows
    BY <2>1, <2>2 DEF PendingOwners, Pending
  <2>3. CASE FlushSweep(f)
    BY <2>1, <2>3 DEF FlushSweep, SweepRows, PendingOwners, Pending
  <2>4. ASSUME NEW i \in DOMAIN rows, SendAccepted(f, i) \/ SkipStale(f, i)
        PROVE  PendingOwners' \subseteq PendingOwners
    <3>1. DOMAIN rows' = DOMAIN rows
      BY <2>4 DEF SendAccepted, SkipStale, Mark
    <3>2. rows[i] \in Row
      BY DEF IInv, TypeOK
    <3>3. \A j \in DOMAIN rows : rows'[j].user = rows[j].user
      BY <2>4, <3>2 DEF SendAccepted, SkipStale, Mark, Row
    <3>4. rows'[i].status # "pending"
      BY <2>4, <3>2 DEF SendAccepted, SkipStale, Mark, Row
    <3>5. \A j \in DOMAIN rows : j # i => rows'[j].status = rows[j].status
      BY <2>4 DEF SendAccepted, SkipStale, Mark
    <3>6. Pending' \subseteq Pending
      BY <3>1, <3>4, <3>5 DEF Pending
    <3>7. QED
      BY <3>1, <3>3, <3>6 DEF PendingOwners, Pending
  <2>5. QED
    BY <1>2, <2>1, <2>2, <2>3, <2>4 DEF Flusher, FlushStart, FlushResolve, FlushDefer,
       SendUnanswered, SendFailed, durable
<1>3. CASE \/ \E s \in SignIns : SignIn(s[1], s[2])
           \/ Crash
           \/ UNCHANGED vars
    BY <1>3 DEF SignIn, Crash, vars, workerVars, durable, PendingOwners, Pending, Admitted, PastGuard
<1>4. QED
    BY <1>1, <1>2, <1>3 DEF Next

\* With concurrent workers the guard admits one owner per worker, not one:
\* its check and the insertion it protects are two critical sections.
THEOREM OwnersSafety == Spec => []OwnersBoundedByWorkers
<1>1. Init => OwnersBoundedByWorkers
  <2> SUFFICES ASSUME Init PROVE OwnersBoundedByWorkers
    OBVIOUS
  <2>1. PendingOwners \cup Admitted = Admitted
    BY DEF Init, PendingOwners, Pending
  <2>2. QED
    BY <2>1, AdmittedBounded DEF OwnersBoundedByWorkers
<1>2. IInv /\ IInv' /\ OwnersBoundedByWorkers /\ [Next]_vars => OwnersBoundedByWorkers'
  <2> SUFFICES ASSUME IInv, IInv', OwnersBoundedByWorkers, [Next]_vars
               PROVE  OwnersBoundedByWorkers'
    OBVIOUS
  <2>1. CASE (PendingOwners \cup Admitted)' \subseteq PendingOwners \cup Admitted
    <3>1. IsFiniteSet(PendingOwners \cup Admitted)
      BY ClaimsFinite
    <3>2. Cardinality((PendingOwners \cup Admitted)') <= Cardinality(PendingOwners \cup Admitted)
      BY <2>1, <3>1, FS_Subset
    <3>3. /\ IsFiniteSet((PendingOwners \cup Admitted)')
          /\ Cardinality(Workers) \in Nat
      BY <2>1, <3>1, FS_Subset, WorkersFinite, FS_CardinalityType
    <3>4. /\ Cardinality(PendingOwners \cup Admitted) \in Nat
          /\ Cardinality((PendingOwners \cup Admitted)') \in Nat
      BY <3>1, <3>3, FS_CardinalityType
    <3>5. QED
      BY <3>2, <3>3, <3>4 DEF OwnersBoundedByWorkers
  <2>2. CASE PendingOwners' = {}
    <3>1. (Cardinality(Admitted) <= Cardinality(Workers))'
      BY AdmittedBounded, PTL
    <3>2. (PendingOwners \cup Admitted)' = Admitted'
      BY <2>2
    <3>3. QED
      BY <3>1, <3>2 DEF OwnersBoundedByWorkers
  <2>3. QED
    BY <2>1, <2>2, NewOwnerOnlyWhenEmpty
<1>3. QED
    BY <1>1, <1>2, Invariance, PTL DEF Spec

-----------------------------------------------------------------------------
(* The queue implements the ledger.                                        *)

\* Rows that keep status and owner leave the ledger's pending tickets alone.
LEMMA InitLedger == Init => Ledger!Init
BY DEF Init, Ledger!Init, Pending

\* Inserting a row is a promise.
LEMMA InsertIsPromise ==
    ASSUME IInv, NEW w \in Workers, InsertRow(w)
    PROVE  req[w].user \in Owners /\ Ledger!Promise(req[w].user)
<1> DEFINE u == req[w].user
<1>1. u \in Owners
    BY RequestsAssumption DEF IInv, Busy, InsertRow, Request
<1>2. nextId \notin DOMAIN rows
    BY DEF IInv, TypeOK
<1>3. Pending' = Pending \cup {nextId}
    BY <1>2 DEF InsertRow, Pending
<1>4. [i \in Pending |-> rows[i].user]' =
        [i \in Pending \cup {nextId} |-> IF i = nextId THEN u ELSE rows[i].user]
    BY <1>3 DEF InsertRow, Pending
<1>5. Ledger!Promise(u)
    BY <1>2, <1>4 DEF InsertRow, history, Ledger!Promise, Pending
<1>6. QED
    BY <1>1, <1>5

\* Posting an award credits it to the flush's account.
LEMMA PostIsCredit ==
    ASSUME IInv, NEW f \in Flushers, NEW i \in DOMAIN rows,
           SendAccepted(f, i) \/ SendUnanswered(f, i)
    PROVE  creds[f] \in Users /\ Ledger!Credit(i, creds[f])
<1>1. i \in Pending /\ creds[f] \in Users /\ rows[i].user \in {NoUser, creds[f]}
    BY DEF IInv, FlushOwnsItsRows, FlushIsOneAccounts, SendAccepted, SendUnanswered, NextToSend
<1>2. CASE SendAccepted(f, i)
  <2>1. Pending' = Pending \ {i}
    BY <1>2 DEF SendAccepted, Mark, Pending, IInv, TypeOK, Row
  <2>2. \A j \in Pending' : rows'[j].user = rows[j].user
    BY <1>2, <2>1 DEF SendAccepted, Mark, Pending
  <2>3. Ledger!Credit(i, creds[f])
    BY <1>1, <1>2, <2>1, <2>2 DEF SendAccepted, Post, Ledger!Credit, Ledger!Without, Pending
  <2>4. QED
    BY <1>1, <2>3
<1>3. CASE SendUnanswered(f, i)
  <2>1. Ledger!Credit(i, creds[f])
    BY <1>1, <1>3 DEF SendUnanswered, Post, durable, Ledger!Credit, Pending
  <2>2. QED
    BY <1>1, <2>1
<1>4. QED
    BY <1>2, <1>3

LEMMA StaleIsDisown ==
    ASSUME IInv, NEW f \in Flushers, NEW i \in DOMAIN rows, SkipStale(f, i)
    PROVE  Ledger!Disown(i)
<1>1. i \in Pending
    BY DEF IInv, FlushOwnsItsRows, SkipStale, NextToSend
<1>2. Pending' = Pending \ {i}
    BY DEF SkipStale, Mark, Pending, IInv, TypeOK, Row
<1>3. \A j \in Pending' : rows'[j].user = rows[j].user
    BY <1>2 DEF SkipStale, Mark, Pending
<1>4. QED
    BY <1>1, <1>2, <1>3 DEF SkipStale, Ledger!Disown, Ledger!Without, Pending

\* A sweep removes no pending row.
LEMMA SweepIsStutter ==
    ASSUME NEW f \in Flushers, FlushSweep(f)
    PROVE  UNCHANGED Ledger!ledgerVars
<1>1. Pending' = Pending /\ \A i \in Pending : rows'[i] = rows[i]
    BY DEF FlushSweep, SweepRows, Pending
<1>2. QED
    BY <1>1 DEF FlushSweep, history, Ledger!ledgerVars

\* The steps that change neither the table nor what the site has been told.
LEMMA OtherIsStutter ==
    ASSUME UNCHANGED <<rows, nextId, sent, disowned>>
    PROVE  UNCHANGED Ledger!ledgerVars
BY DEF Pending, Ledger!ledgerVars

\* Every step of the queue is a step of the ledger or a stutter: whatever the
\* interleaving of workers, flushes, sign-ins and crashes, a pending award
\* only ends by being credited to its own account or disowned by the site.
THEOREM Refinement == Spec => ImplementsLedger
<1>1. IInv /\ [Next]_vars => [Ledger!Next]_(Ledger!ledgerVars)
  <2> SUFFICES ASSUME IInv, [Next]_vars
               PROVE  Ledger!Next \/ UNCHANGED Ledger!ledgerVars
    OBVIOUS
  <2>1. ASSUME NEW w \in Workers, Worker(w)
        PROVE  Ledger!Next \/ UNCHANGED Ledger!ledgerVars
    <3>1. CASE InsertRow(w)
      <4>1. req[w].user \in Ledger!Owners /\ Ledger!Promise(req[w].user)
        BY <3>1, InsertIsPromise DEF Owners, Ledger!Owners
      <4>2. QED
        BY <4>1 DEF Ledger!Next, Ledger!Promise
    <3>2. CASE ~InsertRow(w)
      BY <2>1, <3>2, OtherIsStutter DEF Worker, Receive, Refuse, CheckAccount, LockQueue,
         StoreNothing, Acknowledge, durable, history
    <3>3. QED
      BY <3>1, <3>2
  <2>2. ASSUME NEW f \in Flushers, Flusher(f)
        PROVE  Ledger!Next \/ UNCHANGED Ledger!ledgerVars
    <3>1. CASE FlushStart(f) \/ FlushResolve(f) \/ FlushDefer(f)
      BY <3>1, OtherIsStutter DEF FlushStart, FlushResolve, FlushDefer, durable, history
    <3>2. CASE FlushSweep(f)
      BY <3>2, SweepIsStutter
    <3>3. ASSUME NEW i \in DOMAIN rows, SendFailed(f, i)
          PROVE  UNCHANGED Ledger!ledgerVars
      BY <3>3, OtherIsStutter DEF SendFailed, durable, history
    <3>4. ASSUME NEW i \in DOMAIN rows,
                 SendAccepted(f, i) \/ SendUnanswered(f, i) \/ SkipStale(f, i)
          PROVE  Ledger!Next
      <4>1. i \in Pending
        BY <3>4 DEF IInv, FlushOwnsItsRows, SendAccepted, SendUnanswered, SkipStale, NextToSend
      <4>2. i \in DOMAIN [j \in Pending |-> rows[j].user]
        BY <4>1
      <4>3. CASE SkipStale(f, i)
        BY <4>2, <4>3, StaleIsDisown DEF Ledger!Next
      <4>4. CASE SendAccepted(f, i) \/ SendUnanswered(f, i)
        <5>1. creds[f] \in Users /\ Ledger!Credit(i, creds[f])
          BY <4>4, PostIsCredit
        <5>2. QED
          BY <4>2, <5>1 DEF Ledger!Next, Ledger!Credit
      <4>5. QED
        BY <3>4, <4>3, <4>4
    <3>5. QED
      BY <2>2, <3>1, <3>2, <3>3, <3>4 DEF Flusher
  <2>3. CASE \/ \E s \in SignIns : SignIn(s[1], s[2])
             \/ Crash
             \/ UNCHANGED vars
    BY <2>3, OtherIsStutter DEF SignIn, Crash, vars, durable, history
  <2>4. QED
    BY <2>1, <2>2, <2>3 DEF Next
<1>2. QED
    BY InitLedger, <1>1, Invariance, PTL DEF Spec, ImplementsLedger, Ledger!Spec
=============================================================================
