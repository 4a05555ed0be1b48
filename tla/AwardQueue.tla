----------------------------- MODULE AwardQueue -----------------------------
(***************************************************************************)
(* The offline award queue: request workers that queue awards, the account *)
(* guard in front of the queue, sign-ins that are learned from proxied     *)
(* traffic, and the flush that replays the queue to RetroAchievements.     *)
(*                                                                         *)
(* A request worker is one thread of the proxy; several run at once.  The  *)
(* guard (pending_award_account_mismatch) and the insertion (queue_award)  *)
(* each hold pending_award_lock, but one after the other, not across.      *)
(* The rows of pending_awards are durable: a crash empties every thread    *)
(* and every lock, never the table or the learned logins.                  *)
(*                                                                         *)
(* queue_award's body and the flush loop belong to the upstream program,   *)
(* which this repository only patches: what is modelled of them is what    *)
(* the patches' context, comments and tests say they do.                   *)
(***************************************************************************)
EXTENDS Naturals, FiniteSets

CONSTANTS Users,     \* accounts that sign in on the device
          NoUser,    \* no account: a request without "u", or no login
          NoRequest, \* what an idle worker handles
          Awards,    \* achievement ids
          Requests,  \* the award requests clients send
          SignIns,   \* sign-ins: <<user named in the request, in the answer>>
          Workers,   \* request worker threads (MAX_REQUEST_WORKERS of them)
          Flushers,  \* threads that call flush_pending_awards
          Nobody,    \* a free lock
          MaxRows    \* bound: rows ever inserted

Owners == Users \cup {NoUser}
\* A leaderboard entry and a hardcore award travel the same handler.
Kinds == {"casual", "hardcore", "leaderboard"}
Request == [kind : Kinds, user : Owners, award : Awards]

ASSUME RequestsAssumption == Requests \subseteq Request
ASSUME SignInsAssumption == SignIns \subseteq Users \X Users
ASSUME NoUserAssumption == NoUser \notin Users
ASSUME NobodyAssumption == Nobody \notin Workers \cup Flushers
ASSUME NoRequestAssumption == NoRequest \notin Request
ASSUME MaxRowsAssumption == MaxRows \in Nat
ASSUME UsersFinite == IsFiniteSet(Users)
ASSUME WorkersFinite == IsFiniteSet(Workers)

VARIABLES
    \* durable
    rows,        \* the pending_awards table: row id -> row
    nextId,      \* its AUTOINCREMENT counter
    login,       \* login[u]: the account in the login row cached under u
    latest,      \* the account in the most recently cached login row
    \* volatile: request workers
    pc,          \* pc[w]: where worker w is in the award path
    req,         \* req[w]: the request w is handling
    tail,        \* tail[w]: the chain tail w read, then the row it wrote
    awardLock,   \* pending_award_lock
    \* volatile: flushing
    flushLock,   \* flush_lock
    fpc,         \* fpc[f]: where flusher f is
    todo,        \* todo[f]: rows of f's snapshot not yet sent
    creds,       \* creds[f]: the account whose token f sends with
    \* history: what the client and the site have seen
    acked,       \* rows whose request was answered with success
    sent,        \* awards posted to the site: row, its owner, the account
    disowned     \* rows whose achievement the site says it does not have

durable == <<rows, nextId, login, latest>>
workerVars == <<pc, req, tail, awardLock>>
flushVars == <<flushLock, fpc, todo, creds>>
history == <<acked, sent, disowned>>
vars == <<rows, nextId, login, latest, pc, req, tail, awardLock,
          flushLock, fpc, todo, creds, acked, sent, disowned>>

Ids == 1..MaxRows
Genesis == 0
Statuses == {"pending", "flushed", "stale"}
Row == [user : Owners, award : Awards, status : Statuses, prev : {Genesis} \cup Ids]
Steps == {"idle", "offline", "queue", "append", "reply"}
FlushSteps == {"idle", "resolve", "send"}

TypeOK ==
    /\ nextId \in 1..(MaxRows + 1)
    /\ DOMAIN rows \subseteq 1..(nextId - 1)
    /\ \A i \in DOMAIN rows : rows[i] \in Row
    /\ login \in [Users -> Owners]
    /\ latest \in Owners
    /\ pc \in [Workers -> Steps]
    /\ req \in [Workers -> Request \cup {NoRequest}]
    /\ tail \in [Workers -> {Genesis} \cup Ids]
    /\ awardLock \in Workers \cup {Nobody}
    /\ flushLock \in Flushers \cup {Nobody}
    /\ fpc \in [Flushers -> FlushSteps]
    /\ todo \in [Flushers -> SUBSET Ids]
    /\ creds \in [Flushers -> Owners]
    /\ acked \subseteq Ids
    /\ sent \subseteq [id : Ids, owner : Owners, account : Users]
    /\ disowned \subseteq Ids

-----------------------------------------------------------------------------
(* The table.                                                              *)

Pending == {i \in DOMAIN rows : rows[i].status = "pending"}

\* award_username over the pending rows, those without a user left out.
PendingOwners == {rows[i].user : i \in Pending} \ {NoUser}

\* The newest row, whose payload hash the next row chains to.
IsChainTail(t) ==
    \/ t = Genesis /\ DOMAIN rows = {}
    \/ t \in DOMAIN rows /\ \A j \in DOMAIN rows : j <= t

Mark(i, status) == [rows EXCEPT ![i].status = status]

\* Mutant of SweepRows: the sweep clears the table.
SweepAllRows == [i \in {} |-> rows[i]]

\* Rows that are not pending survive until the sweep after a flush.
SweepRows == [i \in Pending |-> rows[i]]

-----------------------------------------------------------------------------
(* Request workers.                                                        *)

\* A request reaches the offline path: the proxy believed it was offline, or
\* it forwarded the request and no answer came back.  A request the site
\* answered is relayed and leaves no trace here.
Receive(w) ==
    /\ pc[w] = "idle"
    /\ \E r \in Requests : req' = [req EXCEPT ![w] = r]
    /\ pc' = [pc EXCEPT ![w] = "offline"]
    /\ UNCHANGED <<tail, awardLock, durable, flushVars, history>>

\* The request is answered: the worker takes another connection.
Answer(w) ==
    /\ pc' = [pc EXCEPT ![w] = "idle"]
    /\ req' = [req EXCEPT ![w] = NoRequest]

\* Hardcore awards (403) and leaderboard entries (503) are never queued.
Refuse(w) ==
    /\ pc[w] = "offline"
    /\ req[w].kind # "casual"
    /\ Answer(w)
    /\ UNCHANGED <<tail, awardLock, durable, flushVars, history>>

\* Mutant of Mismatch: no guard.
NeverMismatch(user) == FALSE

\* The account guard's verdict; no user in the request means no verdict.
Mismatch(user) ==
    /\ user # NoUser
    /\ PendingOwners # {}
    /\ user \notin PendingOwners

\* pending_award_account_mismatch, under the lock it releases on return.
CheckAccount(w) ==
    /\ pc[w] = "offline"
    /\ req[w].kind = "casual"
    /\ awardLock = Nobody
    /\ IF Mismatch(req[w].user)
       THEN Answer(w)
       ELSE /\ pc' = [pc EXCEPT ![w] = "queue"]
            /\ req' = req
    /\ UNCHANGED <<tail, awardLock, durable, flushVars, history>>

\* Mutant of LockQueue: it does not wait for pending_award_lock.
ReadTailUnlocked(w) ==
    /\ pc[w] = "queue"
    /\ awardLock' = w
    /\ \E t \in {Genesis} \cup DOMAIN rows :
         IsChainTail(t) /\ tail' = [tail EXCEPT ![w] = t]
    /\ pc' = [pc EXCEPT ![w] = "append"]
    /\ UNCHANGED <<req, durable, flushVars, history>>

\* queue_award takes the lock again and reads the end of the hash chain.
LockQueue(w) ==
    /\ pc[w] = "queue"
    /\ awardLock = Nobody
    /\ awardLock' = w
    /\ \E t \in {Genesis} \cup DOMAIN rows :
         IsChainTail(t) /\ tail' = [tail EXCEPT ![w] = t]
    /\ pc' = [pc EXCEPT ![w] = "append"]
    /\ UNCHANGED <<req, durable, flushVars, history>>

\* achievementId is UNIQUE, whatever the status of the row that holds it.
HasRow(award) == \E i \in DOMAIN rows : rows[i].award = award

InsertRow(w) ==
    /\ pc[w] = "append"
    /\ nextId <= MaxRows
    /\ ~HasRow(req[w].award)
    /\ rows' = [i \in DOMAIN rows \cup {nextId} |->
                  IF i = nextId
                  THEN [user |-> req[w].user, award |-> req[w].award,
                        status |-> "pending", prev |-> tail[w]]
                  ELSE rows[i]]
    /\ nextId' = nextId + 1
    /\ tail' = [tail EXCEPT ![w] = nextId]
    /\ awardLock' = Nobody
    /\ pc' = [pc EXCEPT ![w] = "reply"]
    /\ UNCHANGED <<req, login, latest, flushVars, history>>

\* Nothing is stored: already unlocked online, already queued, or the write
\* failed (500 award_queue_failed).
StoreNothing(w) ==
    /\ pc[w] = "append"
    /\ awardLock' = Nobody
    /\ tail' = [tail EXCEPT ![w] = Genesis]
    /\ Answer(w)
    /\ UNCHANGED <<durable, flushVars, history>>

\* The client reads "queued_offline" for the row w has committed.
Acknowledge(w) ==
    /\ pc[w] = "reply"
    /\ acked' = acked \cup {tail[w]}
    /\ tail' = [tail EXCEPT ![w] = Genesis]
    /\ Answer(w)
    /\ UNCHANGED <<awardLock, durable, flushVars, sent, disowned>>

Worker(w) ==
    \/ Receive(w) \/ Refuse(w) \/ CheckAccount(w)
    \/ LockQueue(w) \/ InsertRow(w) \/ StoreNothing(w) \/ Acknowledge(w)

-----------------------------------------------------------------------------
(* Sign-ins and the credentials a flush may use.                           *)

\* An online sign-in as u is learned: one login row per user, updated in
\* place.  The account named in the stored answer is normally u; it is not
\* when the site answers for a renamed account.
SignIn(u, account) ==
    /\ login' = [login EXCEPT ![u] = account]
    /\ latest' = account
    /\ UNCHANGED <<rows, nextId, workerVars, flushVars, history>>

\* Mutant of LoginFor: the row cached under u, whoever it names.
LoginUnderName(u) == login[u]

\* load_login_credentials_for: u's own row, if it names u; else nothing.
LoginFor(u) == IF login[u] = u THEN u ELSE NoUser

\* Mutant of Resolve: whoever signed in last, whatever the queue holds.
ResolveLatest(S) == latest

\* resolve_leaf_credentials over a flush's pending rows.
Resolve(S) ==
    LET owners == {rows[i].user : i \in S} \ {NoUser} IN
    IF owners = {} THEN latest
    ELSE IF \E u \in owners : owners = {u}
         THEN LoginFor(CHOOSE u \in owners : TRUE)
         ELSE NoUser

-----------------------------------------------------------------------------
(* Flushing.                                                               *)

\* Mutant of FlushStart: it does not wait for flush_lock.
FlushStartUnlocked(f) ==
    /\ fpc[f] = "idle"
    /\ flushLock' = f
    /\ todo' = [todo EXCEPT ![f] = Pending]
    /\ fpc' = [fpc EXCEPT ![f] = "resolve"]
    /\ UNCHANGED <<creds, durable, workerVars, history>>

\* flush_pending_awards: one flush at a time, over one read of the table.
FlushStart(f) ==
    /\ fpc[f] = "idle"
    /\ flushLock = Nobody
    /\ flushLock' = f
    /\ todo' = [todo EXCEPT ![f] = Pending]
    /\ fpc' = [fpc EXCEPT ![f] = "resolve"]
    /\ UNCHANGED <<creds, durable, workerVars, history>>

FlushDone(f) ==
    /\ flushLock' = Nobody
    /\ todo' = [todo EXCEPT ![f] = {}]
    /\ creds' = [creds EXCEPT ![f] = NoUser]
    /\ fpc' = [fpc EXCEPT ![f] = "idle"]

FlushResolve(f) ==
    /\ fpc[f] = "resolve"
    /\ Resolve(todo[f]) # NoUser
    /\ creds' = [creds EXCEPT ![f] = Resolve(todo[f])]
    /\ fpc' = [fpc EXCEPT ![f] = "send"]
    /\ UNCHANGED <<flushLock, todo, durable, workerVars, history>>

\* No credentials: nothing is sent and every row stays pending.
FlushDefer(f) ==
    /\ fpc[f] = "resolve"
    /\ Resolve(todo[f]) = NoUser
    /\ FlushDone(f)
    /\ UNCHANGED <<durable, workerVars, history>>

\* The rows of the snapshot still to send, oldest first.
NextToSend(f, i) == i \in todo[f] /\ \A j \in todo[f] : i <= j

Post(f, i) ==
    sent' = sent \cup {[id |-> i, owner |-> rows[i].user, account |-> creds[f]]}

SendAccepted(f, i) ==
    /\ fpc[f] = "send"
    /\ NextToSend(f, i)
    /\ Post(f, i)
    /\ rows' = Mark(i, "flushed")
    /\ todo' = [todo EXCEPT ![f] = @ \ {i}]
    /\ UNCHANGED <<nextId, login, latest, workerVars, flushLock, fpc, creds,
                   acked, disowned>>

\* The site credits the award but its answer is lost: the row stays pending
\* and a later flush sends it again.
SendUnanswered(f, i) ==
    /\ fpc[f] = "send"
    /\ NextToSend(f, i)
    /\ Post(f, i)
    /\ todo' = [todo EXCEPT ![f] = @ \ {i}]
    /\ UNCHANGED <<durable, workerVars, flushLock, fpc, creds, acked, disowned>>

\* The post never arrives or is refused; the row is retried later.
SendFailed(f, i) ==
    /\ fpc[f] = "send"
    /\ NextToSend(f, i)
    /\ todo' = [todo EXCEPT ![f] = @ \ {i}]
    /\ UNCHANGED <<durable, workerVars, flushLock, fpc, creds, history>>

\* The refreshed achievement list does not hold this achievement any more.
SkipStale(f, i) ==
    /\ fpc[f] = "send"
    /\ NextToSend(f, i)
    /\ rows' = Mark(i, "stale")
    /\ disowned' = disowned \cup {i}
    /\ todo' = [todo EXCEPT ![f] = @ \ {i}]
    /\ UNCHANGED <<nextId, login, latest, workerVars, flushLock, fpc, creds,
                   acked, sent>>

\* The flush ends, early when the site stops answering, with the sweep.
FlushSweep(f) ==
    /\ fpc[f] = "send"
    /\ rows' = SweepRows
    /\ FlushDone(f)
    /\ UNCHANGED <<nextId, login, latest, workerVars, history>>

Flusher(f) ==
    \/ FlushStart(f) \/ FlushResolve(f) \/ FlushDefer(f) \/ FlushSweep(f)
    \/ \E i \in DOMAIN rows :
         \/ SendAccepted(f, i) \/ SendUnanswered(f, i)
         \/ SendFailed(f, i) \/ SkipStale(f, i)

-----------------------------------------------------------------------------
(* The process dies at any point and the supervisor starts it again over   *)
(* the same database.                                                      *)
Crash ==
    /\ pc' = [w \in Workers |-> "idle"]
    /\ req' = [w \in Workers |-> NoRequest]
    /\ tail' = [w \in Workers |-> Genesis]
    /\ awardLock' = Nobody
    /\ flushLock' = Nobody
    /\ fpc' = [f \in Flushers |-> "idle"]
    /\ todo' = [f \in Flushers |-> {}]
    /\ creds' = [f \in Flushers |-> NoUser]
    /\ UNCHANGED <<durable, history>>

Init ==
    /\ rows = [i \in {} |-> Genesis]
    /\ nextId = 1
    /\ login = [u \in Users |-> NoUser]
    /\ latest = NoUser
    /\ pc = [w \in Workers |-> "idle"]
    /\ req = [w \in Workers |-> NoRequest]
    /\ tail = [w \in Workers |-> Genesis]
    /\ awardLock = Nobody
    /\ flushLock = Nobody
    /\ fpc = [f \in Flushers |-> "idle"]
    /\ todo = [f \in Flushers |-> {}]
    /\ creds = [f \in Flushers |-> NoUser]
    /\ acked = {}
    /\ sent = {}
    /\ disowned = {}

Next ==
    \/ \E w \in Workers : Worker(w)
    \/ \E s \in SignIns : SignIn(s[1], s[2])
    \/ \E f \in Flushers : Flusher(f)
    \/ Crash

Spec == Init /\ [][Next]_vars

-----------------------------------------------------------------------------
(* Properties.                                                             *)

\* No award is ever posted with another account's token, whatever the order
\* of sign-ins, account switches, races into the queue and crashes
\* (flusher.py: "never with another account's token").
OwnTokenOnly ==
    \A s \in sent : s.owner # NoUser => s.account = s.owner

\* An award the client was told is queued is never lost: until the site has
\* been handed it or has disowned its achievement, its row is pending.
AckedNotLost ==
    \A i \in acked :
        \/ i \in Pending
        \/ i \in disowned
        \/ \E s \in sent : s.id = i

\* The hash chain never forks: two rows of the table never chain to the same
\* row, although several workers append (queue_award's lock spans its read of
\* the tail and its insert).
ChainNeverForks ==
    \A i, j \in DOMAIN rows : i # j => rows[i].prev # rows[j].prev

\* While a flush is under way the rows it still has to send are pending: no
\* other flush sends them meanwhile, and no sweep removes them.
FlushOwnsItsRows ==
    \A f \in Flushers : todo[f] \subseteq Pending

\* What the account guard achieves with concurrent workers: a queue of at
\* most one owner per worker, counting the owners already past the guard.
PastGuard == {w \in Workers : pc[w] \in {"queue", "append"}}
Admitted == {req[w].user : w \in PastGuard} \ {NoUser}
OwnersBoundedByWorkers ==
    Cardinality(PendingOwners \cup Admitted) <= Cardinality(Workers)

\* "Durable state is single-account while awards are pending"
\* (proxy_service.py, pending_award_account_mismatch).
SingleAccount == Cardinality(PendingOwners) <= 1

-----------------------------------------------------------------------------
(* The inductive invariant behind these properties.                        *)

\* A worker past Receive has a request.
Busy == \A w \in Workers : pc[w] # "idle" => req[w] \in Requests

\* The chain tail a worker has read stays at or after every row until it
\* inserts, because it holds the lock.
TailIsLast ==
    \A w \in Workers : pc[w] = "append" =>
        /\ awardLock = w
        /\ tail[w] < nextId
        /\ \A i \in DOMAIN rows : i <= tail[w]

\* A row chains to an older row, and to none older than its predecessor.
ChainOrdered ==
    /\ \A i \in DOMAIN rows : rows[i].prev < i
    /\ \A i, j \in DOMAIN rows : i < j => i <= rows[j].prev

\* Whatever was inserted is pending, sent or disowned.
Kept(i) == i \in Pending \/ i \in disowned \/ \E s \in sent : s.id = i
EveryRowKept ==
    /\ \A i \in 1..(nextId - 1) : Kept(i)
    /\ acked \subseteq 1..(nextId - 1)
    /\ \A w \in Workers : pc[w] = "reply" => tail[w] \in 1..(nextId - 1)

\* Only the holder of flush_lock has a snapshot, and past the credentials
\* step its rows belong to the account whose token it sends with.
FlushIsExclusive ==
    \A f \in Flushers :
        /\ fpc[f] = "idle" => todo[f] = {}
        /\ fpc[f] # "idle" => flushLock = f
FlushIsOneAccounts ==
    \A f \in Flushers : fpc[f] = "send" =>
        /\ creds[f] \in Users
        /\ \A i \in todo[f] : rows[i].user \in {NoUser, creds[f]}

IInv ==
    /\ TypeOK
    /\ Busy
    /\ TailIsLast
    /\ ChainOrdered
    /\ EveryRowKept
    /\ FlushIsExclusive
    /\ FlushOwnsItsRows
    /\ FlushIsOneAccounts
    /\ OwnTokenOnly

-----------------------------------------------------------------------------
(* The queue implements the ledger.                                        *)
Ledger == INSTANCE AwardLedger WITH
    next <- nextId,
    pending <- [i \in Pending |-> rows[i].user],
    credits <- sent
\* Every step of the queue is a step of the ledger or leaves it unchanged:
\* a crash, a sign-in, a deferred flush or a sweep never touches a promise.
ImplementsLedger == Ledger!Spec
=============================================================================
