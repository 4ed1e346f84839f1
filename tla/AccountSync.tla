---------------------------- MODULE AccountSync ----------------------------
(***************************************************************************)
(* The account state of the trainer: what a browser keeps locally, what    *)
(* the server keeps per account, and how the two are reconciled and        *)
(* synchronised (src/src/persistence: PersistenceService, AuthManager,     *)
(* SyncEngine, IdbfsStore, Migrator, and the Auth0 and Supabase backends). *)
(*                                                                         *)
(* A device is one browser profile.  Every call below is synchronous in    *)
(* the code (blocking XMLHttpRequest on the single wasm thread), so one    *)
(* call is one action; what can come between two calls is the other        *)
(* devices, the page being closed, and the asynchronous IndexedDB flush.   *)
(*                                                                         *)
(* AppState is abstracted to the account it is linked to, a wallet (what   *)
(* the guest migration uploads), whether the music rotation has a track    *)
(* (which the migration leaves out and a session start repairs) and one    *)
(* monotonic tutorial latch (which it leaves out too).                     *)
(***************************************************************************)
EXTENDS Naturals, Sequences

CONSTANTS
  Devices,      \* browser profiles
  Users,        \* Auth0 account ids ("sub")
  Nobody,       \* the guest's account id; also "no token", "no session"
  Wallets,      \* wallet contents
  EmptyWallet,  \* the wallet of a fresh profile
  NoRow,        \* the server holds no state for an account
  Rotations,    \* bound: what edits leave the rotation as (TRUE: it has a track)
  MaxFailures,  \* bound: failures the retry schedule tells apart, 4 in the code
  MaxQueue      \* bound: writes queued while in backoff

Row == [wallet : Wallets, rotation : BOOLEAN, done : BOOLEAN]

ASSUME AccountAssumption ==
  /\ Nobody \notin Users
  /\ EmptyWallet \in Wallets
  /\ NoRow \notin Row
  /\ Rotations \subseteq BOOLEAN
  /\ MaxFailures \in 1 .. 4
  /\ MaxQueue \in Nat \ {0}

VARIABLES
  store,     \* store[d]: IdbfsStore::state_, equal to the MEMFS file it is written through to
  durable,   \* durable[d]: the same file in IndexedDB, behind the asynchronous flush
  token,     \* token[d]: the refresh token in localStorage
  bearer,    \* bearer[d]: the account whose id_token the page holds in memory
  engine,    \* engine[d]: the SyncEngine and the sync_state primitive it owns
  row,       \* row[u]: the account_state row of account u on the server
  baseline,  \* history: the account whose row device d has reconciled with in
             \* its current session, Nobody before that
  missed     \* history: the account whose row the last step, a session start that
             \* did not find it, replaced by the seed; Nobody after any other step

vars == <<store, durable, token, bearer, engine, row, baseline, missed>>

AppState == [user : Users \cup {Nobody}, wallet : Wallets, rotation : BOOLEAN, done : BOOLEAN]

\* What load_state and wipe fall back to.
FreshState == [user |-> Nobody, wallet |-> EmptyWallet, rotation |-> FALSE, done |-> FALSE]

----------------------------------------------------------------------------
(* SyncEngine.  SyncInProgress lives only inside a call and is not a state. *)

\* Faulty variants, named ...Bug, stand before the definition they spoil; no
\* specification uses them.  This one doubles the last step instead of staying
\* at a minute.
BackoffDelayBug(failures) ==
  CASE failures = 0 -> 0
    [] failures = 1 -> 1
    [] failures = 2 -> 3
    [] failures = 3 -> 6
    [] OTHER -> 24

\* The retry schedule in units of five seconds: 5s, 15s, 30s, 60s.
BackoffDelay(failures) ==
  CASE failures = 0 -> 0
    [] failures = 1 -> 1
    [] failures = 2 -> 3
    [] failures = 3 -> 6
    [] OTHER -> 12

Engine == [gate : BOOLEAN, pending : Seq(AppState),
           status : {"Idle", "SyncOk", "SyncFailing"},
           failures : 0 .. MaxFailures, retryIn : 0 .. 12]

\* A new engine, and what reset_session_gate leaves behind.
ClosedEngine == [gate |-> FALSE, pending |-> <<>>, status |-> "Idle",
                 failures |-> 0, retryIn |-> 0]

MarkSuccess(e) == [gate |-> e.gate, pending |-> e.pending, status |-> "SyncOk",
                   failures |-> 0, retryIn |-> 0]

MarkFailure(e) ==
  LET n == IF e.failures < MaxFailures THEN e.failures + 1 ELSE MaxFailures
  IN  [gate |-> e.gate, pending |-> e.pending, status |-> "SyncFailing",
       failures |-> n, retryIn |-> BackoffDelay(n)]

NoteSessionReconciled(e) == MarkSuccess([e EXCEPT !.gate = TRUE])

\* Faulty: the failed session start is not noted, the status stays Idle.
NoteSessionReconcileFailedBug(e) == e

\* Faulty: the gate opens whether or not the reconcile succeeded.
NoteSessionReconcileFailedOpenBug(e) == [MarkFailure(e) EXCEPT !.gate = TRUE]

NoteSessionReconcileFailed(e) == MarkFailure(e)

Newest(queue) == queue[Len(queue)]

RowOf(s) == [wallet |-> s.wallet, rotation |-> s.rotation, done |-> s.done]

\* The replies to an upsert of row x for account u by a page whose id_token is
\* b's.  Row-level security lets a request write only the row of the account
\* whose id_token it carries; a reply can be lost after the row was written.
Upsert(b, u, x, r) ==
  LET written == [r EXCEPT ![u] = x]
  IN  {[ok |-> FALSE, row |-> r]} \cup
      (IF b = u THEN {[ok |-> TRUE, row |-> written], [ok |-> FALSE, row |-> written]} ELSE {})

\* SyncEngine::attempt_sync with queue e.pending for account u: the newest
\* snapshot stands for the whole batch.
AttemptSync(b, u, e, r) ==
  {[engine |-> IF reply.ok THEN MarkSuccess([e EXCEPT !.pending = <<>>]) ELSE MarkFailure(e),
    row |-> reply.row] : reply \in Upsert(b, u, RowOf(Newest(e.pending)), r)}

\* Faulty: a snapshot is not queued behind one that waits already.
RecordStateChangeDropBug(b, s, e, r) ==
  LET queued == [e EXCEPT !.pending = Append(e.pending, s)]
  IN  IF ~e.gate \/ e.pending # <<>> THEN {[engine |-> e, row |-> r]}
      ELSE AttemptSync(b, s.user, queued, r)

\* SyncEngine::record_state_change: nothing before the gate opens, the queue
\* alone while a retry is scheduled, an attempt otherwise.
RecordStateChange(b, s, e, r) ==
  LET queued == [e EXCEPT !.pending = Append(e.pending, s)]
  IN  IF ~e.gate THEN {[engine |-> e, row |-> r]}
      ELSE IF e.status = "SyncFailing" THEN {[engine |-> queued, row |-> r]}
      ELSE AttemptSync(b, s.user, queued, r)

\* PersistenceService::sync_local_state, behind every local write of s.
SyncLocalState(b, s, e, r) ==
  IF s.user = Nobody THEN {[engine |-> e, row |-> r]} ELSE RecordStateChange(b, s, e, r)

----------------------------------------------------------------------------
(* AuthManager and Migrator. *)

\* Faulty: the server's latch replaces the local one.
AdoptServerStateBug(s, r, keepLatch) ==
  [user |-> s.user, wallet |-> r.wallet, rotation |-> r.rotation, done |-> r.done]

\* IdbfsStore::adopt_server_state: the server wins except for the identity
\* and, for the same user, the monotonic latch.
AdoptServerState(s, r, keepLatch) ==
  [user |-> s.user, wallet |-> r.wallet, rotation |-> r.rotation,
   done |-> r.done \/ (keepLatch /\ s.done)]

\* Migrator: the initial row holds the wallet and leaves the rest at defaults.
SeedOf(s) == [wallet |-> s.wallet, rotation |-> FALSE, done |-> FALSE]

\* What PostgREST selects for a page with the id_token of b: row-level security
\* hides every row but its own.
Selected(b, u, r) == IF b = u THEN r[u] ELSE NoRow

\* parse_fetch_response: the request fails (offline, refused, or a blob that
\* does not decode), or it is answered with the row.  A 2xx answer in which no
\* blob can be found is "NotFound": the empty result of an account without a
\* row, and as well a row whose blob field is missing, null or cut off.
Fetched(b, u, r) ==
  {"Failed", "NotFound"} \cup (IF Selected(b, u, r) = NoRow THEN {} ELSE {"Found"})

\* AuthManager::reconcile_account for the local state s, by a page with the
\* id_token of b, on engine e and rows r.  Found: adopt the row.  NotFound:
\* upload the seed, whose reply can be lost.  Failed: keep the local state.
ReconcileAccount(b, s, keepLatch, e, r) ==
  LET u == s.user
      Reseeded(rows) == IF r[u] # NoRow /\ rows # r THEN u ELSE Nobody
      Opened(local, rows) ==
        [store |-> local, engine |-> NoteSessionReconciled(e), row |-> rows,
         baseline |-> u, missed |-> Reseeded(rows)]
      Failed(rows) ==
        [store |-> s, engine |-> NoteSessionReconcileFailed(e), row |-> rows,
         baseline |-> Nobody, missed |-> Reseeded(rows)]
      Migrated ==
        {IF reply.ok THEN Opened(s, reply.row) ELSE Failed(reply.row) :
           reply \in Upsert(b, u, SeedOf(s), r)}
      After(fetch) ==
        CASE fetch = "Found"    -> {Opened(AdoptServerState(s, r[u], keepLatch), r)}
          [] fetch = "NotFound" -> Migrated
          [] fetch = "Failed"   -> {Failed(r)}
  IN  UNION {After(fetch) : fetch \in Fetched(b, u, r)}

\* AuthManager::establish_session for account u over the local state s.
EstablishSession(u, s, e, r) ==
  ReconcileAccount(u, [s EXCEPT !.user = u], s.user = u, e, r)

\* boot.cpp, after every session start: an empty rotation gets the starter
\* tracks back, and that is saved and synchronised like any other change.
RestoreRotation(b, o) ==
  IF o.store.rotation THEN {o}
  ELSE LET s == [o.store EXCEPT !.rotation = TRUE]
       IN  {[store |-> s, engine |-> p.engine, row |-> p.row, baseline |-> o.baseline,
             missed |-> o.missed] :
              p \in SyncLocalState(b, s, o.engine, o.row)}

----------------------------------------------------------------------------
(* The calls of PersistenceService, as the page makes them. *)

\* The outcome o of a session start on device d.
Resume(d, o) ==
  /\ store' = [store EXCEPT ![d] = o.store]
  /\ engine' = [engine EXCEPT ![d] = o.engine]
  /\ row' = o.row
  /\ baseline' = [baseline EXCEPT ![d] = o.baseline]
  /\ missed' = o.missed

\* deserialize_app_state, by what it finds in the file: a missing magic number,
\* a checksum that does not match or a body that does not parse make a blob
\* corrupt, another version makes it unsupported.
ParseResults == {"Ok", "Corrupt", "Unsupported"}

\* IdbfsStore::load_state: only a blob that parses is taken; no blob and a bad
\* one read as a fresh profile.
LoadedAs(result, s) == IF result = "Ok" THEN s ELSE FreshState

Loadable(d) == {LoadedAs(result, durable[d]) : result \in ParseResults}

\* Faulty: the reconcile of a persisted account is left to the retry loop.
BootOutcomesBug(b, loaded) ==
  IF b # Nobody THEN EstablishSession(b, loaded, ClosedEngine, row)
  ELSE {[store |-> loaded, engine |-> ClosedEngine, row |-> row,
         baseline |-> Nobody, missed |-> Nobody]}

\* What finish_boot_after_persistence comes to with the loaded state: the
\* silent refresh signed b in, or it failed and the reconcile of a persisted
\* account is kicked.
BootOutcomes(b, loaded) ==
  IF b # Nobody THEN EstablishSession(b, loaded, ClosedEngine, row)
  ELSE IF loaded.user # Nobody THEN ReconcileAccount(Nobody, loaded, TRUE, ClosedEngine, row)
  ELSE {[store |-> loaded, engine |-> ClosedEngine, row |-> row,
         baseline |-> Nobody, missed |-> Nobody]}

\* A token response becomes the live session, and its refresh token the durable
\* one.
StashSession(d, u) ==
  /\ bearer' = [bearer EXCEPT ![d] = u]
  /\ token' = [token EXCEPT ![d] = u]

\* The live session and the durable refresh token go.
ClearSession(d) == StashSession(d, Nobody)

\* The silent refresh makes the page b's: the token is redeemed (a guest has
\* none), or the refresh fails and the token is dropped (4xx) or kept (offline).
Redeem(d, b) ==
  \/ b = token[d] /\ StashSession(d, b)
  \/ /\ b = Nobody /\ b # token[d]
     /\ bearer' = [bearer EXCEPT ![d] = Nobody]
     /\ token' \in {token, [token EXCEPT ![d] = Nobody]}

\* The page is opened, or closed and opened again: what was in memory is gone.
Boot(d) ==
  \E loaded \in Loadable(d), b \in {token[d], Nobody} :
    /\ Redeem(d, b)
    /\ durable' = [durable EXCEPT ![d] = loaded]
    /\ \E o \in BootOutcomes(b, loaded) : \E p \in RestoreRotation(b, o) : Resume(d, p)

\* FS.syncfs completes: the MEMFS file becomes durable.
Flush(d) ==
  /\ durable[d] # store[d]
  /\ durable' = [durable EXCEPT ![d] = store[d]]
  /\ missed' = Nobody
  /\ UNCHANGED <<store, token, bearer, engine, row, baseline>>

\* sign_in or sign_up accepted by Auth0; the forms are reachable only by a
\* guest.  A refused one changes nothing.
SignIn(d, u) ==
  /\ store[d].user = Nobody
  /\ StashSession(d, u)
  /\ \E o \in EstablishSession(u, store[d], engine[d], row) :
       \E p \in RestoreRotation(u, o) : Resume(d, p)
  /\ UNCHANGED durable

\* Faulty: the queue outlives the session.
DropSessionQueueBug(d) ==
  /\ ClearSession(d)
  /\ engine' = [engine EXCEPT ![d] = [ClosedEngine EXCEPT !.pending = @ \o engine[d].pending]]
  /\ baseline' = [baseline EXCEPT ![d] = Nobody]
  /\ missed' = Nobody

\* Faulty: the gate stays open for the next account.
DropSessionGateBug(d) ==
  /\ ClearSession(d)
  /\ engine' = [engine EXCEPT ![d] = [ClosedEngine EXCEPT !.gate = engine[d].gate]]
  /\ baseline' = [baseline EXCEPT ![d] = Nobody]
  /\ missed' = Nobody

\* The session, the queue and the gate go, in memory and in localStorage.
DropSession(d) ==
  /\ ClearSession(d)
  /\ engine' = [engine EXCEPT ![d] = ClosedEngine]
  /\ baseline' = [baseline EXCEPT ![d] = Nobody]
  /\ missed' = Nobody

\* sign_out: the state stays as the guest's, only the linkage goes.
SignOut(d) ==
  /\ store[d].user # Nobody
  /\ store' = [store EXCEPT ![d].user = Nobody]
  /\ DropSession(d)
  /\ UNCHANGED <<durable, row>>

\* What a DELETE of u's row comes to; whether it did is not looked at.
Erased(b, u, r) == {r} \cup (IF b = u THEN {[r EXCEPT ![u] = NoRow]} ELSE {})

\* delete_account: the server row goes on a best-effort basis, while the
\* session is live; the local state always.
DeleteAccount(d) ==
  /\ store[d].user # Nobody
  /\ row' \in Erased(bearer[d], store[d].user, row)
  /\ store' = [store EXCEPT ![d] = FreshState]
  /\ DropSession(d)
  /\ UNCHANGED durable

\* save_state and the latch setters: write through to IDBFS, then sync.
SaveAndSync(d, s) ==
  /\ Len(engine[d].pending) < MaxQueue   \* bound
  /\ store' = [store EXCEPT ![d] = s]
  /\ \E p \in SyncLocalState(bearer[d], s, engine[d], row) :
       /\ engine' = [engine EXCEPT ![d] = p.engine]
       /\ row' = p.row
  /\ missed' = Nobody
  /\ UNCHANGED <<durable, token, bearer, baseline>>

\* An award, a purchase, a reset or an edit of the rotation.
SaveState(d, w, hasTracks) ==
  SaveAndSync(d, [store[d] EXCEPT !.wallet = w, !.rotation = hasTracks])

MarkTutorialCompleted(d) == SaveAndSync(d, [store[d] EXCEPT !.done = TRUE])

\* pump_sync, once per frame.  Before the gate opens it retries the reconcile.
PumpReconcile(d) ==
  /\ store[d].user # Nobody /\ ~engine[d].gate
  /\ engine[d].status = "SyncFailing" /\ engine[d].retryIn = 0
  /\ \E o \in ReconcileAccount(bearer[d], store[d], TRUE, engine[d], row) : Resume(d, o)
  /\ UNCHANGED <<durable, token, bearer>>

\* Faulty: the queue is retried only while nothing fails.
PumpQueueBug(d) ==
  /\ store[d].user # Nobody /\ engine[d].gate
  /\ engine[d].status # "SyncFailing" /\ engine[d].pending # <<>>
  /\ \E p \in AttemptSync(bearer[d], store[d].user, engine[d], row) :
       /\ engine' = [engine EXCEPT ![d] = p.engine]
       /\ row' = p.row
  /\ missed' = Nobody
  /\ UNCHANGED <<store, durable, token, bearer, baseline>>

\* After that it retries the queue.
PumpQueue(d) ==
  /\ store[d].user # Nobody /\ engine[d].gate
  /\ engine[d].status = "SyncFailing" /\ engine[d].retryIn = 0
  /\ engine[d].pending # <<>>
  /\ \E p \in AttemptSync(bearer[d], store[d].user, engine[d], row) :
       /\ engine' = [engine EXCEPT ![d] = p.engine]
       /\ row' = p.row
  /\ missed' = Nobody
  /\ UNCHANGED <<store, durable, token, bearer, baseline>>

Pump(d) == PumpReconcile(d) \/ PumpQueue(d)

\* The wait is over on the steady clock of d; nothing reads how much of it is left.
Tick(d) ==
  /\ engine[d].retryIn > 0
  /\ engine' = [engine EXCEPT ![d].retryIn = 0]
  /\ missed' = Nobody
  /\ UNCHANGED <<store, durable, token, bearer, row, baseline>>

\* The id_token runs out.  A page redeems its refresh token only when it boots,
\* so the server refuses its requests from here on.
Expire(d) ==
  /\ bearer[d] # Nobody
  /\ bearer' = [bearer EXCEPT ![d] = Nobody]
  /\ missed' = Nobody
  /\ UNCHANGED <<store, durable, token, engine, row, baseline>>

----------------------------------------------------------------------------
\* Every device has just been opened for the first time; an account may have a
\* row already.
Init ==
  /\ store = [d \in Devices |-> [FreshState EXCEPT !.rotation = TRUE]]
  /\ durable = [d \in Devices |-> FreshState]
  /\ token = [d \in Devices |-> Nobody]
  /\ bearer = [d \in Devices |-> Nobody]
  /\ engine = [d \in Devices |-> ClosedEngine]
  /\ row \in [Users -> Row \cup {NoRow}]
  /\ baseline = [d \in Devices |-> Nobody]
  /\ missed = Nobody

\* Everything that can happen on or to d but the end of the tutorial.
PageStep(d) ==
  \/ Boot(d)
  \/ Flush(d)
  \/ \E u \in Users : SignIn(d, u)
  \/ SignOut(d)
  \/ DeleteAccount(d)
  \/ \E w \in Wallets, hasTracks \in Rotations : SaveState(d, w, hasTracks)
  \/ Pump(d)
  \/ Tick(d)
  \/ Expire(d)

Next == \E d \in Devices : PageStep(d) \/ MarkTutorialCompleted(d)

Spec == Init /\ [][Next]_vars

\* The frame loop runs pump_sync every frame and the clock advances.  The
\* server is assumed to answer, in the end, a request that is retried for ever.
PumpAnswered(d) == Pump(d) /\ engine'[d].status = "SyncOk"

Fairness ==
  \A d \in Devices :
    /\ WF_vars(Tick(d))
    /\ WF_vars(Pump(d))
    /\ SF_vars(PumpAnswered(d))

FairSpec == Spec /\ Fairness

----------------------------------------------------------------------------
(* Properties. *)

\* Every variable stays in its type; the failure count stays within the
\* retry schedule.
TypeOK ==
  /\ store \in [Devices -> AppState]
  /\ durable \in [Devices -> AppState]
  /\ token \in [Devices -> Users \cup {Nobody}]
  /\ bearer \in [Devices -> Users \cup {Nobody}]
  /\ engine \in [Devices -> Engine]
  /\ row \in [Users -> Row \cup {NoRow}]
  /\ baseline \in [Devices -> Users \cup {Nobody}]
  /\ missed \in Users \cup {Nobody}

\* The push gate of SyncEngine is open only in a session that has reconciled
\* with the very account the local state is linked to.
GateMeansReconciled ==
  \A d \in Devices :
    engine[d].gate => store[d].user # Nobody /\ baseline[d] = store[d].user

\* A snapshot waiting to be pushed belongs to the account signed in now: a
\* sign-out, a deletion or a reload hands none to the next account.
QueueBelongsToAccount ==
  \A d \in Devices : \A i \in 1 .. Len(engine[d].pending) :
    engine[d].pending[i].user = store[d].user /\ store[d].user # Nobody

\* The offline indicator (sync_state) is on exactly when a signed-in page has
\* something the server may not have: no reconcile yet, or queued writes.
IndicatorTruthful ==
  \A d \in Devices :
    engine[d].status = "SyncFailing" <=>
      store[d].user # Nobody /\ (~engine[d].gate \/ engine[d].pending # <<>>)

\* push() sends the newest snapshot of the queue for the whole batch; that is
\* right only as long as the newest snapshot is the current local state.
NewestQueuedIsLocal ==
  \A d \in Devices :
    LET queue == engine[d].pending
    IN  queue # <<>> => queue[Len(queue)] = store[d]

\* The tutorial latch of a signed-in user never goes from true to false while
\* that user stays: not by a reconcile with an older row, nor across a reload
\* that could read the local file.
LatchKept(d) ==
  LET Lost(before) == /\ before.done /\ before.user # Nobody
                      /\ store'[d].user = before.user /\ ~store'[d].done
  IN  /\ Lost(store[d]) => Boot(d)
      /\ Lost(durable'[d]) => ~Boot(d)

LatchMonotone == [][\A d \in Devices : LatchKept(d)]_vars

\* What the devices do to the server is what AuthoritativeRow promises.
Server ==
  INSTANCE AuthoritativeRow WITH
    Devices <- Devices, Users <- Users, Nobody <- Nobody, Row <- Row, NoRow <- NoRow,
    row <- row, baseline <- baseline, missed <- missed
Authoritative == Server!Spec

\* From some point on the page is not reloaded and its id_token lives.
StaysOpen == <>[][\A d \in Devices : ~Boot(d) /\ ~Expire(d)]_vars

\* Queued writes reach the server, as long as the page is left open with a
\* live id_token.
QueueDrains ==
  StaysOpen => \A d \in Devices :
    engine[d].pending # <<>> /\ bearer[d] # Nobody ~> engine[d].pending = <<>> \/ bearer[d] = Nobody

\* A session whose start failed reconciles in the end, under the same
\* conditions, unless the user leaves it.
SessionReconciles ==
  StaysOpen => \A d \in Devices :
    store[d].user # Nobody /\ bearer[d] # Nobody ~> engine[d].gate \/ bearer[d] = Nobody
============================================================================
