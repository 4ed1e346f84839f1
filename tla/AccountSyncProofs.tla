------------------------- MODULE AccountSyncProofs -------------------------
(***************************************************************************)
(* Proofs about AccountSync, for any number of devices and accounts.       *)
(*                                                                         *)
(* The inductive invariant says device by device how the local state, the  *)
(* engine and the reconciled account belong together.  The lemmas follow   *)
(* the call graph: what an attempt, a local write, a reconcile and the     *)
(* repair of the rotation return keeps that relation.  The second part is  *)
(* the refinement of AuthoritativeRow.                                     *)
(***************************************************************************)
EXTENDS AccountSync, TLAPS

Rows == [Users -> Row \cup {NoRow}]

\* The local state s, the engine e and the reconciled account b of one device.
Consistent(s, e, b) ==
  /\ s.user = Nobody => ~e.gate /\ e.status # "SyncFailing"
  /\ ~e.gate => e.pending = <<>> /\ b = Nobody
  /\ e.gate => b = s.user
  /\ e.status = "SyncFailing" <=> s.user # Nobody /\ (~e.gate \/ e.pending # <<>>)
  /\ \A i \in 1 .. Len(e.pending) : e.pending[i].user = s.user
  /\ e.pending # <<>> => e.pending[Len(e.pending)] = s

Inv == TypeOK /\ \A d \in Devices : Consistent(store[d], engine[d], baseline[d])

----------------------------------------------------------------------------
(* The engine. *)

\* The retry schedule ends at a minute.
LEMMA BackoffBound ==
  ASSUME NEW n \in Nat
  PROVE  BackoffDelay(n) \in 0 .. 12
<1>1. CASE n = 0
  BY <1>1 DEF BackoffDelay
<1>2. CASE n = 1
  BY <1>2 DEF BackoffDelay
<1>3. CASE n = 2
  BY <1>3 DEF BackoffDelay
<1>4. CASE n = 3
  BY <1>4 DEF BackoffDelay
<1>5. CASE n \notin {0, 1, 2, 3}
  BY <1>5 DEF BackoffDelay
<1>. QED
  BY <1>1, <1>2, <1>3, <1>4, <1>5

\* A success and a failure stay in the type of the engine and touch neither
\* its gate nor its queue.
LEMMA MarkType ==
  ASSUME NEW e \in Engine
  PROVE  /\ MarkSuccess(e) \in Engine
         /\ MarkSuccess(e).gate = e.gate /\ MarkSuccess(e).pending = e.pending
         /\ MarkSuccess(e).status = "SyncOk"
         /\ MarkFailure(e) \in Engine
         /\ MarkFailure(e).gate = e.gate /\ MarkFailure(e).pending = e.pending
         /\ MarkFailure(e).status = "SyncFailing"
<1>1. MarkSuccess(e) = [gate |-> e.gate, pending |-> e.pending, status |-> "SyncOk",
                        failures |-> 0, retryIn |-> 0]
  BY DEF MarkSuccess, Engine
<1>. DEFINE n == IF e.failures < MaxFailures THEN e.failures + 1 ELSE MaxFailures
<1>2. MarkFailure(e) = [gate |-> e.gate, pending |-> e.pending, status |-> "SyncFailing",
                        failures |-> n, retryIn |-> BackoffDelay(n)]
  BY DEF MarkFailure
<1>3. n \in 0 .. MaxFailures /\ n \in Nat
  BY AccountAssumption DEF Engine
<1>4. BackoffDelay(n) \in 0 .. 12
  BY <1>3, BackoffBound
<1>. HIDE DEF n
<1>. QED
  BY <1>1, <1>2, <1>3, <1>4, AccountAssumption DEF Engine

\* The row written for a state, and the seed, are rows.
LEMMA RowType ==
  ASSUME NEW s \in AppState
  PROVE  RowOf(s) \in Row /\ SeedOf(s) \in Row
  BY DEF RowOf, SeedOf, AppState, Row

\* An attempt on an open gate with a queue that ends in s leaves the device
\* consistent: it clears the queue or keeps it and fails.
LEMMA AttemptConsistent ==
  ASSUME NEW b, NEW s \in AppState, NEW e \in Engine, NEW r \in Rows, s.user \in Users,
         e.gate, e.pending # <<>>, e.pending[Len(e.pending)] = s,
         \A i \in 1 .. Len(e.pending) : e.pending[i].user = s.user,
         NEW p \in AttemptSync(b, s.user, e, r)
  PROVE  p.engine \in Engine /\ p.row \in Rows /\ Consistent(s, p.engine, s.user)
<1>. DEFINE cleared == [e EXCEPT !.pending = <<>>]
            written == [r EXCEPT ![s.user] = RowOf(Newest(e.pending))]
<1>1. cleared \in Engine /\ cleared.gate /\ cleared.pending = <<>>
  <2>1. <<>> \in Seq(AppState)
    OBVIOUS
  <2>. QED
    BY <2>1 DEF Engine
<1>2. written \in Rows
  BY RowType DEF Newest, Rows
<1>3. \/ p.engine = MarkSuccess(cleared) /\ p.row = written
      \/ p.engine = MarkFailure(e) /\ p.row \in {r, written}
  BY DEF AttemptSync, Upsert
<1>4. s.user # Nobody
  BY AccountAssumption
<1>5. CASE p.engine = MarkSuccess(cleared) /\ p.row = written
  <2>1. /\ p.engine \in Engine /\ p.engine.gate /\ p.engine.pending = <<>>
        /\ p.engine.status = "SyncOk"
    <3>. HIDE DEF cleared
    <3>. QED
      BY <1>1, <1>5, MarkType
  <2>. QED
    BY <1>2, <1>4, <1>5, <2>1 DEF Consistent
<1>6. CASE p.engine = MarkFailure(e) /\ p.row \in {r, written}
  BY <1>2, <1>4, <1>6, MarkType DEF Consistent
<1>. QED
  BY <1>3, <1>5, <1>6

\* A local write of s over an older state of the same account keeps the
\* device consistent.
LEMMA SyncLocalConsistent ==
  ASSUME NEW b, NEW old \in AppState, NEW s \in AppState, s.user = old.user,
         NEW e \in Engine, NEW r \in Rows, NEW base, Consistent(old, e, base),
         NEW p \in SyncLocalState(b, s, e, r)
  PROVE  p.engine \in Engine /\ p.row \in Rows /\ Consistent(s, p.engine, base)
<1>1. CASE s.user = Nobody \/ ~e.gate
  <2>1. p.engine = e /\ p.row = r
    BY <1>1 DEF SyncLocalState, RecordStateChange
  <2>2. e.pending = <<>>
    BY <1>1 DEF Consistent
  <2>. QED
    BY <2>1, <2>2 DEF Consistent
<1>2. CASE s.user # Nobody /\ e.gate
  <2>. DEFINE queued == [e EXCEPT !.pending = Append(e.pending, s)]
  <2>1. queued \in Engine /\ queued.gate /\ queued.status = e.status
        /\ queued.pending = Append(e.pending, s)
    <3>1. e.pending \in Seq(AppState)
      BY DEF Engine
    <3>2. Append(e.pending, s) \in Seq(AppState)
      BY <3>1
    <3>. QED
      BY <1>2, <3>2 DEF Engine
  <2>2. e.pending \in Seq(AppState)
    BY DEF Engine
  <2>3. /\ queued.pending # <<>> /\ queued.pending[Len(queued.pending)] = s
        /\ \A i \in 1 .. Len(queued.pending) : queued.pending[i].user = s.user
    BY <2>1, <2>2 DEF Consistent
  <2>4. s.user \in Users /\ base = s.user
    BY <1>2 DEF Consistent, AppState
  <2>5. CASE e.status = "SyncFailing"
    <3>1. p.engine = queued /\ p.row = r
      BY <1>2, <2>5 DEF SyncLocalState, RecordStateChange
    <3>. QED
      BY <1>2, <2>1, <2>3, <2>4, <2>5, <3>1 DEF Consistent
  <2>6. CASE e.status # "SyncFailing"
    <3>1. p \in AttemptSync(b, s.user, queued, r)
      BY <1>2, <2>6 DEF SyncLocalState, RecordStateChange
    <3>. QED
      BY <2>1, <2>3, <2>4, <3>1, AttemptConsistent
  <2>. QED
    BY <2>5, <2>6
<1>. QED
  BY <1>1, <1>2

----------------------------------------------------------------------------
(* Session starts. *)

\* What a session start returns: well-typed, consistent, and with the local
\* state linked to the account that was asked for.
Started(o, u) ==
  /\ o.store \in AppState /\ o.engine \in Engine /\ o.row \in Rows
  /\ o.baseline \in Users \cup {Nobody} /\ o.missed \in Users \cup {Nobody}
  /\ o.store.user = u
  /\ Consistent(o.store, o.engine, o.baseline)

\* A reconcile on a closed gate with an empty queue starts a session of the
\* account of the local state.
LEMMA ReconcileStarts ==
  ASSUME NEW b, NEW s \in AppState, s.user \in Users, NEW keepLatch \in BOOLEAN,
         NEW e \in Engine, ~e.gate, e.pending = <<>>, NEW r \in Rows,
         NEW o \in ReconcileAccount(b, s, keepLatch, e, r)
  PROVE  Started(o, s.user)
<1>. DEFINE u == s.user
            seeded == [r EXCEPT ![u] = SeedOf(s)]
            adopted == AdoptServerState(s, r[u], keepLatch)
            opened == [e EXCEPT !.gate = TRUE]
<1>1. seeded \in Rows
  BY RowType DEF Rows
<1>2. r[u] # NoRow => adopted \in AppState /\ adopted.user = u
  BY DEF AdoptServerState, AppState, Rows, Row
<1>3. opened \in Engine /\ opened.gate /\ opened.pending = <<>>
  BY DEF Engine
<1>4. u # Nobody
  BY AccountAssumption
<1>5. \/ /\ o.store \in {s, adopted} /\ (o.store = adopted => r[u] # NoRow \/ adopted = s)
         /\ o.engine = NoteSessionReconciled(e) /\ o.row \in {r, seeded} /\ o.baseline = u
      \/ /\ o.store = s /\ o.engine = NoteSessionReconcileFailed(e)
         /\ o.row \in {r, seeded} /\ o.baseline = Nobody
  BY DEF ReconcileAccount, Fetched, Selected, Upsert
<1>8. o.missed \in {u, Nobody}
  BY DEF ReconcileAccount, Fetched, Selected, Upsert
<1>6. CASE o.engine = NoteSessionReconciled(e) /\ o.baseline = u
  <2>1. o.store \in AppState /\ o.store.user = u
    BY <1>2, <1>5, <1>6
  <2>2. o.engine \in Engine /\ o.engine.gate /\ o.engine.pending = <<>>
        /\ o.engine.status = "SyncOk"
    <3>1. o.engine = MarkSuccess(opened)
      BY <1>6 DEF NoteSessionReconciled
    <3>. HIDE DEF opened
    <3>. QED
      BY <1>3, <3>1, MarkType
  <2>. QED
    BY <1>1, <1>4, <1>5, <1>6, <1>8, <2>1, <2>2 DEF Started, Consistent
<1>7. CASE o.store = s /\ o.engine = NoteSessionReconcileFailed(e) /\ o.baseline = Nobody
  <2>1. o.engine \in Engine /\ ~o.engine.gate /\ o.engine.pending = <<>>
        /\ o.engine.status = "SyncFailing"
    BY <1>7, MarkType DEF NoteSessionReconcileFailed
  <2>. QED
    BY <1>1, <1>4, <1>5, <1>7, <1>8, <2>1 DEF Started, Consistent
<1>. QED
  BY <1>5, <1>6, <1>7

\* The repair of the rotation keeps what the session start established.
LEMMA RestoreStarts ==
  ASSUME NEW b, NEW o, NEW u, Started(o, u),
         NEW p \in RestoreRotation(b, o)
  PROVE  Started(p, u)
<1>1. CASE o.store.rotation
  BY <1>1 DEF RestoreRotation
<1>2. CASE ~o.store.rotation
  <2>. DEFINE s == [o.store EXCEPT !.rotation = TRUE]
  <2>1. s \in AppState /\ s.user = o.store.user
    BY DEF Started, AppState
  <2>2. PICK q \in SyncLocalState(b, s, o.engine, o.row) :
          p = [store |-> s, engine |-> q.engine, row |-> q.row, baseline |-> o.baseline,
               missed |-> o.missed]
    BY <1>2 DEF RestoreRotation
  <2>3. q.engine \in Engine /\ q.row \in Rows /\ Consistent(s, q.engine, o.baseline)
    <3>1. /\ o.store \in AppState /\ o.engine \in Engine /\ o.row \in Rows
          /\ Consistent(o.store, o.engine, o.baseline)
      BY DEF Started
    <3>. HIDE DEF s
    <3>. QED
      BY <2>1, <2>2, <3>1, SyncLocalConsistent
  <2>4. /\ p.store = s /\ p.engine = q.engine /\ p.row = q.row
        /\ p.baseline = o.baseline /\ p.missed = o.missed
    BY <2>2
  <2>. QED
    BY <2>1, <2>3, <2>4 DEF Started
<1>. QED
  BY <1>1, <1>2

----------------------------------------------------------------------------
(* The steps of a device. *)

\* What a step leaves of the variables of the session and the server.
Sound ==
  /\ store \in [Devices -> AppState] /\ engine \in [Devices -> Engine] /\ row \in Rows
  /\ baseline \in [Devices -> Users \cup {Nobody}] /\ missed \in Users \cup {Nobody}
  /\ \A d \in Devices : Consistent(store[d], engine[d], baseline[d])

\* Taking over the outcome of a session start is sound.
LEMMA ResumeSound ==
  ASSUME Inv, NEW d \in Devices, NEW o, NEW u, Started(o, u), Resume(d, o)
  PROVE  Sound'
<1>1. /\ store' \in [Devices -> AppState] /\ engine' \in [Devices -> Engine] /\ row' \in Rows
      /\ baseline' \in [Devices -> Users \cup {Nobody}] /\ missed' \in Users \cup {Nobody}
  BY DEF Inv, TypeOK, Resume, Started
<1>2. ASSUME NEW x \in Devices
      PROVE  Consistent(store'[x], engine'[x], baseline'[x])
  <2>1. CASE x = d
    BY <2>1 DEF Inv, TypeOK, Resume, Started
  <2>2. CASE x # d
    <3>1. store'[x] = store[x] /\ engine'[x] = engine[x] /\ baseline'[x] = baseline[x]
      BY <2>2 DEF Inv, TypeOK, Resume
    <3>. QED
      BY <3>1 DEF Inv
  <2>. QED
    BY <2>1, <2>2
<1>. QED
  BY <1>1, <1>2 DEF Sound, Consistent

\* A local write, behind save_state and the latch setters, is sound.
LEMMA SaveSound ==
  ASSUME Inv, NEW d \in Devices, NEW s \in AppState, s.user = store[d].user, SaveAndSync(d, s)
  PROVE  Sound'
<1>1. PICK p \in SyncLocalState(bearer[d], s, engine[d], row) :
        engine' = [engine EXCEPT ![d] = p.engine] /\ row' = p.row
  BY DEF SaveAndSync
<1>2. store[d] \in AppState /\ engine[d] \in Engine /\ row \in Rows
      /\ Consistent(store[d], engine[d], baseline[d])
  BY DEF Inv, TypeOK, Rows
<1>3. p.engine \in Engine /\ p.row \in Rows /\ Consistent(s, p.engine, baseline[d])
  BY <1>1, <1>2, SyncLocalConsistent
<1>4. store' = [store EXCEPT ![d] = s] /\ baseline' = baseline /\ missed' = Nobody
  BY DEF SaveAndSync
<1>5. ASSUME NEW x \in Devices
      PROVE  Consistent(store'[x], engine'[x], baseline'[x])
  <2>1. CASE x = d
    BY <1>1, <1>3, <1>4, <2>1 DEF Inv, TypeOK
  <2>2. CASE x # d
    <3>1. store'[x] = store[x] /\ engine'[x] = engine[x] /\ baseline'[x] = baseline[x]
      BY <1>1, <1>4, <2>2 DEF Inv, TypeOK
    <3>. QED
      BY <3>1 DEF Inv
  <2>. QED
    BY <2>1, <2>2
<1>. QED
  BY <1>1, <1>3, <1>4, <1>5 DEF Sound, Consistent, Inv, TypeOK

\* The engine left behind by a sign-out, and a fresh profile, are well-typed;
\* a guest with that engine is consistent.
LEMMA ClosedSound ==
  /\ ClosedEngine \in Engine /\ FreshState \in AppState
  /\ \A s \in AppState : s.user = Nobody => Consistent(s, ClosedEngine, Nobody)
<1>1. <<>> \in Seq(AppState)
  OBVIOUS
<1>2. ClosedEngine \in Engine
  BY <1>1, AccountAssumption DEF ClosedEngine, Engine
<1>3. FreshState \in AppState
  BY AccountAssumption DEF FreshState, AppState
<1>4. ASSUME NEW s \in AppState, s.user = Nobody
      PROVE  Consistent(s, ClosedEngine, Nobody)
  BY <1>4 DEF Consistent, ClosedEngine
<1>. QED
  BY <1>2, <1>3, <1>4

\* Dropping the session over a guest's state is sound.
LEMMA DropSound ==
  ASSUME Inv, NEW d \in Devices, NEW s \in AppState, s.user = Nobody,
         store' = [store EXCEPT ![d] = s], DropSession(d), row' \in Rows
  PROVE  Sound'
<1>1. ASSUME NEW x \in Devices
      PROVE  Consistent(store'[x], engine'[x], baseline'[x])
  <2>1. CASE x = d
    BY <2>1, ClosedSound DEF Inv, TypeOK, DropSession, ClearSession, StashSession
  <2>2. CASE x # d
    <3>1. store'[x] = store[x] /\ engine'[x] = engine[x] /\ baseline'[x] = baseline[x]
      BY <2>2 DEF Inv, TypeOK, DropSession, ClearSession, StashSession
    <3>. QED
      BY <3>1 DEF Inv
  <2>. QED
    BY <2>1, <2>2
<1>. QED
  BY <1>1, ClosedSound DEF Sound, Consistent, Inv, TypeOK, DropSession, ClearSession, StashSession

----------------------------------------------------------------------------
(* The inductive invariant. *)

\* Every device starts as a guest with a closed engine.
LEMMA InitInv == Init => Inv
<1>. SUFFICES ASSUME Init PROVE Inv
  OBVIOUS
<1>1. [FreshState EXCEPT !.rotation = TRUE] \in AppState
      /\ [FreshState EXCEPT !.rotation = TRUE].user = Nobody
  BY ClosedSound DEF FreshState, AppState
<1>2. TypeOK
  BY <1>1, ClosedSound DEF Init, TypeOK
<1>3. \A d \in Devices : Consistent(store[d], engine[d], baseline[d])
  BY <1>1, ClosedSound DEF Init
<1>. QED
  BY <1>2, <1>3 DEF Inv

\* A boot reads a well-typed file, and its outcome is a started session or a
\* guest's.
LEMMA BootInv ==
  ASSUME Inv, NEW d \in Devices, Boot(d)
  PROVE  Inv'
<1>1. PICK loaded \in Loadable(d), b \in {token[d], Nobody} :
        /\ Redeem(d, b)
        /\ durable' = [durable EXCEPT ![d] = loaded]
        /\ \E o \in BootOutcomes(b, loaded) : \E p \in RestoreRotation(b, o) : Resume(d, p)
  BY DEF Boot
<1>2. PICK o \in BootOutcomes(b, loaded) : \E p \in RestoreRotation(b, o) : Resume(d, p)
  BY <1>1
<1>3. loaded \in AppState /\ b \in Users \cup {Nobody} /\ row \in Rows
  BY ClosedSound DEF Inv, TypeOK, Loadable, LoadedAs, ParseResults, Rows
<1>4. ClosedEngine \in Engine /\ ~ClosedEngine.gate /\ ClosedEngine.pending = <<>>
  BY ClosedSound DEF ClosedEngine
<1>5. PICK u : Started(o, u)
  <2>1. CASE b # Nobody
    <3>. DEFINE s == [loaded EXCEPT !.user = b]
    <3>1. s \in AppState /\ s.user = b /\ b \in Users
      BY <1>3, <2>1 DEF AppState
    <3>2. o \in ReconcileAccount(b, s, loaded.user = b, ClosedEngine, row)
      BY <1>2, <2>1 DEF BootOutcomes, EstablishSession
    <3>. HIDE DEF s
    <3>. QED
      BY <1>3, <1>4, <3>1, <3>2, ReconcileStarts
  <2>2. CASE b = Nobody /\ loaded.user # Nobody
    <3>1. o \in ReconcileAccount(Nobody, loaded, TRUE, ClosedEngine, row)
      BY <1>2, <2>2 DEF BootOutcomes
    <3>2. loaded.user \in Users
      BY <1>3, <2>2 DEF AppState
    <3>. QED
      BY <1>3, <1>4, <3>1, <3>2, ReconcileStarts
  <2>3. CASE b = Nobody /\ loaded.user = Nobody
    <3>1. o = [store |-> loaded, engine |-> ClosedEngine, row |-> row,
               baseline |-> Nobody, missed |-> Nobody]
      BY <1>2, <2>3 DEF BootOutcomes
    <3>2. Started(o, Nobody)
      BY <1>3, <2>3, <3>1, ClosedSound DEF Started
    <3>. QED
      BY <3>2
  <2>. QED
    BY <2>1, <2>2, <2>3
<1>6. PICK p \in RestoreRotation(b, o) : Resume(d, p)
  BY <1>2
<1>7. Sound'
  BY <1>5, <1>6, RestoreStarts, ResumeSound
<1>8. /\ durable' \in [Devices -> AppState] /\ token' \in [Devices -> Users \cup {Nobody}]
      /\ bearer' \in [Devices -> Users \cup {Nobody}]
  BY <1>1, <1>3 DEF Inv, TypeOK, Redeem, StashSession
<1>. QED
  BY <1>7, <1>8 DEF Inv, TypeOK, Sound, Rows

\* A sign-in starts from the closed engine of a guest.
LEMMA SignInInv ==
  ASSUME Inv, NEW d \in Devices, NEW u \in Users, SignIn(d, u)
  PROVE  Inv'
<1>. DEFINE s == [store[d] EXCEPT !.user = u]
<1>1. PICK o \in ReconcileAccount(u, s, store[d].user = u, engine[d], row) :
        \E p \in RestoreRotation(u, o) : Resume(d, p)
  BY DEF SignIn, EstablishSession
<1>2. s \in AppState /\ s.user = u
  BY DEF Inv, TypeOK, AppState
<1>3. /\ engine[d] \in Engine /\ ~engine[d].gate /\ engine[d].pending = <<>>
      /\ row \in Rows
  BY DEF Inv, TypeOK, Consistent, SignIn, Rows
<1>4. Started(o, u)
  <2>. HIDE DEF s
  <2>. QED
    BY <1>1, <1>2, <1>3, ReconcileStarts
<1>5. Sound'
  BY <1>1, <1>4, RestoreStarts, ResumeSound
<1>6. /\ durable' \in [Devices -> AppState] /\ token' \in [Devices -> Users \cup {Nobody}]
      /\ bearer' \in [Devices -> Users \cup {Nobody}]
  BY DEF SignIn, StashSession, Inv, TypeOK
<1>. QED
  BY <1>5, <1>6 DEF Inv, TypeOK, Sound, Rows

\* Both ways out of a session leave a guest.
LEMMA LeaveInv ==
  ASSUME Inv, NEW d \in Devices, SignOut(d) \/ DeleteAccount(d)
  PROVE  Inv'
<1>1. PICK s \in AppState : s.user = Nobody /\ store' = [store EXCEPT ![d] = s]
  <2>1. CASE SignOut(d)
    <3>1. [store[d] EXCEPT !.user = Nobody] \in AppState
          /\ [store[d] EXCEPT !.user = Nobody].user = Nobody
      BY DEF Inv, TypeOK, AppState
    <3>2. store' = [store EXCEPT ![d] = [store[d] EXCEPT !.user = Nobody]]
      BY <2>1 DEF SignOut, Inv, TypeOK
    <3>. QED
      BY <3>1, <3>2
  <2>2. CASE DeleteAccount(d)
    BY <2>2, ClosedSound DEF DeleteAccount, FreshState
  <2>. QED
    BY <2>1, <2>2
<1>2. row' \in Rows /\ DropSession(d) /\ durable' = durable
  BY DEF SignOut, DeleteAccount, Erased, Inv, TypeOK, Rows
<1>3. Sound'
  BY <1>1, <1>2, DropSound
<1>. QED
  BY <1>2, <1>3 DEF DropSession, ClearSession, StashSession, Inv, TypeOK, Sound, Rows

\* An edit of the wallet, the rotation or the latch keeps the account.
LEMMA EditKeepsAccount ==
  ASSUME Inv, NEW d \in Devices,
         \/ \E w \in Wallets, hasTracks \in Rotations : SaveState(d, w, hasTracks)
         \/ MarkTutorialCompleted(d)
  PROVE  \E s \in AppState : s.user = store[d].user /\ SaveAndSync(d, s)
<1>1. store[d] \in AppState
  BY DEF Inv, TypeOK
<1>2. ASSUME NEW w \in Wallets, NEW hasTracks \in Rotations, SaveState(d, w, hasTracks)
      PROVE  \E s \in AppState : s.user = store[d].user /\ SaveAndSync(d, s)
  <2>. DEFINE paid == [store[d] EXCEPT !.wallet = w]
              edited == [paid EXCEPT !.rotation = hasTracks]
  <2>1. paid \in AppState /\ paid.user = store[d].user
    BY <1>1 DEF AppState
  <2>2. edited \in AppState /\ edited.user = store[d].user
    <3>. HIDE DEF paid
    <3>. QED
      BY <2>1, AccountAssumption DEF AppState
  <2>3. edited = [store[d] EXCEPT !.wallet = w, !.rotation = hasTracks]
    BY <1>1 DEF AppState
  <2>. QED
    BY <1>2, <2>2, <2>3 DEF SaveState
<1>3. ASSUME MarkTutorialCompleted(d)
      PROVE  \E s \in AppState : s.user = store[d].user /\ SaveAndSync(d, s)
  <2>1. [store[d] EXCEPT !.done = TRUE] \in AppState
        /\ [store[d] EXCEPT !.done = TRUE].user = store[d].user
    BY <1>1 DEF AppState
  <2>. QED
    BY <1>3, <2>1 DEF MarkTutorialCompleted
<1>. QED
  BY <1>2, <1>3

\* save_state keeps the invariant for any new state of the same account.
LEMMA WriteInv ==
  ASSUME Inv, NEW d \in Devices, NEW s \in AppState, s.user = store[d].user, SaveAndSync(d, s)
  PROVE  Inv'
  BY SaveSound DEF SaveAndSync, Inv, TypeOK, Sound, Rows

\* A retry of the reconcile runs on a closed gate, a retry of the queue on an
\* open one.
LEMMA PumpInv ==
  ASSUME Inv, NEW d \in Devices, Pump(d)
  PROVE  Inv'
<1>1. /\ store[d] \in AppState /\ engine[d] \in Engine /\ row \in Rows
      /\ Consistent(store[d], engine[d], baseline[d])
  BY DEF Inv, TypeOK, Rows
<1>2. store[d].user \in Users
  BY <1>1 DEF Pump, PumpReconcile, PumpQueue, AppState
<1>3. CASE PumpReconcile(d)
  <2>1. PICK o \in ReconcileAccount(bearer[d], store[d], TRUE, engine[d], row) : Resume(d, o)
    BY <1>3 DEF PumpReconcile
  <2>2. ~engine[d].gate /\ engine[d].pending = <<>>
    BY <1>1, <1>3 DEF PumpReconcile, Consistent
  <2>3. Started(o, store[d].user)
    BY <1>1, <1>2, <2>1, <2>2, ReconcileStarts
  <2>4. Sound'
    BY <2>1, <2>3, ResumeSound
  <2>. QED
    BY <1>3, <2>4 DEF PumpReconcile, Inv, TypeOK, Sound, Rows
<1>4. CASE PumpQueue(d)
  <2>1. PICK p \in AttemptSync(bearer[d], store[d].user, engine[d], row) :
          engine' = [engine EXCEPT ![d] = p.engine] /\ row' = p.row
    BY <1>4 DEF PumpQueue
  <2>2. engine[d].gate /\ engine[d].pending # <<>> /\ baseline[d] = store[d].user
        /\ UNCHANGED <<store, durable, token, bearer, baseline>> /\ missed' = Nobody
    BY <1>1, <1>4 DEF PumpQueue, Consistent
  <2>3. p.engine \in Engine /\ p.row \in Rows
        /\ Consistent(store[d], p.engine, store[d].user)
    <3>1. /\ engine[d].pending[Len(engine[d].pending)] = store[d]
          /\ \A i \in 1 .. Len(engine[d].pending) : engine[d].pending[i].user = store[d].user
      BY <1>1, <2>2 DEF Consistent
    <3>. QED
      BY <1>1, <1>2, <2>1, <2>2, <3>1, AttemptConsistent
  <2>4. ASSUME NEW x \in Devices
        PROVE  Consistent(store'[x], engine'[x], baseline'[x])
    <3>1. CASE x = d
      BY <2>1, <2>2, <2>3, <3>1 DEF Inv, TypeOK
    <3>2. CASE x # d
      <4>1. engine'[x] = engine[x]
        BY <2>1, <3>2 DEF Inv, TypeOK
      <4>. QED
        BY <2>2, <4>1 DEF Inv
    <3>. QED
      BY <3>1, <3>2
  <2>. QED
    BY <2>1, <2>2, <2>3, <2>4 DEF Inv, TypeOK, Consistent, Rows
<1>. QED
  BY <1>3, <1>4 DEF Pump

\* What changes none of what the invariant relates: the flush, the clock and
\* the end of the id_token.
LEMMA QuietInv ==
  ASSUME Inv, NEW d \in Devices, Flush(d) \/ Tick(d) \/ Expire(d)
  PROVE  Inv'
<1>1. CASE Flush(d)
  BY <1>1 DEF Flush, Inv, TypeOK, Consistent
<1>2. CASE Tick(d)
  <2>. DEFINE later == [engine[d] EXCEPT !.retryIn = 0]
  <2>1. /\ later \in Engine /\ later.gate = engine[d].gate
        /\ later.pending = engine[d].pending /\ later.status = engine[d].status
    <3>1. engine[d] \in Engine
      BY DEF Inv, TypeOK
    <3>. QED
      BY <3>1 DEF Engine
  <2>2. engine' = [engine EXCEPT ![d] = later]
        /\ UNCHANGED <<store, durable, token, bearer, row, baseline>> /\ missed' = Nobody
    BY <1>2 DEF Tick, Inv, TypeOK
  <2>. HIDE DEF later
  <2>3. ASSUME NEW x \in Devices
        PROVE  Consistent(store'[x], engine'[x], baseline'[x])
    <3>1. CASE x = d
      BY <2>1, <2>2, <3>1 DEF Inv, TypeOK, Consistent
    <3>2. CASE x # d
      BY <2>2, <3>2 DEF Inv, TypeOK
    <3>. QED
      BY <3>1, <3>2
  <2>. QED
    BY <2>1, <2>2, <2>3 DEF Inv, TypeOK, Consistent
<1>3. CASE Expire(d)
  BY <1>3 DEF Expire, Inv, TypeOK, Consistent
<1>. QED
  BY <1>1, <1>2, <1>3

\* Every step of every device keeps the inductive invariant.
LEMMA NextInv == Inv /\ [Next]_vars => Inv'
<1>. SUFFICES ASSUME Inv, [Next]_vars PROVE Inv'
  OBVIOUS
<1>1. CASE UNCHANGED vars
  BY <1>1 DEF vars, Inv, TypeOK, Consistent
<1>2. ASSUME NEW d \in Devices, PageStep(d) \/ MarkTutorialCompleted(d)
      PROVE  Inv'
  BY <1>2, BootInv, SignInInv, LeaveInv, EditKeepsAccount, WriteInv, PumpInv, QuietInv DEF PageStep
<1>. QED
  BY <1>1, <1>2 DEF Next

\* The inductive invariant holds throughout: types, and for every device that
\* gate, queue, indicator and local state fit together.
THEOREM Invariance == Spec => []Inv
<1>1. Init => Inv
  BY InitInv
<1>2. Inv /\ [Next]_vars => Inv'
  BY NextInv
<1>. QED
  BY <1>1, <1>2, PTL DEF Spec

\* Every variable stays in its type, whatever the number of devices and
\* accounts and however calls, failures and reloads interleave.
THEOREM TypeCorrect == Spec => []TypeOK
<1>1. Inv => TypeOK
  BY DEF Inv
<1>. QED
  BY <1>1, Invariance, PTL

\* No device pushes for an account it has not reconciled with.
THEOREM GateSafe == Spec => []GateMeansReconciled
<1>1. Inv => GateMeansReconciled
  BY DEF Inv, Consistent, GateMeansReconciled
<1>. QED
  BY <1>1, Invariance, PTL

\* The queue never holds another account's snapshot.
THEOREM QueueSafe == Spec => []QueueBelongsToAccount
<1>1. ASSUME Inv, NEW d \in Devices, NEW i \in 1 .. Len(engine[d].pending)
      PROVE  engine[d].pending[i].user = store[d].user /\ store[d].user # Nobody
  <2>1. engine[d].pending # <<>> /\ Consistent(store[d], engine[d], baseline[d])
    BY <1>1 DEF Inv
  <2>. QED
    BY <1>1, <2>1 DEF Consistent
<1>2. Inv => QueueBelongsToAccount
  BY <1>1 DEF QueueBelongsToAccount
<1>. QED
  BY <1>2, Invariance, PTL

\* The offline indicator says what it is meant to say.
THEOREM IndicatorSafe == Spec => []IndicatorTruthful
<1>1. Inv => IndicatorTruthful
  BY DEF Inv, Consistent, IndicatorTruthful
<1>. QED
  BY <1>1, Invariance, PTL

\* Sending the newest snapshot for the batch sends the local state.
THEOREM NewestSafe == Spec => []NewestQueuedIsLocal
<1>1. Inv => NewestQueuedIsLocal
  BY DEF Inv, Consistent, NewestQueuedIsLocal
<1>. QED
  BY <1>1, Invariance, PTL
----------------------------------------------------------------------------
(* The tutorial latch. *)

\* A reconcile keeps the account, and a set latch if it is told to.
LEMMA ReconcileKeepsLatch ==
  ASSUME NEW b, NEW s \in AppState, NEW keepLatch \in BOOLEAN, NEW e, NEW r,
         NEW o \in ReconcileAccount(b, s, keepLatch, e, r)
  PROVE  o.store.user = s.user /\ (keepLatch /\ s.done => o.store.done)
<1>1. o.store \in {s, AdoptServerState(s, r[s.user], keepLatch)}
  BY DEF ReconcileAccount, Fetched
<1>. QED
  BY <1>1 DEF AdoptServerState, AppState

\* The repair of the rotation touches neither.
LEMMA RestoreKeepsLatch ==
  ASSUME NEW b, NEW o, o.store \in AppState, NEW p \in RestoreRotation(b, o)
  PROVE  p.store.user = o.store.user /\ p.store.done = o.store.done
<1>1. p.store \in {o.store, [o.store EXCEPT !.rotation = TRUE]}
  BY DEF RestoreRotation
<1>. QED
  BY <1>1 DEF AppState

\* A boot that reads a set latch ends with it set, unless another account is
\* signed in by the refresh token.
LEMMA BootKeepsLatch ==
  ASSUME Inv, NEW d \in Devices, Boot(d),
         durable'[d].done, durable'[d].user # Nobody, store'[d].user = durable'[d].user
  PROVE  store'[d].done
<1>1. PICK loaded \in Loadable(d), b \in {token[d], Nobody} :
        /\ Redeem(d, b)
        /\ durable' = [durable EXCEPT ![d] = loaded]
        /\ \E o \in BootOutcomes(b, loaded) : \E p \in RestoreRotation(b, o) : Resume(d, p)
  BY DEF Boot
<1>2. PICK o \in BootOutcomes(b, loaded) : \E p \in RestoreRotation(b, o) : Resume(d, p)
  BY <1>1
<1>3. PICK p \in RestoreRotation(b, o) : Resume(d, p)
  BY <1>2
<1>4. loaded \in AppState /\ durable'[d] = loaded /\ store'[d] = p.store /\ row \in Rows
  BY <1>1, <1>3, ClosedSound DEF Inv, TypeOK, Loadable, LoadedAs, ParseResults, Resume, Rows
<1>5. ClosedEngine \in Engine /\ ~ClosedEngine.gate /\ ClosedEngine.pending = <<>>
      /\ b \in Users \cup {Nobody}
  BY ClosedSound DEF ClosedEngine, Inv, TypeOK
<1>6. CASE b # Nobody
  <2>. DEFINE s == [loaded EXCEPT !.user = b]
              same == loaded.user = b
  <2>1. s \in AppState /\ s.user = b /\ s.done = loaded.done /\ b \in Users
    BY <1>4, <1>5, <1>6 DEF AppState
  <2>2. o \in ReconcileAccount(b, s, same, ClosedEngine, row) /\ same \in BOOLEAN
    BY <1>2, <1>6 DEF BootOutcomes, EstablishSession
  <2>3. same <=> loaded.user = b
    OBVIOUS
  <2>. HIDE DEF s, same
  <2>4. Started(o, b)
    BY <1>4, <1>5, <2>1, <2>2, ReconcileStarts
  <2>5. o.store.user = b /\ (same /\ loaded.done => o.store.done)
    BY <2>1, <2>2, ReconcileKeepsLatch
  <2>6. p.store.user = o.store.user /\ p.store.done = o.store.done
    BY <1>3, <2>4, RestoreKeepsLatch DEF Started
  <2>. QED
    BY <1>4, <2>3, <2>5, <2>6
<1>7. CASE b = Nobody
  <2>1. o \in ReconcileAccount(Nobody, loaded, TRUE, ClosedEngine, row)
    BY <1>2, <1>4, <1>7 DEF BootOutcomes
  <2>2. loaded.user \in Users
    BY <1>4 DEF AppState
  <2>3. Started(o, loaded.user)
    BY <1>4, <1>5, <2>1, <2>2, ReconcileStarts
  <2>4. o.store.done
    BY <1>4, <2>1, ReconcileKeepsLatch
  <2>. QED
    BY <1>4, <1>3, <2>3, <2>4, RestoreKeepsLatch DEF Started
<1>. QED
  BY <1>6, <1>7

\* Between two boots a signed-in user's latch stays set.
LEMMA StepKeepsLatch ==
  ASSUME Inv, NEW d \in Devices, NEW x \in Devices, PageStep(x) \/ MarkTutorialCompleted(x),
         ~Boot(d), store[d].done, store[d].user # Nobody, store'[d].user = store[d].user
  PROVE  store'[d].done
<1>. USE DEF Inv, TypeOK
<1>1. ASSUME \/ Flush(x) \/ Tick(x) \/ Expire(x) \/ PumpQueue(x)
      PROVE  store' = store
  BY <1>1 DEF Flush, Tick, Expire, PumpQueue
<1>2. CASE Boot(x)
  <2>1. PICK p : Resume(x, p)
    BY <1>2 DEF Boot
  <2>. QED
    BY <1>2, <2>1 DEF Resume
<1>3. ASSUME NEW u \in Users, SignIn(x, u)
      PROVE  store'[d].done
  <2>1. PICK p : Resume(x, p)
    BY <1>3 DEF SignIn
  <2>2. x # d
    BY <1>3 DEF SignIn
  <2>. QED
    BY <2>1, <2>2 DEF Resume
<1>4. CASE SignOut(x)
  <2>1. store' = [store EXCEPT ![x].user = Nobody]
    BY <1>4 DEF SignOut
  <2>. QED
    BY <2>1 DEF AppState
<1>5. CASE DeleteAccount(x)
  BY <1>5 DEF DeleteAccount, FreshState
<1>6. ASSUME NEW w \in Wallets, NEW hasTracks \in Rotations, SaveState(x, w, hasTracks)
      PROVE  store'[d].done
  <2>1. store' = [store EXCEPT ![x] = [store[x] EXCEPT !.wallet = w, !.rotation = hasTracks]]
    BY <1>6 DEF SaveState, SaveAndSync
  <2>. QED
    BY <2>1 DEF AppState
<1>7. CASE MarkTutorialCompleted(x)
  <2>1. store' = [store EXCEPT ![x] = [store[x] EXCEPT !.done = TRUE]]
    BY <1>7 DEF MarkTutorialCompleted, SaveAndSync
  <2>. QED
    BY <2>1 DEF AppState
<1>8. CASE PumpReconcile(x)
  <2>1. PICK o \in ReconcileAccount(bearer[x], store[x], TRUE, engine[x], row) : Resume(x, o)
    BY <1>8 DEF PumpReconcile
  <2>2. store' = [store EXCEPT ![x] = o.store]
    BY <2>1 DEF Resume
  <2>3. store[x].done => o.store.done
    BY <2>1, ReconcileKeepsLatch
  <2>. QED
    BY <2>2, <2>3
<1>. QED
  BY <1>1, <1>2, <1>3, <1>4, <1>5, <1>6, <1>7, <1>8 DEF PageStep, Pump

\* Neither a reconcile with an older row nor a reload that can read the local
\* file takes the latch from a user who stays.
THEOREM LatchSafe == Spec => LatchMonotone
<1>1. ASSUME Inv, Next PROVE \A d \in Devices : LatchKept(d)
  BY <1>1, BootKeepsLatch, StepKeepsLatch DEF Next, LatchKept
<1>2. Inv /\ [Next]_vars => [\A d \in Devices : LatchKept(d)]_vars
  BY <1>1
<1>. QED
  BY <1>2, Invariance, PTL DEF Spec, LatchMonotone

----------------------------------------------------------------------------
(* AccountSync implements AuthoritativeRow: each step of a device is a step of the
   abstract server or leaves it alone. *)

\* The rows r with the row of u replaced.
Put(r, u, new) == [r EXCEPT ![u] = new]

\* New takes nothing away from the row old, if there is one.
Keeps(old, new) == old # NoRow => new.wallet = old.wallet /\ (old.done => new.done)

\* What a session start of u over the rows r does to the server: it hears or
\* creates the row and ends with a local state that keeps it, or it ends unheard
\* and at most created the row, or it did not find the row that is there.
Honest(o, u, r) ==
  \/ /\ o.missed = Nobody /\ o.baseline = u /\ Keeps(r[u], RowOf(o.store))
     /\ \E new \in Row : Keeps(r[u], new) /\ o.row = [r EXCEPT ![u] = new]
  \/ /\ o.missed = Nobody /\ o.baseline = Nobody /\ ~o.engine.gate
     /\ o.row = r \/ (r[u] = NoRow /\ \E new \in Row : o.row = [r EXCEPT ![u] = new])
  \/ /\ o.missed = u /\ r[u] # NoRow /\ o.baseline \in {u, Nobody}
     /\ \E new \in Row : o.row = [r EXCEPT ![u] = new]

\* An attempt leaves the rows as they are or replaces the row by the newest
\* snapshot.
LEMMA AttemptWrites ==
  ASSUME NEW b, NEW u, NEW e, NEW r, NEW p \in AttemptSync(b, u, e, r)
  PROVE  p.row \in {r, [r EXCEPT ![u] = RowOf(Newest(e.pending))]}
  BY DEF AttemptSync, Upsert

\* A local write reaches the server only through an open gate.
LEMMA SyncLocalWrites ==
  ASSUME NEW b, NEW s \in AppState, NEW e \in Engine, NEW r,
         NEW p \in SyncLocalState(b, s, e, r)
  PROVE  p.row = r \/ (e.gate /\ s.user # Nobody /\ p.row = Put(r, s.user, RowOf(s)))
<1>. DEFINE queued == [e EXCEPT !.pending = Append(e.pending, s)]
<1>1. \/ p.row = r
      \/ e.gate /\ s.user # Nobody /\ p \in AttemptSync(b, s.user, queued, r)
  BY DEF SyncLocalState, RecordStateChange
<1>2. Newest(queued.pending) = s
  <2>1. e.pending \in Seq(AppState) /\ queued.pending = Append(e.pending, s)
    BY DEF Engine
  <2>. HIDE DEF queued
  <2>. QED
    BY <2>1 DEF Newest
<1>. HIDE DEF queued
<1>. QED
  BY <1>1, <1>2, AttemptWrites DEF Put

\* A failed session start keeps the gate of the engine it was given; a
\* reconcile does to the server what a session start may.
LEMMA ReconcileHonest ==
  ASSUME NEW b, NEW s \in AppState, s.user \in Users, NEW keepLatch \in BOOLEAN,
         NEW e \in Engine, ~e.gate, NEW r \in Rows,
         NEW o \in ReconcileAccount(b, s, keepLatch, e, r)
  PROVE  Honest(o, s.user, r)
<1>. DEFINE u == s.user
            seeded == [r EXCEPT ![u] = SeedOf(s)]
            adopted == AdoptServerState(s, r[u], keepLatch)
<1>. DEFINE Heard == r[u] # NoRow /\ o.store = adopted /\ o.row = r /\ o.baseline = u
            Created == /\ r[u] = NoRow \/ seeded = r
                       /\ o.store = s /\ o.row = seeded /\ o.baseline = u
            Unheard == /\ o.engine = NoteSessionReconcileFailed(e) /\ o.baseline = Nobody
                       /\ o.row = r \/ (r[u] = NoRow /\ o.row = seeded)
            Replaced == r[u] # NoRow /\ o.row = seeded /\ o.baseline \in {u, Nobody}
<1>1. CASE Heard /\ o.missed = Nobody
  <2>1. r[u] \in Row /\ r = [r EXCEPT ![u] = r[u]]
    BY <1>1 DEF Rows
  <2>2. Keeps(r[u], RowOf(adopted)) /\ Keeps(r[u], r[u])
    BY DEF Keeps, RowOf, AdoptServerState
  <2>. QED
    BY <1>1, <2>1, <2>2 DEF Honest
<1>2. CASE Created /\ o.missed = Nobody
  <2>1. r[u] = NoRow \/ r[u] = SeedOf(s)
    BY <1>2 DEF Rows
  <2>2. Keeps(r[u], RowOf(s)) /\ Keeps(r[u], SeedOf(s))
    BY <2>1 DEF Keeps, RowOf, SeedOf
  <2>. QED
    BY <1>2, <2>2, RowType DEF Honest
<1>3. CASE Unheard /\ o.missed = Nobody
  BY <1>3, RowType, MarkType DEF Honest, NoteSessionReconcileFailed
<1>4. CASE Replaced /\ o.missed = u
  BY <1>4, RowType DEF Honest
<1>. QED
  BY <1>1, <1>2, <1>3, <1>4 DEF ReconcileAccount, Fetched, Selected, Upsert

\* So does the repair of the rotation that follows.
LEMMA RestoreHonest ==
  ASSUME NEW b, NEW o, NEW u \in Users, NEW r \in Rows, Started(o, u), Honest(o, u, r),
         NEW p \in RestoreRotation(b, o)
  PROVE  Honest(p, u, r)
<1>1. CASE o.store.rotation
  BY <1>1 DEF RestoreRotation
<1>2. CASE ~o.store.rotation
  <2>. DEFINE s == [o.store EXCEPT !.rotation = TRUE]
  <2>1. /\ s \in AppState /\ s.user = u /\ s.wallet = o.store.wallet /\ s.done = o.store.done
        /\ o.engine \in Engine /\ o.row \in Rows
        /\ o.engine.gate => o.baseline = u
        /\ Consistent(o.store, o.engine, o.baseline)
    BY DEF Started, AppState, Consistent
  <2>2. PICK q \in SyncLocalState(b, s, o.engine, o.row) :
          p = [store |-> s, engine |-> q.engine, row |-> q.row, baseline |-> o.baseline,
               missed |-> o.missed]
    BY <1>2 DEF RestoreRotation
  <2>. HIDE DEF s
  <2>3. q.row = o.row \/ (o.engine.gate /\ q.row = [o.row EXCEPT ![u] = RowOf(s)])
    <3>1. s \in AppState /\ o.engine \in Engine /\ q \in SyncLocalState(b, s, o.engine, o.row)
      BY <2>1, <2>2
    <3>2. \/ q.row = o.row
          \/ o.engine.gate /\ s.user # Nobody /\ q.row = Put(o.row, s.user, RowOf(s))
      BY <3>1, SyncLocalWrites
    <3>. QED
      BY <2>1, <3>2 DEF Put
  <2>4. RowOf(s) \in Row /\ (Keeps(r[u], RowOf(o.store)) => Keeps(r[u], RowOf(s)))
    BY <2>1, RowType DEF Keeps, RowOf
  <2>7. CASE o.missed # Nobody
    <3>1. o.missed = u /\ r[u] # NoRow /\ o.baseline \in {u, Nobody}
          /\ \E new \in Row : o.row = [r EXCEPT ![u] = new]
      BY <2>7 DEF Honest
    <3>2. \E new \in Row : q.row = [r EXCEPT ![u] = new]
      <4>1. PICK new \in Row : o.row = [r EXCEPT ![u] = new]
        BY <3>1
      <4>2. [o.row EXCEPT ![u] = RowOf(s)] = [r EXCEPT ![u] = RowOf(s)]
        BY <4>1 DEF Rows
      <4>. QED
        BY <2>3, <2>4, <4>1, <4>2
    <3>. QED
      BY <2>2, <3>1, <3>2 DEF Honest
  <2>5. CASE o.missed = Nobody /\ o.baseline = u
    <3>1. Keeps(r[u], RowOf(o.store))
          /\ \E new \in Row : Keeps(r[u], new) /\ o.row = [r EXCEPT ![u] = new]
      BY <2>5, AccountAssumption DEF Honest
    <3>2. \E new \in Row : Keeps(r[u], new) /\ q.row = [r EXCEPT ![u] = new]
      BY <2>3, <2>4, <3>1 DEF Rows
    <3>. QED
      BY <2>2, <2>4, <2>5, <3>1, <3>2 DEF Honest
  <2>6. CASE o.missed = Nobody /\ o.baseline # u
    <3>1. o.baseline = Nobody /\ ~o.engine.gate
          /\ (o.row = r \/ (r[u] = NoRow /\ \E new \in Row : o.row = [r EXCEPT ![u] = new]))
      BY <2>6, AccountAssumption DEF Honest
    <3>2. q.row = o.row /\ q.engine = o.engine
      BY <2>2, <2>3, <3>1 DEF SyncLocalState, RecordStateChange
    <3>. QED
      BY <2>2, <3>1, <3>2 DEF Honest
  <2>. QED
    BY <2>5, <2>6, <2>7
<1>. QED
  BY <1>1, <1>2

\* Taking over an honest session start is a step of the server.
LEMMA ResumeServer ==
  ASSUME NEW d \in Devices, NEW u \in Users, NEW p, Honest(p, u, row), Resume(d, p)
  PROVE  Server!Next
<1>1. CASE /\ p.missed = Nobody /\ p.baseline = u
           /\ \E new \in Row : Keeps(row[u], new) /\ p.row = [row EXCEPT ![u] = new]
  <2>1. Server!Establish(d, u)
    BY <1>1 DEF Server!Establish, Keeps, Resume
  <2>. QED
    BY <2>1 DEF Server!Next
<1>2. CASE p.missed = Nobody /\ p.baseline = Nobody /\ p.row = row
  <2>1. Server!Leave(d)
    BY <1>2 DEF Server!Leave, Resume
  <2>. QED
    BY <2>1 DEF Server!Next
<1>3. CASE /\ p.missed = Nobody /\ p.baseline = Nobody /\ row[u] = NoRow
           /\ \E new \in Row : p.row = [row EXCEPT ![u] = new]
  <2>1. Server!SeedUnheard(d, u)
    BY <1>3 DEF Server!SeedUnheard, Resume
  <2>. QED
    BY <2>1 DEF Server!Next
<1>4. CASE /\ p.missed = u /\ row[u] # NoRow /\ p.baseline \in {u, Nobody}
           /\ \E new \in Row : p.row = [row EXCEPT ![u] = new]
  <2>1. Server!Overlook(d, u)
    BY <1>4 DEF Server!Overlook, Resume
  <2>. QED
    BY <2>1 DEF Server!Next
<1>. QED
  BY <1>1, <1>2, <1>3, <1>4 DEF Honest

----------------------------------------------------------------------------

\* No device has heard a row when it starts.
LEMMA InitServer == Init => Server!Init
  BY DEF Init, Server!Init

\* A boot starts a session of the server's specification, or leaves one.
LEMMA BootServer ==
  ASSUME Inv, NEW d \in Devices, Boot(d)
  PROVE  Server!Next
<1>1. PICK loaded \in Loadable(d), b \in {token[d], Nobody} :
        \E o \in BootOutcomes(b, loaded) : \E p \in RestoreRotation(b, o) : Resume(d, p)
  BY DEF Boot
<1>2. PICK o \in BootOutcomes(b, loaded) : \E p \in RestoreRotation(b, o) : Resume(d, p)
  BY <1>1
<1>3. PICK p \in RestoreRotation(b, o) : Resume(d, p)
  BY <1>2
<1>4. loaded \in AppState /\ b \in Users \cup {Nobody} /\ row \in Rows
  BY ClosedSound DEF Inv, TypeOK, Loadable, LoadedAs, ParseResults, Rows
<1>5. ClosedEngine \in Engine /\ ~ClosedEngine.gate /\ ClosedEngine.pending = <<>>
  BY ClosedSound DEF ClosedEngine
<1>6. ASSUME NEW s \in AppState, s.user \in Users, NEW keepLatch \in BOOLEAN,
             o \in ReconcileAccount(b, s, keepLatch, ClosedEngine, row)
      PROVE  Server!Next
  <2>1. Started(o, s.user) /\ Honest(o, s.user, row)
    BY <1>4, <1>5, <1>6, ReconcileStarts, ReconcileHonest
  <2>2. Honest(p, s.user, row)
    BY <1>3, <1>4, <1>6, <2>1, RestoreHonest
  <2>. QED
    BY <1>3, <1>6, <2>2, ResumeServer
<1>7. CASE b # Nobody
  <2>. DEFINE s == [loaded EXCEPT !.user = b]
  <2>1. s \in AppState /\ s.user \in Users
    BY <1>4, <1>7 DEF AppState
  <2>2. o \in ReconcileAccount(b, s, loaded.user = b, ClosedEngine, row)
    BY <1>2, <1>7 DEF BootOutcomes, EstablishSession
  <2>. HIDE DEF s
  <2>. QED
    BY <1>6, <2>1, <2>2
<1>8. CASE b = Nobody /\ loaded.user # Nobody
  <2>1. loaded.user \in Users
    BY <1>4, <1>8 DEF AppState
  <2>2. o \in ReconcileAccount(b, loaded, TRUE, ClosedEngine, row)
    BY <1>2, <1>8 DEF BootOutcomes
  <2>. QED
    BY <1>4, <1>6, <2>1, <2>2
<1>9. CASE b = Nobody /\ loaded.user = Nobody
  <2>1. o = [store |-> loaded, engine |-> ClosedEngine, row |-> row,
               baseline |-> Nobody, missed |-> Nobody]
    BY <1>2, <1>9 DEF BootOutcomes
  <2>2. p.row = row /\ p.baseline = Nobody /\ p.missed = Nobody
    <3>1. [o.store EXCEPT !.rotation = TRUE].user = Nobody
      BY <1>4, <1>9, <2>1 DEF AppState
    <3>. QED
      BY <1>3, <2>1, <3>1 DEF RestoreRotation, SyncLocalState
  <2>3. Server!Leave(d)
    BY <1>3, <2>2 DEF Resume, Server!Leave
  <2>. QED
    BY <2>3 DEF Server!Next
<1>. QED
  BY <1>7, <1>8, <1>9

\* So does a sign-in.
LEMMA SignInServer ==
  ASSUME Inv, NEW d \in Devices, NEW u \in Users, SignIn(d, u)
  PROVE  Server!Next
<1>. DEFINE s == [store[d] EXCEPT !.user = u]
<1>1. PICK o \in ReconcileAccount(u, s, store[d].user = u, engine[d], row) :
        \E p \in RestoreRotation(u, o) : Resume(d, p)
  BY DEF SignIn, EstablishSession
<1>2. PICK p \in RestoreRotation(u, o) : Resume(d, p)
  BY <1>1
<1>3. s \in AppState /\ s.user = u
  BY DEF Inv, TypeOK, AppState
<1>4. /\ engine[d] \in Engine /\ ~engine[d].gate /\ engine[d].pending = <<>>
      /\ row \in Rows
  BY DEF Inv, TypeOK, Consistent, SignIn, Rows
<1>5. Started(o, u) /\ Honest(o, u, row)
  <2>. HIDE DEF s
  <2>. QED
    BY <1>1, <1>3, <1>4, ReconcileStarts, ReconcileHonest
<1>. QED
  BY <1>2, <1>4, <1>5, RestoreHonest, ResumeServer

\* A local write replaces the row only in a session that has heard it.
LEMMA WriteServer ==
  ASSUME Inv, NEW d \in Devices, NEW s \in AppState, s.user = store[d].user, SaveAndSync(d, s)
  PROVE  Server!Next
<1>1. \E p \in SyncLocalState(bearer[d], s, engine[d], row) : row' = p.row
  BY DEF SaveAndSync
<1>2. engine[d] \in Engine /\ (engine[d].gate => baseline[d] = store[d].user)
  BY DEF Inv, TypeOK, Consistent
<1>3. baseline' = baseline /\ missed' = Nobody
  BY DEF SaveAndSync
<1>4. \/ row' = row
      \/ engine[d].gate /\ s.user # Nobody /\ row' = [row EXCEPT ![s.user] = RowOf(s)]
  <2>1. PICK p \in SyncLocalState(bearer[d], s, engine[d], row) : row' = p.row
    BY <1>1
  <2>2. p.row = row \/ (engine[d].gate /\ s.user # Nobody /\ p.row = Put(row, s.user, RowOf(s)))
    BY <1>2, <2>1, SyncLocalWrites
  <2>. QED
    BY <2>1, <2>2 DEF Put
<1>5. CASE engine[d].gate /\ s.user # Nobody /\ row' = [row EXCEPT ![s.user] = RowOf(s)]
  <2>1. s.user \in Users /\ RowOf(s) \in Row
    BY <1>5, RowType DEF AppState
  <2>2. Server!Write(d, s.user)
    BY <1>2, <1>3, <1>5, <2>1 DEF Server!Write
  <2>. QED
    BY <2>1, <2>2 DEF Server!Next
<1>6. CASE row' = row
  BY <1>3, <1>6 DEF Server!Next, Server!Elsewhere
<1>. QED
  BY <1>4, <1>5, <1>6

\* The retry starts a session or writes the row of one.
LEMMA PumpServer ==
  ASSUME Inv, NEW d \in Devices, Pump(d)
  PROVE  Server!Next
<1>1. /\ store[d] \in AppState /\ store[d].user \in Users /\ engine[d] \in Engine
      /\ row \in Rows /\ Consistent(store[d], engine[d], baseline[d])
  BY DEF Inv, TypeOK, Rows, Pump, PumpReconcile, PumpQueue, AppState
<1>2. CASE PumpReconcile(d)
  <2>1. PICK o \in ReconcileAccount(bearer[d], store[d], TRUE, engine[d], row) : Resume(d, o)
    BY <1>2 DEF PumpReconcile
  <2>2. Honest(o, store[d].user, row)
    BY <1>1, <1>2, <2>1, ReconcileHonest DEF PumpReconcile
  <2>. QED
    BY <1>1, <2>1, <2>2, ResumeServer
<1>3. CASE PumpQueue(d)
  <2>1. PICK p \in AttemptSync(bearer[d], store[d].user, engine[d], row) : row' = p.row
    BY <1>3 DEF PumpQueue
  <2>2. /\ baseline' = baseline /\ missed' = Nobody /\ baseline[d] = store[d].user
        /\ Newest(engine[d].pending) = store[d]
    BY <1>1, <1>3 DEF PumpQueue, Consistent, Newest
  <2>3. row' = row \/ row' = [row EXCEPT ![store[d].user] = RowOf(store[d])]
    BY <2>1, <2>2, AttemptWrites
  <2>4. CASE row' = [row EXCEPT ![store[d].user] = RowOf(store[d])]
    <3>1. Server!Write(d, store[d].user)
      BY <1>1, <2>2, <2>4, RowType DEF Server!Write
    <3>. QED
      BY <1>1, <3>1 DEF Server!Next
  <2>5. CASE row' = row
    BY <2>2, <2>5 DEF Server!Next, Server!Elsewhere
  <2>. QED
    BY <2>3, <2>4, <2>5
<1>. QED
  BY <1>2, <1>3 DEF Pump

\* A sign-out leaves the session; a deletion may remove its row.
LEMMA LeaveServer ==
  ASSUME Inv, NEW d \in Devices, SignOut(d) \/ DeleteAccount(d)
  PROVE  Server!Next
<1>1. baseline' = [baseline EXCEPT ![d] = Nobody] /\ missed' = Nobody
  BY DEF SignOut, DeleteAccount, Erased, DropSession, ClearSession, StashSession
<1>2. row' = row \/ \E u \in Users : row' = [row EXCEPT ![u] = NoRow]
  BY DEF SignOut, DeleteAccount, Erased, Inv, TypeOK, AppState
<1>3. CASE row' = row
  BY <1>1, <1>3 DEF Server!Next, Server!Leave
<1>4. ASSUME NEW u \in Users, row' = [row EXCEPT ![u] = NoRow]
      PROVE  Server!Next
  BY <1>1, <1>4 DEF Server!Next, Server!Delete
<1>. QED
  BY <1>2, <1>3, <1>4

\* Every step of a device is a step or a stutter of the server.
LEMMA NextServer == Inv /\ [Next]_vars => [Server!Next]_<<row, baseline, missed>>
<1>. SUFFICES ASSUME Inv, [Next]_vars PROVE Server!Next \/ UNCHANGED <<row, baseline, missed>>
  OBVIOUS
<1>1. CASE UNCHANGED vars
  BY <1>1 DEF vars
<1>2. ASSUME NEW d \in Devices, PageStep(d) \/ MarkTutorialCompleted(d)
      PROVE  Server!Next
  <2>1. CASE Flush(d) \/ Tick(d) \/ Expire(d)
    BY <2>1 DEF Flush, Tick, Expire, Server!Next, Server!Elsewhere
  <2>2. CASE \/ \E w \in Wallets, hasTracks \in Rotations : SaveState(d, w, hasTracks)
             \/ MarkTutorialCompleted(d)
    BY <2>2, EditKeepsAccount, WriteServer
  <2>. QED
    BY <1>2, <2>1, <2>2, BootServer, SignInServer, LeaveServer, PumpServer DEF PageStep
<1>. QED
  BY <1>1, <1>2 DEF Next

\* Whatever the devices do, the server sees only what AuthoritativeRow allows:
\* no write before the row is heard, no session start that takes from a row.
THEOREM Refinement == Spec => Authoritative
<1>1. Init => Server!Init
  BY InitServer
<1>2. Inv /\ [Next]_vars => [Server!Next]_<<row, baseline, missed>>
  BY NextServer
<1>. QED
  BY <1>1, <1>2, Invariance, PTL DEF Spec, Authoritative, Server!Spec
=============================================================================
