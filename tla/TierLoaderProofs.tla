-------------------------- MODULE TierLoaderProofs --------------------------
(***************************************************************************)
(* Proofs about TierLoader, for any tiers, sizes and number of retries.    *)
(*                                                                         *)
(* Between two calls every tier is Settled: absent and untouched, waiting  *)
(* for one asset with everything before it resolved, or finished.  Inside  *)
(* a call a tier may also be Idle; the lemma about Advance says that the   *)
(* pump at the end of every call settles it again.                         *)
(***************************************************************************)
EXTENDS TierLoader, TLAPS

\* What the registry r and the fetch counts n say about the assets of tier t
\* when job j waits for the asset at its index, which was fetched `tried` times
\* and is in one of the states `now`.
Walked(t, j, r, n, now, tried) ==
  \A i \in 1 .. Size[t] :
    /\ i < j.index => /\ r[i] \in Resolved /\ n[i] <= MaxRetries + 1
                      /\ r[i] = "Unavailable" => n[i] = MaxRetries + 1
    /\ i = j.index => r[i] \in now /\ n[i] = tried
    /\ i > j.index => r[i] = "NotLoaded" /\ n[i] = 0

Typed(t, j, r, n) ==
  j \in TierJob /\ r \in [1 .. Size[t] -> AssetState] /\ n \in [1 .. Size[t] -> Nat]

\* Tier t between two calls.
Settled(t, j, r, n) ==
  /\ Typed(t, j, r, n)
  /\ j.phase # "Idle"
  /\ j.phase = "Absent" => /\ j.index = 1 /\ j.retries = 0 /\ ~j.elapsed
                           /\ Walked(t, j, r, n, {"NotLoaded"}, 0)
  /\ j.phase = "InFlight" => /\ j.index <= Size[t]
                             /\ Walked(t, j, r, n, {"Loading"}, j.retries + 1)
  /\ j.phase = "Backoff" => /\ j.index <= Size[t]
                            /\ Walked(t, j, r, n, {"Loading"}, j.retries)
  /\ j.phase = "Finished" => j.index > Size[t] /\ Walked(t, j, r, n, {}, 0)
  /\ j.phase = "Finished" <=> j.phase # "Absent" /\ j.waiters = 0

\* Tier t inside a call, before the pump: settled, or at a fresh asset.
Pumpable(t, j, r, n) ==
  \/ Settled(t, j, r, n)
  \/ /\ Typed(t, j, r, n)
     /\ j.phase = "Idle" /\ j.retries = 0 /\ j.waiters > 0
     /\ Walked(t, j, r, n, {"NotLoaded"}, 0)

LoaderInv ==
  /\ job \in [Tiers -> TierJob] /\ DOMAIN asset = Tiers
  /\ \A t \in Tiers : Settled(t, job[t], asset[t], attempts[t])

----------------------------------------------------------------------------
\* The pump settles a tier: a fetch goes out for the asset at the index, or the
\* tier is finished, or nothing can be done.
LEMMA AdvanceSettles ==
  ASSUME NEW t \in Tiers, NEW j, NEW r, NEW n, Pumpable(t, j, r, n)
  PROVE  Settled(t, Advance(t, j), MarkLoading(t, j, r), CountFetch(t, j, n))
<1>. DEFINE k == Advance(t, j)
            s == MarkLoading(t, j, r)
            m == CountFetch(t, j, n)
<1>1. Size[t] \in Nat /\ MaxRetries \in Nat
  BY LoaderAssumption
<1>2. Typed(t, j, r, n)
  BY DEF Pumpable, Settled
<1>3. CASE ~Runnable(j)
  <2>1. k = j
    BY <1>3 DEF Advance
  <2>2. s = r /\ m = n
    BY <1>2, <1>3 DEF MarkLoading, CountFetch, Issues, Typed
  <2>3. Settled(t, j, r, n)
    BY <1>3 DEF Pumpable, Runnable
  <2>. QED
    BY <2>1, <2>2, <2>3
<1>4. CASE Runnable(j) /\ j.index <= Size[t]
  <2>1. /\ k \in TierJob /\ k.phase = "InFlight" /\ k.index = j.index
        /\ k.retries = j.retries /\ k.waiters = j.waiters
    BY <1>2, <1>4 DEF Advance, TierJob, Typed
  <2>2. /\ s \in [1 .. Size[t] -> AssetState] /\ m \in [1 .. Size[t] -> Nat]
        /\ \A i \in 1 .. Size[t] : /\ s[i] = IF i = j.index THEN "Loading" ELSE r[i]
                                   /\ m[i] = IF i = j.index THEN n[i] + 1 ELSE n[i]
    BY <1>1, <1>2, <1>4 DEF MarkLoading, CountFetch, Issues, Typed, AssetState
  <2>3. /\ j.index \in Nat /\ j.waiters \in Nat /\ j.waiters > 0
        /\ Walked(t, j, r, n, {"NotLoaded", "Loading"}, j.retries)
    BY <1>2, <1>4 DEF Pumpable, Settled, Runnable, Typed, TierJob, Walked
  <2>4. Walked(t, k, s, m, {"Loading"}, k.retries + 1)
    <3>. HIDE DEF k, s, m
    <3>. QED
      BY <1>1, <1>2, <2>1, <2>2, <2>3 DEF Walked, Typed
  <2>5. Typed(t, k, s, m)
    BY <2>1, <2>2 DEF Typed
  <2>6. Settled(t, k, s, m)
    <3>. HIDE DEF k, s, m
    <3>. QED
      BY <1>4, <2>1, <2>3, <2>4, <2>5 DEF Settled
  <2>. QED
    BY <2>6
<1>5. CASE Runnable(j) /\ ~(j.index <= Size[t])
  <2>1. /\ k \in TierJob /\ k.phase = "Finished" /\ k.index = j.index /\ k.waiters = 0
    BY <1>2, <1>5 DEF Advance, TierJob, Typed
  <2>2. s = r /\ m = n
    BY <1>2, <1>5 DEF MarkLoading, CountFetch, Issues, Typed
  <2>3. j.index \in Nat /\ j.index > Size[t]
    BY <1>1, <1>2, <1>5 DEF Typed, TierJob
  <2>4. \A i \in 1 .. Size[t] : /\ r[i] \in Resolved /\ n[i] <= MaxRetries + 1
                                /\ r[i] = "Unavailable" => n[i] = MaxRetries + 1
    <3>1. Walked(t, j, r, n, {"NotLoaded", "Loading"}, j.retries)
      BY <1>2, <1>5 DEF Pumpable, Settled, Runnable, Typed, TierJob, Walked
    <3>. QED
      BY <1>1, <2>3, <3>1 DEF Walked
  <2>5. Walked(t, k, s, m, {}, 0)
    <3>. HIDE DEF k, s, m
    <3>. QED
      BY <1>1, <2>1, <2>2, <2>3, <2>4 DEF Walked
  <2>6. Typed(t, k, s, m)
    BY <1>2, <2>1, <2>2 DEF Typed
  <2>7. Settled(t, k, s, m)
    <3>. HIDE DEF k, s, m
    <3>. QED
      BY <2>1, <2>3, <2>5, <2>6 DEF Settled
  <2>. QED
    BY <2>7
<1>. QED
  BY <1>3, <1>4, <1>5

\* A call that ends with the pump keeps the invariant if it leaves every tier
\* pumpable.
LEMMA PumpSettles ==
  ASSUME NEW js, NEW reg, Pump(js, reg),
         \A t \in Tiers : Pumpable(t, js[t], reg[t], attempts[t])
  PROVE  LoaderInv'
<1>1. \A t \in Tiers : Settled(t, job'[t], asset'[t], attempts'[t])
  <2>. SUFFICES ASSUME NEW t \in Tiers
                PROVE  Settled(t, job'[t], asset'[t], attempts'[t])
    OBVIOUS
  <2>1. /\ job'[t] = Advance(t, js[t]) /\ asset'[t] = MarkLoading(t, js[t], reg[t])
        /\ attempts'[t] = CountFetch(t, js[t], attempts[t])
    BY DEF Pump
  <2>. QED
    BY <2>1, AdvanceSettles
<1>2. job' = [t \in Tiers |-> job'[t]] /\ DOMAIN asset' = Tiers
  BY DEF Pump
<1>3. \A t \in Tiers : job'[t] \in TierJob
  BY <1>1 DEF Settled, Typed
<1>. QED
  BY <1>1, <1>2, <1>3 DEF LoaderInv

\* No tier is started at first.
LEMMA LoaderInitInv == LoaderInit => LoaderInv
<1>. SUFFICES ASSUME LoaderInit
              PROVE  LoaderInv
  OBVIOUS
<1>1. MaxRetries \in Nat /\ \A t \in Tiers : Size[t] \in Nat
  BY LoaderAssumption
<1>2. AbsentJob \in TierJob
  BY <1>1 DEF AbsentJob, TierJob
<1>3. \A t \in Tiers : Settled(t, job[t], asset[t], attempts[t])
  <2>. SUFFICES ASSUME NEW t \in Tiers
                PROVE  Settled(t, job[t], asset[t], attempts[t])
    OBVIOUS
  <2>1. /\ job[t] = AbsentJob
        /\ asset[t] = [i \in 1 .. Size[t] |-> "NotLoaded"]
        /\ attempts[t] = [i \in 1 .. Size[t] |-> 0]
    BY DEF LoaderInit
  <2>2. Typed(t, job[t], asset[t], attempts[t])
    BY <1>2, <2>1 DEF Typed, AssetState
  <2>3. Walked(t, job[t], asset[t], attempts[t], {"NotLoaded"}, 0)
    BY <1>1, <2>1 DEF Walked, AbsentJob
  <2>. QED
    BY <2>1, <2>2, <2>3 DEF Settled, AbsentJob
<1>. QED
  BY <1>2, <1>3 DEF LoaderInit, LoaderInv

\* One more future on a tier that has not finished.
LEMMA StartedPumpable ==
  ASSUME NEW t \in Tiers, NEW j, NEW r, NEW n, Settled(t, j, r, n), j.phase # "Finished"
  PROVE  Pumpable(t, Started(j), r, n)
<1>. DEFINE k == Started(j)
<1>1. MaxRetries \in Nat /\ Size[t] \in Nat
  BY LoaderAssumption
<1>2. /\ j \in TierJob
      /\ j.phase \in {"Absent", "Idle", "InFlight", "Backoff", "Finished"}
      /\ j.index \in Nat \ {0} /\ j.retries \in 0 .. MaxRetries
      /\ j.elapsed \in BOOLEAN /\ j.waiters \in Nat
  BY DEF Settled, Typed, TierJob
<1>3. /\ k.phase = (IF j.phase = "Absent" THEN "Idle" ELSE j.phase)
      /\ k.index = j.index /\ k.retries = j.retries /\ k.elapsed = j.elapsed
      /\ k.waiters = j.waiters + 1 /\ k \in TierJob
  BY <1>2 DEF Started, TierJob
<1>4. Typed(t, k, r, n)
  BY <1>3 DEF Settled, Typed
<1>5. Pumpable(t, k, r, n)
  <2>. HIDE DEF k
  <2>1. CASE j.phase = "Absent"
    <3>1. Walked(t, k, r, n, {"NotLoaded"}, 0)
      BY <1>3, <2>1 DEF Settled, Walked
    <3>. QED
      BY <1>2, <1>3, <1>4, <2>1, <3>1 DEF Pumpable, Settled
  <2>2. CASE j.phase = "InFlight"
    <3>1. Walked(t, k, r, n, {"Loading"}, k.retries + 1)
      BY <1>3, <2>2 DEF Settled, Walked
    <3>. QED
      BY <1>2, <1>3, <1>4, <2>2, <3>1 DEF Pumpable, Settled
  <2>3. CASE j.phase = "Backoff"
    <3>1. Walked(t, k, r, n, {"Loading"}, k.retries)
      BY <1>3, <2>3 DEF Settled, Walked
    <3>. QED
      BY <1>2, <1>3, <1>4, <2>3, <3>1 DEF Pumpable, Settled
  <2>. QED
    BY <1>2, <2>1, <2>2, <2>3 DEF Settled
<1>. QED
  BY <1>5

\* The asset at the index is resolved and the job moves on.
LEMMA PastPumpable ==
  ASSUME NEW t \in Tiers, NEW j, NEW r, NEW n, NEW s \in Resolved,
         Settled(t, j, r, n), j.phase = "InFlight",
         s = "Unavailable" => j.retries = MaxRetries
  PROVE  Pumpable(t, Past(j), [r EXCEPT ![j.index] = s], n)
<1>. DEFINE k == Past(j)
            q == [r EXCEPT ![j.index] = s]
<1>1. MaxRetries \in Nat /\ Size[t] \in Nat
  BY LoaderAssumption
<1>2. /\ j \in TierJob /\ r \in [1 .. Size[t] -> AssetState] /\ n \in [1 .. Size[t] -> Nat]
      /\ j.index \in Nat \ {0} /\ j.retries \in 0 .. MaxRetries
      /\ j.waiters \in Nat /\ j.waiters # 0 /\ j.index \in 1 .. Size[t]
      /\ Walked(t, j, r, n, {"Loading"}, j.retries + 1)
  BY <1>1 DEF Settled, Typed, TierJob
<1>3. /\ k.phase = "Idle" /\ k.index = j.index + 1 /\ k.retries = 0
      /\ k.waiters = j.waiters /\ k \in TierJob
  BY <1>1, <1>2 DEF Past, TierJob
<1>4. /\ q \in [1 .. Size[t] -> AssetState]
      /\ \A i \in 1 .. Size[t] : q[i] = IF i = j.index THEN s ELSE r[i]
  BY <1>2 DEF Resolved, AssetState
<1>5. Walked(t, k, q, n, {"NotLoaded"}, 0)
  <2>. HIDE DEF k, q
  <2>. QED
    BY <1>1, <1>2, <1>3, <1>4, SMTT(30) DEF Walked
<1>6. Typed(t, k, q, n)
  BY <1>2, <1>3, <1>4 DEF Typed
<1>7. Pumpable(t, k, q, n)
  <2>. HIDE DEF k, q
  <2>. QED
    BY <1>2, <1>3, <1>5, <1>6 DEF Pumpable
<1>. QED
  BY <1>7

\* A failed fetch with a retry left is waited out.
LEMMA RetryPumpable ==
  ASSUME NEW t \in Tiers, NEW j, NEW r, NEW n,
         Settled(t, j, r, n), j.phase = "InFlight", j.retries < MaxRetries
  PROVE  Pumpable(t, Retry(j), r, n)
<1>. DEFINE k == Retry(j)
<1>1. MaxRetries \in Nat /\ Size[t] \in Nat
  BY LoaderAssumption
<1>2. /\ j \in TierJob /\ j.index \in Nat \ {0} /\ j.retries \in 0 .. MaxRetries
      /\ j.waiters \in Nat /\ j.waiters # 0 /\ j.index <= Size[t]
      /\ Walked(t, j, r, n, {"Loading"}, j.retries + 1)
  BY DEF Settled, Typed, TierJob
<1>3. /\ k.phase = "Backoff" /\ k.index = j.index /\ k.retries = j.retries + 1
      /\ k.waiters = j.waiters /\ k \in TierJob
  BY <1>1, <1>2 DEF Retry, TierJob
<1>4. Typed(t, k, r, n)
  BY <1>3 DEF Settled, Typed
<1>5. Pumpable(t, k, r, n)
  <2>. HIDE DEF k
  <2>1. Walked(t, k, r, n, {"Loading"}, k.retries)
    BY <1>2, <1>3 DEF Walked
  <2>. QED
    BY <1>2, <1>3, <1>4, <2>1 DEF Pumpable, Settled
<1>. QED
  BY <1>5

----------------------------------------------------------------------------
\* A future attached to a tier, which the pump may start or finish.
LEMMA LoadTierInv ==
  ASSUME LoaderInv, NEW t \in Tiers, LoadTier(t)
  PROVE  LoaderInv'
<1>. DEFINE js == [job EXCEPT ![t] = Started(job[t])]
<1>1. \A u \in Tiers : js[u] = IF u = t THEN Started(job[t]) ELSE job[u]
  BY DEF LoaderInv
<1>2. \A u \in Tiers : Pumpable(u, js[u], asset[u], attempts[u])
  <2>. HIDE DEF js
  <2>. SUFFICES ASSUME NEW u \in Tiers
                PROVE  Pumpable(u, js[u], asset[u], attempts[u])
    OBVIOUS
  <2>1. CASE u = t
    BY <1>1, <2>1, StartedPumpable DEF LoaderInv, LoadTier
  <2>2. CASE u # t
    BY <1>1, <2>2 DEF LoaderInv, Pumpable
  <2>. QED
    BY <2>1, <2>2
<1>3. CASE Size[t] # 0
  <2>1. Pump(js, asset)
    BY <1>3 DEF LoadTier
  <2>. HIDE DEF js
  <2>. QED
    BY <1>2, <2>1, PumpSettles
<1>4. CASE Size[t] = 0
  <2>. DEFINE k == Advance(t, js[t])
  <2>1. job' = [job EXCEPT ![t] = k] /\ UNCHANGED <<asset, attempts>>
    BY <1>4 DEF LoadTier
  <2>. HIDE DEF js
  <2>2. Settled(t, k, MarkLoading(t, js[t], asset[t]), CountFetch(t, js[t], attempts[t]))
    BY <1>2, AdvanceSettles
  <2>3. MarkLoading(t, js[t], asset[t]) = asset[t] /\ CountFetch(t, js[t], attempts[t]) = attempts[t]
    BY <1>4 DEF LoaderInv, Settled, Typed, MarkLoading, CountFetch
  <2>4. k \in TierJob
    BY <2>2 DEF Settled, Typed
  <2>5. \A u \in Tiers : job'[u] = IF u = t THEN k ELSE job[u]
    <3>. HIDE DEF k
    <3>. QED
      BY <2>1 DEF LoaderInv
  <2>. HIDE DEF k
  <2>. QED
    BY <2>1, <2>2, <2>3, <2>4, <2>5 DEF LoaderInv
<1>. QED
  BY <1>3, <1>4

\* An answer either resolves the asset or starts its backoff.
LEMMA FetchInv ==
  ASSUME LoaderInv, NEW t \in Tiers, FetchLoaded(t) \/ FetchFailed(t)
  PROVE  LoaderInv'
<1>. DEFINE j == job[t]
            past == [job EXCEPT ![t] = Past(job[t])]
            retry == [job EXCEPT ![t] = Retry(job[t])]
            Known(s) == [asset EXCEPT ![t][job[t].index] = s]
<1>1. /\ Settled(t, j, asset[t], attempts[t]) /\ j.phase = "InFlight"
      /\ j.retries \in 0 .. MaxRetries /\ MaxRetries \in Nat
  BY LoaderAssumption DEF LoaderInv, TierJob, FetchLoaded, FetchFailed, Outstanding
<1>2. ASSUME NEW s \in Resolved, s = "Unavailable" => j.retries = MaxRetries,
             Pump(past, Known(s))
      PROVE  LoaderInv'
  <2>. DEFINE reg == Known(s)
  <2>1. \A u \in Tiers : past[u] = IF u = t THEN Past(j) ELSE job[u]
    BY DEF LoaderInv
  <2>2. \A u \in Tiers : reg[u] = IF u = t THEN [asset[t] EXCEPT ![j.index] = s] ELSE asset[u]
    BY DEF LoaderInv
  <2>3. \A u \in Tiers : Pumpable(u, past[u], reg[u], attempts[u])
    <3>. SUFFICES ASSUME NEW u \in Tiers
                  PROVE  Pumpable(u, past[u], reg[u], attempts[u])
      OBVIOUS
    <3>1. Pumpable(t, Past(j), [asset[t] EXCEPT ![j.index] = s], attempts[t])
      BY <1>1, <1>2, PastPumpable
    <3>. HIDE DEF past, reg
    <3>. QED
      BY <2>1, <2>2, <3>1 DEF LoaderInv, Pumpable
  <2>4. Pump(past, reg)
    BY <1>2
  <2>. HIDE DEF past, reg
  <2>. QED
    BY <2>3, <2>4, PumpSettles
<1>3. ASSUME j.retries < MaxRetries, Pump(retry, asset)
      PROVE  LoaderInv'
  <2>1. \A u \in Tiers : retry[u] = IF u = t THEN Retry(j) ELSE job[u]
    BY DEF LoaderInv
  <2>2. \A u \in Tiers : Pumpable(u, retry[u], asset[u], attempts[u])
    <3>. SUFFICES ASSUME NEW u \in Tiers
                  PROVE  Pumpable(u, retry[u], asset[u], attempts[u])
      OBVIOUS
    <3>1. Pumpable(t, Retry(j), asset[t], attempts[t])
      BY <1>1, <1>3, RetryPumpable
    <3>. HIDE DEF retry
    <3>. QED
      BY <2>1, <3>1 DEF LoaderInv, Pumpable
  <2>3. Pump(retry, asset)
    BY <1>3
  <2>. HIDE DEF retry
  <2>. QED
    BY <2>2, <2>3, PumpSettles
<1>4. CASE FetchLoaded(t)
  BY <1>2, <1>4 DEF FetchLoaded, Resolved, Outstanding
<1>5. CASE FetchFailed(t)
  BY <1>1, <1>2, <1>3, <1>5 DEF FetchFailed, Resolved, Outstanding
<1>. QED
  BY <1>4, <1>5

\* The end of a backoff is only noticed by the next pump.
LEMMA ElapseInv ==
  ASSUME LoaderInv, NEW t \in Tiers, Elapse(t)
  PROVE  LoaderInv'
<1>. DEFINE k == [job[t] EXCEPT !.elapsed = TRUE]
<1>1. /\ job' = [job EXCEPT ![t] = k] /\ UNCHANGED <<asset, attempts>>
      /\ job[t].phase = "Backoff" /\ Settled(t, job[t], asset[t], attempts[t])
      /\ job[t] \in TierJob
  BY DEF Elapse, LoaderInv
<1>2. /\ k \in TierJob /\ k.phase = "Backoff" /\ k.index = job[t].index
      /\ k.retries = job[t].retries /\ k.waiters = job[t].waiters
  BY <1>1 DEF TierJob
<1>. HIDE DEF k
<1>3. Settled(t, k, asset[t], attempts[t])
  BY <1>1, <1>2 DEF Settled, Typed, Walked
<1>4. \A u \in Tiers : job'[u] = IF u = t THEN k ELSE job[u]
  BY <1>1 DEF LoaderInv
<1>. QED
  BY <1>1, <1>2, <1>3, <1>4 DEF LoaderInv

\* Every call keeps every tier settled.
LEMMA LoaderNextInv == LoaderInv /\ [LoaderNext]_loaderVars => LoaderInv'
<1>. SUFFICES ASSUME LoaderInv, [LoaderNext]_loaderVars
              PROVE  LoaderInv'
  OBVIOUS
<1>1. CASE UNCHANGED loaderVars
  BY <1>1 DEF loaderVars, LoaderInv
<1>2. CASE Poll
  <2>1. \A t \in Tiers : Pumpable(t, job[t], asset[t], attempts[t])
    BY DEF LoaderInv, Pumpable
  <2>. QED
    BY <1>2, <2>1, PumpSettles DEF Poll
<1>. QED
  BY <1>1, <1>2, LoadTierInv, FetchInv, ElapseInv DEF LoaderNext

\* Between two calls every tier is absent, waiting for one asset, or finished.
THEOREM LoaderInvariance == LoaderSpec => []LoaderInv
<1>1. LoaderInit => LoaderInv
  BY LoaderInitInv
<1>2. LoaderInv /\ [LoaderNext]_loaderVars => LoaderInv'
  BY LoaderNextInv
<1>. QED
  BY <1>1, <1>2, PTL DEF LoaderSpec

\* Every job and every registry entry stays in its type: no asset is retried
\* more often than the schedule has delays for.
THEOREM LoaderTypeCorrect == LoaderSpec => []LoaderTypeOK
<1>1. LoaderInv => LoaderTypeOK
  BY DEF LoaderInv, Settled, Typed, LoaderTypeOK
<1>. QED
  BY <1>1, LoaderInvariance, PTL

\* TierLoader loads each tier strictly in order, whatever fails and however
\* the answers of the tiers interleave.
THEOREM SerialSafe == LoaderSpec => []SerialInOrder
<1>1. LoaderInv => SerialInOrder
  <2>. SUFFICES ASSUME LoaderInv, NEW t \in Tiers, job[t].phase # "Absent", NEW i \in 1 .. Size[t]
                PROVE  asset[t][i] \in (IF i < job[t].index THEN Resolved
                                       ELSE IF i = job[t].index THEN {"Loading"} ELSE {"NotLoaded"})
    BY DEF SerialInOrder
  <2>1. /\ Settled(t, job[t], asset[t], attempts[t]) /\ Size[t] \in Nat
        /\ job[t].index \in Nat
        /\ job[t].phase \in {"Absent", "Idle", "InFlight", "Backoff", "Finished"}
    BY LoaderAssumption DEF LoaderInv, TierJob
  <2>. QED
    BY <2>1 DEF Settled, Walked
<1>. QED
  BY <1>1, LoaderInvariance, PTL

\* A ready future means its tier is resolved, and no future is left behind.
THEOREM FutureSafe == LoaderSpec => []FutureMeansResolved
<1>1. LoaderInv => FutureMeansResolved
  <2>. SUFFICES ASSUME LoaderInv, NEW t \in Tiers
                PROVE  /\ job[t].phase = "Finished" =>
                            \A i \in 1 .. Size[t] : asset[t][i] \in Resolved
                       /\ job[t].phase = "Finished" <=>
                            job[t].phase # "Absent" /\ job[t].waiters = 0
    BY DEF FutureMeansResolved
  <2>1. /\ Settled(t, job[t], asset[t], attempts[t]) /\ Size[t] \in Nat
        /\ job[t].index \in Nat
    BY LoaderAssumption DEF LoaderInv, TierJob
  <2>2. job[t].phase = "Finished" => \A i \in 1 .. Size[t] : asset[t][i] \in Resolved
    BY <2>1 DEF Settled, Walked
  <2>. QED
    BY <2>1, <2>2 DEF Settled
<1>. QED
  BY <1>1, LoaderInvariance, PTL

\* An asset is given up after exactly the promised retries, never earlier.
THEOREM RetriesSafe == LoaderSpec => []RetriesHonoured
<1>1. LoaderInv => RetriesHonoured
  <2>. SUFFICES ASSUME LoaderInv, NEW t \in Tiers, NEW i \in 1 .. Size[t]
                PROVE  /\ attempts[t][i] <= MaxRetries + 1
                       /\ asset[t][i] = "Unavailable" => attempts[t][i] = MaxRetries + 1
    BY DEF RetriesHonoured
  <2>1. /\ Settled(t, job[t], asset[t], attempts[t]) /\ Size[t] \in Nat /\ MaxRetries \in Nat
        /\ job[t].index \in Nat /\ job[t].retries \in 0 .. MaxRetries
        /\ job[t].phase \in {"Absent", "Idle", "InFlight", "Backoff", "Finished"}
    BY LoaderAssumption DEF LoaderInv, TierJob
  <2>2. CASE job[t].phase = "InFlight"
    BY <2>1, <2>2 DEF Settled, Walked
  <2>3. CASE job[t].phase = "Backoff"
    BY <2>1, <2>3 DEF Settled, Walked
  <2>4. CASE job[t].phase \in {"Absent", "Finished"}
    BY <2>1, <2>4 DEF Settled, Walked
  <2>. QED
    BY <2>1, <2>2, <2>3, <2>4 DEF Settled
<1>. QED
  BY <1>1, LoaderInvariance, PTL
=============================================================================
