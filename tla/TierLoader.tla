----------------------------- MODULE TierLoader -----------------------------
(***************************************************************************)
(* The tiered asset loader (src/src/assets): TierLoader and the            *)
(* AssetRegistry it fills.  Each tier is loaded serially in AssetId order, *)
(* a failed fetch is retried a few times, an asset that keeps failing is   *)
(* given up and the tier goes on; the tiers advance side by side.          *)
(*                                                                         *)
(* An asset is its tier and its place in the tier's queue.  A fetch is     *)
(* asynchronous (emscripten_async_wget_data) and is answered exactly once; *)
(* a decode error counts as a failed fetch.  Of the backoff only matters   *)
(* whether it has elapsed: the first retry is immediate, the later ones    *)
(* wait for the clock.                                                     *)
(***************************************************************************)
EXTENDS Naturals

CONSTANTS
  Tiers,        \* the asset tiers
  Size,         \* Size[t]: how many assets tier t has
  MaxRetries,   \* kMaxRetries
  MaxWaiters    \* bound: futures outstanding on one tier

ASSUME LoaderAssumption ==
  /\ Size \in [Tiers -> Nat]
  /\ MaxRetries \in Nat
  /\ MaxWaiters \in Nat

VARIABLES
  job,       \* job[t]: the TierJob of tier t
  asset,     \* asset[t][i]: the registry's state of the i-th asset of t
  attempts   \* history: attempts[t][i], the fetches issued for that asset

loaderVars == <<job, asset, attempts>>

\* A job that was never started is in phase Absent; one with finished set is
\* in phase Finished.
TierJob == [phase : {"Absent", "Idle", "InFlight", "Backoff", "Finished"},
            index : Nat \ {0}, retries : 0 .. MaxRetries, elapsed : BOOLEAN, waiters : Nat]

AssetState == {"NotLoaded", "Loading", "Loaded", "Unavailable"}

Resolved == {"Loaded", "Unavailable"}

AbsentJob ==
  [phase |-> "Absent", index |-> 1, retries |-> 0, elapsed |-> FALSE, waiters |-> 0]

----------------------------------------------------------------------------
\* Faulty: the end of a backoff goes unnoticed.
RunnableBug(j) == j.phase = "Idle"

\* advance_job has something to do: the next fetch to issue, or the end of the
\* queue reached.
Runnable(j) == j.phase = "Idle" \/ (j.phase = "Backoff" /\ j.elapsed)

\* advance_job issues a fetch.
Issues(t, j) == Runnable(j) /\ j.index <= Size[t]

\* Faulty: the last asset is skipped.
AdvanceBug(t, j) ==
  IF ~Runnable(j) THEN j
  ELSE IF j.index < Size[t] THEN [j EXCEPT !.phase = "InFlight"]
  ELSE [j EXCEPT !.phase = "Finished", !.waiters = 0]

\* advance_job: a fetch is issued and awaited, or the tier is finished and its
\* futures are made ready.
Advance(t, j) ==
  IF ~Runnable(j) THEN j
  ELSE IF j.index <= Size[t]
       THEN [phase |-> "InFlight", index |-> j.index, retries |-> j.retries,
             elapsed |-> FALSE, waiters |-> j.waiters]
       ELSE [phase |-> "Finished", index |-> j.index, retries |-> j.retries,
             elapsed |-> FALSE, waiters |-> 0]

\* mark_loading on the asset whose fetch the advance issues, if it does.
MarkLoading(t, j, reg) ==
  [i \in 1 .. Size[t] |-> IF Issues(t, j) /\ i = j.index THEN "Loading" ELSE reg[i]]

CountFetch(t, j, n) ==
  [i \in 1 .. Size[t] |-> IF Issues(t, j) /\ i = j.index THEN n[i] + 1 ELSE n[i]]

\* pump() over the jobs js and the registry reg: every job advances.
Pump(js, reg) ==
  /\ job' = [t \in Tiers |-> Advance(t, js[t])]
  /\ asset' = [t \in Tiers |-> MarkLoading(t, js[t], reg[t])]
  /\ attempts' = [t \in Tiers |-> CountFetch(t, js[t], attempts[t])]

\* load_tier: start the tier, or attach one more future to the load in
\* progress.  A finished tier changes nothing.
Started(j) ==
  [phase |-> IF j.phase = "Absent" THEN "Idle" ELSE j.phase, index |-> j.index,
   retries |-> j.retries, elapsed |-> j.elapsed, waiters |-> j.waiters + 1]

LoadTier(t) ==
  /\ job[t].phase # "Finished"
  /\ job[t].waiters < MaxWaiters   \* bound
  /\ LET js == [job EXCEPT ![t] = Started(job[t])]
     IN  IF Size[t] = 0
         THEN /\ job' = [job EXCEPT ![t] = Advance(t, js[t])]
              /\ UNCHANGED <<asset, attempts>>
         ELSE Pump(js, asset)

\* Faulty: the retries of an asset that loaded count for the next one.
PastBug(j) ==
  [phase |-> "Idle", index |-> j.index + 1, retries |-> j.retries, elapsed |-> FALSE,
   waiters |-> j.waiters]

\* The current asset is done with, one way or the other.
Past(j) ==
  [phase |-> "Idle", index |-> j.index + 1, retries |-> 0, elapsed |-> FALSE,
   waiters |-> j.waiters]

\* Faulty: the loader goes on to the next asset and retries that one.
RetryBug(j) ==
  [phase |-> "Backoff", index |-> j.index + 1, retries |-> j.retries + 1,
   elapsed |-> j.retries = 0, waiters |-> j.waiters]

\* handle_attempt_failure with a retry left: immediate for the first.
Retry(j) ==
  [phase |-> "Backoff", index |-> j.index, retries |-> j.retries + 1,
   elapsed |-> j.retries = 0, waiters |-> j.waiters]

\* make_cdn_fetch: of a fetch's two callbacks exactly one fires, once, with the bytes or
\* with the failure.
Outstanding(t) == job[t].phase = "InFlight"

\* on_fetch_result: the fetch in flight for t is answered, usably or not.
FetchLoaded(t) ==
  /\ Outstanding(t)
  /\ Pump([job EXCEPT ![t] = Past(job[t])],
          [asset EXCEPT ![t][job[t].index] = "Loaded"])

\* Faulty: one retry too many.
FetchFailedBug(t) ==
  /\ Outstanding(t)
  /\ IF job[t].retries <= MaxRetries
     THEN Pump([job EXCEPT ![t] = Retry(job[t])], asset)
     ELSE Pump([job EXCEPT ![t] = Past(job[t])],
               [asset EXCEPT ![t][job[t].index] = "Unavailable"])

FetchFailed(t) ==
  /\ Outstanding(t)
  /\ IF job[t].retries < MaxRetries
     THEN Pump([job EXCEPT ![t] = Retry(job[t])], asset)
     ELSE Pump([job EXCEPT ![t] = Past(job[t])],
               [asset EXCEPT ![t][job[t].index] = "Unavailable"])

\* poll(), once per frame.
Poll == Pump(job, asset)

\* The backoff of t runs out on the steady clock.
Elapse(t) ==
  /\ job[t].phase = "Backoff" /\ ~job[t].elapsed
  /\ job' = [job EXCEPT ![t].elapsed = TRUE]
  /\ UNCHANGED <<asset, attempts>>

LoaderInit ==
  /\ job = [t \in Tiers |-> AbsentJob]
  /\ asset = [t \in Tiers |-> [i \in 1 .. Size[t] |-> "NotLoaded"]]
  /\ attempts = [t \in Tiers |-> [i \in 1 .. Size[t] |-> 0]]

LoaderNext ==
  \/ Poll
  \/ \E t \in Tiers : LoadTier(t) \/ FetchLoaded(t) \/ FetchFailed(t) \/ Elapse(t)

LoaderSpec == LoaderInit /\ [][LoaderNext]_loaderVars

\* Every fetch is answered, the clock runs, and poll() is called every frame.
LoaderFairness ==
  /\ WF_loaderVars(Poll)
  /\ \A t \in Tiers : WF_loaderVars(FetchLoaded(t) \/ FetchFailed(t)) /\ WF_loaderVars(Elapse(t))

LoaderFairSpec == LoaderSpec /\ LoaderFairness

----------------------------------------------------------------------------
(* Properties. *)

LoaderTypeOK ==
  /\ job \in [Tiers -> TierJob]
  /\ \A t \in Tiers :
       asset[t] \in [1 .. Size[t] -> AssetState] /\ attempts[t] \in [1 .. Size[t] -> Nat]

\* A tier is loaded strictly in order, one asset at a time: what lies before
\* the job's index is resolved, the asset at the index is on its way, what
\* lies after has not been touched.
SerialInOrder ==
  \A t \in Tiers : job[t].phase # "Absent" => \A i \in 1 .. Size[t] :
    asset[t][i] \in (IF i < job[t].index THEN Resolved
                     ELSE IF i = job[t].index THEN {"Loading"} ELSE {"NotLoaded"})

\* A future becomes ready when, and only when, every asset of its tier is
\* resolved: none is left behind by a tier that has finished.
FutureMeansResolved ==
  \A t \in Tiers :
    /\ job[t].phase = "Finished" => \A i \in 1 .. Size[t] : asset[t][i] \in Resolved
    /\ job[t].phase = "Finished" <=> job[t].phase # "Absent" /\ job[t].waiters = 0

\* No asset is given up before the retries promised for it have been made, and
\* none is fetched more often; the retries of one asset are not charged to
\* another.
RetriesHonoured ==
  \A t \in Tiers : \A i \in 1 .. Size[t] :
    /\ attempts[t][i] <= MaxRetries + 1
    /\ asset[t][i] = "Unavailable" => attempts[t][i] = MaxRetries + 1

\* Every load that is started ends, however many fetches fail.
EveryLoadEnds ==
  \A t \in Tiers : job[t].phase # "Absent" ~> job[t].phase = "Finished"
=============================================================================
