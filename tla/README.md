# Poker trainer: TLA+ models, checks and proofs

The poker trainer is a single-page C++/WebAssembly application: it deals a poker scenario, asks the
player for the mathematics of the decision, grades the answer against a target time and pays an
in-app currency. It has no server logic of its own; a profile lives in the browser (IndexedDB) and,
for a signed-in user, in one row of a Supabase table behind Auth0. The code is divided into sixteen
zones (`src/ZONES.md`); the specification document is `src/ARCHITECTURE.md`. Paths below are relative
to `src/src/`.

Everything runs on the browser's main thread. What makes the program hard to test is therefore not
data races but order: input callbacks, fetch answers and IndexedDB completions arrive between frames;
a frame runs some twenty registered ticks and draws in a fixed order; transitions defer half of a
state change by 700 ms; a page can be closed at any point; the network loses requests and replies;
and two devices of one account share a row that has no version number.

## 1. Inventory

| Component | State | Operations | Talks to | What is hard |
|---|---|---|---|---|
| **Account synchronisation** (`persistence/`, boot part of `bridge/boot.cpp`) | `AppState` in MEMFS and IndexedDB, refresh token in localStorage, id_token in memory, `SyncEngine` (gate, queue, status, backoff), the server row | boot with silent refresh, sign in/up/out, delete account, save, latch, reconcile, per-frame pump, flush | Auth0, Supabase, IndexedDB, every zone that saves | which side is authoritative, lost replies, closing the page between a write and its flush, two devices, leftovers of one account reaching another |
| **Tiered asset loading** (`assets/tier_loader.cpp`) | one job per tier (index, retries, phase, backoff deadline), registry state per asset, futures | load a tier, pump all, answer, retry, give up | the fetch layer, boot, launches | answers of several tiers interleave; retry accounting; a load that never ends |
| **Screen flow and launch** (`bridge/main_loop.cpp`, `game_launch.cpp`, `screen_transition.cpp`, `tier_orchestrator.cpp`, `screens/`, `animations/button_morph.cpp`) | screen snapshot, boot phase, pending launch, last launch config, transition, morph, popup | boot route, shared link, navigation, launch, deferred launch, fade, slide, morph | loader, drill round, modals | a deferred launch firing after the user moved on; a launch asked for during a transition; clicks that are read when a screen is drawn |
| **Drill round and Delta Timer** (`math/`, `temporal/`, `screens/post_round_screen.cpp`) | answer sheet, timer, recap snapshot, Again button | Enter (next tier, submit), grade, award, recap, Again, Exit | event bus, persistence, transitions | double submission, the moment the time is frozen, recap of the wrong hand |
| **Answer sheet and recap** (`math/input_boxes.cpp`, `keybinds.cpp`, `render/stat_modal.cpp`) | boxes, texts, bet size, current tier, focus list, ImGui's caret, recap tab | type, digit and arrow keys, Tab, clicks, Enter, tabs | focus, scenario engine, tutorial | two owners of the keyboard; a hand spread over several screens and graded as one |
| **Scenario engine** (`engine/`) | none: a pure function of a 64-bit seed and the settings | generate, rank hands, count outs, EV, grade | launch, grading | boundary cases of streets, draws, fold chances and breakevens |
| **Focus and modal stacks, event router** (`backbone/event_router.cpp`, `focus_manager.cpp`, `modal_state.cpp`, `modal/modal_base.cpp`) | handler lists by priority, stack of focus contexts, stack of at most eight modals | register, dispatch, push, pop, open, close | every screen | two stacks that must stay in step, moved by a dozen callers |
| **Panels** (`modal/`, `settings/settings_modal.cpp`, `settings/account_modal.cpp`) | which panel is up, its form, document or pending request, the shared registry of Settings | open, close, swap, re-lay, submit | focus, account, settings | requests raised in one frame and served in a later one; rows that follow the account |
| **Tutorial** (`tutorial/`) | phase, cursor in a script of 46 sub-steps, saved user settings | prompt, Next, Previous, poll, scripted actions, skip, complete, force and restore settings | launch, screens, settings, persistence | leaving at any sub-step must restore what was forced; the script and the screen are moved by different hands |
| **Settings and live weights** (`settings/`, `bridge/settings_persistence.cpp`, `persistent_weights_store.cpp`) | live settings, their blob in the profile and on the server, staged street weights, popup weights | edit, reset, save, redistribute, encode, decode, adopt | persistence, theme, audio, generator | a stale copy written back over a newer one; blobs of older releases |
| **Leaderboard and banner** (`modal/leaderboard_view.cpp`, `outage_banner.cpp`) | cached rows, cursor, typed number, filter, Report popup and panel, banner phase | fetch, move, jump, filter, report, opt in, trigger, dismiss | Supabase, focus, account | a rank that names somebody else after a refetch; digits that time out; messages replaced as they leave |
| **Economy and Shop, music** (`persistence/economy.cpp`, `modal/shop_view.cpp`, `audio/`) | wallet, owned tracks, rotation; autoplay gate, shuffle pool, crossfade, two slots | award, buy, add/remove, gesture, play, skip, update | persistence, Web Audio, settings | the rotation kept twice; removing the track that is fading in; an empty pool |
| **Rendering, theme, chip slide, sound effects, easter egg, settings search** | textures, palettes, positions, click count | draw, play, filter | read the others | none that a state model reaches |
| **`delete-auth0-user`** (edge function) | none | delete an Auth0 user | Auth0 | stateless |

What makes each correct:

- *Account*: a device writes an account's row only in a session that has heard that row; nothing queued
  crosses from one account to another; the offline indicator tells the truth; queued writes reach the
  server; a failed session start recovers; a finished tutorial stays finished.
- *Loader*: assets of a tier are tried strictly in order; each is given up after exactly its retries; a
  future is ready exactly when its tier is resolved; every load ends.
- *Screens and round*: Game and Post-Round show the hand that was dealt, graded and timed; a hand is
  graded and paid once; every transition ends; a deferred launch is carried out or refused.
- *Hand*: every deal is one its type and the settings allow; what is asked, typed, graded and shown is the
  same set of boxes; keys go to the ringed box.
- *Focus, panels, tutorial*: as many focus contexts as open layers; the keyboard is trapped in what is on
  top; the script follows the screen; what the tutorial forces ends with it.
- *Settings*: every reachable value is valid; a choice survives reloads and other writers; theme, sound and
  opt-in follow the live settings.
- *Leaderboard and banner*: the player reported is the one pointed at; a number goes where it says; a
  message stays its time.
- *Music and Shop*: only what is in scope plays, the engine's rotation is the persisted one, every track
  comes round, nothing is paid twice.

## 2. Modules

| Module | Kind | Content |
|---|---|---|
| `AccountSync` | component | devices × accounts: local file, IndexedDB copy, tokens, sync engine, server rows |
| `AuthoritativeRow` | abstract specification | what the server may rely on, whatever runs in the browsers |
| `Onboarding` | composition | `AccountSync` with the history of who finished the tutorial |
| `AccountSyncProofs` | proofs | inductive invariant; `AccountSync` implements `AuthoritativeRow` |
| `TierLoader`, `TierLoaderProofs` | component, proofs | the tiers' jobs, the registry and the futures; inductive invariant |
| `Session` | component | one run of the app from the loading screen: frames, screens, launches, the round, transitions |
| `Scenario` | operators | the scenario engine: generation from a stream of draws, EV, grading |
| `Hand` | component | one hand on the answer sheet, from the deal to the recap |
| `FocusStack`, `EventRouter` | operators | focus contexts and the modal stack; handlers by priority |
| `Panels`, `Tutorial` | components | the modal panels; the script, its cursor and the settings it forces |
| `Interface` | composition | screens, popup, panels and tutorial over one focus, one router and one frame loop |
| `SettingsBlob` | operators | the settings, the coupled weights and every revision of their byte layout |
| `LiveSettings` | component | the live snapshot, the profile's blob, the server row and what is shown |
| `Banner`, `Leaderboard` | components | the outage banner; the leaderboard with its Report popup and panel |
| `Music`, `Jukebox` | component, composition | the music engine; the profile and the Shop beside it |
| `SessionProofs`, `HandProofs`, `LiveSettingsProofs`, `LeaderboardProofs`, `JukeboxProofs`, `InterfaceProofs` | proofs | inductive invariants and the lemmas about the operators they use (section 5) |
| `MCAccountSync`, `MCTierLoader`, `MCSession`, `MCHand`, `MCLiveSettings`, `MCLeaderboard`, `MCJukebox` | models | the values of the constants for TLC |

Faulty variants (`...Bug`) stand before the definition they spoil. No specification uses them; each is a
plausible bug, and substituting it must break the property it is listed with.

### AccountSync

A device is one browser profile. Every call of `PersistenceService` is synchronous (blocking
`XMLHttpRequest`), so one call is one action: `Boot`, `SignIn` (sign-in and sign-up), `SignOut`,
`DeleteAccount`, `SaveState`, `MarkTutorialCompleted`, `Pump` (the frame tick), `Tick` (the end of a
backoff: nothing reads what is left of one), `Expire` (the id_token), `Flush` (FS.syncfs completing). A request's outcome, including a reply lost
after the row was written, is a choice inside the action. `store` is the state in memory (equal to the
MEMFS file), `durable` its IndexedDB copy, which `Boot` reads; so closing a page between a write and its
flush is `Boot` reading an older `durable` beside a newer token. The profile is abstracted to the linked
account, a wallet, "the rotation has a track" and one tutorial latch, the parts that reconcile, seed and
merge treat differently. What a missing, damaged, older or newer profile file reads as is `LoadedAs`; what
an answer of the server reads as is `Fetched`: a 2xx response whose blob field is missing, null or not
terminated is taken for "no row" whether or not there is one, and the migrator then writes the seed over a
row the device has not heard (section 4).

`AuthoritativeRow` is the promise: five actions keep it (`Establish`, `SeedUnheard`, `Write`, `Leave`,
`Delete`), `Overlook` is the one case the code does not keep it in, a row that is there and not found, and
`Elsewhere` touches no row. Its refinement mapping is the identity on `row` and on two history variables:
`baseline`, the account whose row the device has heard in its current session, and `missed`, the account
whose row the last step overlooked, so that no step but that one passes for an `Overlook`.

### TierLoader

One `TierJob` record per tier, the `AssetState` of each asset and the count of futures. An answer
(`FetchLoaded`, `FetchFailed`) ends with the pump over all tiers, as in the code. `Elapse` ends one
backoff; its length is left out, since only its end matters to the order. Fetches are the asynchronous
ones of the browser, of whose two callbacks exactly one fires (`bridge/cdn_fetch.cpp`).

### Session

The frame is cut into stages (`Events`, `Poll`, `Boot`, `Screen`, `Overlay`) in the order of
`app_frame`; nothing happens between two stages, and between two frames up to `MaxInputs` inputs and any
asset answers arrive. `kicked` holds the tiers the orchestrator's tick has started. `ExtractQueryParam`
and `ParseScenarioId` read the address the page was opened with. Three details carry most of the
behaviour: `Receive` is the input gate while a transition animates; `click` is a mouse button that went
down and is read by whatever the next frame *draws* (popup, Game and Post-Round read the mouse when drawn,
and a slide draws two screens); and a fade runs its swap only at black. A hand is the number of the
scenario dealt; `dealt` is the mode whose filter chose it. The panels and the popup are reduced to open or
closed; `Interface` has them.

### Scenario and Hand

`Scenario` is the engine in integers: probabilities in per mille, equity and pot odds in percent, bets in
sixths of a dollar, EV in 1/600000 dollar; a seed is the stream of draws it stands for, so the reshuffle
loop that looks for a clean draw, the street weights, the outs, the fold chance, the breakeven, the EV per
bet size and the grading are computed as in the code on real cards. What the jitter and the margins leave
is rounding the answers' comparison does not depend on: an answer is typed as `Right` or `Wrong`.

`Hand` keeps the two owners of the keyboard apart, as in the code: `focus`, the list with the ring, moved by
Tab, digits and clicks; and `caret`, the ImGui widget that has the characters. A frame reconciles them
(`Reconcile`, `RenderMathInputs`); keys arrive between frames. The walk through the bet tiers, the gate of
the tutorial's lessons, the submission and the recap's tabs follow.

### FocusStack, EventRouter, Panels, Tutorial, Interface

`FocusStack` is the focus manager and the modal stack as operators on a record; each context is known by
the name of its list. `Panels` composes them into opening, closing and re-laying nine panels, with the
requests a panel raises in one frame and serves in the next. `Tutorial` is the script: where each sub-step
is taught, what advances it, and the three settings it forces, of which each is "own" or "forced" in the
live object, in the profile and in the saved copy. `EventRouter` is the router; `Interface` installs in it
the handlers boot installs, and `KeyGoesTo` decides which of the live ones a key reaches.

`Interface` runs them together. Keys and routed clicks act at once; a frame is `Tick` (re-entry watcher,
poll of a deferred launch, the screen registers its list once per entry), `DrawScreen`, `DrawTour`,
`DrawPanel`, and what is drawn reads the mouse by itself. The script's runs of Next steps are shortened to
`MaxRun`; their number is of no consequence.

`astray` is a history variable. It becomes true where the code itself leaves the discipline the properties
are about, and the properties hold until then. There are five ways, each met while modelling: a list
registered or a context popped by a caller whose context is not on top (a morph or a deferred launch that
completes under a panel or the popup); a deferred launch that outlives its screen; a screen left and
re-entered between two frames, which the watcher cannot see; the script left by a launch it did not ask
for; and a tutorial begun while Root is already morphing into Mode Selection.

### SettingsBlob and LiveSettings

`SettingsBlob` has every field, its default and its place in the byte layouts of three releases (interim,
revision before the genre table grew, current); a decoder reads cell by cell and may run out of bytes.
`RedistributeStreetWeights` is the code's integer rounding. `LiveSettings` has the setters, resets and saves
of Settings, the Custom popup and the leaderboard's opt-in link, with the places where a profile replaces
the live object or fails to. `queued` is the snapshot the sync engine holds: a push sends it, not the blob of
now, so that a split the popup saves after a failed push waits for the next save. Three histories. `chosen` is
what the user last chose of each field: the value set on screen, or that of a profile adopted or wiped. `drift` holds
the fields in which the profile is newer than the live object, which only the popup's Save (finding 3), a
deletion of the account and the late reconcile cause; `replaced` says that one of the last two happened. A save
of the live object writes the old values of the drifted fields back, and that is nobody's choice: those fields
leave `chosen` until they are chosen again. The sign-in protocol is `AccountSync`'s; here it is its outcomes
for the blob.

### Leaderboard and Banner

The record `view` is the runtime of the view; keys act when they arrive, clicks in the frame that draws the
row. A `Frame` fetches if it must, reconciles caret and ring, runs at most one click in drawing order, then
the deferred requests of the Report panel, then the banner over it. `typed` and `meant` are the user's own
idea of the number typed and of the player pointed at.

### Music and Jukebox

`Music` keeps the engine in one record, and each call of the code is an operator from engine to engine,
because callers chain several calls in one step (a removal erases, cancels a crossfade, draws and starts).
A call that draws gives the set of its outcomes; a shuffled order is not drawn in advance, only what is
left of the cycle is kept. `Erase`, `SetFilter` and the draws keep the pool, the memory of the last draw
and the Loop cursor exactly as the code does, call by call. The two slots stand for the two `<audio>`
elements; a track that is "on" may come to its end at any time, or never.

`Jukebox` adds the persisted half: wallet, unlocked tracks and rotation, edited by the Shop (`ActivateBuy`
with its arming and its confirmation, `ActivateAdd`, `ActivateRemove`) whose keyboard stops are `stops`,
restored into the engine by `FinishBoot` and `SignIn`, replaced behind the engine's back by `PumpAdopts`.
The rebuild of the rotation (remove every track, then add those wanted) is written in its closed form
`Rebuild`.

## 3. Runs

Each run asks one question of one part of the system; the passing ones explore their instance completely.

| Run | Checks | Bounds and why they are enough |
|---|---|---|
| `account` | `TypeOK`, `GateMeansReconciled`, `QueueBelongsToAccount`, `IndicatorTruthful`, `NewestQueuedIsLocal`; `QueueDrains`, `SessionReconciles` | one device, two accounts (one to leave, one to enter), one wallet (the latch and the queue tell an older snapshot from a newer one), `MaxQueue` 2 (a batch with a stale and a newest snapshot), `MaxFailures` 4 (the whole schedule 5/15/30/60 s and its cap) |
| `account_two_devices` | `Authoritative` (the refinement), `LatchMonotone` | two devices on one account, two wallets; `MaxFailures` 1 (in or out of backoff), `MaxQueue` 1; one of them never flushes, and its id_token lives as long as its refresh token (`Private`), which leaves it every behaviour but its own reload from a newer file and the loss of an id_token alone; the other has both |
| `onboarding_leak` | `OnboardingIsOwn`, violated (finding 1) | one device, two accounts |
| `tier_loader` | `LoaderTypeOK`, `SerialInOrder`, `FutureMeansResolved`, `RetriesHonoured`; `EveryLoadEnds` | sizes 2, 2 and 0 (a next asset, an empty tier), `MaxRetries` 3 as in the code, two futures per tier |
| `session` | `HandsInStep`, `PaidOnce`; `TransitionsEnd`, `DeferredLaunchResolves` | `Queries`: a bare address, good links and one link per reason a value is refused; `MaxId` 2; two hands (a replay needs one before it); two inputs per frame gap (a click and the key that changes the screen under it); a target of one counted frame (under, at, over); one mode |
| `interface` | `StacksInStep`, `FocusIsTrapped`, `ForcingEndsWithTheLesson`, `ScriptFollowsScreen`; `RowsFollowTheAccount` | all five screens, nine panels and the whole script; two inputs between frames (the second meets what the first opened before it was drawn); `MaxRun` 2 (two steps or boxes in a row, so that Previous has one to return to) |
| `interface_forced` | `ForcedNeverPersisted`, violated (finding 2) | the same with one input |
| `hand` | `GradedAsShown`, `RecapShowsEveryGrade`, `CaretFollowsTheRing`, `LessonSheetIsComplete`; `DealIsSound` | `Played`: a Caller, a Value Bet and a Semi-Bluff, the lessons a Caller and a Pure Bluff, so every type is played; 160 further seeds are only dealt; two bet tiers (a first and a last screen); two settings that differ in everything a hand depends on; `Slips`: the two boxes a wrong number is typed into (one asked once, one asked per tier) |
| `live_settings` | `SettingsStayValid`, `ChoicesSurvive`, `ShownIsLive` | `Starts`: profiles of three releases, a row of this one or none; `MaxEdits` 2 (one edit undoing another), `MaxSessions` 2 (a session left and started again between them), `Edited` seven fields of different owners and codecs, the neighbours of the present value (the starts hold the ends of the ranges), two selections of sections that together hold all |
| `live_settings_split` | `SavedSplitSticks`, violated (finding 3) | two fields, three edits, two sessions |
| `leaderboard` | `ReportedIsThePointedAt`, `SentAsAgreed`, `MessageStaysItsTime`; `JumpIsWhatWasTyped` | two players, an answer in which they change places behind a skipped entry, a failed fetch; `Digits` 1 and 2 and `MaxNumber` 11 (within the board, at its end, beyond it); `Window`, `Slide` and `Hold` one unit (inside, at, after); `Quiet`: under a message no number and no filter is typed and nobody reported, since none of the three reads the banner; `NoNumber`: while a number is typed the Report panel is opened and closed, but no reason is chosen and no comment written, since neither reads the number |
| `jukebox` | `PlaysOnlyItsScope`, `RotationIsThePersistedOne`, `StopsAreTheLiveRows`, `WalletAccountsForUnlocks`; `TrackComesRound` | three tracks in two genres, two of them to buy at one tomato (a removal before, at and after the cursor; a filter that leaves none to three), `MaxEarned` 1 (affords one of the two), `Filters` no filter and one genre, one server row, `MaxLate` 0: a rotation replaced by a late reconcile or wiped by a deletion is not edited, and nothing is earned, before it is reloaded |

Deadlock is checked in every run. Several properties name the exception the code makes of them: `HandsInStep`
that of a shared link, `CaretFollowsTheRing` that of a click that raced a grab and of a lesson's step,
`StopsAreTheLiveRows` that of a late reconcile, `RotationIsThePersistedOne` that and a deletion of the account,
`ChoicesSurvive` the split the popup saved and, after a late reconcile or a deletion, the fields the live object
overwrote, `Authoritative` a row that was not found, the `Interface` ones `astray`.

### Fairness

- `AccountSync`: weak fairness of `Tick` and `Pump` (the browser calls the frame), strong fairness of a
  pump that is answered (a network that is up again and again), under the premise `StaysOpen`: from
  some point on the page is not reloaded and its id_token lives. The code promises nothing without it.
- `TierLoader`: weak fairness of polling, of each fetch being answered (the browser reports every fetch
  as success or error), and of backoff time.
- `Session`: weak fairness of the frame. The end of a slide, the swap and the end of a fade are strongly
  fair: they compare a start time with a clock that every frame advances. `AssetsResolve` is strongly
  fair because the loader ends (`EveryLoadEnds`).
- `Jukebox`: weak fairness of the frame (`Update`, and `FinishCrossfade`, whose clock every frame
  advances) and of `AudioPlays`: a track that is on comes to its end. The last is the browser's part and
  assumes that every file can be loaded and played; the code has no way out of one that cannot.
- The other modules state safety only: nothing in them is promised to happen unless the user acts.

## 4. What the checks found

Three runs end in a violation on purpose; PROJECT.json quotes the lines.

1. **Onboarding** (`onboarding_leak`): sign-out and sign-up of another user carries the tutorial latch
   into the new account.
2. **Forced settings** (`interface_forced`): a setting changed with the keyboard during the tutorial stores
   the whole live object, forced values included.
3. **Saved split** (`live_settings_split`): the Custom popup saves its split into the profile only; the next
   change of any setting writes the old one back.

Met while modelling and left as notes at a hazard or here, since each is a narrow exception that the
property of its part names or that no run asks about:

- A 2xx answer whose blob field is missing, null or cut off counts as a missing row, and the sign-in writes the
  seed of a new account over the row that is there (`supabase_backend.cpp:291`). `supabase_backend.hpp:119` says
  of a blob that is present and undecodable "do not adopt garbage and do not migrate over real server data".
  `Authoritative` names the step, `Overlook`.
- After a boot whose silent refresh failed, no retry has an id_token to send, and the page stays offline
  until it is reloaded (`boot.cpp:304`).
- A shared link reaches Game with an id and no scenario; the fallback that `game_screen.cpp:388` mentions is
  in a render hook another zone replaces.
- The Custom popup can outlive Mode Selection, opened during the reverse morph or overtaken by a deferred
  launch, and is then open where nothing draws it (the `astray` cases of `Interface`).
- `tutorial_start` does not stop a morph from Root that is on its way: it ends in Mode Selection while the
  script is at its first step on Root. It takes three
  inputs in one gap, one more than the run has; the proof of `ScriptFollowsScreen` came upon it.
- A launch dropped by a running transition has already recorded its mode, and Again replays that one
  (`game_launch.cpp:114`).
- The `opted_in` column can differ from the stored opt-in after a sign-up, and a retried push carries the
  opt-in of now (`supabase_backend.cpp:573`).
- A first gesture before the profile is read starts the default rotation (`boot.cpp:721`); after the incoming
  track is removed, or after a switch from Loop to Shuffle, the shuffle may repeat what sounds
  (`audio.hpp:99`).
- The seed of a new account carries the wallet only, so that a reload adopts a row without settings; two
  reconciled devices overwrite each other's whole profile, the last one winning.
- `validate` of the settings is called by nothing; `SettingsStayValid` shows that no reachable value needs it.
- A deletion wipes the profile and leaves the live settings, which the next change stores again, and the music
  engine, which plays the old rotation on.
- A reconcile retried by the frame's pump adopts a row behind the live settings; the next change in Settings
  writes the whole live object over it and pushes that (`persistence_service.cpp:106`).
- A launch deferred on its assets can deal a hand under the slide into the last one's recap (`StayInStep`,
  section 5).

## 5. What is proved

| Module | Theorems | Argument |
|---|---|---|
| `AccountSyncProofs` | `TypeCorrect`, `GateSafe`, `QueueSafe`, `IndicatorSafe`, `NewestSafe`, `LatchSafe`; `Refinement` | `Inv`: the type and, per device, the consistency of its engine with its account: signed out means a closed engine; signed in means failing exactly when the gate is shut or something is queued; the queue is of this account and ends in the local state; an open gate has its baseline. None of the properties is inductive alone: the indicator needs the queue, the queue needs the gate. `LatchSafe` is an action property: a merge takes the latch of both sides, and the merge runs wherever a row replaces a profile. `Refinement`: every action maps to `Establish`, `SeedUnheard`, `Overlook`, `Write`, `Leave`, `Delete` or `Elsewhere`; a push is a `Write` because of the invariant `GateMeansReconciled` |
| `TierLoaderProofs` | `LoaderTypeCorrect`, `SerialSafe`, `FutureSafe`, `RetriesSafe` | `LoaderInv`: what the assets before, at and after a job's index are, given its phase and retries. The pump over all tiers is the step that needs it: a job is *pumpable* between an answer and the pump, *settled* after it |
| `SessionProofs` | `SessionTyped`, `Payment`, `StayInStep` | `Base`: no more hands on the table, on their way or promised by a fade than were dealt; Game shows the hand it was dealt, and a graded one is on its way out; who was paid for what. `Recapped` adds what the slide to Post-Round keeps, `Arming` that the slide takes no second press of Again. One step can break `Recapped`, the frame's poll of a deferred launch under that slide, and `StayInStep` names it |
| `LeaderboardProofs` | `MessagesStay`, `ReportsAgreed`, `ReportsReachTheirTarget`, `JumpsToTheTyped` | `BannerHeld`: how long a message is up in each phase, also after a replacement. `Good`: `Sound` (cursor within the board, ring within the stops, popup and panel exclude each other, the panel's stops are the report's), `Aimed` (popup and panel name the player pointed at), `Typing` and `InStep` (the code's digit buffer is the number the user has in mind, with its age) |
| `LiveSettingsProofs` | `WeightsShareOutAHundred`, `BlobsReadBack`, `SettingsInvariant`, `SettingsValid`, `ChoicesKept`, `ScreenFollows` | two results about the operators: the coupled weights share out 100 for every split, street and value, and every blob of the three releases reads back as the settings it was written for. `Invariant` = `Kept` (the blob `Means` settings in range that agree with what was chosen, live differs from it only where it drifted, and without a profile replaced behind live only the split was ever overwritten; so do its `Copies`, the queued snapshot and the row) and `ShownIsLive` and `Staged` (what a panel has not saved yet is in range too) |
| `JukeboxProofs` | `JukeboxInvariant`, `EnginePlaysItsScope`, `RotationIsPersisted`, `StopsAreLive`, `WalletAccounts` | `EngineInv` in three parts, because a call may break one for a moment: `Rotation` (no track twice, cursor within, the pool is the scope), `Wired` (transport and slots agree), `InScope` (what sounds or fades in). `JukeboxInv` joins it to the profile: a sound rotation, equal to the engine's once restored |
| `HandProofs` | `HandInvariant`, `SheetIsGradedAsShown`, `RecapHidesNothing`, `CaretFollows`, `LessonsAreFilled`, `DealsStaySound` | what the sheet asks, per type and number of sizes: the boxes are three groups in order, a tier's screen is its breakeven, the equity and its EV, the grades list each asked stop once, a tab picks those of its screen. `HandInv`: `Table` (a hand that may be dealt, with its boxes), `OnSheet` (the ring walks over the screen's stops, the caret is on the screen), `LeftFilled` (a lesson's earlier tiers were left filled), `Submitted` (the recap is of the sheet on the table) and `Reconciled`: a field the reconciler has seen holds the caret or is about to, and after one quiet frame the reconciler has seen the ring where it is. `DealsStaySound` is about what the engine computes: the first partial sum above the draw belongs to a street with a weight, the first clean shuffle is taken, and the bet-size term and the clamp keep their order |
| `InterfaceProofs` | `InterfaceInvariant`, `StacksStayInStep`, `FocusStaysTrapped`, `ForcingEnds`, `ScriptStaysOnScreen`, `RowsAreOfTheAccount`, `KeyGoesToTheNewestOnTop` | `IInv`, below |

`IInv` of `InterfaceProofs` is `Core`, which any control keeps, with the types of the frame's bookkeeping and with
`StageRight`, what one part of a frame leaves for the next. `StacksInStep` counts contexts and modals, and
counting is not inductive: closing must know that the context it pops is that of the modal it pops. So `Core` has
`Layered` (the contexts are the screen's, the popup's, then one of the lists of each modal in order; what may lie on
what; whose stops the Settings registry holds), `Allowed` (what may be open on which screen and in which phase of
the tutorial: a panel over the popup is only the question whether to skip, and so on), `Based` (the bottom list is
the screen's once its watcher has seen it), `PopupOnMode`, `Completed` (Tutorial Complete is on screen exactly in
that phase, with nothing but the auth modal over it), `OnScript` (the screen is the substep's, or the one its advance
leads to), `Waiting` (a launch that waits) and `Morphing`. All but the types and `ForcingEndsWithTheLesson` hold
until `astray`. `RowsAreOfTheAccount` does not need `astray`: it rests on `Grounded`, that Settings lies at the bottom
of the modal stack or nowhere. The script is treated by what its parts have in common (`Linked`: each substep is on
the screen the one before led to), and the router by `Arranged`, the order an insertion keeps;
`KeyGoesToTheNewestOnTop` is about any handlers, and `KeyTaken` applies it to the eight that boot installs. TLC
checked `IInv` first, with `MaxRun` 1 and four inputs between frames (3.3 million states) and with the bounds of
the run.

The theorems hold for any sets of devices, accounts, wallets, tiers, names, tracks, prices and rows, and
for any value of the bounds that guards use, with the assumptions named in the modules and nothing else:

- `AccountAssumption`, `LoaderAssumption`, `SessionAssumption`, `BannerAssumption`, `BoardAssumption`,
  `MusicAssumption`, `TutorialAssumption`, `InterfaceAssumption` type the constants. `BannerAssumption` asks
  that the hold is at least the slide, as in the code; `BoardAssumption` that an answer of the server gives
  each of the ranks 1 to 100 once.
- `JukeboxAssumption`: a server row is a profile whose rotation holds owned tracks, each once. Only
  `add_track_to_pool`, `remove_track_from_pool` and the seeding write a rotation, and they keep that.
- `StartsAssumption`: a blob found at boot, and that of the row, was written by this release or an earlier
  one for settings in range (`Written`). A blob a foreign hand wrote is not covered: the decoder clamps some
  fields and takes others as they come.
- `ScenarioAssumption` and `HandAssumption`: at least one bet size, seeds known by their id and of the four types,
  lessons of a Caller and a Pure Bluff, options that are settings. The theorems about the sheet and the recap hold
  for any draws of the seeds and whatever the engine computes from them: they use only that a hand is of its seed's
  type and presents one of the bet sizes. `SeedAssumption`, which `DealsStaySound` needs, types the draws: a
  percentage, at least one shuffle of cards, a jitter that is a number.
- No theorem bounds the inputs between two frames. `StayInStep` is about every run of `Session` in which the
  step `DealtUnderTheRecap` is not taken: a launch waits for its assets with Screen transitions off; the assets
  arrive, and before the next frame the user launches again (an instant cut to Game), opens Settings, turns
  transitions on, closes it and submits; the frame then polls the deferred launch and deals another hand under
  the slide, whose recap is of the old one. That takes five inputs between two frames, so only a stall of the
  main thread makes room for it, and the run `session` with its two has none; with five TLC shows it. The
  theorem says that nothing else puts the hands out of step, for any number of inputs. `Payment` has no
  exception.

Two techniques recur. An invariant by induction over data (where a field stands in a blob, the remainder of the
weights, the position of a track) is proved by the least counterexample, from `NatLessThanWellFounded` and
`WFMin`; a recursive function or a fold is handled by showing that a function with its equations exists
and that two such functions agree. And a property that speaks of a history variable (`settled`, `meant`, `chosen`,
`awards`) is proved by tying the history to the state the code has.

Model-checked only:

- every liveness property (`QueueDrains`, `SessionReconciles`, `EveryLoadEnds`, `TransitionsEnd`,
  `DeferredLaunchResolves`, `TrackComesRound`): fairness and ENABLED are beyond the
  prover;
- the three violated properties, which are refuted by TLC's counterexamples.

Modelled from outside `src/`: Supabase's row-level security (a request writes only the row of the
account whose id_token it carries; none without a token), Auth0 (a token is good for one account), and
the browser (each fetch is answered once; FS.syncfs copies the file as it is when it completes).

## 6. Not modelled

- *Rendering, theme, chip slide, easter egg, textures*: they draw what other components hold and change none
  of it. A decode error counts as a failed fetch in `TierLoader`.
- *Sound effects*: one-shot sounds at fixed offsets; nothing reads them back.
- *Settings search*: a pure filter over a constant catalogue of labels; it hides rows and changes no state.
- *Byte layout of the profile*: the settings blob is modelled cell by cell; of the rest only what a damaged,
  older or newer file reads as.
- *Wording*: callouts, messages, number formatting, the text of a shared link.
- *The random generator*: a seed stands for its stream of draws. Table furniture that no answer depends on
  (opponents, chip stacks, side pots) is left out with it.
- *The edge function*: stateless; it is the best-effort deletion inside `DeleteAccount`.
- In the modelled parts: the reload page, the page that replaces every screen on a small display, scrolling,
  the native leave-site dialog, uninstalling a handler (no caller does), saturation of the wallet at 2^64, and
  the repair of a damaged rotation.

## 7. State of the project

Modelling is complete to the extent of section 6. Every invariant and every action property the passing runs
check is a theorem; liveness stays with TLC. What could be added: a
`session` run with two modes, to see Again replay a launch that was dropped, and the parts of section 6 once one
of them keeps state that another part reads.
