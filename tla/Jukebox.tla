------------------------------- MODULE Jukebox -------------------------------
(***************************************************************************)
(* The music engine beside the profile it plays from: the wallet and the   *)
(* music library (src/src/persistence/economy.cpp), the Shop that edits    *)
(* both (src/src/modal/shop_view.cpp), and the wiring of src/src/bridge/   *)
(* boot.cpp that restores the rotation at boot and after a sign-in.        *)
(*                                                                         *)
(* The page takes input from the moment the platform is up; the profile is *)
(* known only once IndexedDB has been read.  A server row is any of Rows.  *)
(* The modals that meet here (Shop, Settings, sign-in) exclude each other. *)
(* Who is signed in is AccountSync's; here the calls that replace the      *)
(* profile may come at any time.                                           *)
(***************************************************************************)
EXTENDS Music, Integers, FiniteSets, FiniteSetsExt, SequencesExt

CONSTANTS
  Price,      \* Price[t]: track_price
  Rows,       \* the profiles the server may hold for an account
  Filters,    \* bound: the genre filters that are tried
  MaxEarned,  \* bound: the tomatoes of a wallet that is awarded one more
  MaxLate     \* bound: edits of a rotation that was replaced and not reloaded;
              \* after those nothing is earned either

VARIABLES
  profile,   \* the persisted AppState: wallet, unlocked tracks, rotation
  booted,    \* finish_boot_after_persistence has run
  shop,      \* the Shop is open
  armed,     \* shop_armed_buy
  stops,     \* the rows the keyboard can reach: the Shop's focus list
  behind,    \* history: 0, or one more than the edits since pump_sync adopted a row,
             \* or a deletion wiped the profile, and nothing was reloaded
  settled,   \* history: the tracks that were unlocked when the wallet was last
             \* replaced, by a row or by a reset
  spent      \* history: what had been spent out of the wallet by then

jukeboxVars == <<engine, profile, booted, shop, armed, stops, behind, settled, spent>>

Profile == [spendable : Nat, lifetime : Nat,
            unlocked : SUBSET Tracks, pool : Seq(Tracks)]

Fresh == [spendable |-> 0, lifetime |-> 0, unlocked |-> {}, pool |-> <<>>]

Spent(p) == p.lifetime - p.spendable

Total(ts) == MapThenSumSet(LAMBDA t : Price[t], ts)

Owned(p) == p.unlocked \union ToSet(Starters)

\* A rotation the Shop can have left: tracks it owns, each once.
SoundPool(p) ==
  /\ ToSet(p.pool) \subseteq Owned(p)
  /\ \A i, j \in DOMAIN p.pool : p.pool[i] = p.pool[j] => i = j

\* The rows are profiles that browsers of the account have pushed.
ASSUME JukeboxAssumption ==
  /\ IsFiniteSet(Tracks)
  /\ Price \in [Tracks -> Nat]
  /\ Rows \subseteq Profile
  /\ \A p \in Rows : SoundPool(p)
  /\ Filters \subseteq Genres \union {All}
  /\ MaxEarned \in Nat /\ MaxLate \in Nat

\* add_track_to_pool.
AddToPool(p, t) ==
  IF t \notin Owned(p) \/ t \in ToSet(p.pool) THEN p ELSE [p EXCEPT !.pool = Append(@, t)]

\* remove_track_from_pool.
RemoveFromPool(p, t) == [p EXCEPT !.pool = RemoveFirst(@, t)]

\* Faulty: the price is taken from the lifetime total as well.
PurchasedBug(p, t) ==
  IF t \in Owned(p) \/ p.spendable < Price[t] THEN p
  ELSE [p EXCEPT !.spendable = @ - Price[t], !.lifetime = @ - Price[t], !.unlocked = @ \union {t}]

\* purchase_track.
Purchased(p, t) ==
  IF t \in Owned(p) \/ p.spendable < Price[t] THEN p
  ELSE [p EXCEPT !.spendable = @ - Price[t], !.unlocked = @ \union {t}]

\* add_starter_tracks_to_pool, when the rotation is empty.
Seeded(p) == IF p.pool = <<>> THEN [p EXCEPT !.pool = Starters] ELSE p

\* Faulty: tracks are only ever added to the engine's rotation.
RestoredBug(m, p) == FoldLeft(Add, m, p.pool)

\* restore_rotation_from_persisted_state, its part in the engine.
Restored(m, p) == Rebuild(m, p.pool)

\* apply_audio: the genre filter, then the order of play.
ApplyAudio(m, g, o) == {[n EXCEPT !.order = o] : n \in ApplyFilter(m, g)}

\* What the button of a row does.
ButtonKind(p, a, t) ==
  IF t \in Owned(p) THEN IF t \in ToSet(p.pool) THEN "Remove" ELSE "Add"
  ELSE IF p.spendable < Price[t] THEN "BuyDisabled"
  ELSE IF a = t THEN "Confirm" ELSE "Buy"

\* The rows that are focus stops: whether one is armed makes no difference.
ShopFocusList(p) == {t \in Tracks : ButtonKind(p, NoTrack, t) # "BuyDisabled"}

\* Faulty: the focus list is not computed again after a purchase.
RebuildShopFocusBug(list, p) == list

\* The focus list pushed again, of what the profile now is.
RebuildShopFocus(list, p) == ShopFocusList(p)

----------------------------------------------------------------------------
JukeboxInit ==
  /\ engine = NewEngine
  /\ profile \in Rows \union {Fresh}
  /\ booted = FALSE /\ shop = FALSE /\ armed = NoTrack /\ stops = {} /\ behind = 0
  /\ settled = profile.unlocked /\ spent = Spent(profile)

WalletReplaced == settled' = profile'.unlocked /\ spent' = Spent(profile')

\* The rotation is restored, and the saved audio settings are applied over it.
TakeProfile(p) ==
  /\ profile' = Seeded(p)
  /\ \E g \in Filters, o \in Orders :
       engine' \in ApplyAudio(Restored(engine, Seeded(p)), g, o)
  /\ behind' = 0

\* finish_boot_after_persistence.
FinishBoot ==
  /\ ~booted
  /\ booted' = TRUE
  /\ TakeProfile(profile)
  /\ UNCHANGED <<shop, armed, stops, settled, spent>>

\* Closing the page and opening it again.
Reload ==
  /\ booted
  /\ booted' = FALSE /\ shop' = FALSE /\ armed' = NoTrack /\ stops' = {} /\ behind' = 0
  /\ engine' = NewEngine
  /\ UNCHANGED <<profile, settled, spent>>

\* An interactive sign-in adopts the server's row, or keeps the local state to
\* seed a row with; what is live is reloaded either way.
SignIn(p) ==
  /\ booted /\ ~shop
  /\ TakeProfile(p)
  /\ IF p = profile THEN UNCHANGED <<settled, spent>> ELSE WalletReplaced
  /\ UNCHANGED <<booted, shop, armed, stops>>

\* pump_sync's late reconcile adopts the row and reloads nothing.
PumpAdopts(row) ==
  /\ booted
  /\ profile' = row
  /\ behind' = 1
  /\ WalletReplaced
  /\ UNCHANGED <<engine, booted, shop, armed, stops>>

\* delete_account wipes the profile, and its seam reloads nothing: the engine
\* plays on what it has.
DeleteAccount ==
  /\ booted /\ ~shop
  /\ profile' = Fresh
  /\ behind' = 1
  /\ WalletReplaced
  /\ UNCHANGED <<engine, booted, shop, armed, stops>>

\* A passed scenario, graded on the Game screen.
Award ==
  /\ booted /\ ~shop
  /\ profile.lifetime + Total(settled) < MaxEarned   \* bound
  /\ behind <= MaxLate   \* bound
  /\ profile' = [profile EXCEPT !.spendable = @ + 1, !.lifetime = @ + 1]
  /\ UNCHANGED <<engine, booted, shop, armed, stops, behind, settled, spent>>

\* reset_tomatoes, in the Settings.
ResetTomatoes ==
  /\ booted /\ ~shop
  /\ profile' = [profile EXCEPT !.spendable = 0, !.lifetime = 0]
  /\ WalletReplaced
  /\ UNCHANGED <<engine, booted, shop, armed, stops, behind>>

\* A change of the audio settings.
ChangeAudio ==
  /\ booted /\ ~shop
  /\ \E g \in Filters, o \in Orders : engine' \in ApplyAudio(engine, g, o)
  /\ UNCHANGED <<profile, booted, shop, armed, stops, behind, settled, spent>>

OpenShop ==
  /\ booted /\ ~shop
  /\ shop' = TRUE /\ armed' = NoTrack /\ stops' = ShopFocusList(profile)
  /\ UNCHANGED <<engine, profile, booted, behind, settled, spent>>

CloseShop ==
  /\ shop
  /\ shop' = FALSE /\ stops' = {}
  /\ UNCHANGED <<engine, profile, booted, armed, behind, settled, spent>>

\* The Buy button of a row: the first activation arms it, the second, Confirm,
\* commits.  A click reaches every row, Space and Enter those of the focus list.
ActivateBuy(t) ==
  /\ shop
  /\ \/ /\ ButtonKind(profile, armed, t) = "Buy"
        /\ armed' = t
        /\ UNCHANGED <<profile, stops>>
     \/ /\ ButtonKind(profile, armed, t) = "Confirm"
        /\ armed' = NoTrack
        /\ profile' = Purchased(profile, t)
        /\ stops' = RebuildShopFocus(stops, profile')
  /\ UNCHANGED <<engine, booted, shop, behind, settled, spent>>

\* An edit of the rotation.
Edits ==
  /\ behind <= MaxLate   \* bound
  /\ behind' = IF behind = 0 THEN 0 ELSE behind + 1

\* The Add button: the persisted rotation, then the engine's.
ActivateAdd(t) ==
  /\ shop /\ ButtonKind(profile, armed, t) = "Add"
  /\ armed' = NoTrack
  /\ profile' = AddToPool(profile, t)
  /\ engine' = Add(engine, t)
  /\ Edits
  /\ UNCHANGED <<booted, shop, stops, settled, spent>>

\* The Remove button.
ActivateRemove(t) ==
  /\ shop /\ ButtonKind(profile, armed, t) = "Remove"
  /\ armed' = NoTrack
  /\ profile' = RemoveFromPool(profile, t)
  /\ engine' \in RemoveTrack(engine, t)
  /\ Edits
  /\ UNCHANGED <<booted, shop, stops, settled, spent>>

\* The engine's own steps.  Frames run only once the page has booted.
EngineStep ==
  /\ FirstGesture \/ AudioPlays \/ (booted /\ (Update \/ FinishCrossfade))
  /\ UNCHANGED <<profile, booted, shop, armed, stops, behind, settled, spent>>

JukeboxNext ==
  \/ FinishBoot \/ Reload
  \/ \E p \in Rows \union {profile} : SignIn(p)
  \/ \E row \in Rows : PumpAdopts(row)
  \/ DeleteAccount
  \/ Award \/ ResetTomatoes \/ ChangeAudio
  \/ OpenShop \/ CloseShop
  \/ \E t \in Tracks : ActivateBuy(t) \/ ActivateAdd(t) \/ ActivateRemove(t)
  \/ EngineStep

JukeboxSpec == JukeboxInit /\ [][JukeboxNext]_jukeboxVars

Frame(A) == booted /\ A /\ UNCHANGED <<profile, booted, shop, armed, stops, behind, settled, spent>>

\* The browser calls the frame, a crossfade's clock runs, and a track that is
\* on comes to its end: liveness assumes that every track can be played.
JukeboxFairSpec ==
  /\ JukeboxSpec
  /\ WF_jukeboxVars(Frame(Update \/ FinishCrossfade))
  /\ WF_jukeboxVars(Frame(AudioPlays))

----------------------------------------------------------------------------
\* One type invariant for the whole.
JukeboxTypeOK ==
  /\ EngineTypeOK
  /\ profile \in Profile
  /\ booted \in BOOLEAN /\ shop \in BOOLEAN /\ behind \in 0 .. MaxLate + 1
  /\ armed \in MaybeTrack /\ stops \subseteq Tracks
  /\ settled \subseteq profile.unlocked /\ spent \in Int

\* Once the page has booted, the engine plays from the very rotation that is
\* persisted, in its order, and every track of it is owned.  Two calls replace
\* the persisted rotation and leave the engine's, until the live state is
\* loaded again: a late reconcile that adopts a row, and the deletion of the
\* account, after which the old rotation plays on over a wiped profile.
\* (The types are part of it.)
RotationIsThePersistedOne ==
  /\ JukeboxTypeOK
  /\ booted /\ behind = 0 =>
       /\ engine.tracks = profile.pool
       /\ ToSet(engine.tracks) \subseteq Owned(profile)

\* The keyboard reaches exactly the rows of an open Shop whose button does
\* something, however what was bought changed what can still be afforded; the
\* exception is a row adopted while the Shop is open, until the live state is
\* loaded again.
StopsAreTheLiveRows == shop /\ behind = 0 => stops = ShopFocusList(profile)

\* What was spent out of the wallet since it was last replaced is the price of the
\* tracks unlocked since: nothing is paid twice and nothing is had for nothing,
\* whatever is armed, reset or adopted in between.
WalletAccountsForUnlocks ==
  Spent(profile) = spent + Total(profile.unlocked \ settled)

\* A track that stays in scope comes round again and again, in either order of
\* play, once the rotation and the audio settings are left alone.
TrackComesRound ==
  \A t \in Tracks :
    (/\ <>[](booted /\ engine.gesture /\ t \in Scope(engine))
     /\ <>[][UNCHANGED <<engine.tracks, engine.filter, engine.order>>]_jukeboxVars)
    => []<>(engine.playing = t)

=============================================================================
