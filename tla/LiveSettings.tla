---------------------------- MODULE LiveSettings ----------------------------
(***************************************************************************)
(* The one live snapshot of the settings, the profile blob and the server  *)
(* row it is written to and read back from, and what is made of it: the    *)
(* theme on screen, the engine's audio settings, the opt-in the push       *)
(* reads.  Code: src/src/settings/settings_modal.cpp, src/src/screens/     *)
(* custom_popup.*, src/src/bridge/boot.cpp, persistent_weights_store.cpp.  *)
(*                                                                         *)
(* The sign-in protocol is AccountSync's; here a session start is its      *)
(* outcomes for the blob.  The tutorial's forced settings are Interface's. *)
(***************************************************************************)
EXTENDS SettingsBlob

CONSTANTS
  Starts,     \* what the first boot finds: the profile [blob, meant], and the
              \* account's server row [blob, opted, meant] or NoRow; meant is
              \* what was chosen when an earlier page wrote the blob
  Edited,     \* bound: the fields that are edited in Settings
  Typed,      \* bound: the numbers typed, dragged to, or picked in a list
  Selections, \* bound: the sets of sections that are reset together
  MaxEdits,   \* bound: edits in Settings and in the popup
  MaxSessions \* bound: page loads and sign-ins

NoRow == [blob |-> NoBlob, opted |-> FALSE, meant |-> Defaults, none |-> TRUE]
NoSnapshot == [blob |-> NoBlob, meant |-> Defaults, none |-> TRUE]

\* What this release or an earlier one wrote for a choice of the player's.
Written(blob, meant) ==
  /\ Choosable(meant)
  /\ \/ blob = EncodeSettings(meant)
     \/ blob = EncodedBefore(meant) /\ meant.current_music_genre > 0 /\ meant.music_playback_order = 0
     \/ \E theme \in 0 .. kThemeIdCount - 1, aggressor \in 0 .. 100 :
          LET split == <<aggressor, 100 - aggressor>>
          IN  /\ blob = EncodeInterim(theme, split)
              /\ meant = [Defaults EXCEPT !.active_theme_id = theme, !.custom_weights = split]
     \/ blob = NoBlob /\ meant = Defaults

ASSUME StartsAssumption ==
  \A s \in Starts : /\ Written(s.profile.blob, s.profile.meant)
                    /\ s.row = NoRow \/ Written(s.row.blob, s.row.meant)
ASSUME EditedAssumption == Edited \subseteq Fields
ASSUME TypedAssumption == Typed \subseteq Nat /\ {MaxEdits, MaxSessions} \subseteq Nat /\ Selections \subseteq SUBSET Sections

VARIABLES
  live,     \* g_boot.live_settings
  blob,     \* AppState::settings_blob of the local profile
  row,      \* the account's server row
  account,  \* "guest", "waiting" (linked, not reconciled), "open" (reconciled)
  queued,   \* the newest snapshot that waits for the push, or NoSnapshot
  stash,    \* globalThis.ptLeaderboardOptIn
  shown,    \* the active theme
  heard,    \* what apply_audio gave the engine
  panel,    \* "none", "settings" or "popup"
  staged,   \* street_staged
  weights,  \* the popup's weights
  left,     \* bound: the edits and the sessions that are left
  chosen,   \* history: what the user last chose for the profile in hand, field
            \* by field, of the fields whose choice no save of live overwrote
  drift,    \* history: the fields in which the profile is newer than live
  replaced  \* history: a profile was once replaced behind the live settings

vars == <<live, blob, row, account, queued, stash, shown, heard, panel, staged, weights,
          left, chosen, drift, replaced>>

\* apply_audio: volume and mutes as they are, the order, and the genre as a
\* filter, All being no filter.
ApplyAudio(s) ==
  [volume |-> s.volume, mutes |-> <<s.mute_all, s.mute_sfx, s.mute_music>>,
   filter |-> s.current_music_genre - 1, order |-> s.music_playback_order]

\* Mutant: the theme and the stash follow, the engine is left as it was.
SurfaceBug(b) ==
  /\ live' = ReadPersisted(b)
  /\ shown' = live'.active_theme_id
  /\ stash' = live'.leaderboard_opt_in
  /\ heard' = heard
  /\ drift' = {}

\* The profile blob b becomes the live settings, and everything follows them:
\* boot and reload_live_settings_after_auth.
Surface(b) ==
  /\ live' = ReadPersisted(b)
  /\ shown' = live'.active_theme_id
  /\ stash' = live'.leaderboard_opt_in
  /\ heard' = ApplyAudio(live')
  /\ drift' = {}

\* The persist seam: stash the opt-in, write the live snapshot to the profile,
\* queue it when the account's gate is open.
Persist(s) ==
  /\ live' = s
  /\ stash' = s.leaderboard_opt_in
  /\ blob' = EncodeSettings(s)
  /\ queued' = IF account = "open" THEN [blob |-> blob', meant |-> chosen'] ELSE queued

\* History: s, which is saved, sets the given fields.  The choice of a drifted
\* field that it does not set is lost when s has another value there.
Chose(s, set) ==
  LET kept == {f \in DOMAIN chosen : f \in drift => s[f] = chosen[f]}
  IN  /\ chosen' = [f \in set \cup kept |-> IF f \in set THEN s[f] ELSE chosen[f]]
      /\ drift' = {}
      /\ replaced' = replaced

Init ==
  /\ \E s \in Starts : blob = s.profile.blob /\ chosen = s.profile.meant /\ row = s.row
  /\ account = "guest" /\ queued = NoSnapshot
  /\ live = ReadPersisted(blob)
  /\ stash = live.leaderboard_opt_in
  /\ shown = live.active_theme_id
  /\ heard = ApplyAudio(live)
  /\ panel = "none" /\ staged = <<15, 35, 30, 20>> /\ weights = <<50, 50>>
  /\ left = [edits |-> MaxEdits, sessions |-> MaxSessions] /\ drift = {} /\ replaced = FALSE

----------------------------------------------------------------------------
(* Settings. *)

Editing(where) == panel = where /\ left.edits > 0 /\ left' = [left EXCEPT !.edits = @ - 1]

OpenSettings ==
  /\ panel = "none"
  /\ panel' = "settings"
  /\ staged' = live.street_weights
  /\ UNCHANGED <<live, blob, row, account, queued, stash, shown, heard, weights, left, chosen, drift, replaced>>

\* What was staged is set again by the next open; meanwhile nobody reads it.
Discarded == staged' = Defaults.street_weights /\ weights' = Defaults.custom_weights

ClosePanel ==
  /\ panel # "none"
  /\ panel' = "none"
  /\ Discarded
  /\ UNCHANGED <<live, blob, row, account, queued, stash, shown, heard, left, chosen, drift, replaced>>

\* on_setting_change: the theme and the audio apply at once, every change is
\* saved.
OnSettingChange(f, v) ==
  /\ Chose([live EXCEPT ![f] = v], {f})
  /\ Persist([live EXCEPT ![f] = v])
  /\ shown' = IF f = "active_theme_id" THEN v ELSE shown
  /\ heard' = IF SectionOf[f] = "Audio" THEN ApplyAudio(live') ELSE heard
  /\ UNCHANGED <<row, account, panel, staged, weights>>

\* A row of Settings sets field f to v.
SetField(f, v) == f \in Edited /\ Editing("settings") /\ OnSettingChange(f, v)

\* The checkboxes, the chip denominations among them; two toggles of the
\* profile have none.
Checkboxes ==
  (Toggles \cup {"chip_denomination_mode"})
    \ {"delta_timer_enabled", "background_atmospheric_movement"}

ToggleSetting ==
  \E f \in Edited \cap Checkboxes :
    SetField(f, IF f = "chip_denomination_mode" THEN 1 - live[f] ELSE ~live[f])

\* Typed, or an arrow key on what is there.
Entered(v) == Typed \cup {v - 1, v + 1}

SetVolume == \E v \in Entered(live.volume) : SetField("volume", ClampInt(v, 0, 100))

SetCustomTime ==
  \E v \in Entered(live.time_pressure_custom_seconds) :
    SetField("time_pressure_custom_seconds", ClampInt(v, 1, 300))

\* A drop-down of n options: a choice, an arrow key, or the activation that
\* goes on to the next.
Picked(v, n) == (Typed \cap 0 .. n - 1) \cup {ClampInt(v - 1, 0, n - 1), ClampInt(v + 1, 0, n - 1), (v + 1) % n}

SetTheme ==
  \E v \in Picked(live.active_theme_id, kThemeIdCount) : SetField("active_theme_id", v)

SetMusicGenre ==
  \E v \in Picked(live.current_music_genre, kGenreCount + 1) : SetField("current_music_genre", v)

\* The playback order and the default recap tab: only index 1 is Shuffle or
\* Summary, so an arrow key beyond it is the first again.
SetOneOfTwo ==
  \E f \in {"music_playback_order", "default_aggressor_recap_tab"} :
    \E i \in {0, 1, live[f] - 1, live[f] + 1} : SetField(f, IF i = 1 THEN 1 ELSE 0)

\* The opt-in link of the leaderboard.
EnableOptIn ==
  /\ Editing("none")
  /\ account # "guest" /\ ~live.leaderboard_opt_in
  /\ OnSettingChange("leaderboard_opt_in", TRUE)

\* A street slider or field: staged only.
StreetTouch ==
  /\ Editing("settings") /\ "street_weights" \in Edited
  /\ \E i \in 1 .. 4 : \E v \in Entered(staged[i]) : staged' = RedistributeStreetWeights(staged, i, v)
  /\ UNCHANGED <<live, blob, row, account, queued, stash, shown, heard, panel, weights, chosen, drift, replaced>>

StreetSave ==
  /\ Editing("settings") /\ "street_weights" \in Edited
  /\ Chose([live EXCEPT !.street_weights = staged], {"street_weights"})
  /\ Persist([live EXCEPT !.street_weights = staged])
  /\ UNCHANGED <<row, account, shown, heard, panel, staged, weights>>

StreetReset ==
  /\ panel = "settings"
  /\ staged' = live.street_weights
  /\ UNCHANGED <<live, blob, row, account, queued, stash, shown, heard, panel, weights, left,
                 chosen, drift, replaced>>

FieldsOf(sections) == {f \in Fields : SectionOf[f] \in sections}

ResetOf(sections) == [f \in Fields |-> IF f \in FieldsOf(sections) THEN Defaults[f] ELSE live[f]]

\* do_reset_selected_sections over the selected sections.
ResetSections ==
  \E selected \in Selections :
    /\ Editing("settings")
    /\ Chose(ResetOf(selected), FieldsOf(selected))
    /\ Persist(ResetOf(selected))
    /\ staged' = IF "Gameplay" \in selected THEN live'.street_weights ELSE staged
    /\ shown' = IF "Display" \in selected THEN live'.active_theme_id ELSE shown
    /\ heard' = IF "Audio" \in selected THEN ApplyAudio(live') ELSE heard
    /\ UNCHANGED <<row, account, panel, weights>>

ResetAll ==
  /\ Editing("settings")
  /\ Chose(Defaults, Fields)
  /\ Persist(Defaults)
  /\ staged' = Defaults.street_weights
  /\ shown' = Defaults.active_theme_id
  /\ heard' = ApplyAudio(Defaults)
  /\ UNCHANGED <<row, account, panel, weights>>

----------------------------------------------------------------------------
(* The popup of the Custom mode. *)

OpenPopup ==
  /\ panel = "none"
  /\ panel' = "popup"
  /\ weights' = SavedSplit(blob)
  /\ UNCHANGED <<live, blob, row, account, queued, stash, shown, heard, staged, left, chosen, drift, replaced>>

\* solve_from: the edited side holds, the other is what is left of 100.
SolveFrom(side, v) ==
  LET held == ClampInt(v, 0, 100)
  IN  [i \in 1 .. 2 |-> IF i = side THEN held ELSE 100 - held]

PopupEdit ==
  /\ Editing("popup")
  /\ \E side \in {1, 2} : \E v \in Entered(weights[side]) : weights' = SolveFrom(side, v)
  /\ UNCHANGED <<live, blob, row, account, queued, stash, shown, heard, panel, staged, chosen, drift, replaced>>

\* Mutant: Save writes the interim blob.
SavedOverBug(b, split) == EncodeInterim(ReadPersisted(b).active_theme_id, split)

\* The profile's own settings with the split replaced.
SavedOver(b, split) == EncodeSettings([ReadPersisted(b) EXCEPT !.custom_weights = split])

\* PersistentCustomWeightsStore::save: the profile only; no push, not live.
PopupSave ==
  /\ panel = "popup"
  /\ blob' = SavedOver(blob, weights)
  /\ chosen' = [f \in DOMAIN chosen \cup {"custom_weights"} |->
                  IF f = "custom_weights" THEN weights ELSE chosen[f]]
  /\ drift' = drift \cup {"custom_weights"}
  /\ UNCHANGED <<replaced, live, row, account, queued, stash, shown, heard, panel, staged, weights, left>>

PopupReset ==
  /\ panel = "popup"
  /\ weights' = SavedSplit(blob)
  /\ UNCHANGED <<live, blob, row, account, queued, stash, shown, heard, panel, staged, left,
                 chosen, drift, replaced>>

----------------------------------------------------------------------------
(* The account. *)

\* build_initial_body: no settings, and the opt-in of the stash.
SeedRow(opted) == [blob |-> NoBlob, opted |-> opted, meant |-> Defaults]

\* reconcile_account adopts the row it is given, and seeds one when the answer
\* holds none: there is none, or its blob is not in the answer.
Adopted == row # NoRow /\ blob' = row.blob /\ chosen' = row.meant /\ row' = row
Seeded(opted) == row' = SeedRow(opted) /\ UNCHANGED <<blob, chosen>>
Reconciled(opted) == account' = "open" /\ (Adopted \/ Seeded(opted))

\* Neither: the server is not reached.
NotReached == account' = "waiting" /\ UNCHANGED <<blob, chosen, row>>

\* Bound: sessions are counted.
SessionCounted == left.sessions > 0 /\ left' = [left EXCEPT !.sessions = @ - 1]

\* The page is opened, or closed and opened again.
Boot ==
  /\ SessionCounted
  /\ \/ account = "guest" /\ UNCHANGED <<blob, chosen, row, account>>
     \/ account # "guest" /\ (Reconciled(FALSE) \/ NotReached)
  /\ Surface(blob')
  /\ queued' = NoSnapshot /\ panel' = "none"
  /\ Discarded
  /\ UNCHANGED replaced

\* A sign-in or a sign-up that Auth0 accepts; an open Settings modal stages the
\* street weights again.
SignIn ==
  /\ SessionCounted
  /\ account = "guest" /\ panel # "popup"
  /\ Reconciled(stash) \/ NotReached
  /\ Surface(blob')
  /\ staged' = IF panel = "settings" THEN live'.street_weights ELSE staged
  /\ UNCHANGED <<queued, panel, weights, replaced>>

SignOut ==
  /\ account # "guest" /\ panel = "settings"
  /\ account' = "guest" /\ queued' = NoSnapshot
  /\ staged' = live.street_weights
  /\ UNCHANGED <<live, blob, row, stash, shown, heard, panel, weights, left, chosen, drift, replaced>>

\* delete_account: the profile is wiped, the live snapshot is left.
DeleteAccount ==
  /\ account # "guest" /\ panel = "settings"
  /\ account' = "guest" /\ queued' = NoSnapshot
  /\ blob' = NoBlob /\ chosen' = Defaults /\ drift' = Fields /\ replaced' = TRUE
  /\ row' \in {row, NoRow}
  /\ staged' = live.street_weights
  /\ UNCHANGED <<live, stash, shown, heard, panel, weights, left>>

\* pump_sync before the session is reconciled: the profile adopts the row
\* behind the live settings.
LateReconcile ==
  /\ account = "waiting" /\ account' = "open"
  /\ \/ Adopted /\ drift' = Fields /\ replaced' = TRUE
     \/ Seeded(stash) /\ UNCHANGED <<drift, replaced>>
  /\ UNCHANGED <<live, queued, stash, shown, heard, panel, staged, weights, left>>

\* A save of another part of the profile: an award, a purchase, a latch.
SaveElsewhere ==
  /\ account = "open"
  /\ queued' = [blob |-> blob, meant |-> chosen]
  /\ UNCHANGED <<live, blob, row, account, stash, shown, heard, panel, staged, weights, left,
                 chosen, drift, replaced>>

\* pump_sync with the gate open: the queued snapshot, and the opt-in of the stash.
Push ==
  /\ account = "open" /\ queued # NoSnapshot
  /\ row' = [blob |-> queued.blob, opted |-> stash, meant |-> queued.meant]
  /\ queued' = NoSnapshot
  /\ UNCHANGED <<live, blob, account, stash, shown, heard, panel, staged, weights, left, chosen,
                 drift, replaced>>

Next ==
  \/ OpenSettings \/ ClosePanel
  \/ ToggleSetting \/ SetVolume \/ SetCustomTime
  \/ SetTheme \/ SetMusicGenre \/ SetOneOfTwo \/ EnableOptIn
  \/ StreetTouch \/ StreetSave \/ StreetReset \/ ResetSections \/ ResetAll
  \/ OpenPopup \/ PopupEdit \/ PopupSave \/ PopupReset
  \/ Boot \/ SignIn \/ SignOut \/ DeleteAccount \/ LateReconcile \/ SaveElsewhere \/ Push

Spec == Init /\ [][Next]_vars

----------------------------------------------------------------------------

\* What validate would say Ok to, though nothing calls it: no order of left,
\* resets, reloads and adoptions makes the live settings, the staged street
\* weights or the popup's pair break a range or a sum.
SettingsStayValid ==
  /\ Valid(live) /\ live.volume >= 0
  /\ live.active_theme_id \in 0 .. kThemeIdCount - 1
  /\ live.current_music_genre \in 0 .. kGenreCount
  /\ Total(staged) = 100 /\ \A i \in 1 .. 4 : staged[i] \in 0 .. 100
  /\ weights[1] + weights[2] = 100 /\ \A i \in 1 .. 2 : weights[i] \in 0 .. 100

\* A choice survives: the profile means what was last chosen for each field,
\* whatever release wrote it and whoever rewrites it, and live means what the
\* profile does in every field that has not drifted.  The code loses a choice
\* in one way: a change of another setting saves live over a field that the
\* profile has newer.  That field is the split of the popup's Save, and any
\* field once a late reconcile or a deletion replaced the profile behind live.
\* (Adopting a row replaces the choices with the row's.)
ChoicesSurvive ==
  /\ LET stored == ReadPersisted(blob)
     IN  /\ \A f \in DOMAIN chosen : stored[f] = chosen[f]
         /\ \A f \in Fields \ drift : stored[f] = live[f]
  /\ ~replaced => Fields \ DOMAIN chosen \subseteq {"custom_weights"}

\* What the player sees and hears, and what the next push would publish, follow
\* the live settings through every way of changing them.
ShownIsLive ==
  /\ shown = live.active_theme_id
  /\ heard = ApplyAudio(live)
  /\ stash = live.leaderboard_opt_in

\* ARCHITECTURE.md on the popup's Save: the saved weights pre-populate the next
\* popup.  A split that Save put in the profile stays until another Save, a
\* reset, or another profile replaces it.
SavedSplitSticks ==
  [][drift = {"custom_weights"} /\ SavedSplit(blob') # SavedSplit(blob) =>
       \/ PopupSave \/ ResetSections \/ ResetAll
       \/ Boot \/ SignIn \/ DeleteAccount \/ LateReconcile]_vars
=============================================================================
