---------------------------- MODULE SettingsBlob ----------------------------
(***************************************************************************)
(* The settings (src/src/settings/settings.hpp), the rule that couples the *)
(* four street weights (settings_logic.hpp), validate (settings_modal.cpp) *)
(* and the codecs of the opaque blob a profile carries them in             *)
(* (src/src/bridge/settings_persistence.cpp).                              *)
(*                                                                         *)
(* A blob is a header and a sequence of byte cells.  A float is one opaque *)
(* cell instead of four bytes: no code path computes with it.              *)
(***************************************************************************)
EXTENDS Integers, SequencesExt, FiniteSets

SectionOf ==
  [street_weights |-> "Gameplay", custom_weights |-> "Gameplay",
   side_pot_frequency |-> "Gameplay", chip_denomination_mode |-> "Gameplay",
   bet_sizing_engine_enabled |-> "Gameplay", difficulty |-> "Gameplay",
   time_pressure_custom_enabled |-> "Gameplay", time_pressure_custom_seconds |-> "Gameplay",
   delta_timer_enabled |-> "Gameplay", show_hud |-> "Gameplay", show_countdown |-> "Gameplay",
   cash_mode |-> "Units",
   active_theme_id |-> "Display", reduce_motion |-> "Display",
   background_atmospheric_movement |-> "Display", particle_drift |-> "Display",
   hover_tilt |-> "Display",
   volume |-> "Audio", current_music_genre |-> "Audio", music_playback_order |-> "Audio",
   mute_all |-> "Audio", mute_sfx |-> "Audio", mute_music |-> "Audio",
   dealer_arrival_animation |-> "Recap", transitions_enabled |-> "Recap",
   default_aggressor_recap_tab |-> "Recap",
   shop_button_visible |-> "Tomatoes", leaderboard_opt_in |-> "Tomatoes",
   display_name_override |-> "Account",
   confirm_before_leaving_site |-> "General"]

Fields == DOMAIN SectionOf
Sections == {SectionOf[f] : f \in Fields} \cup {"Legal"}

\* Settings{}: street weights by street, the custom split as aggressor and
\* caller, enumerations by ordinal, difficulty in percent.
Defaults ==
  [street_weights |-> <<15, 35, 30, 20>>, custom_weights |-> <<50, 50>>,
   side_pot_frequency |-> 10, chip_denomination_mode |-> 0,
   bet_sizing_engine_enabled |-> TRUE, difficulty |-> <<20, 80>>,
   time_pressure_custom_enabled |-> FALSE, time_pressure_custom_seconds |-> 30,
   delta_timer_enabled |-> TRUE, show_hud |-> TRUE, show_countdown |-> FALSE,
   cash_mode |-> TRUE,
   active_theme_id |-> 0, reduce_motion |-> FALSE,
   background_atmospheric_movement |-> TRUE, particle_drift |-> TRUE, hover_tilt |-> TRUE,
   volume |-> 50, current_music_genre |-> 0, music_playback_order |-> 0,
   mute_all |-> FALSE, mute_sfx |-> FALSE, mute_music |-> FALSE,
   dealer_arrival_animation |-> TRUE, transitions_enabled |-> TRUE,
   default_aggressor_recap_tab |-> 0,
   shop_button_visible |-> TRUE, leaderboard_opt_in |-> FALSE,
   display_name_override |-> <<>>,
   confirm_before_leaving_site |-> TRUE]

Toggles ==
  Fields \ {"street_weights", "custom_weights", "side_pot_frequency", "chip_denomination_mode",
            "difficulty", "time_pressure_custom_seconds", "active_theme_id", "volume",
            "current_music_genre", "music_playback_order", "default_aggressor_recap_tab",
            "display_name_override"}

kThemeIdCount == 4
kGenreCount == 4
kMaxDisplayNameOverrideLength == 32

----------------------------------------------------------------------------
(* settings_logic.hpp and validate. *)

ClampInt(v, lo, hi) == IF v < lo THEN lo ELSE IF v > hi THEN hi ELSE v

Total(w) == w[1] + w[2] + w[3] + w[4]

\* Mutant: the units that rounding leaves over are dropped.
RedistributeStreetWeightsBug(w, touched, value) ==
  LET held == ClampInt(value, 0, 100)
      others == Total(w) - w[touched]
  IN  [i \in 1 .. 4 |-> IF i = touched THEN held
                        ELSE IF others = 0 THEN (100 - held) \div 3
                        ELSE (w[i] * (100 - held)) \div others]

\* The touched street holds its value; the others share what is left in
\* proportion, the largest remainders first and the lower street on a tie, or
\* evenly when they are all zero.
RedistributeStreetWeights(w, touched, value) ==
  LET held == ClampInt(value, 0, 100)
      budget == 100 - held
      rest == (1 .. 4) \ {touched}
      others == Total(w) - w[touched]
      Share(i) == IF others = 0 THEN budget \div 3 ELSE (w[i] * budget) \div others
      Remainder(i) == IF others = 0 THEN 0 ELSE (w[i] * budget) % others
      Floor == [i \in 1 .. 4 |-> IF i = touched THEN held ELSE Share(i)]
      Before(i) == {j \in rest : \/ Remainder(j) > Remainder(i)
                                 \/ Remainder(j) = Remainder(i) /\ j < i}
  IN  [i \in 1 .. 4 |->
         IF i # touched /\ Cardinality(Before(i)) < 100 - Total(Floor)
         THEN Floor[i] + 1 ELSE Floor[i]]

\* validate(s) = Ok.
Valid(s) ==
  /\ Total(s.street_weights) = 100
  /\ s.custom_weights[1] + s.custom_weights[2] = 100
  /\ s.side_pot_frequency \in 0 .. 100
  /\ 0 <= s.difficulty[1] /\ s.difficulty[1] <= s.difficulty[2] /\ s.difficulty[2] <= 100
  /\ s.time_pressure_custom_enabled => s.time_pressure_custom_seconds \in 1 .. 300
  /\ s.volume <= 100
  /\ Len(s.display_name_override) <= kMaxDisplayNameOverrideLength

\* Every field in its range, and validate says Ok whatever the toggles say.
Choosable(s) ==
  /\ s = [f \in Fields |-> s[f]]
  /\ s.street_weights \in [1 .. 4 -> 0 .. 100] /\ Total(s.street_weights) = 100
  /\ s.custom_weights \in [1 .. 2 -> 0 .. 100] /\ s.custom_weights[1] + s.custom_weights[2] = 100
  /\ s.difficulty \in [1 .. 2 -> 0 .. 100] /\ s.difficulty[1] <= s.difficulty[2]
  /\ s.time_pressure_custom_seconds \in 1 .. 300
  /\ s.side_pot_frequency \in 0 .. 100 /\ s.volume \in 0 .. 100
  /\ s.chip_denomination_mode \in {0, 1} /\ s.default_aggressor_recap_tab \in {0, 1}
  /\ s.active_theme_id \in 0 .. kThemeIdCount - 1
  /\ s.current_music_genre \in 0 .. kGenreCount /\ s.music_playback_order \in {0, 1}
  /\ s.display_name_override \in Seq(0 .. 255)
  /\ Len(s.display_name_override) <= kMaxDisplayNameOverrideLength
  /\ \A f \in Toggles : s[f] \in BOOLEAN

----------------------------------------------------------------------------
(* The codecs. *)

NoBlob == [magic |-> "none", version |-> 0, cells |-> <<>>]

EncodeInterim(theme, split) ==
  [magic |-> "PTS0", version |-> 0, cells |-> <<theme, split[1], split[2]>>]

\* The order encode_settings writes the fields in.
Layout ==
  <<"street_weights", "custom_weights", "side_pot_frequency", "chip_denomination_mode",
    "bet_sizing_engine_enabled", "difficulty", "time_pressure_custom_enabled",
    "time_pressure_custom_seconds", "delta_timer_enabled", "show_hud", "show_countdown",
    "cash_mode", "active_theme_id", "reduce_motion", "background_atmospheric_movement",
    "particle_drift", "hover_tilt", "volume", "current_music_genre", "music_playback_order",
    "mute_all", "mute_sfx", "mute_music", "dealer_arrival_animation", "transitions_enabled",
    "default_aggressor_recap_tab", "shop_button_visible", "leaderboard_opt_in",
    "display_name_override", "confirm_before_leaving_site">>

\* The bytes of one field: a toggle is 0 or 1, the seconds are a u16 with the
\* low byte first, the name is its clamped length and its bytes.
FieldBytes(s, f) ==
  CASE f \in {"street_weights", "custom_weights", "difficulty"} -> s[f]
    [] f = "time_pressure_custom_seconds" -> <<s[f] % 256, s[f] \div 256>>
    [] f = "display_name_override" ->
         LET n == ClampInt(Len(s[f]), 0, kMaxDisplayNameOverrideLength)
         IN  <<n>> \o SubSeq(s[f], 1, n)
    [] f \in Toggles -> IF s[f] THEN <<1>> ELSE <<0>>
    [] OTHER -> <<s[f]>>

EncodeSettings(s) ==
  [magic |-> "PTS1", version |-> 2,
   cells |-> FlattenSeq([i \in DOMAIN Layout |-> FieldBytes(s, Layout[i])])]

\* The blob an older release wrote: no genre "All", and no byte for the order.
EncodedBefore(s) ==
  LET t == [s EXCEPT !.current_music_genre = @ - 1]
  IN  [magic |-> "PTS1", version |-> 1,
       cells |-> FlattenSeq([i \in DOMAIN Layout |->
                               IF Layout[i] = "music_playback_order" THEN <<>>
                               ELSE FieldBytes(t, Layout[i])])]

\* The order decode_settings reads the fields in, up to the name.
ReadOrder ==
  <<"street_weights", "custom_weights", "side_pot_frequency", "chip_denomination_mode",
    "bet_sizing_engine_enabled", "difficulty", "time_pressure_custom_enabled",
    "time_pressure_custom_seconds", "delta_timer_enabled", "show_hud", "show_countdown",
    "cash_mode", "active_theme_id", "reduce_motion", "background_atmospheric_movement",
    "particle_drift", "hover_tilt", "volume", "current_music_genre", "music_playback_order",
    "mute_all", "mute_sfx", "mute_music", "dealer_arrival_animation", "transitions_enabled",
    "default_aggressor_recap_tab", "shop_button_visible", "leaderboard_opt_in",
    "display_name_override">>

Width(f, version) ==
  CASE f = "street_weights" -> 4
    [] f \in {"custom_weights", "difficulty", "time_pressure_custom_seconds"} -> 2
    [] f = "music_playback_order" -> IF version > 1 THEN 1 ELSE 0
    [] OTHER -> 1

\* Position[version][f]: the cell that the field f starts at.
Position ==
  [version \in {1, 2} |->
     LET start[i \in 1 .. Len(ReadOrder)] ==
           IF i = 1 THEN 1 ELSE start[i - 1] + Width(ReadOrder[i - 1], version)
     IN  [f \in Fields \ {"confirm_before_leaving_site"} |->
            start[CHOOSE i \in DOMAIN ReadOrder : ReadOrder[i] = f]]]

\* decode_genre: a layout without "All" counts the genres from 0.
DecodeGenre(raw, version) ==
  IF version = 1 THEN IF raw < kGenreCount THEN raw + 1 ELSE 0
  ELSE IF raw <= kGenreCount THEN raw ELSE 0

Rejected == [rejected |-> TRUE]

\* decode_settings: every cell is there, or the blob is rejected as a whole.
DecodeSettings(b) ==
  IF b.magic # "PTS1" \/ b.version \notin {1, 2} THEN Rejected
  ELSE LET c == b.cells
           at == Position[b.version]
           nameAt == at["display_name_override"]
           n == IF nameAt \in DOMAIN c
                THEN ClampInt(c[nameAt], 0, kMaxDisplayNameOverrideLength) ELSE 0
           Read(f) ==
             CASE f \in {"street_weights", "custom_weights", "difficulty"} ->
                    SubSeq(c, at[f], at[f] + Width(f, b.version) - 1)
               [] f = "time_pressure_custom_seconds" -> c[at[f]] + 256 * c[at[f] + 1]
               [] f = "current_music_genre" -> DecodeGenre(c[at[f]], b.version)
               [] f = "music_playback_order" ->
                    IF b.version = 1 THEN Defaults[f] ELSE IF c[at[f]] = 1 THEN 1 ELSE 0
               [] f = "display_name_override" -> SubSeq(c, nameAt + 1, nameAt + n)
               [] f = "confirm_before_leaving_site" -> c[nameAt + n + 1] # 0
               [] f \in Toggles \ {"confirm_before_leaving_site"} -> c[at[f]] # 0
               [] OTHER -> c[at[f]]
       IN  IF Len(c) < nameAt + n + 1 THEN Rejected ELSE [f \in Fields |-> Read(f)]

\* read_persisted_settings: the full blob, the interim one, or the defaults.
ReadPersisted(b) ==
  LET full == DecodeSettings(b)
  IN  IF full # Rejected THEN full
      ELSE IF b.magic = "PTS0"
           THEN [Defaults EXCEPT !.active_theme_id = b.cells[1],
                                 !.custom_weights = <<b.cells[2], b.cells[3]>>]
      ELSE Defaults

\* read_persisted_custom_weights and reset_weights: 50/50 when no blob holds a
\* split.
SavedSplit(b) == ReadPersisted(b).custom_weights
=============================================================================
