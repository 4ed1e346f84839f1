--------------------------- MODULE MCLiveSettings ---------------------------
(***************************************************************************)
(* LiveSettings for TLC: profiles of every format, a row written by an     *)
(* older release and one by this one.                                      *)
(***************************************************************************)
EXTENDS LiveSettings

\* A player of an older release: Classical, full volume, Sage.
OldTimer ==
  [Defaults EXCEPT !.current_music_genre = 2, !.volume = 100, !.active_theme_id = 3,
                   !.time_pressure_custom_seconds = 300, !.confirm_before_leaving_site = FALSE]

\* A player of this release on another device.
Elsewhere ==
  [Defaults EXCEPT !.current_music_genre = 4, !.music_playback_order = 1, !.mute_music = TRUE,
                   !.street_weights = <<0, 0, 0, 100>>, !.custom_weights = <<100, 0>>,
                   !.leaderboard_opt_in = TRUE, !.transitions_enabled = FALSE]

\* A player of the first release: a theme and a split are all it stored.
Interim ==
  [blob |-> EncodeInterim(2, <<70, 30>>),
   meant |-> [Defaults EXCEPT !.active_theme_id = 2, !.custom_weights = <<70, 30>>]]

MCStarts ==
  {[profile |-> Interim, row |-> NoRow],
   [profile |-> [blob |-> EncodedBefore(OldTimer), meant |-> OldTimer],
    row |-> [blob |-> EncodeSettings(Elsewhere), opted |-> TRUE, meant |-> Elsewhere]]}

MCEdited ==
  {"street_weights", "time_pressure_custom_seconds", "active_theme_id", "volume",
   "current_music_genre", "music_playback_order", "leaderboard_opt_in"}

\* A few fields, for the longer walks.
MCFew == {"active_theme_id", "leaderboard_opt_in"}

\* Nothing is typed: the values beside the present one are tried, and the starts
\* hold the ends of the ranges.
MCTyped == {}

MCSelections == {{"Gameplay", "Audio"}, {"Display", "Recap", "Tomatoes"}}
=============================================================================
