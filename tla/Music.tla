-------------------------------- MODULE Music --------------------------------
(***************************************************************************)
(* The music engine (src/src/audio): the rotation, the shuffle pool and    *)
(* the transport with its two <audio> slots.                               *)
(*                                                                         *)
(* The engine is one record and every call of the code an operator from    *)
(* engine to engine, because callers chain several of them in one step; a  *)
(* call that draws the next track gives the set of its outcomes.  The      *)
(* order of a shuffled cycle is not fixed in advance: only the tracks left *)
(* in the cycle are kept, and each draw takes any of them.  Volumes, mutes *)
(* and sound effects are left out.                                         *)
(*                                                                         *)
(* A slot is "on", "near" its end (at most kCrossfadeMs left), "over" (it  *)
(* ended, its duration unknown) or "quiet".  A track that cannot be loaded *)
(* or played stays "on".                                                   *)
(***************************************************************************)
EXTENDS Naturals, Sequences

CONSTANTS
  Tracks,    \* MusicTrackId
  Genres,    \* MusicGenre
  Genre,     \* Genre[t]: the genre of track t
  Starters,  \* the free starter tracks, in catalog order
  All,       \* "All genres": no filter
  NoTrack    \* std::nullopt for a track

ASSUME MusicAssumption ==
  /\ Genre \in [Tracks -> Genres]
  /\ All \notin Genres
  /\ NoTrack \notin Tracks
  /\ Starters \in Seq(Tracks)
  /\ \A i, j \in DOMAIN Starters : Starters[i] = Starters[j] => i = j

VARIABLE engine

MaybeTrack == Tracks \union {NoTrack}

Orders == {"Loop", "Shuffle"}

Slots == {0, 1}

\* AudioEngine with its MusicRotation, ShufflePool and MusicTransport.
Engine == [tracks : Seq(Tracks), cursor : Nat, filter : Genres \union {All}, order : Orders,
           members : SUBSET Tracks, rest : SUBSET Tracks, last : MaybeTrack,
           gesture : BOOLEAN, sounding : BOOLEAN, crossfading : BOOLEAN, front : Slots,
           playing : MaybeTrack, incoming : MaybeTrack,
           slot : [Slots -> [track : MaybeTrack, state : {"quiet", "on", "near", "over"}]]]

Quiet == [track |-> NoTrack, state |-> "quiet"]

----------------------------------------------------------------------------
(* MusicRotation and ShufflePool *)

InRotation(m, t) == \E i \in DOMAIN m.tracks : m.tracks[i] = t

Passes(m, t) == m.filter = All \/ Genre[t] = m.filter

Scope(m) == {t \in Tracks : InRotation(m, t) /\ Passes(m, t)}

\* ShufflePool::remove.
PoolRemove(m, t) ==
  [m EXCEPT !.members = @ \ {t}, !.rest = @ \ {t}, !.last = IF @ = t THEN NoTrack ELSE @]

\* MusicRotation::add.  A new member of the pool joins the next cycle.
Add(m, t) ==
  IF InRotation(m, t) THEN m
  ELSE [m EXCEPT !.tracks = Append(@, t),
                 !.members = IF Passes(m, t) THEN @ \union {t} ELSE @]

Position(m, t) == CHOOSE i \in DOMAIN m.tracks : m.tracks[i] = t

\* The Loop cursor, an index from zero, after the erase of position p.
CursorAfterErase(m, p) ==
  IF Len(m.tracks) = 1 THEN 0
  ELSE (IF p - 1 < m.cursor THEN m.cursor - 1 ELSE m.cursor) % (Len(m.tracks) - 1)

\* MusicRotation::remove.
Erase(m, t) ==
  IF ~InRotation(m, t) THEN m
  ELSE LET p == Position(m, t)
       IN  [PoolRemove(m, t) EXCEPT
              !.tracks = [i \in 1 .. Len(@) - 1 |-> IF i < p THEN @[i] ELSE @[i + 1]],
              !.cursor = CursorAfterErase(m, p)]

\* MusicRotation::set_genre_filter: tracks that stay in scope keep their place
\* in the cycle.
SetFilter(m, g) ==
  LET n == [m EXCEPT !.filter = g]
  IN  [n EXCEPT !.members = Scope(n), !.rest = @ \intersect Scope(n),
                !.last = IF @ \in m.members \ Scope(n) THEN NoTrack ELSE @]

\* ShufflePool::next.  A new cycle does not begin with the track that ended
\* the one before, if there is another.
PoolDraws(m) ==
  LET fresh == IF m.members \ {m.last} = {} THEN m.members ELSE m.members \ {m.last}
      left  == IF m.rest = {} THEN m.members ELSE m.rest
  IN  IF m.members = {}
      THEN {[track |-> NoTrack, engine |-> [m EXCEPT !.rest = {}]]}
      ELSE {[track |-> t, engine |-> [m EXCEPT !.rest = left \ {t}, !.last = t]] :
              t \in (IF m.rest = {} THEN fresh ELSE m.rest)}

\* MusicRotation::next_in_loop.
LoopDraw(m) ==
  LET count == Len(m.tracks)
      At(step) == (m.cursor + step) % count
      hits == {step \in 0 .. count - 1 : Passes(m, m.tracks[At(step) + 1])}
      step == CHOOSE s \in hits : \A r \in hits : s <= r
  IN  IF hits = {} THEN [track |-> NoTrack, engine |-> m]
      ELSE [track |-> m.tracks[At(step) + 1],
            engine |-> [m EXCEPT !.cursor = (At(step) + 1) % count]]

\* MusicRotation::next.
Draws(m) == IF m.order = "Shuffle" THEN PoolDraws(m) ELSE {LoopDraw(m)}

----------------------------------------------------------------------------
(* The transport *)

Back(m) == 1 - m.front

Stop(m, i) == [m EXCEPT !.slot[i] = Quiet]

StartInFront(m, t) ==
  [m EXCEPT !.slot[m.front] = [track |-> t, state |-> "on"], !.sounding = TRUE,
            !.crossfading = FALSE, !.playing = t, !.incoming = NoTrack]

\* Faulty: the track that was fading in goes on sounding.
StartTrackBug(m, t) == StartInFront(m, t)

\* music_start_track.
StartTrack(m, t) == StartInFront(IF m.crossfading THEN Stop(m, Back(m)) ELSE m, t)

\* halt_playback.
Halt(m) ==
  [m EXCEPT !.slot = [i \in Slots |-> Quiet], !.sounding = FALSE, !.crossfading = FALSE,
            !.front = 0, !.playing = NoTrack, !.incoming = NoTrack]

\* cancel_incoming.
CancelIncoming(m) ==
  [(IF m.crossfading THEN Stop(m, Back(m)) ELSE m) EXCEPT
     !.crossfading = FALSE, !.incoming = NoTrack]

\* advance_or_halt.
AdvanceOrHalt(m) ==
  {IF d.track = NoTrack THEN Halt(d.engine) ELSE StartTrack(d.engine, d.track) : d \in Draws(m)}

\* Faulty: only the sounding track is looked at.
RemoveTrackBug(m, t) ==
  IF m.sounding /\ m.playing = t THEN AdvanceOrHalt(Erase(m, t)) ELSE {Erase(m, t)}

\* music_remove_track.
RemoveTrack(m, t) ==
  LET wasPlaying  == m.sounding /\ m.playing = t
      wasIncoming == m.sounding /\ m.incoming = t
      erased == IF wasIncoming THEN CancelIncoming(Erase(m, t)) ELSE Erase(m, t)
  IN  IF wasPlaying THEN AdvanceOrHalt(erased) ELSE {erased}

\* music_apply_genre_filter.
ApplyFilter(m, g) ==
  LET n == SetFilter(m, g)
      c == IF n.incoming # NoTrack /\ n.incoming \notin Scope(n) THEN CancelIncoming(n) ELSE n
  IN  IF m.filter = g THEN {m}
      ELSE IF ~n.sounding THEN {n}
      ELSE IF c.playing \in Scope(c) THEN {c}
      ELSE AdvanceOrHalt(c)

\* Every track removed one after the other, as the rebuild of the rotation does.
Clear(m) ==
  [Halt(m) EXCEPT !.tracks = <<>>, !.cursor = 0, !.members = {}, !.rest = {}, !.last = NoTrack]

\* The engine's rotation made to be ts, unless it is so already.
Rebuild(m, ts) ==
  IF m.tracks = ts THEN m
  ELSE [Clear(m) EXCEPT !.tracks = ts,
                        !.members = {t \in Tracks : (\E i \in DOMAIN ts : ts[i] = t) /\ Passes(m, t)}]

----------------------------------------------------------------------------
(* Steps of the engine alone *)

\* audio_engine(): the starters, before the profile is known.
NewEngine ==
  [tracks |-> Starters, cursor |-> 0, filter |-> All, order |-> "Loop",
   members |-> {t \in Tracks : \E i \in DOMAIN Starters : Starters[i] = t},
   rest |-> {}, last |-> NoTrack, gesture |-> FALSE, sounding |-> FALSE,
   crossfading |-> FALSE, front |-> 0, playing |-> NoTrack, incoming |-> NoTrack,
   slot |-> [i \in Slots |-> Quiet]]

\* on_first_user_gesture.
FirstGesture ==
  /\ ~engine.gesture
  /\ \E d \in Draws([engine EXCEPT !.gesture = TRUE]) :
       engine' = IF d.track = NoTrack THEN d.engine ELSE StartTrack(d.engine, d.track)

BeginCrossfade(m, t) ==
  [m EXCEPT !.slot[Back(m)] = [track |-> t, state |-> "on"], !.crossfading = TRUE,
            !.incoming = t]

\* Faulty: a track that ended before its crossfade is not noticed.
ContinueBug(m) ==
  IF m.slot[m.front].state = "near" THEN {BeginCrossfade(d.engine, d.track) : d \in Draws(m)}
  ELSE {m}

\* continue_playback while no crossfade is under way.
Continue(m) ==
  IF m.slot[m.front].state = "near" THEN {BeginCrossfade(d.engine, d.track) : d \in Draws(m)}
  ELSE IF m.slot[m.front].state = "over" THEN {StartInFront(d.engine, d.track) : d \in Draws(m)}
  ELSE {m}

\* music_update, a crossfade's progress apart: the gate chooses.
Updated(m) ==
  IF Scope(m) = {} THEN {IF m.sounding THEN Halt(m) ELSE m}
  ELSE IF ~m.sounding THEN {StartInFront(d.engine, d.track) : d \in Draws(m)}
  ELSE Continue(m)

Update ==
  /\ engine.gesture
  /\ engine.crossfading => Scope(engine) = {}
  /\ engine' \in Updated(engine)

\* The crossfade has come to its end: the slots change roles.
FinishCrossfade ==
  /\ engine.gesture /\ engine.crossfading /\ Scope(engine) # {}
  /\ engine' = [Stop(engine, engine.front) EXCEPT
                  !.front = Back(engine), !.playing = engine.incoming, !.incoming = NoTrack,
                  !.crossfading = FALSE]

\* External: an <audio> element plays, and comes to its end.
AudioPlays ==
  \E i \in Slots, s \in {"near", "over"} :
    /\ engine.slot[i].state = "on"
    /\ engine' = [engine EXCEPT !.slot[i].state = s]

----------------------------------------------------------------------------
(* What is promised *)

EngineTypeOK ==
  /\ engine \in Engine
  /\ \A i, j \in DOMAIN engine.tracks : engine.tracks[i] = engine.tracks[j] => i = j
  /\ engine.tracks # <<>> => engine.cursor < Len(engine.tracks)
  /\ engine.tracks = <<>> => engine.cursor = 0

\* What sounds, and what is fading in, is in the rotation and passes the genre
\* filter: a track that was removed, or filtered out, is never left playing
\* out.  Exactly the slots the transport knows of are in use, each with the
\* track the transport takes it to play: however a crossfade was cut short, no
\* <audio> element is left sounding on its own.  And what may sound next is in
\* the scope too: the shuffle pool, maintained call by call, has its tracks, and
\* the cycle under way draws on them alone.
PlaysOnlyItsScope ==
  /\ engine.sounding => engine.playing \in Scope(engine)
  /\ engine.incoming # NoTrack => engine.incoming \in Scope(engine)
  /\ engine.crossfading <=> engine.incoming # NoTrack
  /\ engine.sounding <=> engine.playing # NoTrack
  /\ engine.crossfading => engine.sounding
  /\ engine.slot[engine.front].track = engine.playing
  /\ engine.slot[Back(engine)].track = engine.incoming
  /\ \A i \in Slots : engine.slot[i].state = "quiet" <=> engine.slot[i].track = NoTrack
  /\ engine.members = Scope(engine)
  /\ engine.rest \subseteq engine.members
  /\ engine.last \in engine.members \union {NoTrack}

=============================================================================
