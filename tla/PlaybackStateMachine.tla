------------------------ MODULE PlaybackStateMachine ------------------------
(***************************************************************************)
(* The playback state machine of src/playback/src/state_machine.rs: one    *)
(* action per handler, each the whole body of the handler.  The machine is *)
(* deterministic and single threaded; PlaybackCoordinator composes it with *)
(* the queue and the worker thread that drive it.                          *)
(*                                                                         *)
(* A handler's return value (the events it emits) and the actions it       *)
(* pushes, which the coordinator takes after every input, are the          *)
(* variables emitted and actions: they describe the last handler only.     *)
(*                                                                         *)
(* Positions, item ids and the plain change-detected values (rate,         *)
(* duration, refresh rate, buffered ranges) are members of small sets; the *)
(* text of error messages is left out.                                     *)
(***************************************************************************)
EXTENDS Naturals, Sequences

CONSTANTS
    Items,          \* non-empty item ids a load may name
    NoItem,         \* the empty item id
    Positions,      \* playback positions, 0 among them
    ScalarFields,   \* the change-detected fields the handlers only copy
    ScalarValues,   \* their values
    InitScalar      \* the value such a field has in a fresh snapshot

ASSUME ItemAssumption == NoItem \notin Items
ASSUME PositionAssumption == Positions \subseteq Nat /\ 0 \in Positions
ASSUME ScalarAssumption == InitScalar \in ScalarValues

VARIABLES
    s,                   \* the snapshot the machine publishes
    pending_load,        \* a loadfile was announced and has not loaded yet
    pause_requested,     \* the source's name: TRUE when playing is wanted
    paused_for_cache,    \* last value of mpv's paused-for-cache
    core_idle,           \* last value of mpv's core-idle
    frame_available,     \* the current file has shown a frame
    last_known_item_id,  \* item named by the last load, until a terminal event
    emitted,             \* the events returned by the last handler
    actions              \* the actions pushed by the last handler

smVars == <<s, pending_load, pause_requested, paused_for_cache, core_idle,
            frame_available, last_known_item_id, emitted, actions>>

Phases     == {"Starting", "Playing", "Paused", "Stopped"}
MediaTypes == {"Unknown", "Audio", "Video"}
EndReasons == {"Eof", "Error", "Canceled"}

Snapshot ==
    [presence : {"None", "Present"}, phase : Phases, seeking : BOOLEAN,
     buffering : BOOLEAN, media_type : MediaTypes, position : Positions,
     variant_switch_pending : BOOLEAN, fullscreen : BOOLEAN,
     maximized_before_fullscreen : BOOLEAN,
     scalars : [ScalarFields -> ScalarValues]]

Fresh ==
    [presence |-> "None", phase |-> "Stopped", seeking |-> FALSE,
     buffering |-> FALSE, media_type |-> "Unknown", position |-> 0,
     variant_switch_pending |-> FALSE, fullscreen |-> FALSE,
     maximized_before_fullscreen |-> FALSE,
     scalars |-> [f \in ScalarFields |-> InitScalar]]

(***************************************************************************)
(* Events.  Those that carry no flag in the source carry FALSE, as         *)
(* PlaybackEvent::new leaves it.                                           *)
(***************************************************************************)
EventKinds ==
    {"Started", "Paused", "Finished", "Canceled", "Error", "SeekingChanged",
     "BufferingChanged", "MediaTypeChanged", "TrackLoaded", "PositionChanged",
     "ScalarChanged", "FullscreenChanged"}

Event == [kind : EventKinds, flag : BOOLEAN]

Ev(kind)            == [kind |-> kind, flag |-> FALSE]
Flagged(kind, flag) == [kind |-> kind, flag |-> flag]
Cleared(kind, was)  == IF was THEN <<Flagged(kind, FALSE)>> ELSE <<>>

ApplyPendingTrackSelectionAndPlay == "ApplyPendingTrackSelectionAndPlay"

-----------------------------------------------------------------------------
(***************************************************************************)
(* Helpers.                                                                *)
(***************************************************************************)
ActivePhase == s.phase \in {"Starting", "Playing", "Paused"}

ReadyToPlay(media_type, frame) == media_type # "Video" \/ frame

\* transition_to_playing on the snapshot snap.
Promoted(snap) ==
    [snap EXCEPT !.phase = "Playing", !.variant_switch_pending = FALSE]

\* A handler that returns evs and pushes no action.
Returns(evs) == emitted' = evs /\ actions' = <<>>

\* An early return: nothing changes but the (empty) result.
Ignored ==
    /\ Returns(<<>>)
    /\ UNCHANGED <<s, pending_load, pause_requested, paused_for_cache,
                   core_idle, frame_available, last_known_item_id>>

\* snap becomes the snapshot after the events evs, and is promoted to Playing
\* when promote holds.
SettlesAs(snap, evs, promote) ==
    /\ s' = IF promote THEN Promoted(snap) ELSE snap
    /\ Returns(IF promote THEN Append(evs, Ev("Started")) ELSE evs)

-----------------------------------------------------------------------------
(***************************************************************************)
(* Loading and ending a file.                                              *)
(***************************************************************************)
\* The snapshot of a file that starts: both loads build it.
StartingSnapshot ==
    [s EXCEPT !.presence = "Present", !.phase = "Starting", !.seeking = FALSE,
              !.buffering = paused_for_cache \/ core_idle]

\* Fault of the mutation runs: the announced load stays pending once loaded.
FileLoadedStillPending ==
    /\ s' = StartingSnapshot
    /\ pause_requested' = FALSE
    /\ frame_available' = FALSE
    /\ emitted' = <<Ev("TrackLoaded")>>
    /\ actions' = <<ApplyPendingTrackSelectionAndPlay>>
    /\ UNCHANGED <<pending_load, paused_for_cache, core_idle, last_known_item_id>>

OnFileLoaded ==
    /\ s' = StartingSnapshot
    /\ pending_load' = FALSE
    /\ pause_requested' = FALSE
    /\ frame_available' = FALSE
    /\ emitted' = <<Ev("TrackLoaded")>>
    /\ actions' = <<ApplyPendingTrackSelectionAndPlay>>
    /\ UNCHANGED <<paused_for_cache, core_idle, last_known_item_id>>

OnLoadStarting(item) ==
    /\ s' = [StartingSnapshot EXCEPT !.variant_switch_pending =
                item # NoItem /\ item = last_known_item_id]
    /\ last_known_item_id' = IF item # NoItem THEN item ELSE last_known_item_id
    /\ pending_load' = TRUE
    /\ pause_requested' = FALSE
    /\ frame_available' = FALSE
    /\ Returns(<<Ev("TrackLoaded")>>)
    /\ UNCHANGED <<paused_for_cache, core_idle>>

\* The seek and stall flags are cleared on both paths of on_end_file.
EndFlagEvents ==
    Cleared("SeekingChanged", s.seeking) \o Cleared("BufferingChanged", s.buffering)

\* A load is in flight: the end of the file it replaces is swallowed.
SwallowsEnd(reason) == pending_load /\ reason # "Error"

Terminal(reason) ==
    CASE reason = "Eof"      -> "Finished"
      [] reason = "Canceled" -> "Canceled"
      [] reason = "Error"    -> "Error"

EndSwallowed ==
    /\ s' = [s EXCEPT !.seeking = FALSE, !.buffering = FALSE,
                      !.presence = "Present", !.phase = "Starting"]
    /\ pending_load' = FALSE
    /\ Returns(EndFlagEvents)
    /\ UNCHANGED <<pause_requested, paused_for_cache, core_idle,
                   frame_available, last_known_item_id>>

EndTerminal(reason) ==
    /\ s' = [s EXCEPT !.seeking = FALSE, !.buffering = FALSE,
                      !.presence = "None", !.phase = "Stopped", !.position = 0,
                      !.variant_switch_pending = FALSE]
    /\ pending_load' = FALSE
    /\ pause_requested' = FALSE
    /\ last_known_item_id' = NoItem
    /\ Returns(Append(EndFlagEvents, Ev(Terminal(reason))))
    /\ UNCHANGED <<paused_for_cache, core_idle, frame_available>>

OnEndFile(reason) ==
    \/ SwallowsEnd(reason)  /\ EndSwallowed
    \/ ~SwallowsEnd(reason) /\ EndTerminal(reason)

-----------------------------------------------------------------------------
(***************************************************************************)
(* Pause, resume and the promotion to Playing.                             *)
(***************************************************************************)
\* Fault of the mutation runs: a stall that is cut short hides the pause.
PausingUnannounced ==
    /\ s.phase # "Paused"
    /\ s' = [s EXCEPT !.phase = "Paused", !.buffering = FALSE]
    /\ Returns(IF s.buffering THEN <<Flagged("BufferingChanged", FALSE)>>
               ELSE <<Ev("Paused")>>)

Pausing ==
    /\ s.phase # "Paused"
    /\ s' = [s EXCEPT !.phase = "Paused", !.buffering = FALSE]
    /\ Returns(Append(Cleared("BufferingChanged", s.buffering), Ev("Paused")))

Resuming ==
    /\ \/ s.phase = "Paused"
       \/ /\ s.phase = "Starting"
          /\ ~s.buffering
          /\ ReadyToPlay(s.media_type, frame_available)
    /\ SettlesAs(s, <<>>, TRUE)

\* The pause state changes what is wanted even when nothing else moves.
PauseOnlyNoted(paused) ==
    /\ IF paused THEN s.phase = "Paused"
       ELSE \/ s.phase = "Playing"
            \/ /\ s.phase = "Starting"
               /\ s.buffering \/ ~ReadyToPlay(s.media_type, frame_available)
    /\ Returns(<<>>)
    /\ UNCHANGED s

OnPauseChanged(paused) ==
    \/ /\ s.presence = "None" \/ s.phase = "Stopped"
       /\ Ignored
    \/ /\ s.presence # "None" /\ s.phase # "Stopped"
       /\ pause_requested' = ~paused
       /\ \/ paused /\ Pausing
          \/ ~paused /\ Resuming
          \/ PauseOnlyNoted(paused)
       /\ UNCHANGED <<pending_load, paused_for_cache, core_idle,
                      frame_available, last_known_item_id>>

OnVideoFrameAvailable(available) ==
    /\ frame_available' = available
    /\ SettlesAs(s, <<>>, /\ available /\ ~frame_available
                          /\ s.phase = "Starting"
                          /\ pause_requested
                          /\ ~s.buffering)
    /\ UNCHANGED <<pending_load, pause_requested, paused_for_cache, core_idle,
                   last_known_item_id>>

\* Fault of the mutation runs: the restart after a seek resumes a pause.
RestartResumes ==
    /\ frame_available' = TRUE
    /\ pause_requested' = TRUE
    /\ SettlesAs(s, <<>>, s.phase \in {"Starting", "Paused"} /\ ~s.buffering)
    /\ UNCHANGED <<pending_load, paused_for_cache, core_idle, last_known_item_id>>

\* mpv shows the first frame of a file, or the first one after a seek.
OnPlaybackRestart ==
    /\ frame_available' = TRUE
    /\ pause_requested' = (pause_requested \/ s.phase = "Starting")
    /\ SettlesAs(s, <<>>, s.phase = "Starting" /\ ~s.buffering)
    /\ UNCHANGED <<pending_load, paused_for_cache, core_idle, last_known_item_id>>

\* Fault of the mutation runs: a media type starts a file nobody asked to play.
MediaTypeStarts(ty) ==
    \/ s.media_type = ty /\ Ignored
    \/ /\ s.media_type # ty
       /\ SettlesAs([s EXCEPT !.media_type = ty], <<Ev("MediaTypeChanged")>>,
                    /\ s.phase = "Starting"
                    /\ ~s.buffering
                    /\ ReadyToPlay(ty, frame_available))
       /\ UNCHANGED <<pending_load, pause_requested, paused_for_cache,
                      core_idle, frame_available, last_known_item_id>>

OnMediaType(ty) ==
    \/ s.media_type = ty /\ Ignored
    \/ /\ s.media_type # ty
       /\ SettlesAs([s EXCEPT !.media_type = ty], <<Ev("MediaTypeChanged")>>,
                    /\ s.phase = "Starting"
                    /\ pause_requested
                    /\ ~s.buffering
                    /\ ReadyToPlay(ty, frame_available))
       /\ UNCHANGED <<pending_load, pause_requested, paused_for_cache,
                      core_idle, frame_available, last_known_item_id>>

-----------------------------------------------------------------------------
(***************************************************************************)
(* Stalls: paused-for-cache and core-idle fold into the buffering flag.    *)
(***************************************************************************)
ApplyBufferingChange(combined) ==
    \/ s.buffering = combined /\ Returns(<<>>) /\ UNCHANGED s
    \/ /\ s.buffering # combined
       /\ SettlesAs([s EXCEPT !.buffering = combined],
                    <<Flagged("BufferingChanged", combined)>>,
                    /\ ~combined
                    /\ s.phase = "Starting"
                    /\ pause_requested
                    /\ ReadyToPlay(s.media_type, frame_available))

\* Fault of the mutation runs: a pause does not hide the stall.
StallNotedWhilePaused(combined) ==
    \/ ~ActivePhase /\ Returns(<<>>) /\ UNCHANGED s
    \/ ActivePhase /\ ApplyBufferingChange(combined)

\* Stopped and Paused remember the property but leave the flag alone.
StallNoted(combined) ==
    \/ /\ ~ActivePhase \/ s.phase = "Paused"
       /\ Returns(<<>>)
       /\ UNCHANGED s
    \/ /\ ActivePhase /\ s.phase # "Paused"
       /\ ApplyBufferingChange(combined)

OnPausedForCache(pfc) ==
    \/ paused_for_cache = pfc /\ Ignored
    \/ /\ paused_for_cache # pfc
       /\ paused_for_cache' = pfc
       /\ StallNoted(pfc \/ core_idle)
       /\ UNCHANGED <<pending_load, pause_requested, core_idle,
                      frame_available, last_known_item_id>>

OnCoreIdle(idle) ==
    \/ core_idle = idle /\ Ignored
    \/ /\ core_idle # idle
       /\ core_idle' = idle
       /\ StallNoted(paused_for_cache \/ idle)
       /\ UNCHANGED <<pending_load, pause_requested, paused_for_cache,
                      frame_available, last_known_item_id>>

-----------------------------------------------------------------------------
(***************************************************************************)
(* Seeking, position, and the values that are only copied.                 *)
(***************************************************************************)
\* Only the snapshot and the result change.
SnapshotOnly(snap, evs) ==
    /\ s' = snap
    /\ Returns(evs)
    /\ UNCHANGED <<pending_load, pause_requested, paused_for_cache, core_idle,
                   frame_available, last_known_item_id>>

\* Fault of the mutation runs: a seek is noted in every phase.
SeekingInAnyPhase(seeking) ==
    \/ s.seeking = seeking /\ Ignored
    \/ /\ s.seeking # seeking
       /\ SnapshotOnly([s EXCEPT !.seeking = seeking],
                       <<Flagged("SeekingChanged", seeking)>>)

OnSeekingChanged(seeking) ==
    \/ (~ActivePhase \/ s.seeking = seeking) /\ Ignored
    \/ /\ ActivePhase /\ s.seeking # seeking
       /\ SnapshotOnly([s EXCEPT !.seeking = seeking],
                       <<Flagged("SeekingChanged", seeking)>>)

\* A position completes a seek; it has no phase guard in the source.
OnPosition(position) ==
    \/ s.position = position /\ ~s.seeking /\ Ignored
    \/ /\ s.position # position \/ s.seeking
       /\ SnapshotOnly([s EXCEPT !.position = position, !.seeking = FALSE],
                       Append(Cleared("SeekingChanged", s.seeking),
                              Ev("PositionChanged")))

OnFullscreen(fullscreen, was_maximized) ==
    \/ s.fullscreen = fullscreen /\ Ignored
    \/ /\ s.fullscreen # fullscreen
       /\ SnapshotOnly([s EXCEPT !.fullscreen = fullscreen,
                                 !.maximized_before_fullscreen =
                                     fullscreen /\ was_maximized],
                       <<Ev("FullscreenChanged")>>)

\* on_speed, on_duration, on_buffered_ranges and on_display_hz.
OnScalar(field, value) ==
    \/ s.scalars[field] = value /\ Ignored
    \/ /\ s.scalars[field] # value
       /\ SnapshotOnly([s EXCEPT !.scalars[field] = value],
                       <<Ev("ScalarChanged")>>)

-----------------------------------------------------------------------------
Init ==
    /\ s = Fresh
    /\ pending_load = FALSE
    /\ pause_requested = FALSE
    /\ paused_for_cache = FALSE
    /\ core_idle = FALSE
    /\ frame_available = FALSE
    /\ last_known_item_id = NoItem
    /\ emitted = <<>>
    /\ actions = <<>>

\* mpv's events and the runtime's posts reach the machine in any order.
Next ==
    \/ OnFileLoaded
    \/ \E item \in Items \cup {NoItem} : OnLoadStarting(item)
    \/ \E reason \in EndReasons : OnEndFile(reason)
    \/ \E paused \in BOOLEAN : OnPauseChanged(paused)
    \/ \E available \in BOOLEAN : OnVideoFrameAvailable(available)
    \/ OnPlaybackRestart
    \/ \E ty \in MediaTypes : OnMediaType(ty)
    \/ \E pfc \in BOOLEAN : OnPausedForCache(pfc)
    \/ \E idle \in BOOLEAN : OnCoreIdle(idle)
    \/ \E seeking \in BOOLEAN : OnSeekingChanged(seeking)
    \/ \E position \in Positions : OnPosition(position)
    \/ \E fullscreen, was_maximized \in BOOLEAN : OnFullscreen(fullscreen, was_maximized)
    \/ \E field \in ScalarFields, value \in ScalarValues : OnScalar(field, value)

Spec == Init /\ [][Next]_smVars

-----------------------------------------------------------------------------
(***************************************************************************)
(* Properties.                                                             *)
(***************************************************************************)
\* Every variable has its type; a handler returns at most three events.
TypeOK ==
    /\ s \in Snapshot
    /\ pending_load \in BOOLEAN
    /\ pause_requested \in BOOLEAN
    /\ paused_for_cache \in BOOLEAN
    /\ core_idle \in BOOLEAN
    /\ frame_available \in BOOLEAN
    /\ last_known_item_id \in Items \cup {NoItem}
    /\ emitted \in Seq(Event)
    /\ actions \in Seq({ApplyPendingTrackSelectionAndPlay})

\* A stopped player is absent, and nothing of the file that ended survives:
\* no seek, no stall, no variant switch, no announced load, no wish to play
\* and no item id, whatever order mpv's events and the loads arrived in.
StoppedIsClean ==
    /\ s.presence = "None" <=> s.phase = "Stopped"
    /\ s.phase = "Stopped" =>
           /\ ~s.seeking /\ ~s.buffering /\ ~s.variant_switch_pending
           /\ ~pending_load /\ ~pause_requested
           /\ last_known_item_id = NoItem

\* The phase agrees with what the user last asked for: playing is wanted in
\* Playing and not in Paused (the handlers keep the two apart in six places).
PauseIntent ==
    /\ s.phase = "Playing" => pause_requested
    /\ s.phase = "Paused" => ~pause_requested

\* The stall shown to the user is one mpv reports, and a pause shows none: a
\* stall that ends while the machine is not looking leaves no stuck spinner.
StallIsReal ==
    /\ s.buffering => paused_for_cache \/ core_idle
    /\ s.phase = "Paused" => ~s.buffering

\* The variant-switch flag spans a reload of the item that was current up to
\* its first frame, a pause included, and never survives into Playing.
VariantSwitchSpansReload ==
    s.variant_switch_pending =>
        s.phase \in {"Starting", "Paused"} /\ last_known_item_id # NoItem

\* A pause is resumed by an unpause only: neither a restart after a seek, nor a
\* frame, a media type or the end of a stall resumes it.
ResumeIsExplicit ==
    [][s.phase = "Paused" /\ s'.phase = "Playing" => OnPauseChanged(FALSE)]_smVars

\* A starting file is promoted only when playing is wanted, no stall is shown
\* and, for a video, its first frame is available.
PromotionIsReady ==
    [][s.phase = "Starting" /\ s'.phase = "Playing" =>
           /\ pause_requested'
           /\ ~s'.buffering
           /\ ReadyToPlay(s'.media_type, frame_available')]_smVars

\* Consumers follow the machine by its events alone, so Started and Paused are
\* returned exactly when the phase enters Playing and Paused, a terminal event
\* whenever it enters Stopped, and TrackLoaded whenever it falls back to
\* Starting other than by swallowing the end of a file that is replaced.
PhasesAreAnnounced ==
    [][LET kinds == {emitted'[i].kind : i \in DOMAIN emitted'} IN
       /\ "Started" \in kinds <=> s.phase # "Playing" /\ s'.phase = "Playing"
       /\ "Paused" \in kinds <=> s.phase # "Paused" /\ s'.phase = "Paused"
       /\ s.phase # "Stopped" /\ s'.phase = "Stopped" =>
              kinds \cap {"Finished", "Canceled", "Error"} # {}
       /\ s.phase # "Starting" /\ s'.phase = "Starting" =>
              "TrackLoaded" \in kinds \/ pending_load]_smVars

=============================================================================
