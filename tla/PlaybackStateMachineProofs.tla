--------------------- MODULE PlaybackStateMachineProofs ---------------------
(***************************************************************************)
(* Theorems about the playback state machine, for every set of items,      *)
(* positions and change-detected values, and the lemmas about the batches  *)
(* it is run in that every proof about its owners needs.                   *)
(***************************************************************************)
EXTENDS PlaybackBatches, TLAPS

\* The parts of the inductive invariant: StoppedIsClean carries what the stall
\* flag and the pending load are while the machine is not looking.
IInv ==
    /\ TypeOK
    /\ StoppedIsClean
    /\ PauseIntent
    /\ StallIsReal
    /\ VariantSwitchSpansReload

-----------------------------------------------------------------------------
(***************************************************************************)
(* The events of a handler are events: what Ev, Flagged and Cleared build. *)
(***************************************************************************)
\* Sequences of at most one element.
LEMMA ShortSequences ==
    ASSUME NEW S, NEW e \in S
    PROVE  <<>> \in Seq(S) /\ <<e>> \in Seq(S)
OBVIOUS

\* One more event at the end of the result.
LEMMA AppendTyped ==
    ASSUME NEW evs \in Seq(Event), NEW e \in Event
    PROVE  Append(evs, e) \in Seq(Event)
OBVIOUS

\* An event built from a kind is an event, with or without a flag.
LEMMA EventsAreTyped ==
    ASSUME NEW kind \in EventKinds, NEW flag \in BOOLEAN
    PROVE  /\ Ev(kind) \in Event
           /\ Flagged(kind, flag) \in Event
           /\ Cleared(kind, flag) \in Seq(Event)
<1>1. Ev(kind) \in Event
  BY DEF Ev, Event
<1>2. Flagged(kind, flag) \in Event /\ Flagged(kind, FALSE) \in Event
  BY Zenon DEF Flagged, Event
<1>3. <<Flagged(kind, FALSE)>> \in Seq(Event) /\ <<>> \in Seq(Event)
  BY <1>2, ShortSequences
<1>4. Cleared(kind, flag) \in Seq(Event)
  BY <1>3, Zenon DEF Cleared
<1>. QED
  BY <1>1, <1>2, <1>4

\* Promoting a snapshot changes the phase and the variant flag only.
LEMMA PromotedFields ==
    ASSUME NEW snap \in Snapshot
    PROVE  /\ Promoted(snap) \in Snapshot
           /\ Promoted(snap).phase = "Playing"
           /\ Promoted(snap).variant_switch_pending = FALSE
           /\ Promoted(snap).presence = snap.presence
           /\ Promoted(snap).seeking = snap.seeking
           /\ Promoted(snap).buffering = snap.buffering
BY DEF Promoted, Snapshot, Phases

\* What SettlesAs leaves: the snapshot given, or its promotion.
LEMMA SettlesAsTyped ==
    ASSUME NEW snap \in Snapshot, NEW evs \in Seq(Event), NEW promote \in BOOLEAN,
           SettlesAs(snap, evs, promote)
    PROVE  /\ s' \in Snapshot
           /\ emitted' \in Seq(Event)
           /\ actions' \in Seq({ApplyPendingTrackSelectionAndPlay})
           /\ s' = IF promote THEN Promoted(snap) ELSE snap
<1>1. Ev("Started") \in Event
  BY EventsAreTyped DEF EventKinds
<1>2. s' = IF promote THEN Promoted(snap) ELSE snap
  BY DEF SettlesAs
<1>3. Promoted(snap) \in Snapshot
  BY PromotedFields
<1>4. s' \in Snapshot
  BY <1>2, <1>3
<1>5. Append(evs, Ev("Started")) \in Seq(Event)
  BY <1>1, AppendTyped
<1>6. emitted' \in Seq(Event) /\ actions' = <<>>
  BY <1>5, Zenon DEF SettlesAs, Returns
<1>. QED
  BY <1>2, <1>4, <1>6

-----------------------------------------------------------------------------
\* The initial state satisfies the invariant: a fresh snapshot is clean.
LEMMA InitIInv == Init => IInv
<1>. SUFFICES ASSUME Init PROVE IInv
  OBVIOUS
<1>1. Fresh \in Snapshot
  BY PositionAssumption, ScalarAssumption DEF Fresh, Snapshot, Phases, MediaTypes
<1>2. emitted \in Seq(Event) /\ actions \in Seq({ApplyPendingTrackSelectionAndPlay})
  BY DEF Init
<1>3. TypeOK
  BY <1>1, <1>2, Zenon DEF Init, TypeOK
<1>4. StoppedIsClean /\ PauseIntent /\ StallIsReal /\ VariantSwitchSpansReload
  BY DEF Init, Fresh, StoppedIsClean, PauseIntent, StallIsReal,
         VariantSwitchSpansReload
<1>. QED
  BY <1>3, <1>4 DEF IInv

-----------------------------------------------------------------------------
(***************************************************************************)
(* The four safety parts, separate from the types: each action's proof     *)
(* establishes TypeOK' first and these after it.                           *)
(***************************************************************************)
Safe == StoppedIsClean /\ PauseIntent /\ StallIsReal /\ VariantSwitchSpansReload

\* The constructors the handlers build their results from return what
\* the type invariant asks of emitted and actions.
LEMMA ReturnsTyped ==
    ASSUME NEW evs \in Seq(Event), Returns(evs)
    PROVE  /\ emitted' \in Seq(Event)
           /\ actions' \in Seq({ApplyPendingTrackSelectionAndPlay})
BY DEF Returns

\* An early return changes the result only.
LEMMA IgnoredKeeps ==
    ASSUME IInv, Ignored
    PROVE  IInv'
<1>1. emitted' \in Seq(Event) /\ actions' \in Seq({ApplyPendingTrackSelectionAndPlay})
  BY ReturnsTyped, ShortSequences, <<>> \in Seq(Event) DEF Ignored
<1>2. TypeOK'
  BY <1>1 DEF Ignored, IInv, TypeOK
<1>3. QED
  BY <1>2, Zenon DEF Ignored, IInv, StoppedIsClean, PauseIntent, StallIsReal,
         VariantSwitchSpansReload

\* A file that starts: both loads.
LEMMA StartingTyped ==
    ASSUME IInv
    PROVE  /\ StartingSnapshot \in Snapshot
           /\ StartingSnapshot.presence = "Present"
           /\ StartingSnapshot.phase = "Starting"
           /\ StartingSnapshot.buffering = (paused_for_cache \/ core_idle)
           /\ StartingSnapshot.variant_switch_pending = s.variant_switch_pending
BY DEF IInv, TypeOK, StartingSnapshot, Snapshot, Phases

\* A file that has loaded is starting, and nothing is pending any more.
LEMMA FileLoadedKeeps ==
    ASSUME IInv, OnFileLoaded
    PROVE  IInv'
<1>1. Ev("TrackLoaded") \in Event
  BY EventsAreTyped DEF EventKinds
<1>2. emitted' \in Seq(Event) /\ actions' \in Seq({ApplyPendingTrackSelectionAndPlay})
  BY <1>1, ShortSequences DEF OnFileLoaded
<1>3. TypeOK'
  BY <1>2, StartingTyped DEF OnFileLoaded, IInv, TypeOK
<1>4. Safe'
  BY StartingTyped DEF OnFileLoaded, IInv, Safe, StoppedIsClean, PauseIntent,
         StallIsReal, VariantSwitchSpansReload
<1>. QED
  BY <1>3, <1>4 DEF IInv, Safe

\* A load that is announced: the variant flag needs the item that it sets.
LEMMA LoadStartingKeeps ==
    ASSUME IInv, NEW item \in Items \cup {NoItem}, OnLoadStarting(item)
    PROVE  IInv'
<1>1. Ev("TrackLoaded") \in Event
  BY EventsAreTyped DEF EventKinds
<1>2. emitted' \in Seq(Event) /\ actions' \in Seq({ApplyPendingTrackSelectionAndPlay})
  BY <1>1, ShortSequences DEF OnLoadStarting, Returns
<1>3. TypeOK'
  BY <1>2, StartingTyped DEF OnLoadStarting, IInv, TypeOK, Snapshot
<1>4. Safe'
  BY StartingTyped DEF OnLoadStarting, IInv, TypeOK, Snapshot, Safe,
         StoppedIsClean, PauseIntent, StallIsReal, VariantSwitchSpansReload
<1>. QED
  BY <1>3, <1>4 DEF IInv, Safe

\* The events that clear the seek and stall flags.
LEMMA EndFlagEventsTyped ==
    ASSUME IInv
    PROVE  EndFlagEvents \in Seq(Event)
<1>1. Cleared("SeekingChanged", s.seeking) \in Seq(Event)
  BY EventsAreTyped DEF EventKinds, IInv, TypeOK, Snapshot
<1>2. Cleared("BufferingChanged", s.buffering) \in Seq(Event)
  BY EventsAreTyped DEF EventKinds, IInv, TypeOK, Snapshot
<1>. QED
  BY <1>1, <1>2 DEF EndFlagEvents

\* Both ends of a file: the swallowed one leaves a starting file without a
\* stall, the terminal one leaves the machine clean.
LEMMA EndFileKeeps ==
    ASSUME IInv, NEW reason \in EndReasons, OnEndFile(reason)
    PROVE  IInv'
<1>1. CASE EndSwallowed
  <2>1. emitted' \in Seq(Event) /\ actions' \in Seq({ApplyPendingTrackSelectionAndPlay})
    BY <1>1, EndFlagEventsTyped, ReturnsTyped DEF EndSwallowed
  <2>2. TypeOK'
    BY <1>1, <2>1 DEF EndSwallowed, IInv, TypeOK, Snapshot, Phases
  <2>3. Safe'
    BY <1>1 DEF EndSwallowed, IInv, TypeOK, Snapshot, Safe, StoppedIsClean,
           PauseIntent, StallIsReal, VariantSwitchSpansReload
  <2>. QED
    BY <2>2, <2>3 DEF IInv, Safe
<1>2. CASE EndTerminal(reason)
  <2>1. Ev(Terminal(reason)) \in Event
    BY EventsAreTyped DEF EventKinds, EndReasons, Terminal
  <2>2. emitted' \in Seq(Event) /\ actions' \in Seq({ApplyPendingTrackSelectionAndPlay})
    BY <1>2, <2>1, EndFlagEventsTyped, AppendTyped, ReturnsTyped DEF EndTerminal
  <2>3. TypeOK'
    BY <1>2, <2>2, PositionAssumption DEF EndTerminal, IInv, TypeOK, Snapshot, Phases
  <2>4. Safe'
    BY <1>2 DEF EndTerminal, IInv, TypeOK, Snapshot, Safe, StoppedIsClean,
           PauseIntent, StallIsReal, VariantSwitchSpansReload
  <2>. QED
    BY <2>3, <2>4 DEF IInv, Safe
<1>. QED
  BY <1>1, <1>2 DEF OnEndFile

\* The events of a pause.
LEMMA PauseChangedKeeps ==
    ASSUME IInv, NEW paused \in BOOLEAN, OnPauseChanged(paused)
    PROVE  IInv'
<1>1. CASE Ignored
  BY <1>1, IgnoredKeeps
<1>2. ASSUME s.phase # "Stopped", s.presence # "None", pause_requested' = ~paused,
             paused /\ Pausing,
             UNCHANGED <<pending_load, paused_for_cache, core_idle,
                         frame_available, last_known_item_id>>
      PROVE  IInv'
  <2>1. Cleared("BufferingChanged", s.buffering) \in Seq(Event) /\ Ev("Paused") \in Event
    BY EventsAreTyped DEF EventKinds, IInv, TypeOK, Snapshot
  <2>2. emitted' \in Seq(Event) /\ actions' \in Seq({ApplyPendingTrackSelectionAndPlay})
    BY <1>2, <2>1, AppendTyped, ReturnsTyped DEF Pausing
  <2>3. TypeOK'
    BY <1>2, <2>2 DEF Pausing, IInv, TypeOK, Snapshot, Phases
  <2>4. Safe'
    BY <1>2 DEF Pausing, IInv, TypeOK, Snapshot, Safe, StoppedIsClean,
           PauseIntent, StallIsReal, VariantSwitchSpansReload
  <2>. QED
    BY <2>3, <2>4 DEF IInv, Safe
<1>3. ASSUME s.phase # "Stopped", s.presence # "None", pause_requested' = ~paused,
             ~paused /\ Resuming,
             UNCHANGED <<pending_load, paused_for_cache, core_idle,
                         frame_available, last_known_item_id>>
      PROVE  IInv'
  <2>1. /\ s' \in Snapshot /\ s' = Promoted(s) /\ emitted' \in Seq(Event)
        /\ actions' \in Seq({ApplyPendingTrackSelectionAndPlay})
    BY <1>3, SettlesAsTyped, ShortSequences, <<>> \in Seq(Event) DEF Resuming, IInv, TypeOK
  <2>2. TypeOK'
    BY <1>3, <2>1 DEF IInv, TypeOK
  <2>3. Safe'
    BY <1>3, <2>1, PromotedFields DEF IInv, TypeOK, Snapshot, Safe, StoppedIsClean,
           PauseIntent, StallIsReal, VariantSwitchSpansReload
  <2>. QED
    BY <2>2, <2>3 DEF IInv, Safe
<1>4. ASSUME s.phase # "Stopped", s.presence # "None", pause_requested' = ~paused,
             PauseOnlyNoted(paused),
             UNCHANGED <<pending_load, paused_for_cache, core_idle,
                         frame_available, last_known_item_id>>
      PROVE  IInv'
  <2>1. emitted' \in Seq(Event) /\ actions' \in Seq({ApplyPendingTrackSelectionAndPlay})
    BY <1>4, ReturnsTyped, <<>> \in Seq(Event) DEF PauseOnlyNoted
  <2>2. TypeOK'
    BY <1>4, <2>1 DEF PauseOnlyNoted, IInv, TypeOK
  <2>3. Safe'
    BY <1>4 DEF PauseOnlyNoted, IInv, TypeOK, Snapshot, Safe, StoppedIsClean,
           PauseIntent, StallIsReal, VariantSwitchSpansReload
  <2>. QED
    BY <2>2, <2>3 DEF IInv, Safe
<1>. QED
  BY <1>1, <1>2, <1>3, <1>4 DEF OnPauseChanged

\* A frame: promotes a starting file that is wanted and not stalled.
LEMMA VideoFrameAvailableKeeps ==
    ASSUME IInv, NEW available \in BOOLEAN, OnVideoFrameAvailable(available)
    PROVE  IInv'
<1>. DEFINE promote == /\ available /\ ~frame_available
                       /\ s.phase = "Starting"
                       /\ pause_requested
                       /\ ~s.buffering
<1>1. /\ s' \in Snapshot /\ emitted' \in Seq(Event)
      /\ s' = IF promote THEN Promoted(s) ELSE s
      /\ actions' \in Seq({ApplyPendingTrackSelectionAndPlay})
  <2>1. promote \in BOOLEAN /\ SettlesAs(s, <<>>, promote)
    BY DEF OnVideoFrameAvailable
  <2>. QED
    BY <2>1, SettlesAsTyped, <<>> \in Seq(Event), Zenon DEF IInv, TypeOK
<1>2. TypeOK'
  BY <1>1 DEF OnVideoFrameAvailable, IInv, TypeOK
<1>3. Safe'
  BY <1>1, PromotedFields DEF OnVideoFrameAvailable, IInv, TypeOK, Snapshot, Safe,
         StoppedIsClean, PauseIntent, StallIsReal, VariantSwitchSpansReload
<1>. QED
  BY <1>2, <1>3 DEF IInv, Safe

\* mpv's playback-restart.
LEMMA PlaybackRestartKeeps ==
    ASSUME IInv, OnPlaybackRestart
    PROVE  IInv'
<1>. DEFINE promote == s.phase = "Starting" /\ ~s.buffering
<1>1. /\ s' \in Snapshot /\ emitted' \in Seq(Event)
      /\ s' = IF promote THEN Promoted(s) ELSE s
      /\ actions' \in Seq({ApplyPendingTrackSelectionAndPlay})
  <2>1. promote \in BOOLEAN /\ SettlesAs(s, <<>>, promote)
    BY DEF OnPlaybackRestart
  <2>. QED
    BY <2>1, SettlesAsTyped, <<>> \in Seq(Event), Zenon DEF IInv, TypeOK
<1>2. TypeOK'
  BY <1>1 DEF OnPlaybackRestart, IInv, TypeOK
<1>3. Safe'
  BY <1>1, PromotedFields DEF OnPlaybackRestart, IInv, TypeOK, Snapshot, Safe,
         StoppedIsClean, PauseIntent, StallIsReal, VariantSwitchSpansReload
<1>. QED
  BY <1>2, <1>3 DEF IInv, Safe

\* A media type: it may relax the first-frame condition.
LEMMA MediaTypeKeeps ==
    ASSUME IInv, NEW ty \in MediaTypes, OnMediaType(ty)
    PROVE  IInv'
<1>1. CASE Ignored
  BY <1>1, IgnoredKeeps
<1>2. CASE ~Ignored
  <2>. DEFINE snap    == [s EXCEPT !.media_type = ty]
              promote == /\ s.phase = "Starting"
                         /\ pause_requested
                         /\ ~s.buffering
                         /\ ReadyToPlay(ty, frame_available)
  <2>1. snap \in Snapshot
    BY DEF IInv, TypeOK, Snapshot
  <2>2. promote \in BOOLEAN /\ SettlesAs(snap, <<Ev("MediaTypeChanged")>>, promote)
    BY <1>2 DEF OnMediaType
  <2>3. <<Ev("MediaTypeChanged")>> \in Seq(Event)
    BY EventsAreTyped, ShortSequences DEF EventKinds
  <2>4. /\ s' \in Snapshot /\ emitted' \in Seq(Event)
        /\ s' = IF promote THEN Promoted(snap) ELSE snap
        /\ actions' \in Seq({ApplyPendingTrackSelectionAndPlay})
    <3>. HIDE DEF snap, promote
    <3>. QED
      BY <2>1, <2>2, <2>3, SettlesAsTyped, Zenon
  <2>5. TypeOK'
    BY <1>2, <2>4 DEF OnMediaType, IInv, TypeOK
  <2>6. /\ s'.presence = s.presence
        /\ s'.seeking = s.seeking
        /\ s'.buffering = s.buffering
        /\ s'.phase = IF promote THEN "Playing" ELSE s.phase
        /\ s'.variant_switch_pending = IF promote THEN FALSE ELSE s.variant_switch_pending
    <3>1. /\ snap.presence = s.presence /\ snap.seeking = s.seeking
          /\ snap.buffering = s.buffering /\ snap.phase = s.phase
          /\ snap.variant_switch_pending = s.variant_switch_pending
      BY DEF IInv, TypeOK, Snapshot
    <3>. HIDE DEF snap, promote
    <3>. QED
      BY <2>1, <2>4, <3>1, PromotedFields
  <2>7. Safe'
    <3>1. UNCHANGED <<pending_load, pause_requested, paused_for_cache, core_idle,
                      last_known_item_id>>
      BY <1>2 DEF OnMediaType
    <3>2. promote => s.phase = "Starting" /\ pause_requested
      OBVIOUS
    <3>. HIDE DEF snap, promote
    <3>. QED
      BY <2>6, <3>1, <3>2 DEF IInv, Safe, StoppedIsClean, PauseIntent, StallIsReal,
             VariantSwitchSpansReload
  <2>. QED
    BY <2>5, <2>7 DEF IInv, Safe
<1>. QED
  BY <1>1, <1>2

-----------------------------------------------------------------------------
\* Stalls.  Both properties fold into one flag: StallNoted is handed the value
\* it has after the step, stall' here.
LEMMA StallKeeps ==
    ASSUME IInv, NEW combined \in BOOLEAN, StallNoted(combined),
           paused_for_cache' \in BOOLEAN, core_idle' \in BOOLEAN,
           combined = (paused_for_cache' \/ core_idle'),
           UNCHANGED <<pending_load, pause_requested, frame_available,
                       last_known_item_id>>
    PROVE  IInv'
<1>1. CASE UNCHANGED s /\ Returns(<<>>) /\ (~ActivePhase \/ s.phase = "Paused" \/ s.buffering = combined)
  <2>1. emitted' \in Seq(Event) /\ actions' \in Seq({ApplyPendingTrackSelectionAndPlay})
    BY <1>1, ReturnsTyped, <<>> \in Seq(Event)
  <2>2. TypeOK'
    BY <1>1, <2>1 DEF IInv, TypeOK
  <2>3. ~ActivePhase => s.phase = "Stopped"
    BY DEF ActivePhase, IInv, TypeOK, Snapshot, Phases
  <2>4. Safe'
    BY <1>1, <2>3 DEF IInv, TypeOK, Snapshot, Safe, StoppedIsClean, PauseIntent,
           StallIsReal, VariantSwitchSpansReload
  <2>. QED
    BY <2>2, <2>4 DEF IInv, Safe
<1>2. CASE ActivePhase /\ s.phase # "Paused" /\ s.buffering # combined
  <2>. DEFINE snap    == [s EXCEPT !.buffering = combined]
              promote == /\ ~combined
                         /\ s.phase = "Starting"
                         /\ pause_requested
                         /\ ReadyToPlay(s.media_type, frame_available)
              evs     == <<Flagged("BufferingChanged", combined)>>
  <2>1. snap \in Snapshot
    BY DEF IInv, TypeOK, Snapshot
  <2>2. promote \in BOOLEAN /\ SettlesAs(snap, evs, promote)
    BY <1>2 DEF StallNoted, ApplyBufferingChange
  <2>3. evs \in Seq(Event)
    <3>1. Flagged("BufferingChanged", combined) \in Event
      BY EventsAreTyped DEF EventKinds
    <3>. QED
      BY <3>1, ShortSequences
  <2>4. /\ s' \in Snapshot /\ emitted' \in Seq(Event)
        /\ s' = IF promote THEN Promoted(snap) ELSE snap
        /\ actions' \in Seq({ApplyPendingTrackSelectionAndPlay})
    <3>. HIDE DEF snap, promote, evs
    <3>. QED
      BY <2>1, <2>2, <2>3, SettlesAsTyped, Zenon
  <2>5. TypeOK'
    BY <2>4 DEF IInv, TypeOK
  <2>6. /\ s'.presence = s.presence
        /\ s'.seeking = s.seeking
        /\ s'.buffering = combined
        /\ s'.phase = IF promote THEN "Playing" ELSE s.phase
        /\ s'.variant_switch_pending = IF promote THEN FALSE ELSE s.variant_switch_pending
    <3>1. /\ snap.presence = s.presence /\ snap.seeking = s.seeking
          /\ snap.buffering = combined /\ snap.phase = s.phase
          /\ snap.variant_switch_pending = s.variant_switch_pending
      BY DEF IInv, TypeOK, Snapshot
    <3>. HIDE DEF snap, promote
    <3>. QED
      BY <2>1, <2>4, <3>1, PromotedFields
  <2>7. Safe'
    <3>1. promote => s.phase = "Starting" /\ pause_requested
      OBVIOUS
    <3>. HIDE DEF snap, promote, evs
    <3>. QED
      BY <1>2, <2>6, <3>1 DEF ActivePhase, IInv, Safe, StoppedIsClean, PauseIntent,
             StallIsReal, VariantSwitchSpansReload
  <2>. QED
    BY <2>5, <2>7 DEF IInv, Safe
<1>. QED
  BY <1>1, <1>2 DEF StallNoted, ApplyBufferingChange

\* mpv's paused-for-cache, folded with core-idle.
LEMMA PausedForCacheKeeps ==
    ASSUME IInv, NEW pfc \in BOOLEAN, OnPausedForCache(pfc)
    PROVE  IInv'
<1>1. CASE Ignored
  BY <1>1, IgnoredKeeps
<1>2. CASE ~Ignored
  <2>1. /\ (pfc \/ core_idle) \in BOOLEAN
        /\ StallNoted(pfc \/ core_idle)
        /\ paused_for_cache' = pfc
        /\ UNCHANGED <<core_idle, pending_load, pause_requested,
                       frame_available, last_known_item_id>>
    BY <1>2 DEF OnPausedForCache, IInv, TypeOK
  <2>. QED
    BY <2>1, StallKeeps DEF IInv, TypeOK
<1>. QED
  BY <1>1, <1>2

\* mpv's core-idle, folded with paused-for-cache.
LEMMA CoreIdleKeeps ==
    ASSUME IInv, NEW idle \in BOOLEAN, OnCoreIdle(idle)
    PROVE  IInv'
<1>1. CASE Ignored
  BY <1>1, IgnoredKeeps
<1>2. CASE ~Ignored
  <2>1. /\ (paused_for_cache \/ idle) \in BOOLEAN
        /\ StallNoted(paused_for_cache \/ idle)
        /\ core_idle' = idle
        /\ UNCHANGED <<paused_for_cache, pending_load, pause_requested,
                       frame_available, last_known_item_id>>
    BY <1>2 DEF OnCoreIdle, IInv, TypeOK
  <2>. QED
    BY <2>1, StallKeeps DEF IInv, TypeOK
<1>. QED
  BY <1>1, <1>2

-----------------------------------------------------------------------------
\* The handlers that only copy: the seek flag may change while a file is
\* active or be cleared, the rest of what the invariant reads stays.
LEMMA SnapshotOnlyKeeps ==
    ASSUME IInv, NEW snap \in Snapshot, NEW evs \in Seq(Event),
           SnapshotOnly(snap, evs),
           snap.presence = s.presence, snap.phase = s.phase,
           snap.buffering = s.buffering,
           snap.variant_switch_pending = s.variant_switch_pending,
           snap.seeking => s.phase # "Stopped"
    PROVE  IInv'
<1>1. emitted' \in Seq(Event) /\ actions' \in Seq({ApplyPendingTrackSelectionAndPlay})
  BY ReturnsTyped DEF SnapshotOnly
<1>2. TypeOK'
  BY <1>1 DEF SnapshotOnly, IInv, TypeOK
<1>3. Safe'
  BY DEF SnapshotOnly, IInv, TypeOK, Snapshot, Safe, StoppedIsClean, PauseIntent,
         StallIsReal, VariantSwitchSpansReload
<1>. QED
  BY <1>2, <1>3 DEF IInv, Safe

\* A seek is noted while a file is active only.
LEMMA SeekingChangedKeeps ==
    ASSUME IInv, NEW seeking \in BOOLEAN, OnSeekingChanged(seeking)
    PROVE  IInv'
<1>. DEFINE snap == [s EXCEPT !.seeking = seeking]
            evs  == <<Flagged("SeekingChanged", seeking)>>
<1>1. CASE Ignored
  BY <1>1, IgnoredKeeps
<1>2. CASE ActivePhase /\ SnapshotOnly(snap, evs)
  <2>1. evs \in Seq(Event)
    <3>1. Flagged("SeekingChanged", seeking) \in Event
      BY EventsAreTyped DEF EventKinds
    <3>. QED
      BY <3>1, ShortSequences
  <2>2. /\ snap \in Snapshot /\ snap.presence = s.presence /\ snap.phase = s.phase
        /\ snap.buffering = s.buffering
        /\ snap.variant_switch_pending = s.variant_switch_pending
        /\ s.phase # "Stopped"
    BY <1>2 DEF ActivePhase, IInv, TypeOK, Snapshot
  <2>. HIDE DEF snap, evs
  <2>. QED
    BY <1>2, <2>1, <2>2, SnapshotOnlyKeeps
<1>. QED
  BY <1>1, <1>2 DEF OnSeekingChanged

\* A position moves no phase and may end a seek.
LEMMA PositionKeeps ==
    ASSUME IInv, NEW position \in Positions, OnPosition(position)
    PROVE  IInv'
<1>. DEFINE snap == [s EXCEPT !.position = position, !.seeking = FALSE]
            evs  == Append(Cleared("SeekingChanged", s.seeking), Ev("PositionChanged"))
<1>1. CASE Ignored
  BY <1>1, IgnoredKeeps
<1>2. CASE SnapshotOnly(snap, evs)
  <2>1. evs \in Seq(Event)
    <3>1. Ev("PositionChanged") \in Event /\ Cleared("SeekingChanged", s.seeking) \in Seq(Event)
      BY EventsAreTyped DEF EventKinds, IInv, TypeOK, Snapshot
    <3>. QED
      BY <3>1, AppendTyped
  <2>2. /\ snap \in Snapshot /\ snap.presence = s.presence /\ snap.phase = s.phase
        /\ snap.buffering = s.buffering /\ snap.seeking = FALSE
        /\ snap.variant_switch_pending = s.variant_switch_pending
    BY DEF IInv, TypeOK, Snapshot
  <2>. HIDE DEF snap, evs
  <2>. QED
    BY <1>2, <2>1, <2>2, SnapshotOnlyKeeps
<1>. QED
  BY <1>1, <1>2 DEF OnPosition

\* Fullscreen changes nothing the invariant speaks of.
LEMMA FullscreenKeeps ==
    ASSUME IInv, NEW fullscreen \in BOOLEAN, NEW was_maximized \in BOOLEAN,
           OnFullscreen(fullscreen, was_maximized)
    PROVE  IInv'
<1>. DEFINE snap == [s EXCEPT !.fullscreen = fullscreen,
                              !.maximized_before_fullscreen =
                                  fullscreen /\ was_maximized]
            evs  == <<Ev("FullscreenChanged")>>
<1>1. CASE Ignored
  BY <1>1, IgnoredKeeps
<1>2. CASE SnapshotOnly(snap, evs)
  <2>1. evs \in Seq(Event)
    BY EventsAreTyped, ShortSequences DEF EventKinds
  <2>2. /\ snap \in Snapshot /\ snap.presence = s.presence /\ snap.phase = s.phase
        /\ snap.buffering = s.buffering /\ snap.seeking = s.seeking
        /\ snap.variant_switch_pending = s.variant_switch_pending
    BY DEF IInv, TypeOK, Snapshot
  <2>. HIDE DEF snap, evs
  <2>. QED
    BY <1>2, <2>1, <2>2, SnapshotOnlyKeeps DEF IInv, StoppedIsClean
<1>. QED
  BY <1>1, <1>2 DEF OnFullscreen

\* A copied value changes nothing the invariant speaks of.
LEMMA ScalarKeeps ==
    ASSUME IInv, NEW field \in ScalarFields, NEW value \in ScalarValues,
           OnScalar(field, value)
    PROVE  IInv'
<1>. DEFINE snap == [s EXCEPT !.scalars[field] = value]
            evs  == <<Ev("ScalarChanged")>>
<1>1. CASE Ignored
  BY <1>1, IgnoredKeeps
<1>2. CASE SnapshotOnly(snap, evs)
  <2>1. evs \in Seq(Event)
    BY EventsAreTyped, ShortSequences DEF EventKinds
  <2>2. /\ snap \in Snapshot /\ snap.presence = s.presence /\ snap.phase = s.phase
        /\ snap.buffering = s.buffering /\ snap.seeking = s.seeking
        /\ snap.variant_switch_pending = s.variant_switch_pending
    BY DEF IInv, TypeOK, Snapshot
  <2>. HIDE DEF snap, evs
  <2>. QED
    BY <1>2, <2>1, <2>2, SnapshotOnlyKeeps DEF IInv, StoppedIsClean
<1>. QED
  BY <1>1, <1>2 DEF OnScalar

-----------------------------------------------------------------------------
\* Every handler, and stuttering, preserves the invariant.
LEMMA StepIInv == IInv /\ [Next]_smVars => IInv'
<1>. SUFFICES ASSUME IInv, [Next]_smVars PROVE IInv'
  OBVIOUS
<1>1. CASE OnFileLoaded
  BY <1>1, FileLoadedKeeps
<1>2. CASE \E item \in Items \cup {NoItem} : OnLoadStarting(item)
  BY <1>2, LoadStartingKeeps
<1>3. CASE \E reason \in EndReasons : OnEndFile(reason)
  BY <1>3, EndFileKeeps
<1>4. CASE \E paused \in BOOLEAN : OnPauseChanged(paused)
  BY <1>4, PauseChangedKeeps
<1>5. CASE \E available \in BOOLEAN : OnVideoFrameAvailable(available)
  BY <1>5, VideoFrameAvailableKeeps
<1>6. CASE OnPlaybackRestart
  BY <1>6, PlaybackRestartKeeps
<1>7. CASE \E ty \in MediaTypes : OnMediaType(ty)
  BY <1>7, MediaTypeKeeps
<1>8. CASE \E pfc \in BOOLEAN : OnPausedForCache(pfc)
  BY <1>8, PausedForCacheKeeps
<1>9. CASE \E idle \in BOOLEAN : OnCoreIdle(idle)
  BY <1>9, CoreIdleKeeps
<1>10. CASE \E seeking \in BOOLEAN : OnSeekingChanged(seeking)
  BY <1>10, SeekingChangedKeeps
<1>11. CASE \E position \in Positions : OnPosition(position)
  BY <1>11, PositionKeeps
<1>12. CASE \E fullscreen, was_maximized \in BOOLEAN : OnFullscreen(fullscreen, was_maximized)
  BY <1>12, FullscreenKeeps
<1>13. CASE \E field \in ScalarFields, value \in ScalarValues : OnScalar(field, value)
  BY <1>13, ScalarKeeps
<1>14. CASE UNCHANGED smVars
  BY <1>14 DEF smVars, IInv, TypeOK, StoppedIsClean, PauseIntent, StallIsReal,
         VariantSwitchSpansReload
<1>. QED
  BY <1>1, <1>2, <1>3, <1>4, <1>5, <1>6, <1>7, <1>8, <1>9, <1>10, <1>11, <1>12,
     <1>13, <1>14 DEF Next

\* The invariant holds in every state the machine reaches.
LEMMA Invariance == Spec => []IInv
BY InitIInv, StepIInv, PTL DEF Spec

\* Every variable keeps its type.
THEOREM TypeCorrect == Spec => []TypeOK
<1>1. IInv => TypeOK
  BY DEF IInv
<1>. QED
  BY <1>1, Invariance, PTL

\* A stopped player is absent and clean, whatever the order of the inputs.
THEOREM StoppedClean == Spec => []StoppedIsClean
<1>1. IInv => StoppedIsClean
  BY DEF IInv
<1>. QED
  BY <1>1, Invariance, PTL

\* Playing and Paused agree with what was last asked for.
THEOREM PauseIntentHolds == Spec => []PauseIntent
<1>1. IInv => PauseIntent
  BY DEF IInv
<1>. QED
  BY <1>1, Invariance, PTL

\* A stall is shown only while mpv reports one, and never in a pause.
THEOREM StallTruthful == Spec => []StallIsReal
<1>1. IInv => StallIsReal
  BY DEF IInv
<1>. QED
  BY <1>1, Invariance, PTL

\* The variant flag lives from a reload of the current item to its first frame.
THEOREM VariantSwitchSpan == Spec => []VariantSwitchSpansReload
<1>1. IInv => VariantSwitchSpansReload
  BY DEF IInv
<1>. QED
  BY <1>1, Invariance, PTL

-----------------------------------------------------------------------------
(***************************************************************************)
(* How a step may enter Playing.                                           *)
(***************************************************************************)
\* A handler that enters Playing is a promotion: from a pause by the unpause,
\* from Starting with playing wanted, no stall and the frame a video needs.
EntersPlayingRight ==
    s.phase # "Playing" /\ s'.phase = "Playing" =>
        \/ s.phase = "Paused" /\ OnPauseChanged(FALSE)
        \/ /\ s.phase = "Starting" /\ pause_requested' /\ ~s'.buffering
           /\ ReadyToPlay(s'.media_type, frame_available')

\* A settled snapshot, field by field.
LEMMA SettledFields ==
    ASSUME NEW snap \in Snapshot, NEW evs, NEW promote \in BOOLEAN,
           SettlesAs(snap, evs, promote)
    PROVE  /\ s'.phase = IF promote THEN "Playing" ELSE snap.phase
           /\ s'.buffering = snap.buffering
           /\ s'.media_type = snap.media_type
<1>1. s' = IF promote THEN Promoted(snap) ELSE snap
  BY DEF SettlesAs
<1>2. /\ Promoted(snap).phase = "Playing"
      /\ Promoted(snap).buffering = snap.buffering
      /\ Promoted(snap).media_type = snap.media_type
  BY DEF Promoted, Snapshot
<1>. QED
  BY <1>1, <1>2

\* A stall that ends promotes only a starting file that is ready.
LEMMA StallPromotesRight ==
    ASSUME IInv, NEW combined \in BOOLEAN, StallNoted(combined),
           UNCHANGED <<pause_requested, frame_available>>
    PROVE  EntersPlayingRight
<1>1. CASE UNCHANGED s
  BY <1>1 DEF EntersPlayingRight
<1>2. CASE ~UNCHANGED s
  <2>. DEFINE snap    == [s EXCEPT !.buffering = combined]
              promote == /\ ~combined
                         /\ s.phase = "Starting"
                         /\ pause_requested
                         /\ ReadyToPlay(s.media_type, frame_available)
              evs     == <<Flagged("BufferingChanged", combined)>>
  <2>1. /\ snap \in Snapshot /\ snap.phase = s.phase /\ snap.buffering = combined
        /\ snap.media_type = s.media_type
    BY DEF IInv, TypeOK, Snapshot
  <2>2. promote \in BOOLEAN /\ SettlesAs(snap, evs, promote)
    BY <1>2 DEF StallNoted, ApplyBufferingChange
  <2>3. /\ s'.phase = IF promote THEN "Playing" ELSE s.phase
        /\ s'.buffering = combined /\ s'.media_type = s.media_type
    <3>. HIDE DEF snap, promote, evs
    <3>. QED
      BY <2>1, <2>2, SettledFields
  <2>. QED
    BY <2>3 DEF EntersPlayingRight, ReadyToPlay
<1>. QED
  BY <1>1, <1>2

\* Every handler that enters Playing does so as a promotion.
LEMMA StepEntersPlayingRight == IInv /\ [Next]_smVars => EntersPlayingRight
<1>. SUFFICES ASSUME IInv, [Next]_smVars PROVE EntersPlayingRight
  OBVIOUS
<1>0. CASE UNCHANGED s
  BY <1>0 DEF EntersPlayingRight
<1>1. CASE OnFileLoaded
  BY <1>1, StartingTyped DEF OnFileLoaded, EntersPlayingRight
<1>2. ASSUME NEW item \in Items \cup {NoItem}, OnLoadStarting(item)
      PROVE  EntersPlayingRight
  BY <1>2, StartingTyped DEF OnLoadStarting, EntersPlayingRight, Snapshot
<1>3. ASSUME NEW reason \in EndReasons, OnEndFile(reason)
      PROVE  EntersPlayingRight
  BY <1>3 DEF OnEndFile, EndSwallowed, EndTerminal, EntersPlayingRight, IInv,
          TypeOK, Snapshot
<1>4. ASSUME NEW paused \in BOOLEAN, OnPauseChanged(paused), ~UNCHANGED s
      PROVE  EntersPlayingRight
  <2>1. CASE paused /\ Pausing
    BY <2>1 DEF Pausing, EntersPlayingRight, IInv, TypeOK, Snapshot
  <2>2. CASE ~paused /\ Resuming
    <3>1. s'.phase = "Playing" /\ s'.buffering = s.buffering /\ s'.media_type = s.media_type
      BY <2>2, SettledFields DEF Resuming, IInv, TypeOK
    <3>2. pause_requested' /\ UNCHANGED frame_available
      BY <1>4, <2>2 DEF OnPauseChanged, Ignored
    <3>. QED
      BY <1>4, <2>2, <3>1, <3>2 DEF Resuming, EntersPlayingRight, ReadyToPlay
  <2>. QED
    BY <1>4, <2>1, <2>2 DEF OnPauseChanged, PauseOnlyNoted, Ignored
<1>5. ASSUME NEW available \in BOOLEAN, OnVideoFrameAvailable(available)
      PROVE  EntersPlayingRight
  <2>. DEFINE promote == /\ available /\ ~frame_available
                         /\ s.phase = "Starting"
                         /\ pause_requested
                         /\ ~s.buffering
  <2>1. promote \in BOOLEAN /\ SettlesAs(s, <<>>, promote) /\ s \in Snapshot
    BY <1>5 DEF OnVideoFrameAvailable, IInv, TypeOK
  <2>2. /\ s'.phase = IF promote THEN "Playing" ELSE s.phase
        /\ s'.buffering = s.buffering /\ s'.media_type = s.media_type
    <3>. HIDE DEF promote
    <3>. QED
      BY <2>1, SettledFields
  <2>. QED
    BY <1>5, <2>2 DEF OnVideoFrameAvailable, EntersPlayingRight, ReadyToPlay
<1>6. CASE OnPlaybackRestart
  <2>. DEFINE promote == s.phase = "Starting" /\ ~s.buffering
  <2>1. promote \in BOOLEAN /\ SettlesAs(s, <<>>, promote) /\ s \in Snapshot
    BY <1>6 DEF OnPlaybackRestart, IInv, TypeOK
  <2>2. /\ s'.phase = IF promote THEN "Playing" ELSE s.phase
        /\ s'.buffering = s.buffering /\ s'.media_type = s.media_type
    <3>. HIDE DEF promote
    <3>. QED
      BY <2>1, SettledFields
  <2>. QED
    BY <1>6, <2>2 DEF OnPlaybackRestart, EntersPlayingRight, ReadyToPlay
<1>7. ASSUME NEW ty \in MediaTypes, OnMediaType(ty), ~UNCHANGED s
      PROVE  EntersPlayingRight
  <2>. DEFINE snap    == [s EXCEPT !.media_type = ty]
              promote == /\ s.phase = "Starting"
                         /\ pause_requested
                         /\ ~s.buffering
                         /\ ReadyToPlay(ty, frame_available)
  <2>1. /\ promote \in BOOLEAN /\ SettlesAs(snap, <<Ev("MediaTypeChanged")>>, promote)
        /\ UNCHANGED <<pause_requested, frame_available>>
    BY <1>7 DEF OnMediaType, Ignored
  <2>2. /\ snap \in Snapshot /\ snap.phase = s.phase /\ snap.media_type = ty
        /\ snap.buffering = s.buffering
    BY DEF IInv, TypeOK, Snapshot
  <2>3. /\ s'.phase = IF promote THEN "Playing" ELSE s.phase
        /\ s'.buffering = s.buffering /\ s'.media_type = ty
    <3>. HIDE DEF promote, snap
    <3>. QED
      BY <2>1, <2>2, SettledFields
  <2>. QED
    BY <2>1, <2>3 DEF EntersPlayingRight
<1>8. ASSUME NEW pfc \in BOOLEAN, OnPausedForCache(pfc), ~UNCHANGED s
      PROVE  EntersPlayingRight
  <2>1. /\ (pfc \/ core_idle) \in BOOLEAN /\ StallNoted(pfc \/ core_idle)
        /\ UNCHANGED <<pause_requested, frame_available>>
    BY <1>8 DEF OnPausedForCache, Ignored, IInv, TypeOK
  <2>. QED
    BY <2>1, StallPromotesRight
<1>9. ASSUME NEW idle \in BOOLEAN, OnCoreIdle(idle), ~UNCHANGED s
      PROVE  EntersPlayingRight
  <2>1. /\ (paused_for_cache \/ idle) \in BOOLEAN /\ StallNoted(paused_for_cache \/ idle)
        /\ UNCHANGED <<pause_requested, frame_available>>
    BY <1>9 DEF OnCoreIdle, Ignored, IInv, TypeOK
  <2>. QED
    BY <2>1, StallPromotesRight
<1>10. ASSUME NEW seeking \in BOOLEAN, OnSeekingChanged(seeking)
       PROVE  EntersPlayingRight
  BY <1>10 DEF OnSeekingChanged, Ignored, SnapshotOnly, EntersPlayingRight, IInv,
           TypeOK, Snapshot
<1>11. ASSUME NEW position \in Positions, OnPosition(position)
       PROVE  EntersPlayingRight
  BY <1>11 DEF OnPosition, Ignored, SnapshotOnly, EntersPlayingRight, IInv,
           TypeOK, Snapshot
<1>12. ASSUME NEW fullscreen \in BOOLEAN, NEW was_maximized \in BOOLEAN,
              OnFullscreen(fullscreen, was_maximized)
       PROVE  EntersPlayingRight
  BY <1>12 DEF OnFullscreen, Ignored, SnapshotOnly, EntersPlayingRight, IInv,
           TypeOK, Snapshot
<1>13. ASSUME NEW field \in ScalarFields, NEW value \in ScalarValues,
              OnScalar(field, value)
       PROVE  EntersPlayingRight
  BY <1>13 DEF OnScalar, Ignored, SnapshotOnly, EntersPlayingRight, IInv,
           TypeOK, Snapshot
<1>. QED
  BY <1>0, <1>1, <1>2, <1>3, <1>4, <1>5, <1>6, <1>7, <1>8, <1>9, <1>10, <1>11,
     <1>12, <1>13 DEF Next, smVars

\* A pause is resumed by an unpause only.
THEOREM ResumeExplicit == Spec => ResumeIsExplicit
<1>1. IInv /\ [Next]_smVars =>
          [s.phase = "Paused" /\ s'.phase = "Playing" => OnPauseChanged(FALSE)]_smVars
  BY StepEntersPlayingRight DEF EntersPlayingRight
<1>. QED
  BY <1>1, Invariance, PTL DEF Spec, ResumeIsExplicit

\* A starting file is promoted only when it is wanted, not stalled and, for a
\* video, has a frame.
THEOREM PromotionReady == Spec => PromotionIsReady
<1>1. IInv /\ [Next]_smVars =>
          [s.phase = "Starting" /\ s'.phase = "Playing" =>
               /\ pause_requested'
               /\ ~s'.buffering
               /\ ReadyToPlay(s'.media_type, frame_available')]_smVars
  BY StepEntersPlayingRight DEF EntersPlayingRight
<1>. QED
  BY <1>1, Invariance, PTL DEF Spec, PromotionIsReady

-----------------------------------------------------------------------------
(***************************************************************************)
(* What the events of a handler say of the step it takes.                  *)
(***************************************************************************)
KindsIn(evs) == {evs[i].kind : i \in DOMAIN evs}

\* The events tell when the phase enters Playing, Paused and Stopped, when it
\* falls back to Starting, and when the media type changes.
Announced ==
    LET kinds == KindsIn(emitted') IN
    /\ "Started" \in kinds <=> s.phase # "Playing" /\ s'.phase = "Playing"
    /\ "Paused" \in kinds <=> s.phase # "Paused" /\ s'.phase = "Paused"
    /\ s.phase # "Stopped" /\ s'.phase = "Stopped" =>
           kinds \cap {"Finished", "Canceled", "Error"} # {}
    /\ s.phase # "Starting" /\ s'.phase = "Starting" =>
           "TrackLoaded" \in kinds \/ pending_load
    /\ s'.media_type # s.media_type => "MediaTypeChanged" \in kinds

\* The kinds of no event, of one event and of one event more.
LEMMA KindsOf ==
    /\ KindsIn(<<>>) = {}
    /\ \A e : KindsIn(<<e>>) = {e.kind}
    /\ \A evs \in Seq(Event), e \in Event : KindsIn(Append(evs, e)) = KindsIn(evs) \cup {e.kind}
    /\ \A kind : Ev(kind).kind = kind
    /\ \A kind, flag : Flagged(kind, flag).kind = kind
<1>1. KindsIn(<<>>) = {}
  BY DEF KindsIn
<1>2. \A e : KindsIn(<<e>>) = {e.kind}
  BY DEF KindsIn
<1>3. ASSUME NEW evs \in Seq(Event), NEW e \in Event
      PROVE  KindsIn(Append(evs, e)) = KindsIn(evs) \cup {e.kind}
  <2>1. /\ DOMAIN Append(evs, e) = DOMAIN evs \cup {Len(evs) + 1}
        /\ \A i \in DOMAIN evs : Append(evs, e)[i] = evs[i]
        /\ Append(evs, e)[Len(evs) + 1] = e
    OBVIOUS
  <2>. QED
    BY <2>1 DEF KindsIn
<1>4. /\ \A kind : Ev(kind).kind = kind
      /\ \A kind, flag : Flagged(kind, flag).kind = kind
  BY DEF Ev, Flagged
<1>. QED
  BY <1>1, <1>2, <1>3, <1>4

\* The flags that are cleared announce nothing but themselves.
LEMMA ClearedKinds ==
    ASSUME NEW kind, NEW was \in BOOLEAN
    PROVE  KindsIn(Cleared(kind, was)) = IF was THEN {kind} ELSE {}
<1>1. Cleared(kind, was) = IF was THEN <<Flagged(kind, FALSE)>> ELSE <<>>
  BY DEF Cleared
<1>2. /\ KindsIn(<<Flagged(kind, FALSE)>>) = {Flagged(kind, FALSE).kind}
      /\ Flagged(kind, FALSE).kind = kind
  BY KindsOf
<1>. QED
  BY <1>1, <1>2, KindsOf

\* The end of a file clears both flags.
LEMMA EndFlagKinds ==
    ASSUME IInv
    PROVE  KindsIn(EndFlagEvents) \subseteq {"SeekingChanged", "BufferingChanged"}
<1>. DEFINE a == Cleared("SeekingChanged", s.seeking)
            b == Cleared("BufferingChanged", s.buffering)
<1>1. s.seeking \in BOOLEAN /\ s.buffering \in BOOLEAN
  BY DEF IInv, TypeOK, Snapshot
<1>2. a \in Seq(Event) /\ b \in Seq(Event)
  BY <1>1, EventsAreTyped DEF EventKinds
<1>3. KindsIn(a) \subseteq {"SeekingChanged"} /\ KindsIn(b) \subseteq {"BufferingChanged"}
  BY <1>1, ClearedKinds, Zenon
<1>4. KindsIn(a \o b) \subseteq KindsIn(a) \cup KindsIn(b)
  <2>. HIDE DEF a, b
  <2>1. /\ DOMAIN (a \o b) = 1..(Len(a) + Len(b)) /\ DOMAIN a = 1..Len(a) /\ DOMAIN b = 1..Len(b)
        /\ Len(a) \in Nat /\ Len(b) \in Nat
        /\ \A i \in 1..(Len(a) + Len(b)) :
               (a \o b)[i] = IF i <= Len(a) THEN a[i] ELSE b[i - Len(a)]
    BY <1>2
  <2>2. ASSUME NEW i \in DOMAIN (a \o b)
        PROVE  (a \o b)[i].kind \in KindsIn(a) \cup KindsIn(b)
    <3>1. CASE i <= Len(a)
      <4>1. i \in DOMAIN a /\ (a \o b)[i] = a[i]
        BY <2>1, <3>1
      <4>. QED
        BY <4>1 DEF KindsIn
    <3>2. CASE ~(i <= Len(a))
      <4>1. i - Len(a) \in DOMAIN b /\ (a \o b)[i] = b[i - Len(a)]
        BY <2>1, <3>2
      <4>. QED
        BY <4>1, Zenon DEF KindsIn
    <3>. QED
      BY <3>1, <3>2
  <2>. QED
    BY <2>2 DEF KindsIn
<1>. HIDE DEF a, b
<1>5. KindsIn(a \o b) \subseteq {"SeekingChanged", "BufferingChanged"}
  BY <1>3, <1>4
<1>. QED
  BY <1>5, Zenon DEF EndFlagEvents, a, b

\* A step that keeps phase and media type announces neither Playing nor Paused.
LEMMA QuietAnnounced ==
    ASSUME s'.phase = s.phase, s'.media_type = s.media_type,
           KindsIn(emitted') \cap {"Started", "Paused"} = {}
    PROVE  Announced
BY DEF Announced

\* A settled snapshot whose events announce its media type announces the rest.
LEMMA SettledAnnounced ==
    ASSUME NEW snap \in Snapshot, NEW evs \in Seq(Event), NEW promote \in BOOLEAN,
           SettlesAs(snap, evs, promote),
           snap.phase = s.phase,
           promote => s.phase \in {"Starting", "Paused"},
           KindsIn(evs) \cap {"Started", "Paused"} = {},
           snap.media_type # s.media_type => "MediaTypeChanged" \in KindsIn(evs)
    PROVE  Announced
<1>1. /\ s'.phase = IF promote THEN "Playing" ELSE snap.phase
      /\ s'.media_type = snap.media_type
  BY SettledFields
<1>2. Ev("Started") \in Event /\ Ev("Started").kind = "Started"
  BY EventsAreTyped, KindsOf DEF EventKinds
<1>3. KindsIn(emitted') = IF promote THEN KindsIn(evs) \cup {"Started"} ELSE KindsIn(evs)
  <2>1. emitted' = IF promote THEN Append(evs, Ev("Started")) ELSE evs
    BY DEF SettlesAs, Returns
  <2>2. KindsIn(Append(evs, Ev("Started"))) = KindsIn(evs) \cup {"Started"}
    BY <1>2, KindsOf
  <2>. QED
    BY <2>1, <2>2
<1>. QED
  BY <1>1, <1>3 DEF Announced

\* A stall that begins or ends.
LEMMA StallAnnounced ==
    ASSUME IInv, NEW combined \in BOOLEAN, StallNoted(combined)
    PROVE  Announced
<1>1. CASE UNCHANGED s /\ Returns(<<>>)
  BY <1>1, QuietAnnounced, KindsOf DEF Returns
<1>2. CASE ~(UNCHANGED s /\ Returns(<<>>))
  <2>. DEFINE snap    == [s EXCEPT !.buffering = combined]
              promote == /\ ~combined
                         /\ s.phase = "Starting"
                         /\ pause_requested
                         /\ ReadyToPlay(s.media_type, frame_available)
              evs     == <<Flagged("BufferingChanged", combined)>>
  <2>1. promote \in BOOLEAN /\ SettlesAs(snap, evs, promote)
    BY <1>2 DEF StallNoted, ApplyBufferingChange
  <2>2. /\ snap \in Snapshot /\ snap.phase = s.phase /\ snap.media_type = s.media_type
    BY DEF IInv, TypeOK, Snapshot
  <2>3. evs \in Seq(Event) /\ KindsIn(evs) = {"BufferingChanged"}
    <3>1. Flagged("BufferingChanged", combined) \in Event
      BY EventsAreTyped DEF EventKinds
    <3>2. Flagged("BufferingChanged", combined).kind = "BufferingChanged"
      BY KindsOf
    <3>3. KindsIn(evs) = {Flagged("BufferingChanged", combined).kind}
      BY KindsOf
    <3>. QED
      BY <3>1, <3>2, <3>3, ShortSequences
  <2>4. promote => s.phase = "Starting"
    OBVIOUS
  <2>. HIDE DEF snap, promote, evs
  <2>. QED
    BY <2>1, <2>2, <2>3, <2>4, SettledAnnounced
<1>. QED
  BY <1>1, <1>2

\* A handler that returns early, or only copies a value, announces nothing.
LEMMA IgnoredAnnounced ==
    ASSUME Ignored
    PROVE  Announced
BY QuietAnnounced, KindsOf DEF Ignored, Returns

\* A value that is only copied: phase and media type stay.
LEMMA SnapshotOnlyAnnounced ==
    ASSUME NEW snap, NEW evs, SnapshotOnly(snap, evs),
           snap.phase = s.phase, snap.media_type = s.media_type,
           KindsIn(evs) \cap {"Started", "Paused"} = {}
    PROVE  Announced
BY QuietAnnounced DEF SnapshotOnly, Returns

\* The two handlers a load announces itself by.
LEMMA LoadAnnounced ==
    ASSUME IInv, s'.phase = "Starting", s'.media_type = s.media_type,
           emitted' = <<Ev("TrackLoaded")>>
    PROVE  Announced
<1>1. KindsIn(emitted') = {Ev("TrackLoaded").kind} /\ Ev("TrackLoaded").kind = "TrackLoaded"
  BY KindsOf
<1>. QED
  BY <1>1 DEF Announced

\* The end of a file.
LEMMA EndAnnounced ==
    ASSUME IInv, NEW reason \in EndReasons, OnEndFile(reason)
    PROVE  Announced
<1>1. CASE SwallowsEnd(reason) /\ EndSwallowed
  <2>1. s'.phase = "Starting" /\ s'.media_type = s.media_type /\ emitted' = EndFlagEvents
    BY <1>1 DEF EndSwallowed, Returns, IInv, TypeOK, Snapshot
  <2>. QED
    BY <1>1, <2>1, EndFlagKinds DEF SwallowsEnd, Announced
<1>2. CASE EndTerminal(reason)
  <2>1. /\ s'.phase = "Stopped" /\ s'.media_type = s.media_type
        /\ emitted' = Append(EndFlagEvents, Ev(Terminal(reason)))
    BY <1>2 DEF EndTerminal, Returns, IInv, TypeOK, Snapshot
  <2>2. Terminal(reason) \in {"Finished", "Canceled", "Error"}
    BY DEF EndReasons, Terminal
  <2>3. Ev(Terminal(reason)) \in Event /\ Ev(Terminal(reason)).kind = Terminal(reason)
    BY <2>2, EventsAreTyped, KindsOf DEF EventKinds
  <2>4. KindsIn(emitted') = KindsIn(EndFlagEvents) \cup {Terminal(reason)}
    BY <2>1, <2>3, EndFlagEventsTyped, KindsOf
  <2>. QED
    BY <2>1, <2>2, <2>4, EndFlagKinds DEF Announced
<1>. QED
  BY <1>1, <1>2 DEF OnEndFile

\* A pause and its end.
LEMMA PauseAnnounced ==
    ASSUME IInv, NEW paused \in BOOLEAN, OnPauseChanged(paused)
    PROVE  Announced
<1>1. CASE Ignored
  BY <1>1, IgnoredAnnounced
<1>2. CASE paused /\ Pausing
  <2>. DEFINE evs == Cleared("BufferingChanged", s.buffering)
  <2>1. /\ s'.phase = "Paused" /\ s'.media_type = s.media_type /\ s.phase # "Paused"
        /\ emitted' = Append(evs, Ev("Paused"))
    BY <1>2 DEF Pausing, Returns, IInv, TypeOK, Snapshot
  <2>2. s.buffering \in BOOLEAN
    BY DEF IInv, TypeOK, Snapshot
  <2>3. evs \in Seq(Event) /\ KindsIn(evs) \subseteq {"BufferingChanged"}
    BY <2>2, EventsAreTyped, ClearedKinds, Zenon DEF EventKinds
  <2>4. Ev("Paused") \in Event /\ Ev("Paused").kind = "Paused"
    BY EventsAreTyped, KindsOf DEF EventKinds
  <2>. HIDE DEF evs
  <2>5. KindsIn(emitted') = KindsIn(evs) \cup {"Paused"}
    BY <2>1, <2>3, <2>4, KindsOf
  <2>. QED
    BY <2>1, <2>3, <2>5 DEF Announced
<1>3. CASE Resuming
  <2>1. SettlesAs(s, <<>>, TRUE) /\ s.phase \in {"Starting", "Paused"}
    BY <1>3 DEF Resuming
  <2>2. s \in Snapshot /\ <<>> \in Seq(Event) /\ KindsIn(<<>>) = {}
    BY KindsOf DEF IInv, TypeOK
  <2>. QED
    BY <2>1, <2>2, SettledAnnounced
<1>4. CASE PauseOnlyNoted(paused)
  BY <1>4, QuietAnnounced, KindsOf DEF PauseOnlyNoted, Returns
<1>. QED
  BY <1>1, <1>2, <1>3, <1>4 DEF OnPauseChanged

\* A position, which may end a seek.
LEMMA PositionAnnounced ==
    ASSUME IInv, NEW position \in Positions, OnPosition(position)
    PROVE  Announced
<1>. DEFINE evs  == Cleared("SeekingChanged", s.seeking)
            snap == [s EXCEPT !.position = position, !.seeking = FALSE]
<1>1. CASE SnapshotOnly(snap, Append(evs, Ev("PositionChanged")))
  <2>1. s.seeking \in BOOLEAN /\ snap.phase = s.phase /\ snap.media_type = s.media_type
    BY DEF IInv, TypeOK, Snapshot
  <2>2. evs \in Seq(Event) /\ KindsIn(evs) \subseteq {"SeekingChanged"}
    BY <2>1, EventsAreTyped, ClearedKinds, Zenon DEF EventKinds
  <2>3. Ev("PositionChanged") \in Event /\ Ev("PositionChanged").kind = "PositionChanged"
    BY EventsAreTyped, KindsOf DEF EventKinds
  <2>. HIDE DEF evs, snap
  <2>4. KindsIn(Append(evs, Ev("PositionChanged"))) = KindsIn(evs) \cup {"PositionChanged"}
    BY <2>2, <2>3, KindsOf
  <2>. QED
    BY <1>1, <2>1, <2>2, <2>4, SnapshotOnlyAnnounced
<1>. QED
  BY <1>1, IgnoredAnnounced DEF OnPosition

\* Every handler announces the step it takes.
LEMMA StepAnnounced == IInv /\ [Next]_smVars => Announced \/ UNCHANGED smVars
<1>. SUFFICES ASSUME IInv, Next PROVE Announced
  OBVIOUS
<1>0. s \in Snapshot /\ <<>> \in Seq(Event) /\ KindsIn(<<>>) = {}
  BY KindsOf DEF IInv, TypeOK
<1>1. CASE OnFileLoaded
  BY <1>1, StartingTyped, LoadAnnounced, <1>0
     DEF OnFileLoaded, StartingSnapshot, Snapshot
<1>2. ASSUME NEW item \in Items \cup {NoItem}, OnLoadStarting(item)
      PROVE  Announced
  BY <1>2, StartingTyped, LoadAnnounced, <1>0
     DEF OnLoadStarting, StartingSnapshot, Returns, Snapshot
<1>3. ASSUME NEW available \in BOOLEAN, OnVideoFrameAvailable(available)
      PROVE  Announced
  <2>. DEFINE promote == /\ available /\ ~frame_available
                         /\ s.phase = "Starting"
                         /\ pause_requested
                         /\ ~s.buffering
  <2>1. promote \in BOOLEAN /\ SettlesAs(s, <<>>, promote) /\ (promote => s.phase = "Starting")
    BY <1>3 DEF OnVideoFrameAvailable
  <2>. HIDE DEF promote
  <2>. QED
    BY <1>0, <2>1, SettledAnnounced
<1>4. CASE OnPlaybackRestart
  <2>. DEFINE promote == s.phase = "Starting" /\ ~s.buffering
  <2>1. promote \in BOOLEAN /\ SettlesAs(s, <<>>, promote) /\ (promote => s.phase = "Starting")
    BY <1>4 DEF OnPlaybackRestart
  <2>. HIDE DEF promote
  <2>. QED
    BY <1>0, <2>1, SettledAnnounced
<1>5. ASSUME NEW ty \in MediaTypes, OnMediaType(ty), ~Ignored
      PROVE  Announced
  <2>. DEFINE snap    == [s EXCEPT !.media_type = ty]
              promote == /\ s.phase = "Starting"
                         /\ pause_requested
                         /\ ~s.buffering
                         /\ ReadyToPlay(ty, frame_available)
              evs     == <<Ev("MediaTypeChanged")>>
  <2>1. promote \in BOOLEAN /\ SettlesAs(snap, evs, promote) /\ (promote => s.phase = "Starting")
    BY <1>5 DEF OnMediaType
  <2>2. snap \in Snapshot /\ snap.phase = s.phase
    BY DEF IInv, TypeOK, Snapshot
  <2>3. evs \in Seq(Event) /\ KindsIn(evs) = {"MediaTypeChanged"}
    <3>1. Ev("MediaTypeChanged") \in Event /\ Ev("MediaTypeChanged").kind = "MediaTypeChanged"
      BY EventsAreTyped, KindsOf DEF EventKinds
    <3>. QED
      BY <3>1, ShortSequences, KindsOf
  <2>. HIDE DEF snap, promote, evs
  <2>. QED
    BY <2>1, <2>2, <2>3, SettledAnnounced
<1>6. ASSUME NEW pfc \in BOOLEAN, OnPausedForCache(pfc)
      PROVE  Announced
  <2>1. (pfc \/ core_idle) \in BOOLEAN /\ (Ignored \/ StallNoted(pfc \/ core_idle))
    BY <1>6 DEF OnPausedForCache, IInv, TypeOK
  <2>. QED
    BY <2>1, StallAnnounced, IgnoredAnnounced
<1>7. ASSUME NEW idle \in BOOLEAN, OnCoreIdle(idle)
      PROVE  Announced
  <2>1. (paused_for_cache \/ idle) \in BOOLEAN
        /\ (Ignored \/ StallNoted(paused_for_cache \/ idle))
    BY <1>7 DEF OnCoreIdle, IInv, TypeOK
  <2>. QED
    BY <2>1, StallAnnounced, IgnoredAnnounced
<1>8. ASSUME NEW seeking \in BOOLEAN, OnSeekingChanged(seeking), ~Ignored
      PROVE  Announced
  <2>1. KindsIn(<<Flagged("SeekingChanged", seeking)>>) = {"SeekingChanged"}
    BY KindsOf
  <2>2. /\ [s EXCEPT !.seeking = seeking].phase = s.phase
        /\ [s EXCEPT !.seeking = seeking].media_type = s.media_type
    BY <1>0 DEF Snapshot
  <2>. QED
    BY <1>8, <2>1, <2>2, SnapshotOnlyAnnounced DEF OnSeekingChanged
<1>9. ASSUME NEW fullscreen \in BOOLEAN, NEW was_maximized \in BOOLEAN,
             OnFullscreen(fullscreen, was_maximized), ~Ignored
      PROVE  Announced
  <2>. DEFINE snap == [s EXCEPT !.fullscreen = fullscreen,
                                !.maximized_before_fullscreen =
                                    fullscreen /\ was_maximized]
  <2>1. KindsIn(<<Ev("FullscreenChanged")>>) = {"FullscreenChanged"}
    BY KindsOf
  <2>2. snap.phase = s.phase /\ snap.media_type = s.media_type
    BY <1>0 DEF Snapshot
  <2>3. SnapshotOnly(snap, <<Ev("FullscreenChanged")>>)
    BY <1>9 DEF OnFullscreen
  <2>. HIDE DEF snap
  <2>. QED
    BY <2>1, <2>2, <2>3, SnapshotOnlyAnnounced
<1>10. ASSUME NEW field \in ScalarFields, NEW value \in ScalarValues,
              OnScalar(field, value), ~Ignored
       PROVE  Announced
  <2>. DEFINE snap == [s EXCEPT !.scalars[field] = value]
  <2>1. KindsIn(<<Ev("ScalarChanged")>>) = {"ScalarChanged"}
    BY KindsOf
  <2>2. snap.phase = s.phase /\ snap.media_type = s.media_type
    BY <1>0 DEF Snapshot
  <2>3. SnapshotOnly(snap, <<Ev("ScalarChanged")>>)
    BY <1>10 DEF OnScalar
  <2>. HIDE DEF snap
  <2>. QED
    BY <2>1, <2>2, <2>3, SnapshotOnlyAnnounced
<1>. QED
  BY <1>1, <1>2, <1>3, <1>4, <1>5, <1>6, <1>7, <1>8, <1>9, <1>10, EndAnnounced,
     PauseAnnounced, PositionAnnounced, IgnoredAnnounced, Zenon DEF Next

\* Consumers that follow the machine by its events alone see every phase it
\* enters: playing, pausing, ending and falling back to a start.
THEOREM PhasesAnnounced == Spec => PhasesAreAnnounced
<1>1. IInv /\ [Next]_smVars =>
          [LET kinds == {emitted'[i].kind : i \in DOMAIN emitted'} IN
           /\ "Started" \in kinds <=> s.phase # "Playing" /\ s'.phase = "Playing"
           /\ "Paused" \in kinds <=> s.phase # "Paused" /\ s'.phase = "Paused"
           /\ s.phase # "Stopped" /\ s'.phase = "Stopped" =>
                  kinds \cap {"Finished", "Canceled", "Error"} # {}
           /\ s.phase # "Starting" /\ s'.phase = "Starting" =>
                  "TrackLoaded" \in kinds \/ pending_load]_smVars
  BY StepAnnounced, Zenon DEF Announced, KindsIn
<1>. QED
  BY <1>1, Invariance, PTL DEF Spec, PhasesAreAnnounced

-----------------------------------------------------------------------------
(***************************************************************************)
(* The machine in its owner's hands: what a handler does is a step of the  *)
(* state machine, and the batch's events stay events.                      *)
(***************************************************************************)
\* An input runs one handler with what it carries, or changes nothing.
LEMMA HandleIsAStep ==
    ASSUME NEW in \in Inputs, Handle(in)
    PROVE  Next \/ Ignored
<1>1. CASE in.op \in {"FileLoaded", "PlaybackRestart", "Artwork", "QueueCaps"}
  BY <1>1, Zenon DEF Handle, Next
<1>2. CASE in.op = "LoadStarting" /\ OnLoadStarting(in.item)
  BY <1>2, InputAssumption, Zenon DEF Next
<1>3. CASE in.op = "EndFile" /\ OnEndFile(in.reason)
  BY <1>3, InputAssumption, Zenon DEF Next
<1>4. CASE in.op = "PauseChanged" /\ OnPauseChanged(in.flag)
  BY <1>4, InputAssumption, Zenon DEF Next
<1>5. CASE in.op = "SeekingChanged" /\ OnSeekingChanged(in.flag)
  BY <1>5, InputAssumption, Zenon DEF Next
<1>6. CASE in.op = "PausedForCache" /\ OnPausedForCache(in.flag)
  BY <1>6, InputAssumption, Zenon DEF Next
<1>7. CASE in.op = "CoreIdle" /\ OnCoreIdle(in.flag)
  BY <1>7, InputAssumption, Zenon DEF Next
<1>8. CASE in.op \in {"Position", "Seeked"} /\ OnPosition(in.position)
  BY <1>8, InputAssumption, Zenon DEF Next
<1>9. CASE in.op \in {"MediaType", "Metadata"} /\ OnMediaType(in.ty)
  BY <1>9, InputAssumption, Zenon DEF Next
<1>10. CASE in.op = "VideoFrameAvailable" /\ OnVideoFrameAvailable(in.flag)
  BY <1>10, InputAssumption, Zenon DEF Next
<1>11. CASE in.op = "Scalar" /\ OnScalar(in.field, in.value)
  BY <1>11, InputAssumption, Zenon DEF Next
<1>12. CASE in.op = "Fullscreen" /\ OnFullscreen(in.flag, in.was_maximized)
  BY <1>12, InputAssumption, Zenon DEF Next
<1>. QED
  BY <1>1, <1>2, <1>3, <1>4, <1>5, <1>6, <1>7, <1>8, <1>9, <1>10, <1>11, <1>12, Zenon
     DEF Handle

\* An input keeps the machine's invariant and announces what it changes.
LEMMA HandleKeeps ==
    ASSUME IInv, NEW in \in Inputs, Handle(in)
    PROVE  IInv' /\ (Announced \/ UNCHANGED smVars)
BY HandleIsAStep, StepIInv, StepAnnounced, IgnoredKeeps, IgnoredAnnounced, Zenon

\* The events an input adds of its own.
OwnEventSet ==
    [kind : {"MetadataChanged", "Seeked", "ArtworkChanged", "QueueCapsChanged"},
     flag : {FALSE}]

\* Whatever the input, what it adds is a sequence of them.
LEMMA OwnEvents ==
    ASSUME NEW in
    PROVE  OwnEvent(in) \in Seq(OwnEventSet)
<1>1. /\ Ev("MetadataChanged") \in OwnEventSet /\ Ev("Seeked") \in OwnEventSet
      /\ Ev("ArtworkChanged") \in OwnEventSet /\ Ev("QueueCapsChanged") \in OwnEventSet
  BY Zenon DEF Ev, OwnEventSet
<1>2. \A e \in OwnEventSet : <<e>> \in Seq(OwnEventSet)
  OBVIOUS
<1>3. <<>> \in Seq(OwnEventSet)
  OBVIOUS
<1>4. OwnEvent(in) \in {<<>>, <<Ev("MetadataChanged")>>, <<Ev("Seeked")>>,
                       <<Ev("ArtworkChanged")>>, <<Ev("QueueCapsChanged")>>}
  BY Zenon DEF OwnEvent
<1>. QED
  BY <1>1, <1>2, <1>3, <1>4, Zenon

\* What an input adds to a batch: typed events behind those that are there, the
\* handler's first.
LEMMA BatchExtended ==
    ASSUME NEW evs \in Seq(Stamped), NEW res \in Seq(Event), NEW in
    PROVE  LET grown == evs \o Collected(res \o OwnEvent(in)) IN
           /\ grown \in Seq(Stamped)
           /\ \A i \in DOMAIN evs : i \in DOMAIN grown /\ grown[i] = evs[i]
           /\ \A i \in DOMAIN res : /\ Len(evs) + i \in DOMAIN grown
                                    /\ grown[Len(evs) + i].ev = res[i]
<1>. DEFINE own   == OwnEvent(in)
            all   == res \o own
            more  == Collected(all)
            grown == evs \o more
<1>1. own \in Seq(Event \cup OwnEventSet) /\ res \in Seq(Event \cup OwnEventSet)
  <2>1. own \in Seq(OwnEventSet)
    BY OwnEvents
  <2>. HIDE DEF own
  <2>. QED
    BY <2>1
<1>. HIDE DEF own
<1>2. /\ all \in Seq(Event \cup OwnEventSet)
      /\ DOMAIN res \subseteq DOMAIN all
      /\ \A i \in DOMAIN res : all[i] = res[i]
  BY <1>1
<1>. HIDE DEF all
<1>3. Fresh \in Snapshot
  BY PositionAssumption, ScalarAssumption DEF Fresh, Snapshot, Phases, MediaTypes
<1>4. /\ more \in Seq(Stamped) /\ DOMAIN more = DOMAIN all
      /\ \A i \in DOMAIN all : more[i].ev = all[i]
  <2>1. more = [i \in 1..Len(all) |-> [ev |-> all[i], snapshot |-> Fresh]]
    BY <1>2 DEF Collected
  <2>2. ASSUME NEW i \in 1..Len(all)
        PROVE  /\ [ev |-> all[i], snapshot |-> Fresh] \in Stamped
               /\ [ev |-> all[i], snapshot |-> Fresh].ev = all[i]
    <3>1. all[i] \in Event \cup OwnEventSet
      BY <1>2
    <3>. QED
      BY <1>3, <3>1 DEF Stamped, OwnEventSet
  <2>3. Len(all) \in Nat /\ DOMAIN all = 1..Len(all)
    BY <1>2
  <2>. HIDE DEF more
  <2>4. more \in [1..Len(all) -> Stamped]
    BY <2>1, <2>2
  <2>5. more \in Seq(Stamped)
    BY <2>3, <2>4
  <2>6. \A i \in DOMAIN all : more[i].ev = all[i]
    BY <2>1, <2>2, <2>3
  <2>. QED
    BY <2>1, <2>3, <2>5, <2>6
<1>. HIDE DEF more
<1>5. /\ grown \in Seq(Stamped)
      /\ \A i \in DOMAIN evs : i \in DOMAIN grown /\ grown[i] = evs[i]
      /\ \A i \in DOMAIN more : Len(evs) + i \in DOMAIN grown /\ grown[Len(evs) + i] = more[i]
  BY <1>4
<1>. HIDE DEF grown
<1>6. ASSUME NEW i \in DOMAIN res
      PROVE  Len(evs) + i \in DOMAIN grown /\ grown[Len(evs) + i].ev = res[i]
  <2>1. i \in DOMAIN more /\ more[i].ev = res[i]
    BY <1>2, <1>4, Zenon
  <2>. QED
    BY <1>5, <2>1, Zenon
<1>. QED
  BY <1>5, <1>6, Zenon DEF grown, more, all, own

\* Publishing stamps every event with the machine's snapshot.
LEMMA PublishStamps ==
    ASSUME s \in Snapshot, out \in Seq(Stamped),
           out' = [i \in DOMAIN out |-> [out[i] EXCEPT !.snapshot = s]]
    PROVE  /\ out' \in Seq(Stamped) /\ DOMAIN out' = DOMAIN out
           /\ \A i \in DOMAIN out : out'[i].ev = out[i].ev /\ out'[i].snapshot = s
<1>1. \A i \in DOMAIN out : /\ [out[i] EXCEPT !.snapshot = s] \in Stamped
                            /\ [out[i] EXCEPT !.snapshot = s].ev = out[i].ev
                            /\ [out[i] EXCEPT !.snapshot = s].snapshot = s
  <2>. SUFFICES ASSUME NEW i \in DOMAIN out
                PROVE  /\ [out[i] EXCEPT !.snapshot = s] \in Stamped
                       /\ [out[i] EXCEPT !.snapshot = s].ev = out[i].ev
                       /\ [out[i] EXCEPT !.snapshot = s].snapshot = s
    OBVIOUS
  <2>1. out[i] \in Stamped
    OBVIOUS
  <2>. QED
    BY <2>1 DEF Stamped
<1>2. Len(out) \in Nat /\ DOMAIN out = 1..Len(out)
  OBVIOUS
<1>3. out' \in [1..Len(out) -> Stamped]
  BY <1>1, <1>2
<1>4. out' \in Seq(Stamped)
  BY <1>2, <1>3
<1>5. DOMAIN out' = DOMAIN out /\ \A i \in DOMAIN out : out'[i] = [out[i] EXCEPT !.snapshot = s]
  BY Zenon
<1>. QED
  BY <1>1, <1>4, <1>5, Zenon

=============================================================================
