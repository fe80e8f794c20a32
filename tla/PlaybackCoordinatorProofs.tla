---------------------- MODULE PlaybackCoordinatorProofs ----------------------
(***************************************************************************)
(* Theorems about the playback coordinator, for any number of producers,   *)
(* any set of inputs and any number of posts: the worker does not sleep    *)
(* over work, and what the sinks see is what PlaybackBatches promises.     *)
(***************************************************************************)
EXTENDS PlaybackCoordinator, PlaybackStateMachineProofs, WellFoundedInduction, TLAPS

-----------------------------------------------------------------------------
(***************************************************************************)
(* The wake event.  Between a push and its signal, and between the two     *)
(* halves of stop, the event may be clear although there is work: the      *)
(* invariant says who will set it.                                         *)
(***************************************************************************)
WakeInv ==
    /\ stage \in [Producers -> {"free", "push", "signal"}]
    /\ stopper \in {"idle", "clear", "signal", "join", "stopped"}
    /\ wake \in BOOLEAN
    /\ running \in BOOLEAN
    /\ running <=> stopper \in {"idle", "clear"}
    /\ stopper \in {"join", "stopped"} => wake \/ pc \in {"check", "exited"}
    /\ pc = "wait" /\ ~wake /\ queue # <<>> =>
           \E p \in Producers : stage[p] = "signal"

\* Wake-ups that were meant for the worker reach it: each step keeps WakeInv.
LEMMA WakeInvKept ==
    ASSUME WakeInv, [CoordNext]_coordVars
    PROVE  WakeInv'
<1>1. ASSUME NEW p \in Producers, NEW in \in Inputs, Clone(p, in)
      PROVE  WakeInv'
  BY <1>1 DEF WakeInv, Clone, workerVars, sharedVars
<1>2. ASSUME NEW p \in Producers, Push(p)
      PROVE  WakeInv'
  <2>1. stage'[p] = "signal" /\ stage' \in [Producers -> {"free", "push", "signal"}]
    BY <1>2 DEF WakeInv, Push
  <2>. QED
    BY <2>1, <1>2 DEF WakeInv, Push, workerVars
<1>3. ASSUME NEW p \in Producers, Signal(p)
      PROVE  WakeInv'
  BY <1>3 DEF WakeInv, Signal, workerVars
<1>4. CASE Check
  BY <1>4 DEF WakeInv, Check, At, sharedVars, postVars
<1>5. CASE Take
  BY <1>5 DEF WakeInv, Take, At, postVars
<1>6. CASE Wait
  BY <1>6 DEF WakeInv, Wait, At, sharedVars, postVars
<1>7. CASE Drain
  BY <1>7 DEF WakeInv, Drain, At, postVars
<1>8. CASE Apply
  BY <1>8 DEF WakeInv, Apply, ApplyInput, postVars
<1>9. CASE Publish
  BY <1>9 DEF WakeInv, Publish, PublishBatch, At, postVars
<1>10. CASE Deliver
  BY <1>10 DEF WakeInv, Deliver, DeliverEvent, postVars
<1>11. CASE EventsDelivered \/ DeliverBuiltin \/ DeliverActions
  BY <1>11 DEF WakeInv, EventsDelivered, DeliverBuiltin, DeliverActions, At,
               sharedVars, postVars
<1>12. CASE Stop
  <2>1. CASE TakeSlot
    BY <2>1 DEF WakeInv, TakeSlot, Stops, workerVars
  <2>2. CASE ClearRunning
    BY <2>2 DEF WakeInv, ClearRunning, Stops, workerVars
  <2>3. CASE StopSignal
    BY <2>3 DEF WakeInv, StopSignal, Stops, workerVars
  <2>4. CASE Join
    BY <2>4 DEF WakeInv, Join, Stops, workerVars, sharedVars
  <2>. QED
    BY <1>12, <2>1, <2>2, <2>3, <2>4 DEF Stop
<1>13. CASE UNCHANGED coordVars
  BY <1>13 DEF WakeInv, coordVars, workerVars, sharedVars, postVars
<1>. QED
  BY <1>1, <1>2, <1>3, <1>4, <1>5, <1>6, <1>7, <1>8, <1>9, <1>10, <1>11, <1>12,
     <1>13 DEF CoordNext, Post, Worker

\* The worker never sleeps over work, and never sleeps through a stop: the
\* event is set after the push and after running is cleared, and the worker
\* looks at both again once it has cleared the event.
THEOREM NoWakeupIsLost == CoordSpec => []NoLostWakeup
<1>1. CoordInit => WakeInv
  BY DEF CoordInit, WakeInv
<1>2. WakeInv /\ [CoordNext]_coordVars => WakeInv'
  BY WakeInvKept
<1>3. WakeInv => NoLostWakeup
  BY DEF WakeInv, NoLostWakeup
<1>. QED
  BY <1>1, <1>2, <1>3, PTL DEF CoordSpec

-----------------------------------------------------------------------------
(***************************************************************************)
(* The refinement.  Only the worker's place is mapped, so what the state   *)
(* machine does is the same on both sides; the lemmas say so operator by   *)
(* operator.                                                               *)
(***************************************************************************)
\* The events and snapshots handlers build are those of the refined machine.
LEMMA SameValues ==
    /\ Fresh = Batches!Fresh
    /\ StartingSnapshot = Batches!StartingSnapshot
    /\ \A kind : Ev(kind) = Batches!Ev(kind)
    /\ \A kind, flag : Flagged(kind, flag) = Batches!Flagged(kind, flag)
    /\ \A kind, was : Cleared(kind, was) = Batches!Cleared(kind, was)
    /\ \A reason : Terminal(reason) = Batches!Terminal(reason)
    /\ \A snap : Promoted(snap) = Batches!Promoted(snap)
    /\ EndFlagEvents = Batches!EndFlagEvents
BY DEF Fresh, Batches!Fresh, StartingSnapshot, Batches!StartingSnapshot, Ev, Batches!Ev,
       Flagged, Batches!Flagged, Cleared, Batches!Cleared, Terminal, Batches!Terminal,
       Promoted, Batches!Promoted, EndFlagEvents, Batches!EndFlagEvents

\* How a handler returns is that of the refined machine.
LEMMA SameReturns ==
    /\ Ignored <=> Batches!Ignored
    /\ ActivePhase <=> Batches!ActivePhase
    /\ \A ty, frame : ReadyToPlay(ty, frame) <=> Batches!ReadyToPlay(ty, frame)
    /\ \A evs : Returns(evs) <=> Batches!Returns(evs)
    /\ \A snap, evs, promote :
           SettlesAs(snap, evs, promote) <=> Batches!SettlesAs(snap, evs, promote)
    /\ \A snap, evs : SnapshotOnly(snap, evs) <=> Batches!SnapshotOnly(snap, evs)
BY DEF Ignored, Batches!Ignored, ActivePhase, Batches!ActivePhase, ReadyToPlay,
       Batches!ReadyToPlay, Returns, Batches!Returns, SettlesAs, Batches!SettlesAs,
       SnapshotOnly, Batches!SnapshotOnly, Ev, Batches!Ev, Promoted, Batches!Promoted

\* Each handler is that of the refined machine, and so is what it is run for.
LEMMA SameHandlers ==
    ASSUME NEW in
    PROVE  Handle(in) <=> Batches!Handle(in)
<1>1. OnFileLoaded <=> Batches!OnFileLoaded
  BY SameValues, Zenon
     DEF OnFileLoaded, Batches!OnFileLoaded, ApplyPendingTrackSelectionAndPlay,
         Batches!ApplyPendingTrackSelectionAndPlay
<1>2. \A item : OnLoadStarting(item) <=> Batches!OnLoadStarting(item)
  BY DEF OnLoadStarting, Batches!OnLoadStarting, StartingSnapshot,
         Batches!StartingSnapshot, Returns, Batches!Returns, Ev, Batches!Ev
<1>3. \A reason : OnEndFile(reason) <=> Batches!OnEndFile(reason)
  <2>1. EndSwallowed <=> Batches!EndSwallowed
    BY SameValues, SameReturns, Zenon DEF EndSwallowed, Batches!EndSwallowed
  <2>2. \A reason : EndTerminal(reason) <=> Batches!EndTerminal(reason)
    BY SameValues, SameReturns, Zenon DEF EndTerminal, Batches!EndTerminal
  <2>. QED
    BY <2>1, <2>2, Zenon
       DEF OnEndFile, Batches!OnEndFile, SwallowsEnd, Batches!SwallowsEnd
<1>4. \A paused : OnPauseChanged(paused) <=> Batches!OnPauseChanged(paused)
  <2>1. Pausing <=> Batches!Pausing
    BY SameValues, SameReturns, Zenon DEF Pausing, Batches!Pausing
  <2>2. Resuming <=> Batches!Resuming
    BY SameReturns, Zenon DEF Resuming, Batches!Resuming
  <2>3. \A paused : PauseOnlyNoted(paused) <=> Batches!PauseOnlyNoted(paused)
    BY SameReturns, Zenon DEF PauseOnlyNoted, Batches!PauseOnlyNoted
  <2>. QED
    BY <2>1, <2>2, <2>3, SameReturns, Zenon DEF OnPauseChanged, Batches!OnPauseChanged
<1>5. \A frame : OnVideoFrameAvailable(frame) <=> Batches!OnVideoFrameAvailable(frame)
  BY SameReturns, Zenon DEF OnVideoFrameAvailable, Batches!OnVideoFrameAvailable
<1>6. OnPlaybackRestart <=> Batches!OnPlaybackRestart
  BY SameReturns, Zenon DEF OnPlaybackRestart, Batches!OnPlaybackRestart
<1>7. \A ty : OnMediaType(ty) <=> Batches!OnMediaType(ty)
  BY SameValues, SameReturns, Zenon DEF OnMediaType, Batches!OnMediaType
<1>8. \A stall : /\ OnPausedForCache(stall) <=> Batches!OnPausedForCache(stall)
                 /\ OnCoreIdle(stall) <=> Batches!OnCoreIdle(stall)
  <2>1. \A stall : ApplyBufferingChange(stall) <=> Batches!ApplyBufferingChange(stall)
    BY SameValues, SameReturns, Zenon
       DEF ApplyBufferingChange, Batches!ApplyBufferingChange
  <2>2. \A stall : StallNoted(stall) <=> Batches!StallNoted(stall)
    BY <2>1, SameReturns, Zenon DEF StallNoted, Batches!StallNoted
  <2>. QED
    BY <2>2, SameReturns, Zenon
       DEF OnPausedForCache, Batches!OnPausedForCache, OnCoreIdle, Batches!OnCoreIdle
<1>9. \A seeking : OnSeekingChanged(seeking) <=> Batches!OnSeekingChanged(seeking)
  BY SameValues, SameReturns, Zenon DEF OnSeekingChanged, Batches!OnSeekingChanged
<1>10. \A position : OnPosition(position) <=> Batches!OnPosition(position)
  BY SameValues, SameReturns, Zenon DEF OnPosition, Batches!OnPosition
<1>11. \A on, was : OnFullscreen(on, was) <=> Batches!OnFullscreen(on, was)
  BY SameValues, SameReturns, Zenon DEF OnFullscreen, Batches!OnFullscreen
<1>12. \A field, value : OnScalar(field, value) <=> Batches!OnScalar(field, value)
  BY SameValues, SameReturns, Zenon DEF OnScalar, Batches!OnScalar
<1>13. /\ OnLoadStarting(in.item) <=> Batches!OnLoadStarting(in.item)
       /\ OnEndFile(in.reason) <=> Batches!OnEndFile(in.reason)
       /\ OnPauseChanged(in.flag) <=> Batches!OnPauseChanged(in.flag)
       /\ OnMediaType(in.ty) <=> Batches!OnMediaType(in.ty)
       /\ OnPausedForCache(in.flag) <=> Batches!OnPausedForCache(in.flag)
       /\ OnCoreIdle(in.flag) <=> Batches!OnCoreIdle(in.flag)
       /\ OnSeekingChanged(in.flag) <=> Batches!OnSeekingChanged(in.flag)
       /\ OnPosition(in.position) <=> Batches!OnPosition(in.position)
       /\ OnVideoFrameAvailable(in.flag) <=> Batches!OnVideoFrameAvailable(in.flag)
       /\ OnFullscreen(in.flag, in.was_maximized)
             <=> Batches!OnFullscreen(in.flag, in.was_maximized)
       /\ OnScalar(in.field, in.value) <=> Batches!OnScalar(in.field, in.value)
  BY <1>2, <1>3, <1>4, <1>5, <1>7, <1>8, <1>9, <1>10, <1>11, <1>12, Zenon
<1>. QED
  BY <1>1, <1>6, <1>13, SameReturns, SMT DEF Handle, Batches!Handle

\* The worker's place is one of its loop, a batch is empty unless it is being
\* applied, the built-in sinks run after the last event, and a producer that is
\* to push holds an input.
RefInv ==
    /\ pc \in {"check", "take", "wait", "drain", "exited", "apply", "events",
               "builtin", "actions"}
    /\ pc # "apply" => batch = <<>>
    /\ pc \in {"builtin", "actions"} => next > Len(out)
    /\ DOMAIN stage = Producers /\ DOMAIN holding = Producers
    /\ \A p \in Producers : stage[p] = "push" => holding[p] \in Inputs

\* A step of the state machine's owner that posts: RefInv holds after it.
LEMMA PostsKeepRefInv ==
    ASSUME RefInv, NEW p \in Producers, Post(p)
    PROVE  RefInv'
<1>1. ASSUME NEW in \in Inputs, Clone(p, in)
      PROVE  RefInv'
  BY <1>1 DEF RefInv, Clone, workerVars
<1>2. CASE Push(p)
  BY <1>2 DEF RefInv, Push, workerVars
<1>3. CASE Signal(p)
  BY <1>3 DEF RefInv, Signal, workerVars
<1>. QED
  BY <1>1, <1>2, <1>3 DEF Post

\* Each step of the coordinator keeps RefInv.
LEMMA RefInvKept ==
    ASSUME RefInv, [CoordNext]_coordVars
    PROVE  RefInv'
<1>1. CASE Check
  BY <1>1 DEF RefInv, Check, At, postVars
<1>2. CASE Take
  BY <1>2 DEF RefInv, Take, At, postVars
<1>3. CASE Wait
  BY <1>3 DEF RefInv, Wait, At, postVars
<1>4. CASE Drain
  BY <1>4 DEF RefInv, Drain, At, postVars
<1>5. CASE Apply
  BY <1>5 DEF RefInv, Apply, ApplyInput, postVars
<1>6. CASE Publish
  BY <1>6 DEF RefInv, Publish, PublishBatch, At, postVars
<1>7. CASE Deliver
  BY <1>7 DEF RefInv, Deliver, DeliverEvent, postVars
<1>8. CASE EventsDelivered
  BY <1>8 DEF RefInv, EventsDelivered, At, postVars
<1>9. CASE DeliverBuiltin
  BY <1>9 DEF RefInv, DeliverBuiltin, At, postVars
<1>10. CASE DeliverActions
  BY <1>10 DEF RefInv, DeliverActions, At, postVars
<1>11. CASE Stop
  BY <1>11 DEF RefInv, Stop, TakeSlot, ClearRunning, StopSignal, Join, workerVars
<1>12. CASE UNCHANGED coordVars
  BY <1>12 DEF RefInv, coordVars, workerVars, postVars
<1>. QED
  BY <1>1, <1>2, <1>3, <1>4, <1>5, <1>6, <1>7, <1>8, <1>9, <1>10, <1>11, <1>12,
     PostsKeepRefInv DEF CoordNext, Worker

\* What the refined machine keeps when nothing it is made of changes.
LEMMA Stutters ==
    ASSUME UNCHANGED <<smVars, queue, batch, todo, out, next, published>>, PcBar' = PcBar
    PROVE  UNCHANGED <<Batches!smVars, Batches!batchVars>>
BY DEF smVars, Batches!smVars, Batches!batchVars

\* Every step of the coordinator is a step of PlaybackBatches or changes nothing
\* of it: a push is its post, a batch is taken, applied, published, delivered
\* and finished by its own steps, and the rest of the loop is not seen.
LEMMA StepsRefine ==
    ASSUME RefInv, [CoordNext]_coordVars
    PROVE  [Batches!BatchNext]_<<Batches!smVars, Batches!batchVars>>
<1>. DEFINE Quiet == UNCHANGED <<Batches!smVars, Batches!batchVars>>
<1>1. ASSUME NEW p \in Producers, Push(p)
      PROVE  Batches!BatchNext
  <2>1. holding[p] \in Inputs
    BY <1>1 DEF RefInv, Push
  <2>2. Batches!Enqueues(holding[p])
    BY <1>1 DEF Push, Enqueue, Batches!Enqueues, Batches!Enqueue, workerVars, smVars,
                Batches!smVars, PcBar
  <2>. QED
    BY <2>1, <2>2 DEF Batches!BatchNext
<1>2. ASSUME NEW p \in Producers, \/ \E in \in Inputs : Clone(p, in)
                                  \/ Signal(p)
      PROVE  Quiet
  BY <1>2, Stutters DEF Clone, Signal, workerVars, sharedVars, smVars, PcBar
<1>3. CASE Take /\ queue # <<>>
  <2>1. PcBar = "idle" /\ PcBar' = "apply"
    BY <1>3 DEF Take, At, PcBar
  <2>2. Batches!TakeBatch
    BY <1>3, <2>1 DEF Take, Batches!TakeBatch, Batches!At, smVars, Batches!smVars
  <2>. QED
    BY <2>2 DEF Batches!BatchNext, Batches!BatchStep
<1>4. CASE Take /\ queue = <<>>
  <2>1. batch = <<>> /\ batch' = <<>> /\ queue' = <<>>
    BY <1>4 DEF Take, At, RefInv
  <2>2. PcBar' = PcBar
    BY <1>4 DEF Take, At, PcBar
  <2>. QED
    BY <1>4, <2>1, <2>2, Stutters DEF Take
<1>5. CASE Check \/ Wait \/ Drain
  <2>1. PcBar' = PcBar
    BY <1>5 DEF Check, Wait, Drain, At, PcBar
  <2>. QED
    BY <1>5, <2>1, Stutters DEF Check, Wait, Drain, sharedVars
<1>6. CASE Apply
  <2>1. PcBar = "apply" /\ PcBar' = PcBar
    BY <1>6 DEF Apply, ApplyInput, PcBar
  <2>2. Batches!Handle(Head(batch))
    BY <1>6, SameHandlers, Zenon DEF Apply, ApplyInput
  <2>3. Batches!OwnEvent(Head(batch)) = OwnEvent(Head(batch))
    BY SameValues, Zenon DEF OwnEvent, Batches!OwnEvent
  <2>4. \A evs : Batches!Collected(evs) = Collected(evs)
    BY SameValues, Zenon DEF Collected, Batches!Collected
  <2>5. Batches!ApplyInput
    BY <1>6, <2>1, <2>2, <2>3, <2>4, Zenon DEF Apply, ApplyInput, Batches!ApplyInput
  <2>. QED
    BY <2>5 DEF Batches!BatchNext, Batches!BatchStep
<1>7. CASE Publish
  <2>1. PcBar = "apply" /\ PcBar' = "events"
    BY <1>7 DEF Publish, PublishBatch, At, PcBar
  <2>2. Batches!PublishBatch
    BY <1>7, <2>1, Zenon DEF Publish, PublishBatch, Batches!PublishBatch, Batches!At,
                             smVars, Batches!smVars
  <2>. QED
    BY <2>2 DEF Batches!BatchNext, Batches!BatchStep
<1>8. CASE Deliver
  <2>1. PcBar = "events" /\ PcBar' = PcBar
    BY <1>8 DEF Deliver, DeliverEvent, PcBar
  <2>2. Batches!DeliverEvent
    BY <1>8, <2>1, Zenon DEF Deliver, DeliverEvent, Batches!DeliverEvent,
                             smVars, Batches!smVars
  <2>. QED
    BY <2>2 DEF Batches!BatchNext
<1>9. CASE EventsDelivered \/ DeliverBuiltin
  <2>1. PcBar' = PcBar
    BY <1>9 DEF EventsDelivered, DeliverBuiltin, At, PcBar
  <2>. QED
    BY <1>9, <2>1, Stutters DEF EventsDelivered, DeliverBuiltin, sharedVars
<1>10. CASE DeliverActions
  <2>1. PcBar = "events" /\ PcBar' = "idle"
    BY <1>10 DEF DeliverActions, At, PcBar
  <2>2. next > Len(out)
    BY <1>10 DEF DeliverActions, At, RefInv
  <2>3. Batches!FinishBatch
    BY <1>10, <2>1, <2>2, Zenon DEF DeliverActions, Batches!FinishBatch, Batches!At,
                                    sharedVars, smVars, Batches!smVars
  <2>. QED
    BY <2>3 DEF Batches!BatchNext, Batches!BatchStep
<1>11. CASE Stop
  BY <1>11, Stutters DEF Stop, TakeSlot, ClearRunning, StopSignal, Join, workerVars,
                         sharedVars, smVars, PcBar
<1>12. CASE UNCHANGED coordVars
  BY <1>12, Stutters DEF coordVars, workerVars, sharedVars, smVars, PcBar
<1>. QED
  BY <1>1, <1>2, <1>3, <1>4, <1>5, <1>6, <1>7, <1>8, <1>9, <1>10, <1>11, <1>12
     DEF CoordNext, Post, Worker

\* Whatever the interleaving of posts, wake-ups, built-in sinks and shutdown,
\* the coordinator implements PlaybackBatches: every input is applied once and
\* in order, and no event is delivered out of turn or past the next batch.
THEOREM CoordinatorImplementsBatches == CoordSpec => ImplementsBatches
<1>1. CoordInit => RefInv
  BY DEF CoordInit, RefInv
<1>2. RefInv /\ [CoordNext]_coordVars => RefInv'
  BY RefInvKept
<1>3. CoordInit => Batches!BatchInit
  BY SameValues, Zenon DEF CoordInit, Batches!BatchInit, Init, Batches!Init, PcBar
<1>4. RefInv /\ [CoordNext]_coordVars
        => [Batches!BatchNext]_<<Batches!smVars, Batches!batchVars>>
  BY StepsRefine
<1>. QED
  BY <1>1, <1>2, <1>3, <1>4, PTL DEF CoordSpec, ImplementsBatches, Batches!BatchSpec

-----------------------------------------------------------------------------
(***************************************************************************)
(* The machine in the worker's hands: its invariant holds in the           *)
(* coordinator.                                                            *)
(***************************************************************************)
\* Inputs that are queued, held or in a batch are inputs.
FlowInv ==
    /\ RefInv
    /\ queue \in Seq(Inputs)
    /\ batch \in Seq(Inputs)

\* The worker and the producers pass inputs on unchanged.
LEMMA FlowInvKept ==
    ASSUME FlowInv, [CoordNext]_coordVars
    PROVE  FlowInv'
<1>. SUFFICES queue' \in Seq(Inputs) /\ batch' \in Seq(Inputs)
  BY RefInvKept DEF FlowInv
<1>1. ASSUME NEW p \in Producers, Post(p)
      PROVE  queue' \in Seq(Inputs) /\ batch' \in Seq(Inputs)
  <2>1. CASE Push(p)
    <3>1. holding[p] \in Inputs /\ queue' = Append(queue, holding[p]) /\ batch' = batch
      BY <2>1 DEF FlowInv, RefInv, Push, Enqueue, workerVars
    <3>. QED
      BY <3>1 DEF FlowInv
  <2>2. CASE (\E in \in Inputs : Clone(p, in)) \/ Signal(p)
    BY <2>2 DEF FlowInv, Clone, Signal, workerVars, sharedVars
  <2>. QED
    BY <1>1, <2>1, <2>2 DEF Post
<1>2. CASE Check \/ Wait \/ Drain \/ EventsDelivered \/ DeliverBuiltin \/ DeliverActions
  BY <1>2 DEF FlowInv, Check, Wait, Drain, EventsDelivered, DeliverBuiltin,
              DeliverActions, sharedVars
<1>3. CASE Take
  BY <1>3 DEF FlowInv, Take
<1>4. CASE Apply
  BY <1>4 DEF FlowInv, Apply, ApplyInput
<1>5. CASE Publish \/ Deliver
  BY <1>5 DEF FlowInv, Publish, PublishBatch, Deliver, DeliverEvent
<1>6. CASE Stop
  BY <1>6 DEF FlowInv, Stop, TakeSlot, ClearRunning, StopSignal, Join, workerVars, sharedVars
<1>7. CASE UNCHANGED coordVars
  BY <1>7 DEF FlowInv, coordVars, workerVars, sharedVars
<1>. QED
  BY <1>1, <1>2, <1>3, <1>4, <1>5, <1>6, <1>7 DEF CoordNext, Worker

\* Only Apply runs the machine.
LEMMA OnlyApplyRuns ==
    ASSUME [CoordNext]_coordVars
    PROVE  Apply \/ UNCHANGED smVars
BY Zenon
   DEF CoordNext, Post, Clone, Push, Signal, Worker, Check, Take, Wait, Drain, Publish,
       PublishBatch, Deliver, DeliverEvent, EventsDelivered, DeliverBuiltin,
       DeliverActions, Stop, TakeSlot, ClearRunning, StopSignal, Join, coordVars

\* Each step of the coordinator keeps the machine's invariant.
LEMMA MachineKept ==
    ASSUME FlowInv, IInv, [CoordNext]_coordVars
    PROVE  IInv'
<1>1. CASE Apply
  <2>1. Handle(Head(batch)) /\ Head(batch) \in Inputs
    BY <1>1 DEF Apply, ApplyInput, FlowInv
  <2>. QED
    BY <2>1, HandleKeeps
<1>2. CASE UNCHANGED smVars
  BY <1>2, StepIInv
<1>. QED
  BY <1>1, <1>2, OnlyApplyRuns

-----------------------------------------------------------------------------
(***************************************************************************)
(* The idle-inhibit level.  It is settled when a batch's built-in sinks    *)
(* run; until then the batch holds an event that makes the sink look, or   *)
(* the level is that of the machine already.                               *)
(***************************************************************************)
Between == {"check", "take", "wait", "drain", "exited"}

Looks(evs) == {i \in DOMAIN evs : evs[i].ev.kind \in InhibitKinds}

Agrees(snap) == snap.phase = "Starting" \/ inhibit = InhibitLevel(snap)

Pending == Looks(out) # {} \/ Agrees(s)

InhibitInv ==
    /\ out \in Seq(Stamped)
    /\ pc \in Between \cup {"actions"} => s = published /\ Agrees(published)
    /\ pc \in Between => out = <<>>
    /\ pc \in {"apply", "events", "builtin"} => Pending
    /\ pc \in {"events", "builtin"} =>
           /\ s = published
           /\ \A i \in DOMAIN out : out[i].snapshot = published

\* A step of the machine that makes no sink look leaves the level it asks for,
\* unless a file is starting.
LEMMA UnseenKeepsLevel ==
    ASSUME IInv, IInv', Announced \/ UNCHANGED smVars,
           KindsIn(emitted') \cap InhibitKinds = {}
    PROVE  \/ s'.phase = "Starting"
           \/ s'.phase = s.phase /\ InhibitLevel(s') = InhibitLevel(s)
<1>1. CASE UNCHANGED smVars
  BY <1>1 DEF smVars
<1>2. CASE Announced
  <2>1. s.phase \in Phases /\ s'.phase \in Phases
    BY DEF IInv, TypeOK, Snapshot
  <2>2. s'.media_type = s.media_type
    BY <1>2 DEF Announced, InhibitKinds
  <2>3. s'.phase = "Starting" \/ s'.phase = s.phase
    BY <1>2, <2>1 DEF Announced, InhibitKinds, Phases
  <2>. QED
    BY <2>2, <2>3 DEF InhibitLevel
<1>. QED
  BY <1>1, <1>2

\* A set of positions of a sequence that is not empty has a last one.
LEMMA LastPosition ==
    ASSUME NEW n \in Nat, NEW S \in SUBSET (1..n), S # {}
    PROVE  Max(S) \in S
<1>. DEFINE R == OpToRel(<, Nat)
            T == {n - i : i \in S}
<1>1. IsWellFoundedOn(R, Nat)
  BY NatLessThanWellFounded
<1>2. \A x, y \in Nat : y < x => <<y, x>> \in R
  BY DEF OpToRel
<1>4. \A i \in S : n - i \in T
  OBVIOUS
<1>3. T \subseteq Nat /\ T # {}
  <2>1. ASSUME NEW i \in S
        PROVE  n - i \in Nat
    OBVIOUS
  <2>2. T \subseteq Nat
    BY <2>1, Zenon
  <2>3. PICK i \in S : TRUE
    OBVIOUS
  <2>. QED
    BY <1>4, <2>2, <2>3, Zenon
<1>5. \A x \in T : \E i \in S : x = n - i
  OBVIOUS
<1>. HIDE DEF R, T
<1>6. PICK x \in T : \A y \in T : ~ (<<y, x>> \in R)
  BY <1>1, <1>3, WFMin
<1>7. PICK i \in S : x = n - i
  BY <1>5
<1>8. ASSUME NEW j \in S
      PROVE  i >= j
  <2>1. ~ (n - j < n - i)
    BY <1>2, <1>3, <1>4, <1>6, <1>7
  <2>. QED
    BY <2>1
<1>. QED
  BY <1>8 DEF Max

\* What an input adds to a batch: typed events, and a look if the handler
\* returned an event the sink looks at.
LEMMA BatchGrows ==
    ASSUME NEW evs \in Seq(Stamped), NEW res \in Seq(Event), NEW in
    PROVE  LET grown == evs \o Collected(res \o OwnEvent(in)) IN
           /\ grown \in Seq(Stamped)
           /\ Looks(evs) # {} => Looks(grown) # {}
           /\ KindsIn(res) \cap InhibitKinds # {} => Looks(grown) # {}
<1>. DEFINE grown == evs \o Collected(res \o OwnEvent(in))
<1>1. /\ grown \in Seq(Stamped)
      /\ \A i \in DOMAIN evs : i \in DOMAIN grown /\ grown[i] = evs[i]
      /\ \A i \in DOMAIN res : /\ Len(evs) + i \in DOMAIN grown
                               /\ grown[Len(evs) + i].ev = res[i]
  BY BatchExtended, Zenon
<1>. HIDE DEF grown
<1>2. Looks(evs) # {} => Looks(grown) # {}
  BY <1>1, Zenon DEF Looks
<1>3. KindsIn(res) \cap InhibitKinds # {} => Looks(grown) # {}
  <2>. SUFFICES ASSUME NEW i \in DOMAIN res, res[i].kind \in InhibitKinds
                PROVE  Looks(grown) # {}
    BY DEF KindsIn
  <2>1. Len(evs) + i \in DOMAIN grown /\ grown[Len(evs) + i].ev.kind \in InhibitKinds
    BY <1>1, Zenon
  <2>. QED
    BY <2>1, Zenon DEF Looks
<1>. QED
  BY <1>1, <1>2, <1>3, Zenon DEF grown

\* Applying an input: the level pends or stays right.
LEMMA ApplyKeepsInhibit ==
    ASSUME FlowInv, IInv, InhibitInv, Apply
    PROVE  InhibitInv'
<1>1. /\ pc = "apply" /\ pc' = "apply" /\ Handle(Head(batch)) /\ Head(batch) \in Inputs
      /\ out' = out \o Collected(emitted' \o OwnEvent(Head(batch)))
      /\ UNCHANGED <<published, inhibit>>
  BY DEF Apply, ApplyInput, FlowInv
<1>2. IInv' /\ (Announced \/ UNCHANGED smVars)
  BY <1>1, HandleKeeps
<1>3. out \in Seq(Stamped) /\ emitted' \in Seq(Event)
  BY <1>2 DEF InhibitInv, IInv, TypeOK
<1>4. /\ out' \in Seq(Stamped)
      /\ Looks(out) # {} => Looks(out') # {}
      /\ KindsIn(emitted') \cap InhibitKinds # {} => Looks(out') # {}
  BY <1>1, <1>3, BatchGrows, Zenon
<1>5. Looks(out') = Looks(out)'
  BY DEF Looks
<1>6. Pending'
  <2>1. CASE Looks(out') # {}
    BY <1>5, <2>1 DEF Pending
  <2>2. CASE Looks(out') = {}
    <3>1. Agrees(s)
      BY <1>1, <1>4, <2>2 DEF InhibitInv, Pending
    <3>2. s'.phase = "Starting" \/ (s'.phase = s.phase /\ InhibitLevel(s') = InhibitLevel(s))
      BY <1>2, <1>4, <2>2, UnseenKeepsLevel
    <3>3. s'.phase = "Starting" \/ inhibit' = InhibitLevel(s')
      BY <1>1, <3>1, <3>2 DEF Agrees
    <3>. QED
      BY <3>3 DEF Pending, Agrees, InhibitLevel
  <2>. QED
    BY <2>1, <2>2
<1>. QED
  BY <1>1, <1>4, <1>6 DEF InhibitInv, Between

\* Publishing stamps every event with the machine's snapshot.
LEMMA PublishKeepsInhibit ==
    ASSUME IInv, InhibitInv, Publish
    PROVE  InhibitInv'
<1>1. pc = "apply" /\ pc' = "events" /\ published' = s /\ s' = s /\ inhibit' = inhibit
  BY DEF Publish, PublishBatch, At, smVars
<1>2. /\ out' \in Seq(Stamped) /\ DOMAIN out' = DOMAIN out
      /\ \A i \in DOMAIN out : out'[i].ev = out[i].ev /\ out'[i].snapshot = s
  BY PublishStamps DEF Publish, PublishBatch, IInv, TypeOK, InhibitInv
<1>3. Looks(out)' = Looks(out)
  BY <1>2, Zenon DEF Looks
<1>4. Pending'
  BY <1>1, <1>3 DEF InhibitInv, Pending, Agrees, InhibitLevel
<1>. QED
  BY <1>1, <1>2, <1>4 DEF InhibitInv, Between

\* The built-in sink takes the level of the last event it looks at.
LEMMA BuiltinKeepsInhibit ==
    ASSUME InhibitInv, DeliverBuiltin
    PROVE  InhibitInv'
<1>1. /\ pc = "builtin" /\ pc' = "actions"
      /\ inhibit' = IF Looks(out) = {} THEN inhibit
                    ELSE InhibitLevel(out[Max(Looks(out))].snapshot)
      /\ UNCHANGED <<s, out, published>>
  BY DEF DeliverBuiltin, At, Looks, smVars
<1>2. /\ s = published /\ out \in Seq(Stamped) /\ (Looks(out) # {} \/ Agrees(s))
      /\ \A i \in DOMAIN out : out[i].snapshot = published
  BY <1>1 DEF InhibitInv, Pending
<1>3. Looks(out) # {} => inhibit' = InhibitLevel(published)
  <2>. SUFFICES ASSUME Looks(out) # {}
                PROVE  inhibit' = InhibitLevel(published)
    OBVIOUS
  <2>1. Len(out) \in Nat /\ Looks(out) \subseteq 1..Len(out)
    BY <1>2 DEF Looks
  <2>2. Max(Looks(out)) \in Looks(out)
    BY <2>1, LastPosition
  <2>. QED
    BY <1>1, <1>2, <2>2 DEF Looks
<1>4. published.phase = "Starting" \/ inhibit' = InhibitLevel(published)
  BY <1>1, <1>2, <1>3 DEF Agrees
<1>. QED
  BY <1>1, <1>2, <1>4 DEF InhibitInv, Between, Agrees, InhibitLevel

\* Each step keeps the level settled or pending.
LEMMA InhibitKept ==
    ASSUME FlowInv, IInv, InhibitInv, [CoordNext]_coordVars
    PROVE  InhibitInv'
<1>. USE DEF InhibitInv, Between, Pending, Agrees, Looks, InhibitLevel
<1>1. ASSUME NEW p \in Producers, Post(p)
      PROVE  InhibitInv'
  BY <1>1 DEF Post, Clone, Push, Signal, workerVars, smVars
<1>2. CASE Check
  BY <1>2 DEF Check, At, smVars
<1>3. CASE Take
  BY <1>3 DEF Take, At, smVars
<1>4. CASE Wait \/ Drain
  BY <1>4 DEF Wait, Drain, At, smVars
<1>5. CASE Deliver
  BY <1>5 DEF Deliver, DeliverEvent, smVars
<1>6. CASE EventsDelivered
  BY <1>6 DEF EventsDelivered, At, smVars
<1>7. CASE DeliverActions
  BY <1>7 DEF DeliverActions, At, smVars
<1>8. CASE Stop
  BY <1>8 DEF Stop, TakeSlot, ClearRunning, StopSignal, Join, workerVars, smVars
<1>9. CASE UNCHANGED coordVars
  BY <1>9 DEF coordVars, workerVars, smVars
<1>. QED
  BY <1>1, <1>2, <1>3, <1>4, <1>5, <1>6, <1>7, <1>8, <1>9, ApplyKeepsInhibit,
     PublishKeepsInhibit, BuiltinKeepsInhibit DEF CoordNext, Worker

\* The invariant of the coordinator that its machine and its sinks rest on.
CoordInv == FlowInv /\ IInv /\ InhibitInv

\* It holds in every state the coordinator reaches.
LEMMA CoordInvariance == CoordSpec => []CoordInv
<1>1. CoordInit => CoordInv
  <2>1. CoordInit => IInv
    BY InitIInv DEF CoordInit
  <2>2. CoordInit => FlowInv
    BY DEF CoordInit, FlowInv, RefInv
  <2>3. CoordInit => InhibitInv
    BY DEF CoordInit, Init, InhibitInv, Between, Agrees, InhibitLevel, Fresh
  <2>. QED
    BY <2>1, <2>2, <2>3 DEF CoordInv
<1>2. CoordInv /\ [CoordNext]_coordVars => CoordInv'
  BY FlowInvKept, MachineKept, InhibitKept DEF CoordInv
<1>. QED
  BY <1>1, <1>2, PTL DEF CoordSpec

\* Between batches the screen is kept awake exactly as the published phase and
\* media type ask for, but for a file that is starting: whatever the batches
\* were, some event of the batch made the sink look.
THEOREM InhibitIsRight == CoordSpec => []InhibitFollowsPlayback
<1>1. CoordInv => InhibitFollowsPlayback
  BY DEF CoordInv, InhibitInv, Between, Agrees, InhibitFollowsPlayback
<1>. QED
  BY <1>1, CoordInvariance, PTL

\* Under the coordinator, in whatever batches the inputs arrive, the machine
\* keeps its promises: a stopped player is clean, the phase agrees with what was
\* asked for and a shown stall is real.
THEOREM MachineSafeInCoordinator ==
    CoordSpec => [](StoppedIsClean /\ PauseIntent /\ StallIsReal /\ VariantSwitchSpansReload)
<1>1. CoordInv => StoppedIsClean /\ PauseIntent /\ StallIsReal /\ VariantSwitchSpansReload
  BY DEF CoordInv, IInv
<1>. QED
  BY <1>1, CoordInvariance, PTL

=============================================================================
