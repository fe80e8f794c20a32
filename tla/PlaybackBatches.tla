--------------------------- MODULE PlaybackBatches ---------------------------
(***************************************************************************)
(* What the coordinator of src/playback/src/coordinator.rs promises to the *)
(* producers of inputs and to the event sinks: inputs are applied in the   *)
(* order they were posted, in batches; the canonical snapshot is replaced  *)
(* when a batch ends and the batch's events are then delivered, one after  *)
(* another, each stamped with that snapshot.  How the worker sleeps, wakes *)
(* and stops is left to PlaybackCoordinator, which implements this module. *)
(*                                                                         *)
(* A sink is modelled by conjoining its handler to DeliverEvent.           *)
(***************************************************************************)
EXTENDS PlaybackStateMachine, SequencesExt

CONSTANTS
    Inputs      \* the inputs the producers may post

\* An input carries what the handler it selects is given.
ASSUME InputAssumption ==
    \A in \in Inputs :
        /\ in.op = "LoadStarting" => in.item \in Items \cup {NoItem}
        /\ in.op = "EndFile" => in.reason \in EndReasons
        /\ in.op \in {"PauseChanged", "SeekingChanged", "PausedForCache", "CoreIdle",
                     "VideoFrameAvailable", "Fullscreen"} => in.flag \in BOOLEAN
        /\ in.op = "Fullscreen" => in.was_maximized \in BOOLEAN
        /\ in.op \in {"Position", "Seeked"} => in.position \in Positions
        /\ in.op \in {"MediaType", "Metadata"} => in.ty \in MediaTypes
        /\ in.op = "Scalar" => in.field \in ScalarFields /\ in.value \in ScalarValues

VARIABLES
    queue,      \* inputs pushed and not taken
    pc,         \* where the worker is: idle, apply or events
    batch,      \* inputs taken and not applied
    todo,       \* actions of the batch
    out,        \* events of the batch, each with the snapshot it is stamped with
    next,       \* the event the event sinks are called with next
    published   \* the canonical snapshot readers see

batchVars == <<queue, pc, batch, todo, out, next, published>>

\* An event on its way to the sinks.
Stamped == [ev : Event \cup [kind : {"MetadataChanged", "Seeked", "ArtworkChanged",
                                     "QueueCapsChanged"}, flag : {FALSE}],
            snapshot : Snapshot]

At(from, to) == pc = from /\ pc' = to

-----------------------------------------------------------------------------
\* post, as far as it changes what the worker will see.
Enqueue(in) == queue' = Append(queue, in)

Enqueues(in) ==
    /\ Enqueue(in)
    /\ UNCHANGED <<smVars, pc, batch, todo, out, next, published>>

\* The worker takes everything that is queued.
TakeBatch ==
    /\ queue # <<>>
    /\ At("idle", "apply")
    /\ batch' = queue
    /\ queue' = <<>>
    /\ UNCHANGED <<smVars, todo, out, next, published>>

\* The handler an input selects.
Handle(in) ==
    \/ in.op = "FileLoaded" /\ OnFileLoaded
    \/ in.op = "LoadStarting" /\ OnLoadStarting(in.item)
    \/ in.op = "PauseChanged" /\ OnPauseChanged(in.flag)
    \/ in.op = "EndFile" /\ OnEndFile(in.reason)
    \/ in.op = "SeekingChanged" /\ OnSeekingChanged(in.flag)
    \/ in.op = "PausedForCache" /\ OnPausedForCache(in.flag)
    \/ in.op = "CoreIdle" /\ OnCoreIdle(in.flag)
    \/ in.op \in {"Position", "Seeked"} /\ OnPosition(in.position)
    \/ in.op \in {"MediaType", "Metadata"} /\ OnMediaType(in.ty)
    \/ in.op = "VideoFrameAvailable" /\ OnVideoFrameAvailable(in.flag)
    \/ in.op = "PlaybackRestart" /\ OnPlaybackRestart
    \/ in.op = "Scalar" /\ OnScalar(in.field, in.value)
    \/ in.op = "Fullscreen" /\ OnFullscreen(in.flag, in.was_maximized)
    \/ in.op \in {"Artwork", "QueueCaps"} /\ Ignored

\* The event some inputs add to what their handler returns.
OwnEvent(in) ==
    CASE in.op = "Metadata"  -> <<Ev("MetadataChanged")>>
      [] in.op = "Seeked"    -> <<Ev("Seeked")>>
      [] in.op = "Artwork"   -> <<Ev("ArtworkChanged")>>
      [] in.op = "QueueCaps" -> <<Ev("QueueCapsChanged")>>
      [] OTHER               -> <<>>

\* Events are created with a default snapshot and stamped when the batch ends.
Collected(evs) == [i \in DOMAIN evs |-> [ev |-> evs[i], snapshot |-> Fresh]]

ApplyInput ==
    /\ pc = "apply" /\ batch # <<>>
    /\ Handle(Head(batch))
    /\ batch' = Tail(batch)
    /\ out' = out \o Collected(emitted' \o OwnEvent(Head(batch)))
    /\ todo' = todo \o actions'
    /\ UNCHANGED <<queue, pc, next, published>>

\* Every event of the batch gets the snapshot of the whole batch.
PublishBatch ==
    /\ batch = <<>>
    /\ At("apply", "events")
    /\ out' = [i \in DOMAIN out |-> [out[i] EXCEPT !.snapshot = s]]
    /\ published' = s
    /\ UNCHANGED <<smVars, queue, batch, todo, next>>

\* The event sinks are called with one event after another.
DeliverEvent ==
    /\ pc = "events" /\ next <= Len(out)
    /\ next' = next + 1
    /\ UNCHANGED <<smVars, queue, pc, batch, todo, out, published>>

\* The action sink has its turn and the batch is done.
FinishBatch ==
    /\ next > Len(out)
    /\ At("events", "idle")
    /\ out' = <<>>
    /\ todo' = <<>>
    /\ next' = 1
    /\ UNCHANGED <<smVars, queue, batch, published>>

BatchStep == TakeBatch \/ ApplyInput \/ PublishBatch \/ FinishBatch

-----------------------------------------------------------------------------
BatchInit ==
    /\ Init
    /\ queue = <<>> /\ pc = "idle" /\ batch = <<>> /\ todo = <<>> /\ out = <<>> /\ next = 1
    /\ published = Fresh

BatchNext == (\E in \in Inputs : Enqueues(in)) \/ BatchStep \/ DeliverEvent

BatchSpec == BatchInit /\ [][BatchNext]_<<smVars, batchVars>>

=============================================================================
