------------------------- MODULE PlaybackCoordinator -------------------------
(***************************************************************************)
(* The coordinator of src/playback/src/coordinator.rs: producers on any    *)
(* thread push inputs and signal a wake event; one worker thread takes the *)
(* whole queue as a batch, runs the state machine over it, publishes the   *)
(* snapshot and hands the batch's events and actions to the sinks.  The    *)
(* slot of src/playback/src/ffi.rs is what producers reach it through and  *)
(* what shutdown empties before it stops and joins the worker.             *)
(*                                                                         *)
(* What the worker does with a batch is that of PlaybackBatches; here it   *)
(* has the loop around it (pc takes more values), the wake event, the      *)
(* built-in sinks and the threads that post and stop.  Of the built-in     *)
(* sinks the idle-inhibit level of idle_inhibit_sink.rs is kept; the       *)
(* action sink calls mpv and is counted.  No action sink is registered     *)
(* beside the built-in one.                                                *)
(***************************************************************************)
EXTENDS PlaybackBatches

CONSTANTS
    Producers,  \* threads that post: mpv's event thread, the load worker, ...
    MaxPosts    \* bound on the number of posts

ASSUME MaxPostsAssumption == MaxPosts \in Nat

VARIABLES
    wake,       \* the manual-reset wake event
    running,    \* cleared by stop
    slot,       \* the process-wide slot holds the coordinator
    inhibit,    \* level last set by the idle-inhibit sink
    stage,      \* how far each producer is in post
    holding,    \* the input it posts
    stopper,    \* how far shutdown has got
    posted      \* history: every input pushed, in order

workerVars == <<pc, batch, out, todo, next, published, inhibit>>
sharedVars == <<queue, wake, running, slot>>
postVars   == <<stage, holding, stopper, posted>>
coordVars  == <<smVars, workerVars, sharedVars, postVars>>

NoInput == [op |-> "None"]

-----------------------------------------------------------------------------
(***************************************************************************)
(* Producers: post clones the handle out of the slot, then enqueue pushes  *)
(* under the queue's lock and signals after releasing it.                  *)
(***************************************************************************)
Clone(p, in) ==
    /\ stage[p] = "free"
    /\ slot
    /\ Len(posted) < MaxPosts
    /\ stage' = [stage EXCEPT ![p] = "push"]
    /\ holding' = [holding EXCEPT ![p] = in]
    /\ UNCHANGED <<smVars, workerVars, sharedVars, stopper, posted>>

Push(p) ==
    /\ stage[p] = "push"
    /\ Len(posted) < MaxPosts
    /\ Enqueue(holding[p])
    /\ posted' = Append(posted, holding[p])
    /\ stage' = [stage EXCEPT ![p] = "signal"]
    /\ holding' = [holding EXCEPT ![p] = NoInput]
    /\ UNCHANGED <<smVars, workerVars, wake, running, slot, stopper>>

\* Fault of the mutation runs: only the first input of a batch signals.
SignalFirst(p) ==
    /\ stage[p] = "signal"
    /\ wake' = (wake \/ Len(queue) = 1)
    /\ stage' = [stage EXCEPT ![p] = "free"]
    /\ UNCHANGED <<smVars, workerVars, queue, running, slot, holding, stopper, posted>>

Signal(p) ==
    /\ stage[p] = "signal"
    /\ wake' = TRUE
    /\ stage' = [stage EXCEPT ![p] = "free"]
    /\ UNCHANGED <<smVars, workerVars, queue, running, slot, holding, stopper, posted>>

-----------------------------------------------------------------------------
(***************************************************************************)
(* The worker's loop.                                                      *)
(***************************************************************************)
Check ==
    /\ \/ running /\ At("check", "take")
       \/ ~running /\ At("check", "exited")
    /\ UNCHANGED <<smVars, batch, out, todo, next, published, inhibit,
                   sharedVars, postVars>>

\* Fault of the mutation runs: the queue is copied, not taken.
TakeCopy ==
    /\ \/ queue = <<>> /\ At("take", "wait")
       \/ queue # <<>> /\ At("take", "apply")
    /\ batch' = queue
    /\ UNCHANGED <<smVars, queue, out, todo, next, published, inhibit,
                   wake, running, slot, postVars>>

Take ==
    /\ \/ queue = <<>> /\ At("take", "wait")
       \/ queue # <<>> /\ At("take", "apply")
    /\ batch' = queue
    /\ queue' = <<>>
    /\ UNCHANGED <<smVars, out, todo, next, published, inhibit, wake,
                   running, slot, postVars>>

Wait ==
    /\ wake
    /\ At("wait", "drain")
    /\ UNCHANGED <<smVars, batch, out, todo, next, published, inhibit,
                   sharedVars, postVars>>

\* Fault of the mutation runs: the worker waits again without looking.
DrainAndWait ==
    /\ At("drain", "wait")
    /\ wake' = FALSE
    /\ UNCHANGED <<smVars, batch, out, todo, next, published, inhibit,
                   queue, running, slot, postVars>>

Drain ==
    /\ At("drain", "check")
    /\ wake' = FALSE
    /\ UNCHANGED <<smVars, batch, out, todo, next, published, inhibit,
                   queue, running, slot, postVars>>

Apply ==
    /\ ApplyInput
    /\ UNCHANGED <<inhibit, wake, running, slot, postVars>>

Publish ==
    /\ PublishBatch
    /\ UNCHANGED <<inhibit, wake, running, slot, postVars>>

Deliver ==
    /\ DeliverEvent
    /\ UNCHANGED <<inhibit, wake, running, slot, postVars>>

EventsDelivered ==
    /\ next > Len(out)
    /\ At("events", "builtin")
    /\ UNCHANGED <<smVars, batch, out, todo, next, published, inhibit,
                   sharedVars, postVars>>

\* Fault of the mutation runs: the media type is looked at on start only.
InhibitOnPhaseOnly == {"Started", "Paused", "Finished", "Canceled", "Error"}

\* idle_inhibit_sink: which events make it look, and the level it then sets.
InhibitKinds == {"Started", "Paused", "Finished", "Canceled", "Error",
                 "MediaTypeChanged"}

InhibitLevel(snap) ==
    IF snap.phase # "Playing" THEN "None"
    ELSE IF snap.media_type = "Audio" THEN "System" ELSE "Display"

DeliverBuiltin ==
    /\ At("builtin", "actions")
    /\ LET looks == {i \in DOMAIN out : out[i].ev.kind \in InhibitKinds} IN
       inhibit' = IF looks = {} THEN inhibit
                  ELSE InhibitLevel(out[Max(looks)].snapshot)
    /\ UNCHANGED <<smVars, batch, out, todo, next, published,
                   sharedVars, postVars>>

\* The built-in action sink; the batch is done.
DeliverActions ==
    /\ At("actions", "check")
    /\ out' = <<>>
    /\ next' = 1
    /\ todo' = <<>>
    /\ UNCHANGED <<smVars, batch, published, inhibit, sharedVars, postVars>>

Worker ==
    \/ Check \/ Take \/ Wait \/ Drain \/ Apply \/ Publish
    \/ Deliver \/ EventsDelivered \/ DeliverBuiltin \/ DeliverActions

-----------------------------------------------------------------------------
(***************************************************************************)
(* Shutdown: empty the slot, clear running, signal, join.                  *)
(***************************************************************************)
Stops(from, to) == stopper = from /\ stopper' = to

TakeSlot ==
    /\ Stops("idle", "clear")
    /\ slot' = FALSE
    /\ UNCHANGED <<smVars, workerVars, queue, wake, running, stage, holding, posted>>

ClearRunning ==
    /\ Stops("clear", "signal")
    /\ running' = FALSE
    /\ UNCHANGED <<smVars, workerVars, queue, wake, slot, stage, holding, posted>>

\* Fault of the mutation runs: stop does not wake the worker.
StopUnsignaled ==
    /\ Stops("signal", "join")
    /\ UNCHANGED <<smVars, workerVars, sharedVars, stage, holding, posted>>

StopSignal ==
    /\ Stops("signal", "join")
    /\ wake' = TRUE
    /\ UNCHANGED <<smVars, workerVars, queue, running, slot, stage, holding, posted>>

Join ==
    /\ Stops("join", "stopped")
    /\ pc = "exited"
    /\ UNCHANGED <<smVars, workerVars, sharedVars, stage, holding, posted>>

Stop == TakeSlot \/ ClearRunning \/ StopSignal \/ Join

-----------------------------------------------------------------------------
\* jfn_playback_init: the worker is started before the slot holds it.
CoordInit ==
    /\ Init
    /\ queue = <<>> /\ wake = FALSE /\ running = TRUE /\ slot = TRUE
    /\ pc = "check" /\ batch = <<>> /\ out = <<>> /\ todo = <<>> /\ next = 1
    /\ published = Fresh
    /\ inhibit = "None"
    /\ stage = [p \in Producers |-> "free"]
    /\ holding = [p \in Producers |-> NoInput]
    /\ stopper = "idle"
    /\ posted = <<>>

Post(p) ==
    \/ \E in \in Inputs : Clone(p, in)
    \/ Push(p)
    \/ Signal(p)

CoordNext ==
    \/ \E p \in Producers : Post(p)
    \/ Worker
    \/ Stop

CoordSpec == CoordInit /\ [][CoordNext]_coordVars

\* A thread that runs takes its next step: the worker is never left out for
\* ever, a producer finishes the post it began, and stop runs to its end.
Fairness ==
    /\ WF_coordVars(Worker)
    /\ \A p \in Producers : WF_coordVars(Push(p) \/ Signal(p))
    /\ WF_coordVars(ClearRunning \/ StopSignal \/ Join)

FairSpec == CoordSpec /\ Fairness

-----------------------------------------------------------------------------
(***************************************************************************)
(* The coordinator implements PlaybackBatches: the worker is idle wherever *)
(* it looks for work or sleeps, and still delivers while the built-in      *)
(* sinks run.                                                              *)
(***************************************************************************)
PcBar == CASE pc \in {"check", "take", "wait", "drain", "exited"} -> "idle"
           [] pc = "apply"                                        -> "apply"
           [] pc \in {"events", "builtin", "actions"}             -> "events"

Batches == INSTANCE PlaybackBatches WITH pc <- PcBar

\* Whatever the interleaving of posts, wake-ups, built-in sinks and shutdown,
\* the sinks see the batches PlaybackBatches promises: every input applied once
\* and in order, and no event delivered out of turn or past the next batch.
ImplementsBatches == Batches!BatchSpec

-----------------------------------------------------------------------------
(***************************************************************************)
(* Properties.                                                             *)
(***************************************************************************)
\* The worker never sleeps over work: when it waits with inputs queued, or with
\* running cleared, the event is set or the thread that will set it has yet to.
NoLostWakeup ==
    pc = "wait" /\ ~wake =>
        /\ queue # <<>> => \E p \in Producers : stage[p] = "signal"
        /\ ~running => stopper = "signal"

\* Between batches the idle-inhibit level is the one the published phase and
\* media type ask for: none once stopped or paused, the media's own while
\* playing.  In Starting an earlier level may remain.
InhibitFollowsPlayback ==
    pc \in {"check", "take", "wait", "drain", "exited"} =>
        published.phase = "Starting" \/ inhibit = InhibitLevel(published)

\* Every post the worker could see is applied, unless it is stopped first.
EveryPostIsApplied == [](queue # <<>> => <>(queue = <<>> \/ ~running))

\* stop returns: the worker leaves its loop wherever the stop finds it.
StopJoinsWorker == stopper = "clear" ~> stopper = "stopped"
=============================================================================
