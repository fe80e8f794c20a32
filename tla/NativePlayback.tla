---------------------------- MODULE NativePlayback ----------------------------
(***************************************************************************)
(* Native playback end to end: the coordinator (PlaybackBatches) with the  *)
(* runtime's event sink (PlaybackReports), the load worker of              *)
(* src/jfn_cef/src/mediastation_runtime.rs, the selection slot of          *)
(* src/mpv/src/api.rs, and mpv.                                            *)
(*                                                                         *)
(* mpv is external: a core that works through a queue of commands, stops   *)
(* the file it plays, opens the next one paused (every load asks for       *)
(* that), and reports pause, the first frame, positions and the end.  Its  *)
(* events are posted in the order it emits them; of the pause and time-pos *)
(* properties it reports the value current when it looks.                  *)
(*                                                                         *)
(* The state's lock is held through load_if_current, whose posts the       *)
(* coordinator may already work on.  Every play has a media id of its own. *)
(***************************************************************************)
EXTENDS PlaybackBatches, PlaybackReports

CONSTANTS
    MaxTime,    \* bound on the positions mpv reaches
    MaxCommands,\* bound on the user's stops and pauses
    Patient,    \* the user acts only when the player has settled
    Faults      \* of mpv: "reject" a load, the interpolation "filter" fails

\* What the load worker and mpv post.
Posted ==
    [op : {"LoadStarting"}, item : Plays] \cup [op : {"MediaType"}, ty : {"Video", "Unknown"}]
    \cup [op : {"Position"}, position : 0..MaxTime] \cup [op : {"EndFile"}, reason : EndReasons]
    \cup [op : {"PauseChanged"}, flag : BOOLEAN] \cup [op : {"FileLoaded", "PlaybackRestart"}]

ASSUME NativeAssumption ==
    /\ MaxTime \in Nat \ {0}
    /\ Posted \subseteq Inputs
    /\ Positions \subseteq Spots
    /\ NoReport \notin Loaders

VARIABLES
    lock,       \* the loader that holds the runtime's lock, or NoReport
    step,       \* where that loader is
    slot,       \* the play the pending selection is for, or 0
    cmds,       \* commands sent to mpv
    entry,      \* the playlist entry mpv opens next, or 0
    file,       \* the play whose file mpv has, or 0
    stage,      \* idle, opening, loaded or shown
    stopping,   \* a stop ends the file
    pause,      \* mpv's pause property
    seen,       \* its value when it was last reported
    time,       \* mpv's time-pos property
    seen_time,  \* its value when it was last reported, or 0
    commands    \* number of user commands

mpvVars   == <<cmds, entry, file, stage, stopping, pause, seen, time, seen_time>>
loadVars  == <<lock, step, slot>>
coordVars == <<smVars, batchVars>>
allVars   == <<coordVars, reportVars, mpvVars, loadVars, commands>>

Free == lock = NoReport

\* post, for a thread that is not the worker.
Posts(in) ==
    /\ Enqueue(in)
    /\ UNCHANGED <<smVars, pc, batch, todo, out, next, published>>

\* Where the player has come to rest: nothing is on its way between the threads
\* and mpv, and mpv is neither opening nor ending a file.
Settled ==
    /\ queue = <<>> /\ pc = "idle"
    /\ Free /\ \A l \in Loaders : ~Working(l)
    /\ \A t \in Threads : hand[t] = NoReport
    /\ cmds = <<>> /\ entry = 0 /\ ~stopping
    /\ stage \in {"idle", "shown"} /\ seen = pause
    /\ stage = "shown" => seen_time = time

MayAct == Patient => Settled

-----------------------------------------------------------------------------
(***************************************************************************)
(* The load worker.                                                        *)
(***************************************************************************)
Request(l) ==
    /\ MayAct
    /\ BeginRequest(l)
    /\ UNCHANGED <<coordVars, mpvVars, loadVars, commands>>

\* Resolving the stream failed, or the account changed.
GiveUp(l) ==
    /\ Free
    /\ EndRequest(l)
    /\ UNCHANGED <<coordVars, mpvVars, loadVars, commands>>

LoadStarting(l) ==
    /\ Free /\ Working(l) /\ IsCurrent(l)
    /\ lock' = l /\ step' = "media"
    /\ Posts([op |-> "LoadStarting", item |-> request[l].play])
    /\ UNCHANGED <<reportVars, mpvVars, slot, commands>>

PostMediaType(l) ==
    /\ lock = l /\ step = "media" /\ step' = "position"
    /\ \E ty \in {"Video", "Unknown"} : Posts([op |-> "MediaType", ty |-> ty])
    /\ UNCHANGED <<reportVars, mpvVars, lock, slot, commands>>

Start == 1

PostStart(l) ==
    /\ lock = l /\ step = "position" /\ step' = "load"
    /\ Posts([op |-> "Position", position |-> Start])
    /\ UNCHANGED <<reportVars, mpvVars, lock, slot, commands>>

\* jfn_mpv_load_file: fill the slot, then send the command.
LoadFile(l) ==
    /\ lock = l /\ step = "load" /\ step' = "activate"
    /\ slot' = request[l].play
    /\ cmds' = Append(cmds, [cmd |-> "loadfile", play |-> request[l].play])
    /\ UNCHANGED <<coordVars, reportVars, lock, commands, entry, file, stage,
                   stopping, pause, seen, time, seen_time>>

\* The load is rejected and an error posted: by mpv, and the slot is emptied, or
\* before the slot was filled, and it is left as it is.
LoadRejected(l) ==
    /\ "reject" \in Faults
    /\ lock = l /\ step = "load" /\ step' = "none"
    /\ lock' = NoReport
    /\ slot' \in {slot, 0}
    /\ EndRequest(l)
    /\ Posts([op |-> "EndFile", reason |-> "Error"])
    /\ UNCHANGED <<mpvVars, commands>>

Track(l) ==
    /\ lock = l /\ step = "activate" /\ step' = "none"
    /\ lock' = NoReport
    /\ \E holds \in BOOLEAN : Activate(l, Start, holds)
    /\ UNCHANGED <<coordVars, mpvVars, slot, commands>>

LoadIfCurrentSteps(l) ==
    \/ LoadStarting(l) \/ PostMediaType(l) \/ PostStart(l)
    \/ LoadFile(l) \/ LoadRejected(l) \/ Track(l)

-----------------------------------------------------------------------------
(***************************************************************************)
(* The coordinator's worker with its sinks.                                *)
(***************************************************************************)
\* The sink takes the runtime's lock for every event; a failed filter, of which
\* mpv tells once it shows frames, makes it stop the player.
SinkEvent ==
    /\ Free
    /\ DeliverEvent
    /\ \E failed \in BOOLEAN :
           /\ failed => "filter" \in Faults /\ stage = "shown"
           /\ HandlePlaybackEvent(Sink, out[next].ev.kind, out[next].snapshot.position, failed)
           /\ cmds' = IF failed THEN Append(cmds, [cmd |-> "stop"]) ELSE cmds
    /\ UNCHANGED <<loadVars, commands, entry, file, stage, stopping, pause, seen,
                   time, seen_time>>

\* Fault of the mutation runs: the selection is forgotten.
DropPendingSelection == slot' = 0 /\ UNCHANGED cmds

\* jfn_mpv_apply_pending_track_selection_and_play empties the slot; later
\* actions of the batch find it empty.
ApplyPendingSelection ==
    LET applies == todo # <<>> /\ slot # 0 IN
    /\ slot' = IF applies THEN 0 ELSE slot
    /\ cmds' = IF applies THEN Append(cmds, [cmd |-> "select", play |-> slot]) ELSE cmds

Finish ==
    /\ FinishBatch
    /\ ApplyPendingSelection
    /\ UNCHANGED <<reportVars, lock, step, commands, entry, file, stage, stopping,
                   pause, seen, time, seen_time>>

Coordinate ==
    /\ TakeBatch \/ ApplyInput \/ PublishBatch
    /\ UNCHANGED <<reportVars, mpvVars, loadVars, commands>>

\* The worker enqueues an event's report before it looks at the next event.
Work == hand[Sink] = NoReport /\ (Coordinate \/ SinkEvent \/ Finish)

HandOver(t) ==
    /\ EnqueueReport(t)
    /\ UNCHANGED <<coordVars, mpvVars, loadVars, commands>>

-----------------------------------------------------------------------------
(***************************************************************************)
(* mpv.                                                                    *)
(***************************************************************************)
MpvOnly == UNCHANGED <<reportVars, loadVars, commands>>

Emits(in) == MpvOnly /\ Posts(in)

Command ==
    /\ cmds # <<>> /\ cmds' = Tail(cmds)
    /\ LET c == Head(cmds) IN
       \/ /\ c.cmd = "loadfile"
          /\ entry' = c.play /\ stopping' = (file # 0)
          /\ UNCHANGED pause
       \/ /\ c.cmd = "stop"
          /\ entry # 0 => file # 0    \* an idle mpv opens its entry first
          /\ entry' = 0 /\ stopping' = (file # 0)
          /\ UNCHANGED pause
       \/ /\ c.cmd = "select"
          /\ pause' = FALSE
          /\ UNCHANGED <<entry, stopping>>
       \/ /\ c.cmd = "pause"
          /\ pause' = (IF file # 0 THEN c.on ELSE pause)
          /\ UNCHANGED <<entry, stopping>>
    /\ MpvOnly
    /\ UNCHANGED <<coordVars, file, stage, seen, time, seen_time>>

\* The file ends; its own pause option goes with it.
EndsFile(reason) ==
    /\ file' = 0 /\ stage' = "idle" /\ stopping' = FALSE /\ pause' = FALSE
    /\ seen_time' \in {seen_time, 0}
    /\ Emits([op |-> "EndFile", reason |-> reason])
    /\ UNCHANGED <<cmds, entry, seen, time>>

EndStopped == stopping /\ EndsFile("Canceled")

Ends ==
    /\ ~stopping
    /\ \/ stage = "opening" /\ EndsFile("Error")
       \/ stage = "shown" /\ ~pause /\ EndsFile("Eof")

Open ==
    /\ file = 0 /\ entry # 0
    /\ file' = entry /\ entry' = 0 /\ stage' = "opening" /\ pause' = TRUE /\ time' = Start
    /\ MpvOnly
    /\ UNCHANGED <<coordVars, cmds, stopping, seen, seen_time>>

Loaded ==
    /\ stage = "opening" /\ ~stopping
    /\ stage' = "loaded"
    /\ Emits([op |-> "FileLoaded"])
    /\ UNCHANGED <<cmds, entry, file, stopping, pause, seen, time, seen_time>>

FirstFrame ==
    /\ stage = "loaded" /\ ~stopping
    /\ stage' = "shown"
    /\ Emits([op |-> "PlaybackRestart"])
    /\ UNCHANGED <<cmds, entry, file, stopping, pause, seen, time, seen_time>>

Tick ==
    /\ stage = "shown" /\ ~stopping /\ ~pause /\ time < MaxTime
    /\ time' = time + 1
    /\ MpvOnly
    /\ UNCHANGED <<coordVars, cmds, entry, file, stage, stopping, pause, seen,
                   seen_time>>

ReportTime ==
    /\ stage = "shown" /\ seen_time # time
    /\ seen_time' = time
    /\ Emits([op |-> "Position", position |-> time])
    /\ UNCHANGED <<cmds, entry, file, stage, stopping, pause, seen, time>>

ReportPause ==
    /\ seen # pause
    /\ seen' = pause
    /\ Emits([op |-> "PauseChanged", flag |-> pause])
    /\ UNCHANGED <<cmds, entry, file, stage, stopping, pause, time, seen_time>>

Mpv == Command \/ EndStopped \/ Ends \/ Open \/ Loaded \/ FirstFrame
       \/ Tick \/ ReportTime \/ ReportPause

-----------------------------------------------------------------------------
(***************************************************************************)
(* The user.                                                               *)
(***************************************************************************)
UserSends(c) ==
    /\ MayAct /\ commands < MaxCommands
    /\ commands' = commands + 1
    /\ cmds' = Append(cmds, c)
    /\ UNCHANGED <<coordVars, loadVars, entry, file, stage, stopping, pause, seen,
                   time, seen_time>>

\* The media key stops only; the renderer's stop also releases the resources.
MediaKeyStop == UserSends([cmd |-> "stop"]) /\ UNCHANGED reportVars
PlayerStop   == Free /\ UserSends([cmd |-> "stop"]) /\ Release

UserPause ==
    /\ \E on \in BOOLEAN : UserSends([cmd |-> "pause", on |-> on])
    /\ UNCHANGED reportVars

\* Fault of the mutation runs: the account changes under the loader's lock.
SwitchAccountUnlocked ==
    /\ MayAct
    /\ \E signed_in \in BOOLEAN : ChangeAccount(signed_in)
    /\ UNCHANGED <<coordVars, mpvVars, loadVars, commands>>

SwitchAccount ==
    /\ Free /\ MayAct
    /\ \E signed_in \in BOOLEAN : ChangeAccount(signed_in)
    /\ UNCHANGED <<coordVars, mpvVars, loadVars, commands>>

User == MediaKeyStop \/ PlayerStop \/ UserPause \/ SwitchAccount

-----------------------------------------------------------------------------
NativeInit ==
    /\ BatchInit /\ ReportInit
    /\ lock = NoReport /\ step = "none" /\ slot = 0
    /\ cmds = <<>> /\ entry = 0 /\ file = 0 /\ stage = "idle" /\ stopping = FALSE
    /\ pause = FALSE /\ seen = FALSE /\ time = 0 /\ seen_time = 0
    /\ commands = 0

Load(l) == Request(l) \/ GiveUp(l) \/ LoadIfCurrentSteps(l)

NativeNext ==
    \/ \E l \in Loaders : Load(l)
    \/ Work
    \/ \E t \in Threads : HandOver(t)
    \/ Mpv
    \/ User

NativeSpec == NativeInit /\ [][NativeNext]_allVars

-----------------------------------------------------------------------------
(***************************************************************************)
(* Properties.                                                             *)
(***************************************************************************)
\* When everything has settled the published phase is mpv's: stopped without a
\* file, paused or playing with one, whatever raced on the way there.
SettledPhase ==
    Settled =>
        published.phase = IF file = 0 THEN "Stopped"
                          ELSE IF pause THEN "Paused" ELSE "Playing"

\* Then the runtime tracks the play mpv has, if it tracks one, and holds no
\* resources without a file: every play mpv ended was noticed.
SettledTracking ==
    Settled => /\ active # NoPlay => active.play = file /\ active.started
               /\ resources # 0 => resources = file

\* load_if_current is one step of the runtime: whatever happens between its
\* posts, its command and the play it tracks, every step of the whole is one of
\* PlaybackReports, made for the account that is still configured.
LoadsAreAtomic == ReportSpec

=============================================================================
