------------------------- MODULE NativePlaybackProofs -------------------------
(***************************************************************************)
(* Theorems about native playback as a whole, for any number of loaders,   *)
(* plays, account changes and commands and whatever mpv does: seen from    *)
(* the coordinator it is PlaybackBatches, and seen from the runtime it is  *)
(* PlaybackReports, with every load one step.  For a user who waits until  *)
(* the player has settled, the published phase is then mpv's and the       *)
(* tracked play is the one mpv has.                                        *)
(***************************************************************************)
EXTENDS NativePlayback, PlaybackStateMachineProofs

\* Requests are numbered within the bound.
RequestInv ==
    /\ requests \in 0..MaxPlays
    /\ DOMAIN request = Loaders
    /\ \A l \in Loaders : Working(l) => request[l].play \in Plays

\* The loader that holds the runtime's lock loads for the account that is
\* configured, at each of its steps.
LockInv == ~Free => lock \in Loaders /\ Working(lock) /\ IsCurrent(lock)

Commands ==
    [cmd : {"loadfile", "select"}, play : Plays] \cup [cmd : {"stop"}]
    \cup [cmd : {"pause"}, on : BOOLEAN]

\* What mpv is told, and what it reports.
PlayerInv ==
    /\ cmds \in Seq(Commands)
    /\ slot \in 0..MaxPlays
    /\ pause \in BOOLEAN
    /\ time \in 0..MaxTime

\* The coordinator works on inputs that were posted, and its sinks are called
\* with events that are stamped with snapshots of the machine.
BatchInv ==
    /\ queue \in Seq(Inputs) /\ batch \in Seq(Inputs)
    /\ IInv
    /\ out \in Seq(Stamped)
    /\ next \in Nat \ {0}

NativeInv == RequestInv /\ LockInv /\ PlayerInv /\ BatchInv

-----------------------------------------------------------------------------
(***************************************************************************)
(* The coordinator's half.                                                 *)
(***************************************************************************)
\* What the loader and mpv post are inputs.
LEMMA PostedInputs ==
    /\ \A p \in Plays : [op |-> "LoadStarting", item |-> p] \in Posted
    /\ \A ty \in {"Video", "Unknown"} : [op |-> "MediaType", ty |-> ty] \in Posted
    /\ \A p \in 0..MaxTime : [op |-> "Position", position |-> p] \in Posted
    /\ \A r \in EndReasons : [op |-> "EndFile", reason |-> r] \in Posted
    /\ \A f \in BOOLEAN : [op |-> "PauseChanged", flag |-> f] \in Posted
    /\ [op |-> "FileLoaded"] \in Posted /\ [op |-> "PlaybackRestart"] \in Posted
<1>1. \A f \in BOOLEAN : [op |-> "PauseChanged", flag |-> f] \in Posted
  BY Zenon DEF Posted
<1>. QED
  BY <1>1 DEF Posted

LEMMA StartIsAPosition == Start \in 0..MaxTime
BY NativeAssumption DEF Start

\* A step of a loader posts an input or leaves the coordinator alone.
LEMMA LoadPosts ==
    ASSUME NativeInv, NEW l \in Loaders, Load(l)
    PROVE  UNCHANGED coordVars \/ \E in \in Posted : Posts(in)
<1>1. CASE Request(l) \/ GiveUp(l) \/ LoadFile(l) \/ Track(l)
  BY <1>1 DEF Request, GiveUp, LoadFile, Track
<1>2. CASE LoadStarting(l)
  <2>1. request[l].play \in Plays
    BY <1>2 DEF LoadStarting, NativeInv, RequestInv
  <2>. QED
    BY <1>2, <2>1, PostedInputs DEF LoadStarting
<1>3. CASE PostMediaType(l)
  BY <1>3, PostedInputs DEF PostMediaType
<1>4. CASE PostStart(l)
  BY <1>4, PostedInputs, StartIsAPosition DEF PostStart
<1>5. CASE LoadRejected(l)
  BY <1>5, PostedInputs DEF LoadRejected, EndReasons
<1>. QED
  BY <1>1, <1>2, <1>3, <1>4, <1>5 DEF Load, LoadIfCurrentSteps

\* So does a step of mpv.
LEMMA MpvPosts ==
    ASSUME NativeInv, Mpv
    PROVE  UNCHANGED coordVars \/ \E in \in Posted : Posts(in)
<1>1. CASE Command \/ Open \/ Tick
  BY <1>1 DEF Command, Open, Tick
<1>2. CASE EndStopped \/ Ends
  BY <1>2, PostedInputs DEF EndStopped, Ends, EndsFile, Emits, EndReasons
<1>3. CASE Loaded \/ FirstFrame
  BY <1>3, PostedInputs DEF Loaded, FirstFrame, Emits
<1>4. CASE ReportTime
  BY <1>4, PostedInputs DEF ReportTime, Emits, NativeInv, PlayerInv
<1>5. CASE ReportPause
  BY <1>5, PostedInputs, Zenon DEF ReportPause, Emits, NativeInv, PlayerInv
<1>. QED
  BY <1>1, <1>2, <1>3, <1>4, <1>5 DEF Mpv

\* Every step of the whole is a step of PlaybackBatches, or nothing to it.
LEMMA StepsAreBatched ==
    ASSUME NativeInv, [NativeNext]_allVars
    PROVE  \/ UNCHANGED coordVars \/ \E in \in Posted : Posts(in)
           \/ TakeBatch \/ ApplyInput \/ PublishBatch \/ DeliverEvent \/ FinishBatch
<1>1. CASE Work
  BY <1>1 DEF Work, Coordinate, SinkEvent, Finish
<1>2. CASE UNCHANGED allVars \/ (\E t \in Threads : HandOver(t)) \/ User
  BY <1>2 DEF allVars, HandOver, User, MediaKeyStop, PlayerStop, UserPause, UserSends,
              SwitchAccount
<1>. QED
  BY <1>1, <1>2, LoadPosts, MpvPosts DEF NativeNext

\* Each of them keeps inputs inputs, the machine's invariant, and the events of
\* the batch stamped.
LEMMA BatchInvKept ==
    ASSUME NativeInv, [NativeNext]_allVars
    PROVE  BatchInv'
<1>. USE DEF NativeInv
<1>1. CASE UNCHANGED smVars /\ ~ApplyInput
  <2>0. IInv'
    BY <1>1, StepIInv DEF BatchInv
  <2>1. CASE UNCHANGED coordVars
    BY <2>0, <2>1 DEF BatchInv, coordVars, batchVars
  <2>2. ASSUME NEW in \in Posted, Posts(in)
        PROVE  BatchInv'
    BY <2>0, <2>2, NativeAssumption DEF BatchInv, Posts, Enqueue
  <2>3. CASE TakeBatch
    BY <2>0, <2>3 DEF BatchInv, TakeBatch
  <2>4. CASE PublishBatch
    <3>1. out' \in Seq(Stamped)
      BY <2>4, PublishStamps DEF PublishBatch, BatchInv, IInv, TypeOK
    <3>. QED
      BY <2>0, <2>4, <3>1 DEF BatchInv, PublishBatch
  <2>5. CASE DeliverEvent
    BY <2>0, <2>5 DEF BatchInv, DeliverEvent
  <2>6. CASE FinishBatch
    BY <2>0, <2>6 DEF BatchInv, FinishBatch
  <2>. QED
    BY <1>1, <2>1, <2>2, <2>3, <2>4, <2>5, <2>6, StepsAreBatched
<1>2. CASE ApplyInput
  <2>1. /\ Handle(Head(batch)) /\ Head(batch) \in Inputs
        /\ out' = out \o Collected(emitted' \o OwnEvent(Head(batch)))
        /\ queue' = queue /\ batch' = Tail(batch) /\ batch # <<>> /\ next' = next
    BY <1>2 DEF ApplyInput, BatchInv
  <2>2. IInv'
    BY <2>1, HandleKeeps DEF BatchInv
  <2>3. out \in Seq(Stamped) /\ emitted' \in Seq(Event)
    BY <2>2 DEF BatchInv, IInv, TypeOK
  <2>4. out' \in Seq(Stamped)
    BY <2>1, <2>3, BatchExtended, Zenon
  <2>. QED
    BY <2>1, <2>2, <2>4 DEF BatchInv
<1>. QED
  BY <1>1, <1>2, StepsAreBatched
     DEF coordVars, Posts, TakeBatch, PublishBatch, DeliverEvent, FinishBatch
-----------------------------------------------------------------------------
(***************************************************************************)
(* The runtime's half.                                                     *)
(***************************************************************************)
\* The event sink: the position is one of the machine's, and a kind the sink does
\* not tell apart plans what a kind it ignores does.
LEMMA SinkEventIsAStep ==
    ASSUME NativeInv, SinkEvent
    PROVE  ReportNext
<1>. DEFINE kind == out[next].ev.kind
            position == out[next].snapshot.position
<1>1. PICK failed \in BOOLEAN : HandlePlaybackEvent(Sink, kind, position, failed)
  BY DEF SinkEvent
<1>2. position \in Spots
  <2>1. next \in DOMAIN out /\ out[next] \in Stamped
    BY DEF SinkEvent, DeliverEvent, NativeInv, BatchInv
  <2>2. position \in Positions
    BY <2>1 DEF Stamped, Snapshot
  <2>. QED
    BY <2>2, NativeAssumption
<1>. HIDE DEF kind, position
<1>3. CASE kind \in EventsHandled
  BY <1>1, <1>2, <1>3 DEF ReportNext
<1>4. CASE kind \notin EventsHandled
  <2>1. failed = FALSE
    BY <1>1, <1>4 DEF HandlePlaybackEvent, FilterFails, EventsHandled
  <2>2. PlanEvent(Sink, kind, position)
    BY <1>1, <2>1 DEF HandlePlaybackEvent
  <2>3. PlanEvent(Sink, "TrackLoaded", position)
    BY <1>4, <2>2, Zenon DEF PlanEvent, EventsHandled, TerminalKinds
  <2>4. HandlePlaybackEvent(Sink, "TrackLoaded", position, FALSE)
    BY <1>1, <2>3 DEF HandlePlaybackEvent
  <2>. QED
    BY <1>2, <2>4 DEF ReportNext, EventsHandled
<1>. QED
  BY <1>3, <1>4

\* A loader's step: load_if_current is the step that tracks the play, at which
\* the account is still the one it was checked for.
LEMMA LoadIsAStep ==
    ASSUME NativeInv, NEW l \in Loaders, Load(l)
    PROVE  ReportNext \/ UNCHANGED reportVars
<1>1. CASE Request(l) \/ GiveUp(l) \/ LoadRejected(l)
  BY <1>1 DEF Request, GiveUp, LoadRejected, ReportNext
<1>2. CASE LoadStarting(l) \/ PostMediaType(l) \/ PostStart(l) \/ LoadFile(l)
  BY <1>2 DEF LoadStarting, PostMediaType, PostStart, LoadFile
<1>3. CASE Track(l)
  <2>1. PICK holds \in BOOLEAN : Activate(l, Start, holds)
    BY <1>3 DEF Track
  <2>2. Working(l) /\ IsCurrent(l)
    BY <1>3, NativeAssumption DEF Track, NativeInv, LockInv, Free
  <2>3. Start \in Spots
    BY NativeAssumption, StartIsAPosition, PostedInputs, InputAssumption
  <2>. QED
    BY <2>1, <2>2, <2>3 DEF LoadIfCurrent, ReportNext
<1>. QED
  BY <1>1, <1>2, <1>3 DEF Load, LoadIfCurrentSteps

\* Every step of the whole is a step of PlaybackReports, or nothing to it.
LEMMA StepsAreReports ==
    ASSUME NativeInv, [NativeNext]_allVars
    PROVE  [ReportNext]_reportVars
<1>1. CASE Work
  BY <1>1, SinkEventIsAStep DEF Work, Coordinate, Finish
<1>2. CASE \E t \in Threads : HandOver(t)
  BY <1>2 DEF HandOver, ReportNext
<1>3. CASE Mpv
  BY <1>3 DEF Mpv, Command, EndStopped, Ends, EndsFile, Open, Loaded, FirstFrame, Tick,
              ReportTime, ReportPause, Emits, MpvOnly
<1>4. CASE User
  BY <1>4 DEF User, MediaKeyStop, PlayerStop, UserPause, SwitchAccount, ReportNext
<1>5. CASE UNCHANGED allVars
  BY <1>5 DEF allVars
<1>. QED
  BY <1>1, <1>2, <1>3, <1>4, <1>5, LoadIsAStep DEF NativeNext

\* Requests stay within their bound.
LEMMA RequestInvKept ==
    ASSUME RequestInv, [ReportNext]_reportVars
    PROVE  RequestInv'
<1>1. ASSUME NEW l \in Loaders, BeginRequest(l)
      PROVE  RequestInv'
  <2>1. /\ requests' = requests + 1 /\ requests < MaxPlays
        /\ request' = [request EXCEPT ![l] = [play |-> requests', generation |-> generation]]
    BY <1>1 DEF BeginRequest
  <2>2. requests' \in Plays /\ requests' \in 0..MaxPlays
    BY <2>1, BoundsAssumption DEF RequestInv, Plays
  <2>. QED
    BY <2>1, <2>2 DEF RequestInv, Working
<1>2. ASSUME NEW l \in Loaders, request' = [request EXCEPT ![l] = NoRequest],
             requests' = requests
      PROVE  RequestInv'
  BY <1>2 DEF RequestInv, Working
<1>3. CASE UNCHANGED <<requests, request>>
  BY <1>3 DEF RequestInv, Working
<1>. QED
  BY <1>1, <1>2, <1>3
     DEF ReportNext, HandlePlaybackEvent, EndRequest, LoadIfCurrent, Activate, ChangeAccount,
         Release, EnqueueReport, reportVars

\* While the lock is held nobody else takes it, and what is done without it
\* touches neither the requests nor the account.
LEMMA LockInvKept ==
    ASSUME NativeInv, [NativeNext]_allVars
    PROVE  LockInv'
<1>1. CASE UNCHANGED <<lock, generation, session, request>>
  BY <1>1 DEF NativeInv, LockInv, Free, Working, IsCurrent
<1>2. CASE Free /\ lock' = lock
  BY <1>2 DEF LockInv, Free
<1>3. ASSUME NEW l \in Loaders, Load(l)
      PROVE  LockInv'
  <2>1. CASE Request(l)
    <3>1. \A k \in Loaders : ~Working(k)
      BY <2>1 DEF Request, BeginRequest, Working
    <3>2. Free /\ lock' = lock
      BY <2>1, <3>1 DEF Request, loadVars, NativeInv, LockInv
    <3>. QED
      BY <1>2, <3>2
  <2>2. CASE GiveUp(l)
    BY <1>2, <2>2 DEF GiveUp, loadVars
  <2>3. CASE LoadStarting(l)
    BY <2>3, <1>3 DEF LoadStarting, LockInv, Working, IsCurrent, reportVars
  <2>4. CASE PostMediaType(l) \/ PostStart(l) \/ LoadFile(l)
    BY <1>1, <2>4 DEF PostMediaType, PostStart, LoadFile, reportVars
  <2>5. CASE LoadRejected(l) \/ Track(l)
    BY <2>5 DEF LoadRejected, Track, LockInv, Free
  <2>. QED
    BY <1>3, <2>1, <2>2, <2>3, <2>4, <2>5 DEF Load, LoadIfCurrentSteps
<1>4. CASE Work
  BY <1>1, <1>2, <1>4 DEF Work, Coordinate, SinkEvent, Finish, loadVars, reportVars
<1>5. CASE (\E t \in Threads : HandOver(t)) \/ Mpv \/ UNCHANGED allVars
  BY <1>1, <1>5
     DEF HandOver, EnqueueReport, loadVars, Mpv, Command, EndStopped, Ends, EndsFile, Open,
         Loaded, FirstFrame, Tick, ReportTime, ReportPause, Emits, MpvOnly, reportVars, allVars
<1>6. CASE User
  BY <1>1, <1>2, <1>6
     DEF User, MediaKeyStop, PlayerStop, UserPause, UserSends, SwitchAccount, Release,
         loadVars, reportVars
<1>. QED
  BY <1>3, <1>4, <1>5, <1>6 DEF NativeNext

\* Commands, positions and flags keep their types.
LEMMA PlayerInvKept ==
    ASSUME NativeInv, [NativeNext]_allVars
    PROVE  PlayerInv'
<1>. USE DEF NativeInv
<1>1. ASSUME NEW c \in Commands, cmds' = Append(cmds, c)
      PROVE  cmds' \in Seq(Commands)
  BY <1>1 DEF PlayerInv
<1>2. CASE UNCHANGED <<cmds, slot, pause, time>>
  BY <1>2 DEF PlayerInv
<1>3. ASSUME NEW l \in Loaders, Load(l)
      PROVE  PlayerInv'
  <2>1. CASE LoadFile(l)
    <3>1. request[l].play \in Plays
      BY <2>1, NativeAssumption DEF LoadFile, LockInv, Free, RequestInv
    <3>2. /\ [cmd |-> "loadfile", play |-> request[l].play] \in Commands
          /\ request[l].play \in 0..MaxPlays
      BY <3>1, BoundsAssumption DEF Commands, Plays
    <3>. QED
      BY <1>1, <2>1, <3>2 DEF LoadFile, PlayerInv
  <2>2. CASE LoadRejected(l)
    BY <2>2, BoundsAssumption DEF LoadRejected, PlayerInv, mpvVars
  <2>3. CASE Request(l) \/ GiveUp(l) \/ LoadStarting(l) \/ PostMediaType(l) \/ PostStart(l)
             \/ Track(l)
    BY <1>2, <2>3 DEF Request, GiveUp, LoadStarting, PostMediaType, PostStart, Track,
                      mpvVars, loadVars
  <2>. QED
    BY <1>3, <2>1, <2>2, <2>3 DEF Load, LoadIfCurrentSteps
<1>4. CASE Work
  <2>1. CASE Coordinate
    BY <1>2, <2>1 DEF Coordinate, mpvVars, loadVars
  <2>2. CASE SinkEvent
    <3>1. [cmd |-> "stop"] \in Commands
      BY DEF Commands
    <3>2. cmds' \in Seq(Commands)
      BY <1>1, <2>2, <3>1 DEF SinkEvent, PlayerInv
    <3>. QED
      BY <2>2, <3>2 DEF SinkEvent, PlayerInv, loadVars
  <2>3. CASE Finish
    <3>1. slot # 0 => [cmd |-> "select", play |-> slot] \in Commands
      BY BoundsAssumption DEF PlayerInv, Commands, Plays
    <3>2. cmds' \in Seq(Commands) /\ slot' \in 0..MaxPlays
      BY <1>1, <2>3, <3>1, BoundsAssumption DEF Finish, ApplyPendingSelection, PlayerInv
    <3>. QED
      BY <2>3, <3>2 DEF Finish, PlayerInv
  <2>. QED
    BY <1>4, <2>1, <2>2, <2>3 DEF Work
<1>5. CASE Mpv
  <2>1. CASE Command
    <3>1. Head(cmds) \in Commands /\ cmds' \in Seq(Commands)
      BY <2>1 DEF Command, PlayerInv
    <3>2. Head(cmds).cmd = "pause" => Head(cmds).on \in BOOLEAN
      BY <3>1 DEF Commands
    <3>3. pause' \in BOOLEAN
      BY <2>1, <3>2, Zenon DEF Command, PlayerInv
    <3>. QED
      BY <2>1, <3>1, <3>3 DEF Command, MpvOnly, loadVars, PlayerInv
  <2>2. CASE EndStopped \/ Ends \/ Open \/ Tick
    <3>1. UNCHANGED <<cmds, slot>>
      BY <2>2 DEF EndStopped, Ends, EndsFile, Open, Tick, Emits, MpvOnly, loadVars
    <3>2. pause' \in BOOLEAN
      BY <2>2, Zenon DEF EndStopped, Ends, EndsFile, Open, Tick, PlayerInv
    <3>3. \/ time' = time \/ time' = Start
          \/ time < MaxTime /\ time' = time + 1
      BY <2>2 DEF EndStopped, Ends, EndsFile, Open, Tick
    <3>4. time' \in 0..MaxTime
      BY <3>3, StartIsAPosition, NativeAssumption DEF PlayerInv
    <3>. QED
      BY <3>1, <3>2, <3>4 DEF PlayerInv
  <2>3. CASE Loaded \/ FirstFrame \/ ReportTime \/ ReportPause
    BY <1>2, <2>3 DEF Loaded, FirstFrame, ReportTime, ReportPause, Emits, MpvOnly, loadVars
  <2>. QED
    BY <1>5, <2>1, <2>2, <2>3 DEF Mpv
<1>6. CASE (\E t \in Threads : HandOver(t)) \/ UNCHANGED allVars \/ SwitchAccount
  BY <1>2, <1>6 DEF HandOver, SwitchAccount, mpvVars, loadVars, allVars
<1>7. ASSUME NEW c \in Commands, UserSends(c)
      PROVE  PlayerInv'
  BY <1>1, <1>7 DEF UserSends, loadVars, PlayerInv
<1>8. CASE MediaKeyStop \/ PlayerStop
  <2>1. [cmd |-> "stop"] \in Commands
    BY DEF Commands
  <2>. QED
    BY <1>7, <1>8, <2>1 DEF MediaKeyStop, PlayerStop
<1>9. CASE UserPause
  <2>1. \A on \in BOOLEAN : [cmd |-> "pause", on |-> on] \in Commands
    BY Zenon DEF Commands
  <2>. QED
    BY <1>7, <1>9, <2>1 DEF UserPause
<1>. QED
  BY <1>3, <1>4, <1>5, <1>6, <1>8, <1>9 DEF NativeNext, User

-----------------------------------------------------------------------------
\* At the start nothing is on its way.
LEMMA NativeInitInv == NativeInit => NativeInv
<1>. SUFFICES ASSUME NativeInit PROVE NativeInv
  OBVIOUS
<1>1. RequestInv
  BY BoundsAssumption DEF NativeInit, ReportInit, RequestInv, Working
<1>2. LockInv
  BY DEF NativeInit, LockInv, Free
<1>3. PlayerInv
  <2>1. pause \in BOOLEAN
    BY Zenon DEF NativeInit
  <2>. QED
    BY <2>1, BoundsAssumption, NativeAssumption DEF NativeInit, PlayerInv
<1>4. BatchInv
  BY InitIInv DEF NativeInit, BatchInit, BatchInv
<1>. QED
  BY <1>1, <1>2, <1>3, <1>4 DEF NativeInv

LEMMA NativeInvariance == NativeSpec => []NativeInv
<1>1. NativeInv /\ [NativeNext]_allVars => NativeInv'
  <2>. SUFFICES ASSUME NativeInv, [NativeNext]_allVars PROVE NativeInv'
    OBVIOUS
  <2>1. RequestInv'
    BY StepsAreReports, RequestInvKept DEF NativeInv
  <2>. QED
    BY <2>1, LockInvKept, PlayerInvKept, BatchInvKept DEF NativeInv
<1>. QED
  BY <1>1, NativeInitInv, PTL DEF NativeSpec

\* load_if_current is one step of the runtime, for any loaders, accounts and
\* events: between its check of the account and the play it tracks nothing comes,
\* although its posts and its command are seen by others on the way.
THEOREM LoadsAreWhole == NativeSpec => LoadsAreAtomic
<1>1. NativeInit => ReportInit
  BY DEF NativeInit
<1>2. NativeInv /\ [NativeNext]_allVars => [ReportNext]_reportVars
  BY StepsAreReports
<1>. QED
  BY <1>1, <1>2, NativeInvariance, PTL DEF NativeSpec, LoadsAreAtomic, ReportSpec

\* Whatever the loader and mpv post, in whatever order, the coordinator's half is
\* PlaybackBatches: the sinks' handlers add nothing to it and hold nothing back.
THEOREM NativeIsBatched == NativeSpec => BatchSpec
<1>1. NativeInit => BatchInit
  BY DEF NativeInit
<1>2. NativeInv /\ [NativeNext]_allVars => [BatchNext]_<<smVars, batchVars>>
  <2>. SUFFICES ASSUME NativeInv, [NativeNext]_allVars
                PROVE  [BatchNext]_<<smVars, batchVars>>
    OBVIOUS
  <2>1. ASSUME NEW in \in Posted, Posts(in)
        PROVE  BatchNext
    BY <2>1, NativeAssumption DEF Posts, Enqueues, BatchNext
  <2>2. UNCHANGED coordVars => UNCHANGED <<smVars, batchVars>>
    BY DEF coordVars
  <2>. QED
    BY <2>1, <2>2, StepsAreBatched DEF BatchNext, BatchStep
<1>. QED
  BY <1>1, <1>2, NativeInvariance, PTL DEF NativeSpec, BatchSpec

\* Under native playback the machine keeps its promises, whatever races between
\* the loader, mpv and the user.
THEOREM MachineSafeInNative ==
    NativeSpec => [](StoppedIsClean /\ PauseIntent /\ StallIsReal /\ VariantSwitchSpansReload)
<1>1. NativeInv => StoppedIsClean /\ PauseIntent /\ StallIsReal /\ VariantSwitchSpansReload
  BY DEF NativeInv, BatchInv, IInv
<1>. QED
  BY <1>1, NativeInvariance, PTL

-----------------------------------------------------------------------------
(***************************************************************************)
(* Where the player settles.  What the threads have posted and the machine *)
(* has not handled decides what it will be once it has: an outlook is the  *)
(* machine's phase and pending load, and what the runtime will make of the *)
(* play that is tracked when it has handled the events on their way.       *)
(***************************************************************************)
Outlook == [phase : Phases, pending : BOOLEAN, play : {"none", "waiting", "started"}]

\* A play whose Started is handled.
Begun(play) == IF play = "waiting" THEN "started" ELSE play

\* What an input makes of an outlook, as far as the phase and the announced load
\* determine it: Starting may be left when the file has what it needs.
Makes(m, in, n) ==
    \/ /\ in.op = "FileLoaded"
       /\ n.phase = "Starting" /\ ~n.pending /\ n.play = m.play
    \/ /\ in.op = "LoadStarting"
       /\ n.phase = "Starting" /\ n.pending /\ n.play = m.play
    \/ /\ in.op = "EndFile" /\ m.pending /\ in.reason # "Error"
       /\ n.phase = "Starting" /\ ~n.pending /\ n.play = m.play
    \/ /\ in.op = "EndFile" /\ (~m.pending \/ in.reason = "Error")
       /\ n.phase = "Stopped" /\ ~n.pending /\ n.play = "none"
    \/ /\ in.op = "PauseChanged" /\ in.flag /\ m.phase # "Stopped"
       /\ n.phase = "Paused" /\ n.pending = m.pending /\ n.play = m.play
    \/ /\ \/ in.op = "PauseChanged" /\ ~in.flag /\ m.phase \in {"Starting", "Paused"}
          \/ in.op \in {"PlaybackRestart", "MediaType"} /\ m.phase = "Starting"
       /\ n.phase = "Playing" /\ n.pending = m.pending /\ n.play = Begun(m.play)
    \/ /\ \/ in.op \in {"Position", "MediaType"}
          \/ in.op = "PlaybackRestart" /\ m.phase # "Starting"
          \/ in.op = "PauseChanged" /\ m.phase = "Stopped"
          \/ in.op = "PauseChanged" /\ ~in.flag /\ m.phase \in {"Starting", "Playing"}
       /\ n = m

\* Outlook n is reached from m by handling the inputs in turn.
Leads(m, inputs, n) ==
    \E r \in [1..Len(inputs) + 1 -> Outlook] :
        /\ r[1] = m /\ r[Len(inputs) + 1] = n
        /\ \A i \in 1..Len(inputs) : Makes(r[i], inputs[i], r[i + 1])

\* Without inputs an outlook is what is.
LEMMA LeadsNowhere ==
    ASSUME NEW m, NEW n, Leads(m, <<>>, n)
    PROVE  n = m
BY DEF Leads

\* One input more is handled last.
LEMMA LeadsOneMore ==
    ASSUME NEW inputs \in Seq(Posted), NEW in \in Posted, NEW m, NEW n,
           Leads(m, Append(inputs, in), n)
    PROVE  \E v \in Outlook : Leads(m, inputs, v) /\ Makes(v, in, n)
<1>. DEFINE k == Len(inputs)
            more == Append(inputs, in)
<1>1. /\ k \in Nat /\ Len(more) = k + 1 /\ more[k + 1] = in
      /\ \A i \in 1..k : more[i] = inputs[i]
  OBVIOUS
<1>2. PICK r \in [1..k + 2 -> Outlook] :
          /\ r[1] = m /\ r[k + 2] = n
          /\ \A i \in 1..k + 1 : Makes(r[i], more[i], r[i + 1])
  <2>1. Len(more) + 1 = k + 2
    BY <1>1
  <2>. HIDE DEF more, k
  <2>. QED
    BY <1>1, <2>1 DEF Leads, more
<1>. HIDE DEF more, k
<1>3. DEFINE v == r[k + 1]
             q == [i \in 1..k + 1 |-> r[i]]
<1>4. v \in Outlook /\ q \in [1..k + 1 -> Outlook]
  BY <1>1, <1>2
<1>5. Makes(v, in, n)
  <2>1. k + 1 \in 1..k + 1 /\ (k + 1) + 1 = k + 2
    BY <1>1
  <2>. QED
    BY <1>1, <1>2, <2>1
<1>6. Leads(m, inputs, v)
  <2>1. \A i \in 1..k : /\ i \in 1..k + 1 /\ i + 1 \in 1..k + 1
                        /\ q[i] = r[i] /\ q[i + 1] = r[i + 1] /\ more[i] = inputs[i]
    BY <1>1
  <2>2. \A i \in 1..k : Makes(q[i], inputs[i], q[i + 1])
    BY <1>2, <2>1
  <2>3. q[1] = m /\ q[k + 1] = v
    BY <1>1, <1>2
  <2>. HIDE DEF q, v
  <2>. QED
    BY <1>4, <2>2, <2>3 DEF Leads, k
<1>. QED
  BY <1>4, <1>5, <1>6

\* The input handled first may be handled now.
LEMMA LeadsOneLess ==
    ASSUME NEW inputs \in Seq(Posted), inputs # <<>>, NEW m \in Outlook, NEW n,
           NEW now \in Outlook, Makes(m, Head(inputs), now), Leads(now, Tail(inputs), n)
    PROVE  Leads(m, inputs, n)
<1>. DEFINE k == Len(inputs)
            rest == Tail(inputs)
<1>1. /\ k \in Nat \ {0} /\ Len(rest) = k - 1 /\ Head(inputs) = inputs[1]
      /\ \A i \in 1..k - 1 : rest[i] = inputs[i + 1]
  OBVIOUS
<1>2. PICK r \in [1..k -> Outlook] :
          /\ r[1] = now /\ r[k] = n
          /\ \A i \in 1..k - 1 : Makes(r[i], rest[i], r[i + 1])
  <2>1. Len(rest) + 1 = k
    BY <1>1
  <2>. HIDE DEF rest, k
  <2>. QED
    BY <1>1, <2>1 DEF Leads, rest
<1>. HIDE DEF rest, k
<1>3. DEFINE q == [i \in 1..k + 1 |-> IF i = 1 THEN m ELSE r[i - 1]]
<1>4. q \in [1..k + 1 -> Outlook]
  BY <1>1, <1>2
<1>5. q[1] = m /\ q[k + 1] = n
  BY <1>1, <1>2
<1>6. ASSUME NEW i \in 1..k
      PROVE  Makes(q[i], inputs[i], q[i + 1])
  <2>1. CASE i = 1
    <3>1. q[1] = m /\ q[1 + 1] = now
      BY <1>1, <1>2
    <3>. QED
      BY <1>1, <2>1, <3>1
  <2>2. CASE i # 1
    <3>1. /\ i - 1 \in 1..k - 1 /\ q[i] = r[i - 1] /\ q[i + 1] = r[(i - 1) + 1]
          /\ inputs[i] = rest[i - 1]
      BY <1>1, <2>2
    <3>. QED
      BY <1>2, <3>1
  <2>. QED
    BY <2>1, <2>2
<1>. HIDE DEF q
<1>. QED
  BY <1>4, <1>5, <1>6 DEF Leads, k

-----------------------------------------------------------------------------
\* Nothing posted here reports a stall.
Calm == ~paused_for_cache /\ ~core_idle /\ ~s.buffering

\* Of a handler's step: the phase and the pending load it ends with, and the
\* kinds of events it returns.
Steps(phase, pending, kinds) ==
    /\ s'.phase = phase /\ pending_load' = pending /\ KindsIn(emitted') = kinds
    /\ ~s'.buffering /\ UNCHANGED <<paused_for_cache, core_idle>>

\* An input that is ignored.
LEMMA QuietSteps ==
    ASSUME IInv, Calm, Ignored
    PROVE  Steps(s.phase, pending_load, {}) /\ actions' = <<>>
BY KindsOf DEF Ignored, Returns, Steps, Calm

\* A load is announced, or its file is loaded.
LEMMA LoadingSteps ==
    ASSUME IInv, Calm
    PROVE  /\ OnFileLoaded => Steps("Starting", FALSE, {"TrackLoaded"}) /\ actions' # <<>>
           /\ \A item : OnLoadStarting(item) =>
                  Steps("Starting", TRUE, {"TrackLoaded"}) /\ actions' = <<>>
<1>1. KindsIn(<<Ev("TrackLoaded")>>) = {"TrackLoaded"}
  <2>1. Ev("TrackLoaded").kind = "TrackLoaded"
    BY KindsOf
  <2>2. KindsIn(<<Ev("TrackLoaded")>>) = {Ev("TrackLoaded").kind}
    BY KindsOf
  <2>. QED
    BY <2>1, <2>2
<1>2. StartingSnapshot.phase = "Starting" /\ ~StartingSnapshot.buffering
      /\ StartingSnapshot \in Snapshot
  <2>1. StartingSnapshot = [s EXCEPT !.presence = "Present", !.phase = "Starting",
                                     !.seeking = FALSE, !.buffering = FALSE]
    BY Zenon DEF StartingSnapshot, Calm
  <2>. QED
    BY <2>1 DEF IInv, TypeOK, Snapshot, Phases
<1>3. ASSUME OnFileLoaded
      PROVE  Steps("Starting", FALSE, {"TrackLoaded"}) /\ actions' # <<>>
  BY <1>1, <1>2, <1>3 DEF OnFileLoaded, Steps
<1>4. ASSUME NEW item, OnLoadStarting(item)
      PROVE  Steps("Starting", TRUE, {"TrackLoaded"}) /\ actions' = <<>>
  <2>1. s'.phase = "Starting" /\ ~s'.buffering
    BY <1>2, <1>4 DEF OnLoadStarting, Snapshot
  <2>. QED
    BY <1>1, <1>4, <2>1 DEF OnLoadStarting, Steps, Returns
<1>. QED
  BY <1>3, <1>4

\* The end of a file stops the machine, unless it was announced to.
LEMMA EndSteps ==
    ASSUME IInv, Calm, NEW reason \in EndReasons, OnEndFile(reason)
    PROVE  /\ actions' = <<>>
           /\ \E kinds :
                  \/ /\ pending_load /\ reason # "Error"
                     /\ Steps("Starting", FALSE, kinds)
                     /\ kinds \cap {"Started", "Finished", "Canceled", "Error"} = {}
                  \/ /\ ~pending_load \/ reason = "Error"
                     /\ Steps("Stopped", FALSE, kinds)
                     /\ kinds \cap TerminalKinds # {}
<1>1. CASE SwallowsEnd(reason) /\ EndSwallowed
  <2>1. s'.phase = "Starting" /\ emitted' = EndFlagEvents /\ actions' = <<>> /\ ~s'.buffering
        /\ ~pending_load' /\ pending_load' \in BOOLEAN
    BY <1>1 DEF EndSwallowed, Returns, IInv, TypeOK, Snapshot
  <2>2. UNCHANGED <<paused_for_cache, core_idle>> /\ pending_load /\ reason # "Error"
    BY <1>1 DEF EndSwallowed, SwallowsEnd
  <2>3. KindsIn(emitted') \cap {"Started", "Finished", "Canceled", "Error"} = {}
    BY <2>1, EndFlagKinds
  <2>. QED
    BY <2>1, <2>2, <2>3 DEF Steps
<1>2. CASE ~SwallowsEnd(reason) /\ EndTerminal(reason)
  <2>1. /\ s'.phase = "Stopped" /\ ~s'.buffering /\ actions' = <<>>
        /\ ~pending_load' /\ pending_load' \in BOOLEAN
        /\ emitted' = Append(EndFlagEvents, Ev(Terminal(reason)))
    BY <1>2 DEF EndTerminal, Returns, IInv, TypeOK, Snapshot
  <2>2. Terminal(reason) \in {"Finished", "Canceled", "Error"}
    BY DEF EndReasons, Terminal
  <2>3. Ev(Terminal(reason)) \in Event /\ Ev(Terminal(reason)).kind = Terminal(reason)
    BY <2>2, EventsAreTyped, KindsOf DEF EventKinds
  <2>4. KindsIn(emitted') = KindsIn(EndFlagEvents) \cup {Terminal(reason)}
    BY <2>1, <2>3, EndFlagEventsTyped, KindsOf
  <2>5. KindsIn(emitted') \cap TerminalKinds # {}
    BY <2>2, <2>4 DEF TerminalKinds
  <2>6. UNCHANGED <<paused_for_cache, core_idle>> /\ (~pending_load \/ reason = "Error")
    BY <1>2 DEF EndTerminal, SwallowsEnd
  <2>. QED
    BY <2>1, <2>5, <2>6 DEF Steps
<1>. QED
  BY <1>1, <1>2 DEF OnEndFile

\* A handler that may promote a starting or paused file.
LEMMA SettlingSteps ==
    ASSUME IInv, Calm, NEW snap \in Snapshot, NEW evs \in Seq(Event), NEW promote \in BOOLEAN,
           SettlesAs(snap, evs, promote), ~snap.buffering,
           UNCHANGED <<pending_load, paused_for_cache, core_idle>>
    PROVE  /\ actions' = <<>>
           /\ promote  => Steps("Playing", pending_load, KindsIn(evs) \cup {"Started"})
           /\ ~promote => Steps(snap.phase, pending_load, KindsIn(evs))
<1>1. /\ s'.phase = IF promote THEN "Playing" ELSE snap.phase
      /\ s'.buffering = snap.buffering
  BY SettledFields
<1>2. Ev("Started") \in Event /\ Ev("Started").kind = "Started"
  BY EventsAreTyped, KindsOf DEF EventKinds
<1>3. KindsIn(emitted') = IF promote THEN KindsIn(evs) \cup {"Started"} ELSE KindsIn(evs)
  <2>1. emitted' = IF promote THEN Append(evs, Ev("Started")) ELSE evs
    BY DEF SettlesAs, Returns
  <2>2. KindsIn(Append(evs, Ev("Started"))) = KindsIn(evs) \cup {"Started"}
    BY <1>2, KindsOf
  <2>. QED
    BY <2>1, <2>2
<1>. QED
  BY <1>1, <1>3 DEF Steps, SettlesAs, Returns

\* mpv's pause is heeded unless the machine is stopped.
LEMMA PauseSteps ==
    ASSUME IInv, Calm, NEW paused \in BOOLEAN, OnPauseChanged(paused)
    PROVE  /\ actions' = <<>>
           /\ \E kinds :
                  \/ /\ paused /\ s.phase # "Stopped"
                     /\ Steps("Paused", pending_load, kinds)
                     /\ kinds \cap {"Started", "Finished", "Canceled", "Error"} = {}
                  \/ /\ ~paused /\ s.phase \in {"Starting", "Paused"}
                     /\ Steps("Playing", pending_load, {"Started"})
                  \/ /\ \/ s.phase = "Stopped"
                        \/ ~paused /\ s.phase \in {"Starting", "Playing"}
                     /\ Steps(s.phase, pending_load, {})
<1>0. s \in Snapshot /\ (s.presence = "None" <=> s.phase = "Stopped")
  BY DEF IInv, TypeOK, StoppedIsClean
<1>1. CASE s.phase = "Stopped"
  BY <1>0, <1>1, QuietSteps DEF OnPauseChanged
<1>2. CASE s.phase # "Stopped" /\ paused /\ Pausing
  <2>1. s' = [s EXCEPT !.phase = "Paused", !.buffering = FALSE]
    BY <1>2 DEF Pausing
  <2>2. s'.phase = "Paused" /\ ~s'.buffering
    BY <1>0, <2>1 DEF Snapshot
  <2>3. emitted' = <<Ev("Paused")>> /\ actions' = <<>>
    <3>1. Cleared("BufferingChanged", s.buffering) = <<>>
      BY Zenon DEF Cleared, Calm
    <3>2. Append(<<>>, Ev("Paused")) = <<Ev("Paused")>>
      OBVIOUS
    <3>. QED
      BY <1>2, <3>1, <3>2 DEF Pausing, Returns
  <2>4. KindsIn(emitted') = {"Paused"}
    BY <2>3, KindsOf
  <2>. QED
    BY <1>0, <1>1, <1>2, <2>2, <2>3, <2>4 DEF OnPauseChanged, Steps
<1>3. CASE s.phase # "Stopped" /\ ~paused /\ Resuming
  <2>1. UNCHANGED <<pending_load, paused_for_cache, core_idle>>
    BY <1>0, <1>3 DEF OnPauseChanged
  <2>2. SettlesAs(s, <<>>, TRUE) /\ s.phase \in {"Starting", "Paused"}
    BY <1>3 DEF Resuming
  <2>3. <<>> \in Seq(Event) /\ TRUE \in BOOLEAN /\ ~s.buffering
    BY DEF Calm
  <2>4. actions' = <<>> /\ Steps("Playing", pending_load, KindsIn(<<>>) \cup {"Started"})
    BY <1>0, <2>1, <2>2, <2>3, SettlingSteps, Zenon
  <2>. QED
    BY <1>3, <2>2, <2>4, KindsOf
<1>4. CASE s.phase # "Stopped" /\ PauseOnlyNoted(paused)
  <2>1. UNCHANGED <<pending_load, paused_for_cache, core_idle>> /\ UNCHANGED s
        /\ emitted' = <<>> /\ actions' = <<>>
    BY <1>0, <1>4 DEF OnPauseChanged, PauseOnlyNoted, Returns
  <2>2. Steps(s.phase, pending_load, {})
    BY <2>1, KindsOf DEF Steps, Calm
  <2>3. IF paused THEN s.phase = "Paused" ELSE s.phase \in {"Starting", "Playing"}
    BY <1>4 DEF PauseOnlyNoted
  <2>. QED
    BY <1>4, <2>1, <2>2, <2>3
<1>. QED
  BY <1>0, <1>1, <1>2, <1>3, <1>4 DEF OnPauseChanged

\* The first frame ends Starting.
LEMMA FrameSteps ==
    ASSUME IInv, Calm, OnPlaybackRestart
    PROVE  /\ actions' = <<>>
           /\ s.phase = "Starting"  => Steps("Playing", pending_load, {"Started"})
           /\ s.phase # "Starting" => Steps(s.phase, pending_load, {})
<1>. DEFINE promote == s.phase = "Starting" /\ ~s.buffering
<1>1. SettlesAs(s, <<>>, promote) /\ UNCHANGED <<pending_load, paused_for_cache, core_idle>>
  BY DEF OnPlaybackRestart
<1>2. /\ s \in Snapshot /\ <<>> \in Seq(Event) /\ promote \in BOOLEAN /\ ~s.buffering
      /\ promote <=> s.phase = "Starting"
  BY DEF IInv, TypeOK, Calm
<1>. HIDE DEF promote
<1>3. /\ actions' = <<>>
      /\ promote  => Steps("Playing", pending_load, KindsIn(<<>>) \cup {"Started"})
      /\ ~promote => Steps(s.phase, pending_load, KindsIn(<<>>))
  BY <1>1, <1>2, SettlingSteps, Zenon
<1>. QED
  BY <1>2, <1>3, KindsOf

\* The media type may end Starting too.
LEMMA TypeSteps ==
    ASSUME IInv, Calm, NEW ty \in MediaTypes, OnMediaType(ty)
    PROVE  /\ actions' = <<>>
           /\ \E kinds \in SUBSET {"MediaTypeChanged"} :
                  \/ s.phase = "Starting" /\ Steps("Playing", pending_load, kinds \cup {"Started"})
                  \/ Steps(s.phase, pending_load, kinds)
<1>1. CASE Ignored
  BY <1>1, QuietSteps
<1>2. CASE ~Ignored
  <2>. DEFINE snap    == [s EXCEPT !.media_type = ty]
              promote == /\ s.phase = "Starting"
                         /\ pause_requested
                         /\ ~s.buffering
                         /\ ReadyToPlay(ty, frame_available)
              evs     == <<Ev("MediaTypeChanged")>>
  <2>1. /\ promote \in BOOLEAN /\ SettlesAs(snap, evs, promote)
        /\ UNCHANGED <<pending_load, paused_for_cache, core_idle>>
        /\ promote => s.phase = "Starting"
    BY <1>2 DEF OnMediaType
  <2>2. snap \in Snapshot /\ snap.phase = s.phase /\ ~snap.buffering
    BY DEF IInv, TypeOK, Snapshot, Calm
  <2>3. evs \in Seq(Event) /\ KindsIn(evs) = {"MediaTypeChanged"}
    <3>1. Ev("MediaTypeChanged") \in Event /\ Ev("MediaTypeChanged").kind = "MediaTypeChanged"
      BY EventsAreTyped, KindsOf DEF EventKinds
    <3>2. KindsIn(evs) = {Ev("MediaTypeChanged").kind}
      BY KindsOf
    <3>. QED
      BY <3>1, <3>2, ShortSequences
  <2>. HIDE DEF snap, promote, evs
  <2>4. /\ actions' = <<>>
        /\ promote  => Steps("Playing", pending_load, KindsIn(evs) \cup {"Started"})
        /\ ~promote => Steps(snap.phase, pending_load, KindsIn(evs))
    BY <2>1, <2>2, <2>3, SettlingSteps, Zenon
  <2>. QED
    BY <2>1, <2>2, <2>3, <2>4
<1>. QED
  BY <1>1, <1>2

\* A position leaves the phase alone.
LEMMA PositionSteps ==
    ASSUME IInv, Calm, NEW position \in Positions, OnPosition(position)
    PROVE  /\ actions' = <<>>
           /\ \E kinds \in SUBSET {"SeekingChanged", "PositionChanged"} :
                  Steps(s.phase, pending_load, kinds)
<1>1. CASE Ignored
  BY <1>1, QuietSteps
<1>2. CASE ~Ignored
  <2>. DEFINE cleared == Cleared("SeekingChanged", s.seeking)
  <2>1. /\ s' = [s EXCEPT !.position = position, !.seeking = FALSE]
        /\ emitted' = Append(cleared, Ev("PositionChanged")) /\ actions' = <<>>
        /\ UNCHANGED <<pending_load, paused_for_cache, core_idle>>
    BY <1>2 DEF OnPosition, SnapshotOnly, Returns
  <2>2. s'.phase = s.phase /\ ~s'.buffering /\ s.seeking \in BOOLEAN
    BY <2>1 DEF IInv, TypeOK, Snapshot, Calm
  <2>3. cleared \in Seq(Event)
    BY <2>2, EventsAreTyped DEF EventKinds
  <2>4. KindsIn(cleared) \subseteq {"SeekingChanged"}
    BY <2>2, ClearedKinds, Zenon
  <2>5. Ev("PositionChanged") \in Event /\ Ev("PositionChanged").kind = "PositionChanged"
    BY EventsAreTyped, KindsOf DEF EventKinds
  <2>. HIDE DEF cleared
  <2>6. KindsIn(emitted') = KindsIn(cleared) \cup {"PositionChanged"}
    BY <2>1, <2>3, <2>5, KindsOf
  <2>7. Steps(s.phase, pending_load, KindsIn(emitted'))
    BY <2>1, <2>2 DEF Steps
  <2>. QED
    BY <2>1, <2>4, <2>6, <2>7
<1>. QED
  BY <1>1, <1>2

\* What the runtime makes of the play when it handles events of these kinds.
Handled(kinds, play) ==
    IF kinds \cap TerminalKinds # {} THEN "none"
    ELSE IF "Started" \in kinds THEN Begun(play) ELSE play

\* The outlook when every input is handled.
View(phase, pending, play) == [phase |-> phase, pending |-> pending, play |-> play]

\* A handler makes of the outlook what its input makes of it, and only the handler
\* of a loaded file pushes an action.
LEMMA HandleMakes ==
    ASSUME IInv, Calm, NEW in \in Posted, Handle(in), NEW play
    PROVE  /\ Makes(View(s.phase, pending_load, play), in,
                    View(s'.phase, pending_load', Handled(KindsIn(emitted'), play)))
           /\ Calm'
           /\ actions' # <<>> <=> in.op = "FileLoaded"
<1>1. /\ in.op \in {"LoadStarting", "MediaType", "Position", "EndFile", "PauseChanged",
                    "FileLoaded", "PlaybackRestart"}
      /\ in \in Inputs /\ pending_load \in BOOLEAN
  BY NativeAssumption DEF Posted, IInv, TypeOK
<1>2. ASSUME NEW phase, NEW pending, NEW kinds, Steps(phase, pending, kinds),
             Makes(View(s.phase, pending_load, play), in,
                   View(phase, pending, Handled(kinds, play)))
      PROVE  /\ Makes(View(s.phase, pending_load, play), in,
                      View(s'.phase, pending_load', Handled(KindsIn(emitted'), play)))
             /\ Calm'
  BY <1>2, Zenon DEF Steps, Calm
<1>3. CASE in.op = "FileLoaded"
  <2>1. Steps("Starting", FALSE, {"TrackLoaded"}) /\ actions' # <<>>
    BY <1>3, LoadingSteps DEF Handle
  <2>2. Makes(View(s.phase, pending_load, play), in,
              View("Starting", FALSE, Handled({"TrackLoaded"}, play)))
    BY <1>3 DEF Makes, View, Handled, TerminalKinds
  <2>. QED
    BY <1>2, <1>3, <2>1, <2>2, Zenon
<1>4. CASE in.op = "LoadStarting"
  <2>1. Steps("Starting", TRUE, {"TrackLoaded"}) /\ actions' = <<>>
    BY <1>4, LoadingSteps DEF Handle
  <2>2. Makes(View(s.phase, pending_load, play), in,
              View("Starting", TRUE, Handled({"TrackLoaded"}, play)))
    BY <1>4 DEF Makes, View, Handled, TerminalKinds
  <2>. QED
    BY <1>2, <1>4, <2>1, <2>2, Zenon
<1>5. CASE in.op = "EndFile"
  <2>1. in.reason \in EndReasons /\ OnEndFile(in.reason)
    BY <1>1, <1>5, InputAssumption DEF Handle
  <2>2. PICK kinds :
            \/ /\ pending_load /\ in.reason # "Error"
               /\ Steps("Starting", FALSE, kinds)
               /\ kinds \cap {"Started", "Finished", "Canceled", "Error"} = {}
            \/ /\ ~pending_load \/ in.reason = "Error"
               /\ Steps("Stopped", FALSE, kinds)
               /\ kinds \cap TerminalKinds # {}
    BY <2>1, EndSteps
  <2>3. actions' = <<>>
    BY <2>1, EndSteps
  <2>4. CASE pending_load /\ in.reason # "Error"
    <3>1. /\ Steps("Starting", FALSE, kinds)
          /\ kinds \cap {"Started", "Finished", "Canceled", "Error"} = {}
      BY <2>2, <2>4
    <3>2. Handled(kinds, play) = play
      BY <3>1 DEF Handled, TerminalKinds
    <3>3. Makes(View(s.phase, pending_load, play), in,
                View("Starting", FALSE, Handled(kinds, play)))
      BY <1>5, <2>4, <3>2 DEF Makes, View
    <3>. QED
      BY <1>2, <1>5, <2>3, <3>1, <3>3, Zenon
  <2>5. CASE ~(pending_load /\ in.reason # "Error")
    <3>1. Steps("Stopped", FALSE, kinds) /\ kinds \cap TerminalKinds # {}
      BY <2>2, <2>5
    <3>2. Handled(kinds, play) = "none"
      BY <3>1 DEF Handled
    <3>3. Makes(View(s.phase, pending_load, play), in,
                View("Stopped", FALSE, Handled(kinds, play)))
      BY <1>5, <2>5, <3>2 DEF Makes, View
    <3>. QED
      BY <1>2, <1>5, <2>3, <3>1, <3>3, Zenon
  <2>. QED
    BY <2>4, <2>5
<1>6. CASE in.op = "PauseChanged"
  <2>1. in.flag \in BOOLEAN /\ OnPauseChanged(in.flag)
    BY <1>1, <1>6, InputAssumption DEF Handle
  <2>2. PICK kinds :
            \/ /\ in.flag /\ s.phase # "Stopped"
               /\ Steps("Paused", pending_load, kinds)
               /\ kinds \cap {"Started", "Finished", "Canceled", "Error"} = {}
            \/ /\ ~in.flag /\ s.phase \in {"Starting", "Paused"}
               /\ Steps("Playing", pending_load, {"Started"})
            \/ /\ \/ s.phase = "Stopped"
                  \/ ~in.flag /\ s.phase \in {"Starting", "Playing"}
               /\ Steps(s.phase, pending_load, {})
    BY <2>1, PauseSteps
  <2>3. actions' = <<>>
    BY <2>1, PauseSteps
  <2>4. CASE /\ in.flag /\ s.phase # "Stopped" /\ Steps("Paused", pending_load, kinds)
             /\ kinds \cap {"Started", "Finished", "Canceled", "Error"} = {}
    <3>1. Makes(View(s.phase, pending_load, play), in,
                View("Paused", pending_load, Handled(kinds, play)))
      <4>1. Handled(kinds, play) = play
        BY <2>4 DEF Handled, TerminalKinds
      <4>. QED
        BY <1>6, <2>4, <4>1 DEF Makes, View
    <3>. QED
      BY <1>2, <1>6, <2>3, <2>4, <3>1, Zenon
  <2>5. CASE /\ ~in.flag /\ s.phase \in {"Starting", "Paused"}
             /\ Steps("Playing", pending_load, {"Started"})
    <3>1. Makes(View(s.phase, pending_load, play), in,
                View("Playing", pending_load, Handled({"Started"}, play)))
      BY <1>6, <2>5 DEF Makes, View, Handled, TerminalKinds
    <3>. QED
      BY <1>2, <1>6, <2>3, <2>5, <3>1, Zenon
  <2>6. CASE /\ \/ s.phase = "Stopped"
                \/ ~in.flag /\ s.phase \in {"Starting", "Playing"}
             /\ Steps(s.phase, pending_load, {})
    <3>1. Makes(View(s.phase, pending_load, play), in,
                View(s.phase, pending_load, Handled({}, play)))
      BY <1>6, <2>6 DEF Makes, View, Handled, TerminalKinds
    <3>. QED
      BY <1>2, <1>6, <2>3, <2>6, <3>1, Zenon
  <2>. QED
    BY <2>2, <2>4, <2>5, <2>6
<1>7. CASE in.op = "PlaybackRestart"
  <2>1. OnPlaybackRestart
    BY <1>7 DEF Handle
  <2>2. CASE s.phase = "Starting"
    <3>1. Steps("Playing", pending_load, {"Started"}) /\ actions' = <<>>
      BY <2>1, <2>2, FrameSteps
    <3>2. Makes(View(s.phase, pending_load, play), in,
                View("Playing", pending_load, Handled({"Started"}, play)))
      BY <1>7, <2>2 DEF Makes, View, Handled, TerminalKinds
    <3>. QED
      BY <1>2, <1>7, <3>1, <3>2, Zenon
  <2>3. CASE s.phase # "Starting"
    <3>1. Steps(s.phase, pending_load, {}) /\ actions' = <<>>
      BY <2>1, <2>3, FrameSteps
    <3>2. Makes(View(s.phase, pending_load, play), in,
                View(s.phase, pending_load, Handled({}, play)))
      BY <1>7, <2>3 DEF Makes, View, Handled, TerminalKinds
    <3>. QED
      BY <1>2, <1>7, <3>1, <3>2, Zenon
  <2>. QED
    BY <2>2, <2>3
<1>8. CASE in.op = "MediaType"
  <2>1. in.ty \in MediaTypes /\ OnMediaType(in.ty)
    BY <1>1, <1>8, InputAssumption DEF Handle
  <2>2. PICK kinds \in SUBSET {"MediaTypeChanged"} :
            \/ s.phase = "Starting" /\ Steps("Playing", pending_load, kinds \cup {"Started"})
            \/ Steps(s.phase, pending_load, kinds)
    BY <2>1, TypeSteps
  <2>3. actions' = <<>>
    BY <2>1, TypeSteps
  <2>4. /\ Handled(kinds \cup {"Started"}, play) = Begun(play)
        /\ Handled(kinds, play) = play
    BY DEF Handled, TerminalKinds
  <2>5. CASE s.phase = "Starting" /\ Steps("Playing", pending_load, kinds \cup {"Started"})
    <3>1. Makes(View(s.phase, pending_load, play), in,
                View("Playing", pending_load, Handled(kinds \cup {"Started"}, play)))
      BY <1>8, <2>4, <2>5 DEF Makes, View
    <3>. QED
      BY <1>2, <1>8, <2>3, <2>5, <3>1, Zenon
  <2>6. CASE Steps(s.phase, pending_load, kinds)
    <3>1. Makes(View(s.phase, pending_load, play), in,
                View(s.phase, pending_load, Handled(kinds, play)))
      BY <1>8, <2>4 DEF Makes, View
    <3>. QED
      BY <1>2, <1>8, <2>3, <2>6, <3>1, Zenon
  <2>. QED
    BY <2>2, <2>5, <2>6
<1>9. CASE in.op = "Position"
  <2>1. in.position \in Positions /\ OnPosition(in.position)
    BY <1>1, <1>9, InputAssumption DEF Handle
  <2>2. PICK kinds \in SUBSET {"SeekingChanged", "PositionChanged"} :
            Steps(s.phase, pending_load, kinds)
    BY <2>1, PositionSteps
  <2>3. actions' = <<>>
    BY <2>1, PositionSteps
  <2>4. Handled(kinds, play) = play
    BY DEF Handled, TerminalKinds
  <2>5. Makes(View(s.phase, pending_load, play), in,
              View(s.phase, pending_load, Handled(kinds, play)))
    BY <1>9, <2>4 DEF Makes, View
  <2>. QED
    BY <1>2, <1>9, <2>2, <2>3, <2>5, Zenon
<1>. QED
  BY <1>1, <1>3, <1>4, <1>5, <1>6, <1>7, <1>8, <1>9

-----------------------------------------------------------------------------
(***************************************************************************)
(* The pace of the patient user: one thing at a time is on its way.        *)
(***************************************************************************)
Brings(inputs) == \E i \in DOMAIN inputs : inputs[i].op = "FileLoaded"

\* The machine has still to hear that a file is loaded, or to act on it.
Awaits == Brings(batch) \/ Brings(queue) \/ todo # <<>>

Told(cmd) == cmds # <<>> /\ Head(cmds).cmd = cmd

\* load_if_current holds the lock; it has sent its command, or has still to.
Launched  == ~Free /\ step = "activate"
Preparing == ~Free /\ step # "activate"

\* A load is on its way to mpv.
Loading == Preparing \/ Told("loadfile") \/ entry # 0

\* The player neither opens nor ends a file, and the machine has heard of the last.
Still == entry = 0 /\ ~stopping /\ stage \in {"idle", "shown"} /\ ~Awaits

\* What the worker holds, by its place.
WorkerInv ==
    /\ queue \in Seq(Posted) /\ batch \in Seq(Posted)
    /\ todo \in Seq({ApplyPendingTrackSelectionAndPlay})
    /\ pc \in {"idle", "apply", "events"}
    /\ pc = "idle" => todo = <<>> /\ out = <<>>
    /\ pc # "apply" => batch = <<>> /\ published = s
    /\ pc # "events" => next = 1
    /\ Calm

\* What the loads and the commands find.
PaceInv ==
    /\ Len(cmds) <= 1
    /\ seen \in BOOLEAN
    /\ stage \in {"idle", "opening", "loaded", "shown"}
    /\ file = 0 <=> stage = "idle"
    /\ stopping => file # 0
    /\ \A l, k \in Loaders : Working(l) /\ Working(k) => l = k
    /\ (\E l \in Loaders : Working(l)) /\ ~Launched => Still /\ cmds = <<>>
    /\ Told("stop") \/ Told("pause") =>
           /\ Still /\ \A l \in Loaders : ~Working(l)
           /\ stage = "shown" => seen = pause
    /\ Told("loadfile") => entry = 0 /\ stage \in {"idle", "shown"}
    /\ entry # 0 => cmds = <<>> /\ stage \in {"idle", "shown"}
    /\ stage = "opening" => cmds = <<>> /\ entry = 0 /\ ~stopping
    /\ Told("loadfile") \/ entry # 0 \/ stage = "opening" => slot # 0 /\ ~Awaits
    /\ Told("select") => slot = 0
    /\ slot # 0 /\ Awaits => cmds = <<>>

\* What a post, and a step of the worker, changes of it.
LEMMA PostAwaits ==
    ASSUME NativeInv, WorkerInv, NEW in \in Posted, Posts(in)
    PROVE  WorkerInv' /\ (Awaits' <=> Awaits \/ in.op = "FileLoaded")
<1>1. /\ queue' = Append(queue, in)
      /\ UNCHANGED <<s, paused_for_cache, core_idle, pc, batch, todo, out, next, published>>
  BY DEF Posts, Enqueue, smVars
<1>2. queue \in Seq(Posted)
  BY DEF WorkerInv
<1>3. Brings(queue') <=> Brings(queue) \/ in.op = "FileLoaded"
  <2>1. /\ Len(queue) \in Nat /\ DOMAIN queue = 1..Len(queue)
        /\ DOMAIN queue' = 1..Len(queue) + 1 /\ queue'[Len(queue) + 1] = in
        /\ \A i \in DOMAIN queue : queue'[i] = queue[i]
    BY <1>1, <1>2
  <2>2. DOMAIN queue' = DOMAIN queue \cup {Len(queue) + 1}
    BY <2>1
  <2>. QED
    BY <2>1, <2>2 DEF Brings
<1>4. WorkerInv'
  BY <1>1 DEF WorkerInv, Calm
<1>. QED
  BY <1>1, <1>3, <1>4 DEF Awaits, Brings

\* The worker's steps keep what the machine waits for, until the selection is made.
LEMMA WorkAwaits ==
    ASSUME NativeInv, WorkerInv
    PROVE  /\ TakeBatch \/ PublishBatch => WorkerInv' /\ (Awaits' <=> Awaits)
           /\ ApplyInput => WorkerInv' /\ (Awaits' <=> Awaits)
           /\ DeliverEvent => WorkerInv' /\ (Awaits' <=> Awaits)
           /\ FinishBatch => WorkerInv' /\ todo' = <<>> /\ (Awaits' <=> Brings(queue))
                             /\ (Awaits <=> Brings(queue) \/ todo # <<>>)
<1>1. ~Brings(<<>>)
  BY DEF Brings
<1>2. ASSUME TakeBatch
      PROVE  WorkerInv' /\ (Awaits' <=> Awaits)
  <2>1. /\ pc = "idle" /\ pc' = "apply" /\ batch' = queue /\ queue' = <<>> /\ batch = <<>>
        /\ UNCHANGED <<s, paused_for_cache, core_idle, todo, out, next, published>>
    BY <1>2 DEF TakeBatch, At, smVars, WorkerInv
  <2>2. (Brings(batch) \/ Brings(queue)) = (Brings(batch) \/ Brings(queue))'
    BY <1>1, <2>1 DEF Brings
  <2>3. (Awaits' <=> Awaits)
    BY <2>1, <2>2 DEF Awaits
  <2>. QED
    BY <2>1, <2>3 DEF WorkerInv, Calm
<1>3. ASSUME PublishBatch
      PROVE  WorkerInv' /\ (Awaits' <=> Awaits)
  <2>1. /\ pc = "apply" /\ pc' = "events" /\ batch = <<>> /\ published' = s
        /\ UNCHANGED <<s, paused_for_cache, core_idle, queue, batch, todo, next>>
    BY <1>3 DEF PublishBatch, At, smVars
  <2>. QED
    BY <2>1 DEF WorkerInv, Calm, Awaits, Brings
<1>4. ASSUME DeliverEvent
      PROVE  WorkerInv' /\ (Awaits' <=> Awaits)
  <2>1. /\ pc = "events"
        /\ UNCHANGED <<s, paused_for_cache, core_idle, queue, pc, batch, todo, out, published>>
    BY <1>4 DEF DeliverEvent, smVars
  <2>. QED
    BY <2>1 DEF WorkerInv, Calm, Awaits, Brings
<1>5. ASSUME FinishBatch
      PROVE  WorkerInv' /\ todo' = <<>> /\ (Awaits' <=> Brings(queue))
             /\ (Awaits <=> Brings(queue) \/ todo # <<>>)
  <2>1. /\ pc = "events" /\ pc' = "idle" /\ batch = <<>>
        /\ out' = <<>> /\ todo' = <<>> /\ next' = 1
        /\ UNCHANGED <<s, paused_for_cache, core_idle, queue, batch, published>>
    BY <1>5 DEF FinishBatch, At, smVars, WorkerInv
  <2>. QED
    BY <1>1, <2>1 DEF WorkerInv, Calm, Awaits, Brings
<1>6. ASSUME ApplyInput
      PROVE  WorkerInv' /\ (Awaits' <=> Awaits)
  <2>. DEFINE in == Head(batch)
  <2>1. /\ pc = "apply" /\ batch # <<>> /\ Handle(in) /\ batch' = Tail(batch)
        /\ todo' = todo \o actions' /\ UNCHANGED <<queue, pc, next, published>>
    BY <1>6 DEF ApplyInput
  <2>2. batch \in Seq(Posted) /\ in \in Posted
    BY <2>1 DEF WorkerInv
  <2>3. IInv /\ IInv'
    <3>1. IInv /\ in \in Inputs
      BY <2>2, NativeAssumption DEF NativeInv, BatchInv
    <3>. QED
      BY <2>1, <3>1, HandleKeeps
  <2>4. Calm' /\ (actions' # <<>> <=> in.op = "FileLoaded")
    BY <2>1, <2>2, <2>3, HandleMakes DEF WorkerInv
  <2>5. Brings(batch) <=> in.op = "FileLoaded" \/ Brings(batch')
    <3>1. /\ Len(batch) \in Nat \ {0} /\ DOMAIN batch = 1..Len(batch) /\ in = batch[1]
          /\ DOMAIN batch' = 1..Len(batch) - 1
          /\ \A i \in 1..Len(batch) - 1 : batch'[i] = batch[i + 1]
      BY <2>1, <2>2
    <3>. HIDE DEF in
    <3>2. ASSUME Brings(batch), in.op # "FileLoaded"
          PROVE  Brings(batch')
      <4>1. PICK i \in DOMAIN batch : batch[i].op = "FileLoaded"
        BY <3>2 DEF Brings
      <4>2. i - 1 \in DOMAIN batch' /\ batch'[i - 1] = batch[i]
        BY <3>1, <3>2, <4>1
      <4>. QED
        BY <4>1, <4>2 DEF Brings
    <3>3. ASSUME Brings(batch')
          PROVE  Brings(batch)
      <4>1. PICK i \in DOMAIN batch' : batch'[i].op = "FileLoaded"
        BY <3>3 DEF Brings
      <4>2. i + 1 \in DOMAIN batch /\ batch'[i] = batch[i + 1]
        BY <3>1, <4>1
      <4>. QED
        BY <4>1, <4>2 DEF Brings
    <3>4. in.op = "FileLoaded" => Brings(batch)
      <4>1. 1 \in DOMAIN batch
        BY <3>1
      <4>. QED
        BY <3>1, <4>1 DEF Brings
    <3>. QED
      BY <3>2, <3>3, <3>4
  <2>6. todo' # <<>> <=> todo # <<>> \/ in.op = "FileLoaded"
    <3>1. actions' \in Seq({ApplyPendingTrackSelectionAndPlay})
      BY <2>3 DEF IInv, TypeOK
    <3>2. todo' = <<>> <=> todo = <<>> /\ actions' = <<>>
      BY <2>1, <3>1 DEF WorkerInv
    <3>. QED
      BY <2>4, <3>2
  <2>7. (Awaits' <=> Awaits)
    BY <2>1, <2>5, <2>6 DEF Awaits, Brings
  <2>8. /\ batch' \in Seq(Posted)
        /\ todo' \in Seq({ApplyPendingTrackSelectionAndPlay})
    BY <2>1, <2>2, <2>3 DEF WorkerInv, IInv, TypeOK
  <2>. QED
    BY <2>1, <2>4, <2>7, <2>8 DEF WorkerInv
<1>. QED
  BY <1>2, <1>3, <1>4, <1>5, <1>6

-----------------------------------------------------------------------------
\* Where the player has settled nothing is on its way.
LEMMA SettledIsStill ==
    ASSUME WorkerInv, Settled
    PROVE  /\ Still /\ ~Loading /\ Free /\ cmds = <<>> /\ seen = pause
           /\ \A l \in Loaders : ~Working(l)
           /\ batch = <<>> /\ queue = <<>> /\ out = <<>> /\ published = s
BY DEF Settled, WorkerInv, Still, Awaits, Brings, Loading, Preparing, Told

\* What holds of the patient user's player at each step.
SettledInv == NativeInv /\ WorkerInv /\ PaceInv

\* A loader starts when all is still, and takes its steps alone.
LEMMA LoadPaces ==
    ASSUME Patient, Faults = {}, SettledInv, NEW l \in Loaders, Load(l)
    PROVE  WorkerInv' /\ PaceInv'
<1>. USE DEF SettledInv
<1>1. ASSUME UNCHANGED coordVars
      PROVE  WorkerInv' /\ (Awaits' <=> Awaits)
  BY <1>1 DEF coordVars, smVars, batchVars, WorkerInv, Calm, Awaits, Brings
<1>2. CASE Request(l)
  <2>1. /\ UNCHANGED <<coordVars, mpvVars, loadVars>>
        /\ requests' = requests + 1
        /\ request' = [request EXCEPT ![l] = [play |-> requests', generation |-> generation]]
    BY <1>2 DEF Request, BeginRequest
  <2>2. Settled
    BY <1>2 DEF Request, MayAct
  <2>3. Still /\ cmds = <<>> /\ Free /\ \A k \in Loaders : ~Working(k)
    BY <2>2, SettledIsStill
  <2>4. \A k \in Loaders : Working(k)' => k = l
    BY <2>1, <2>3 DEF Working, NativeInv, RequestInv
  <2>. QED
    BY <1>1, <2>1, <2>3, <2>4 DEF PaceInv, Still, Told, mpvVars, loadVars
<1>3. CASE GiveUp(l)
  <2>1. /\ UNCHANGED <<coordVars, mpvVars, loadVars>> /\ Free
        /\ request' = [request EXCEPT ![l] = NoRequest]
    BY <1>3 DEF GiveUp, EndRequest
  <2>2. \A k \in Loaders : Working(k)' => Working(k)
    BY <2>1 DEF Working, NativeInv, RequestInv
  <2>. QED
    BY <1>1, <2>1, <2>2 DEF PaceInv, Still, Told, mpvVars, loadVars, Launched, Free
<1>4. CASE LoadStarting(l) \/ PostMediaType(l) \/ PostStart(l)
  <2>1. PICK in \in Posted : Posts(in) /\ in.op # "FileLoaded"
    <3>1. request[l].play \in Plays
      BY <1>4, NativeAssumption
         DEF LoadStarting, PostMediaType, PostStart, NativeInv, RequestInv, LockInv, Free
    <3>2. CASE LoadStarting(l)
      BY <3>1, <3>2, PostedInputs DEF LoadStarting
    <3>3. CASE PostMediaType(l)
      BY <3>3, PostedInputs DEF PostMediaType
    <3>4. CASE PostStart(l)
      BY <3>4, PostedInputs, StartIsAPosition DEF PostStart
    <3>. QED
      BY <1>4, <3>2, <3>3, <3>4
  <2>2. WorkerInv' /\ (Awaits' <=> Awaits)
    BY <2>1, PostAwaits
  <2>3. /\ UNCHANGED <<reportVars, mpvVars, slot>> /\ Working(l)
        /\ lock' = l /\ step' # "activate" /\ ~Launched
    BY <1>4, NativeAssumption
       DEF LoadStarting, PostMediaType, PostStart, Launched, Free, NativeInv, LockInv
  <2>. QED
    BY <2>2, <2>3 DEF PaceInv, Still, Told, mpvVars, reportVars, Working
<1>5. CASE LoadFile(l)
  <2>1. /\ UNCHANGED <<coordVars, reportVars, lock, entry, file, stage, stopping, pause, seen>>
        /\ slot' = request[l].play /\ step' = "activate" /\ lock = l /\ step = "load"
        /\ cmds' = Append(cmds, [cmd |-> "loadfile", play |-> request[l].play])
    BY <1>5 DEF LoadFile
  <2>2. Working(l) /\ ~Launched /\ request[l].play # 0
    BY <2>1, NativeAssumption DEF Launched, NativeInv, LockInv, RequestInv, Free, Plays
  <2>3. Still /\ cmds = <<>>
    BY <2>2 DEF PaceInv
  <2>4. cmds' = <<[cmd |-> "loadfile", play |-> request[l].play]>>
    BY <2>1, <2>3
  <2>5. /\ Len(cmds') = 1 /\ Head(cmds').cmd = "loadfile" /\ cmds' # <<>>
    BY <2>4
  <2>6. Launched'
    BY <2>1, NativeAssumption DEF Launched, Free
  <2>. QED
    BY <1>1, <2>1, <2>2, <2>3, <2>5, <2>6
       DEF PaceInv, Still, Told, reportVars, Working
<1>6. CASE Track(l)
  <2>1. /\ UNCHANGED <<coordVars, mpvVars, slot>>
        /\ request' = [request EXCEPT ![l] = NoRequest]
    BY <1>6 DEF Track, Activate
  <2>2. Working(l)
    BY <1>6, NativeAssumption DEF Track, NativeInv, LockInv, Free
  <2>3. \A k \in Loaders : ~Working(k)'
    BY <2>1, <2>2 DEF PaceInv, Working, NativeInv, RequestInv
  <2>. QED
    BY <1>1, <2>1, <2>3 DEF PaceInv, Still, Told, mpvVars
<1>. QED
  BY <1>2, <1>3, <1>4, <1>5, <1>6 DEF Load, LoadIfCurrentSteps, LoadRejected

\* The worker sends at most the selection, and nothing else is on its way then.
LEMMA WorkPaces ==
    ASSUME Patient, Faults = {}, SettledInv, Work
    PROVE  WorkerInv' /\ PaceInv'
<1>. USE DEF SettledInv
<1>1. CASE Coordinate
  <2>1. WorkerInv' /\ (Awaits' <=> Awaits) /\ UNCHANGED <<reportVars, mpvVars, loadVars>>
    BY <1>1, WorkAwaits DEF Coordinate
  <2>. QED
    BY <2>1 DEF PaceInv, Still, Told, Working, Launched, Free, reportVars, mpvVars, loadVars
<1>2. CASE SinkEvent
  <2>1. WorkerInv' /\ (Awaits' <=> Awaits)
    BY <1>2, WorkAwaits DEF SinkEvent
  <2>2. /\ Free
        /\ UNCHANGED <<loadVars, entry, file, stage, stopping, pause, seen, request, cmds>>
    BY <1>2 DEF SinkEvent, HandlePlaybackEvent
  <2>. QED
    BY <2>1, <2>2 DEF PaceInv, Still, Told, Working, Launched, Free, loadVars
<1>3. CASE Finish
  <2>1. /\ WorkerInv' /\ todo' = <<>> /\ (Awaits' <=> Brings(queue))
        /\ (Awaits <=> Brings(queue) \/ todo # <<>>)
    BY <1>3, WorkAwaits DEF Finish
  <2>2. UNCHANGED <<reportVars, lock, step, entry, file, stage, stopping, pause, seen>>
    BY <1>3 DEF Finish
  <2>3. CASE todo # <<>> /\ slot # 0
    <3>1. slot' = 0 /\ cmds' = Append(cmds, [cmd |-> "select", play |-> slot])
      BY <1>3, <2>3 DEF Finish, ApplyPendingSelection
    <3>2. Awaits /\ cmds = <<>>
      BY <2>1, <2>3 DEF PaceInv
    <3>3. /\ Len(cmds') = 1 /\ Head(cmds').cmd = "select" /\ cmds' # <<>>
      BY <3>1, <3>2
    <3>4. Launched \/ \A l \in Loaders : ~Working(l)
      BY <3>2 DEF PaceInv, Still
    <3>. QED
      BY <2>1, <2>2, <3>1, <3>2, <3>3, <3>4
         DEF PaceInv, Still, Told, Working, Launched, Free, reportVars
  <2>4. CASE ~(todo # <<>> /\ slot # 0)
    <3>1. UNCHANGED <<slot, cmds>>
      BY <1>3, <2>4 DEF Finish, ApplyPendingSelection
    <3>. QED
      BY <2>1, <2>2, <2>4, <3>1 DEF PaceInv, Still, Told, Working, Launched, Free, reportVars
  <2>. QED
    BY <2>3, <2>4
<1>. QED
  BY <1>1, <1>2, <1>3 DEF Work

\* A command is carried out; it was the only one.
LEMMA CommandPaces ==
    ASSUME SettledInv, Command
    PROVE  WorkerInv' /\ PaceInv'
<1>. USE DEF SettledInv
<1>1. /\ cmds # <<>> /\ cmds' = <<>> /\ Head(cmds) \in Commands
      /\ UNCHANGED <<coordVars, reportVars, loadVars, file, stage, seen>>
  <2>1. cmds # <<>> /\ cmds' = Tail(cmds) /\ cmds \in Seq(Commands) /\ Len(cmds) <= 1
    BY DEF Command, NativeInv, PlayerInv, PaceInv
  <2>2. cmds' = <<>> /\ Head(cmds) \in Commands
    BY <2>1
  <2>. QED
    BY <2>1, <2>2 DEF Command, MpvOnly
<1>2. WorkerInv' /\ (Awaits' <=> Awaits)
  BY <1>1 DEF coordVars, smVars, batchVars, WorkerInv, Calm, Awaits, Brings
<1>. stopping' => file # 0
  BY DEF Command, PaceInv
<1>3. CASE Told("loadfile")
  <2>1. entry' = Head(cmds).play /\ entry' # 0 /\ ~(entry # 0)
    BY <1>1, <1>3 DEF Command, Told, Commands, Plays, PaceInv
  <2>. QED
    BY <1>1, <1>2, <1>3, <2>1
       DEF PaceInv, Still, Told, Working, Launched, Free, reportVars, loadVars
<1>4. CASE Told("stop") \/ Told("select") \/ Told("pause")
  <2>1. entry = 0 /\ entry' = 0 /\ (stage = "opening" => FALSE)
    BY <1>1, <1>4 DEF Command, Told, PaceInv, Still
  <2>. QED
    BY <1>1, <1>2, <1>4, <2>1
       DEF PaceInv, Still, Told, Working, Launched, Free, reportVars, loadVars
<1>. QED
  BY <1>1, <1>3, <1>4 DEF Told, Commands

\* mpv opens a file when it has no other.
LEMMA MpvPaces ==
    ASSUME SettledInv, Mpv
    PROVE  WorkerInv' /\ PaceInv'
<1>. USE DEF SettledInv
<1>1. CASE Command
  BY <1>1, CommandPaces
<1>2. CASE Open \/ Tick
  <2>1. UNCHANGED <<coordVars, reportVars, loadVars, cmds, stopping, seen>>
    BY <1>2 DEF Open, Tick, MpvOnly
  <2>2. WorkerInv' /\ (Awaits' <=> Awaits)
    BY <2>1 DEF coordVars, smVars, batchVars, WorkerInv, Calm, Awaits, Brings
  <2>3. CASE Tick
    <3>1. UNCHANGED <<entry, file, stage, pause>>
      BY <2>3 DEF Tick
    <3>. QED
      BY <2>1, <2>2, <3>1
         DEF PaceInv, Still, Told, Working, Launched, Free, reportVars, loadVars
  <2>4. CASE Open
    <3>1. /\ file = 0 /\ entry # 0 /\ file' = entry /\ entry' = 0 /\ stage' = "opening"
      BY <2>4 DEF Open
    <3>2. cmds = <<>> /\ slot # 0 /\ ~Awaits /\ stage = "idle"
      BY <3>1 DEF PaceInv
    <3>. QED
      BY <2>1, <2>2, <3>1, <3>2
         DEF PaceInv, Still, Told, Working, Launched, Free, reportVars, loadVars
  <2>. QED
    BY <1>2, <2>3, <2>4
<1>3. CASE EndStopped \/ Ends
  <2>1. PICK reason \in EndReasons : EndsFile(reason)
    BY <1>3 DEF EndStopped, Ends, EndReasons
  <2>2. /\ file' = 0 /\ stage' = "idle" /\ stopping' = FALSE
        /\ UNCHANGED <<reportVars, loadVars, cmds, entry, seen>>
        /\ Posts([op |-> "EndFile", reason |-> reason])
    BY <2>1 DEF EndsFile, Emits, MpvOnly
  <2>3. WorkerInv' /\ (Awaits' <=> Awaits)
    BY <2>2, PostedInputs, PostAwaits
  <2>. QED
    BY <2>2, <2>3
       DEF PaceInv, Still, Told, Working, Launched, Free, reportVars, loadVars
<1>4. CASE Loaded
  <2>1. /\ stage = "opening" /\ stage' = "loaded" /\ Posts([op |-> "FileLoaded"])
        /\ UNCHANGED <<reportVars, loadVars, cmds, entry, file, stopping, pause, seen>>
    BY <1>4 DEF Loaded, Emits, MpvOnly
  <2>2. WorkerInv' /\ Awaits'
    BY <2>1, PostedInputs, PostAwaits
  <2>3. slot # 0 /\ cmds = <<>> /\ entry = 0
    BY <2>1 DEF PaceInv
  <2>4. ~(\E l \in Loaders : Working(l)) \/ Launched
    BY <2>1 DEF PaceInv, Still
  <2>. QED
    BY <2>1, <2>2, <2>3, <2>4
       DEF PaceInv, Still, Told, Working, Launched, Free, reportVars, loadVars
<1>5. CASE FirstFrame \/ ReportTime \/ ReportPause
  <2>1. PICK in \in Posted : Posts(in) /\ in.op # "FileLoaded"
    <3>1. CASE FirstFrame
      BY <3>1, PostedInputs DEF FirstFrame, Emits
    <3>2. CASE ReportTime
      BY <3>2, PostedInputs DEF ReportTime, Emits, NativeInv, PlayerInv
    <3>3. CASE ReportPause
      BY <3>3, PostedInputs DEF ReportPause, Emits, NativeInv, PlayerInv
    <3>. QED
      BY <1>5, <3>1, <3>2, <3>3
  <2>2. WorkerInv' /\ (Awaits' <=> Awaits)
    BY <2>1, PostAwaits
  <2>3. UNCHANGED <<reportVars, loadVars, cmds, entry, file, stopping, pause>>
    BY <1>5 DEF FirstFrame, ReportTime, ReportPause, Emits, MpvOnly
  <2>4. CASE FirstFrame
    <3>1. stage = "loaded" /\ stage' = "shown" /\ UNCHANGED seen
      BY <2>4 DEF FirstFrame
    <3>. QED
      BY <2>2, <2>3, <3>1
         DEF PaceInv, Still, Told, Working, Launched, Free, reportVars, loadVars
  <2>5. CASE ReportTime
    <3>1. UNCHANGED <<stage, seen>>
      BY <2>5 DEF ReportTime
    <3>. QED
      BY <2>2, <2>3, <3>1
         DEF PaceInv, Still, Told, Working, Launched, Free, reportVars, loadVars
  <2>6. CASE ReportPause
    <3>1. UNCHANGED stage /\ seen' = pause /\ pause \in BOOLEAN
      BY <2>6 DEF ReportPause, NativeInv, PlayerInv
    <3>. QED
      BY <2>2, <2>3, <3>1
         DEF PaceInv, Still, Told, Working, Launched, Free, reportVars, loadVars
  <2>. QED
    BY <1>5, <2>4, <2>5, <2>6
<1>. QED
  BY <1>1, <1>2, <1>3, <1>4, <1>5 DEF Mpv

\* What the patient user does.
LEMMA UserPaces ==
    ASSUME Patient, SettledInv, User
    PROVE  WorkerInv' /\ PaceInv'
<1>. USE DEF SettledInv
<1>1. Settled /\ UNCHANGED <<coordVars, loadVars, entry, file, stage, stopping, pause, seen,
                             request>>
  BY DEF User, MediaKeyStop, PlayerStop, UserPause, UserSends, SwitchAccount, MayAct, Release,
         ChangeAccount, mpvVars, reportVars
<1>2. WorkerInv' /\ (Awaits' <=> Awaits)
  BY <1>1 DEF coordVars, smVars, batchVars, WorkerInv, Calm, Awaits, Brings
<1>3. /\ Still /\ cmds = <<>> /\ seen = pause /\ \A l \in Loaders : ~Working(l)
  BY <1>1, SettledIsStill
<1>4. \/ cmds' = cmds
      \/ cmds' = <<[cmd |-> "stop"]>>
      \/ \E on \in BOOLEAN : cmds' = <<[cmd |-> "pause", on |-> on]>>
  <2>1. CASE MediaKeyStop \/ PlayerStop
    BY <1>3, <2>1 DEF MediaKeyStop, PlayerStop, UserSends
  <2>2. CASE UserPause
    BY <1>3, <2>2 DEF UserPause, UserSends
  <2>3. CASE SwitchAccount
    BY <2>3 DEF SwitchAccount, mpvVars
  <2>. QED
    BY <2>1, <2>2, <2>3 DEF User
<1>5. \/ cmds' = <<>>
      \/ cmds' # <<>> /\ Len(cmds') = 1 /\ Head(cmds').cmd \in {"stop", "pause"}
  <2>1. CASE cmds' = cmds
    BY <1>3, <2>1
  <2>2. CASE cmds' # cmds
    BY <1>4, <2>2
  <2>. QED
    BY <2>1, <2>2
<1>6. /\ Len(cmds') <= 1 /\ ~Told("loadfile")' /\ ~Told("select")'
      /\ entry' = 0 /\ stage' \in {"idle", "shown"} /\ ~Awaits' /\ ~stopping'
      /\ seen' = pause' /\ \A l \in Loaders : ~Working(l)'
  <2>1. Len(cmds') <= 1 /\ ~Told("loadfile")' /\ ~Told("select")'
    BY <1>5 DEF Told
  <2>2. /\ entry' = 0 /\ stage' \in {"idle", "shown"} /\ ~stopping'
        /\ seen' = pause'
    BY <1>1, <1>3 DEF Still
  <2>3. ~Awaits'
    BY <1>2, <1>3 DEF Still
  <2>4. \A l \in Loaders : ~Working(l)'
    BY <1>1, <1>3 DEF Working
  <2>. QED
    BY <2>1, <2>2, <2>3, <2>4
<1>. QED
  <2>1. /\ Len(cmds') <= 1 /\ seen' \in BOOLEAN
        /\ stage' \in {"idle", "opening", "loaded", "shown"}
        /\ (file' = 0 <=> stage' = "idle")
    BY <1>1, <1>6 DEF PaceInv
  <2>2. Still' /\ entry' = 0 /\ stage' # "opening" /\ ~stopping'
    BY <1>6 DEF Still
  <2>3. \A l, k \in Loaders : Working(l)' /\ Working(k)' => l = k
    BY <1>6
  <2>. QED
    BY <1>2, <1>6, <2>1, <2>2, <2>3, Zenon DEF PaceInv

\* Handing a report over changes nothing of it.
LEMMA RestPaces ==
    ASSUME SettledInv, (\E t \in Threads : HandOver(t)) \/ UNCHANGED allVars
    PROVE  WorkerInv' /\ PaceInv'
<1>1. UNCHANGED <<coordVars, mpvVars, loadVars, request>>
  BY DEF HandOver, EnqueueReport, allVars, reportVars
<1>2. WorkerInv' /\ (Awaits' <=> Awaits)
  BY <1>1 DEF SettledInv, coordVars, smVars, batchVars, WorkerInv, Calm, Awaits, Brings
<1>. QED
  BY <1>1, <1>2
     DEF SettledInv, PaceInv, Still, Told, Working, Launched, Free, mpvVars, loadVars

\* Every step keeps the pace.
LEMMA PaceKept ==
    ASSUME Patient, Faults = {}, SettledInv, [NativeNext]_allVars
    PROVE  SettledInv'
<1>1. NativeInv'
  <2>1. RequestInv'
    BY StepsAreReports, RequestInvKept DEF SettledInv, NativeInv
  <2>. QED
    BY <2>1, LockInvKept, PlayerInvKept, BatchInvKept DEF SettledInv, NativeInv
<1>2. WorkerInv' /\ PaceInv'
  BY LoadPaces, WorkPaces, MpvPaces, UserPaces, RestPaces DEF NativeNext
<1>. QED
  BY <1>1, <1>2 DEF SettledInv

\* At the start all is still.
LEMMA PaceInit == NativeInit => SettledInv
<1>. SUFFICES ASSUME NativeInit PROVE SettledInv
  OBVIOUS
<1>1. NativeInv
  BY NativeInitInv
<1>2. WorkerInv
  BY DEF NativeInit, BatchInit, Init, Fresh, WorkerInv, Calm
<1>3. \A l \in Loaders : ~Working(l)
  BY DEF NativeInit, ReportInit, Working
<1>4. PaceInv
  <2>1. /\ cmds = <<>> /\ Len(cmds) <= 1 /\ entry = 0 /\ file = 0 /\ stage = "idle"
        /\ ~stopping /\ seen \in BOOLEAN /\ slot = 0
    <3>1. ~stopping /\ seen \in BOOLEAN
      BY Zenon DEF NativeInit
    <3>. QED
      BY <3>1 DEF NativeInit
  <2>2. Still
    <3>1. batch = <<>> /\ queue = <<>> /\ todo = <<>>
      BY DEF NativeInit, BatchInit
    <3>2. ~Awaits
      BY <3>1 DEF Awaits, Brings
    <3>. QED
      BY <2>1, <3>2 DEF Still
  <2>. QED
    BY <1>3, <2>1, <2>2, Zenon DEF PaceInv, Told
<1>. QED
  BY <1>1, <1>2, <1>4 DEF SettledInv

-----------------------------------------------------------------------------
(***************************************************************************)
(* The play mpv is at is the one the runtime tracks, if it tracks one.     *)
(***************************************************************************)
\* A tracked play is one, and the resources held are its own.
ActiveInv ==
    /\ active # NoPlay =>
           /\ active = [generation |-> active.generation, play |-> active.play,
                        started |-> active.started, paused |-> active.paused,
                        position |-> active.position]
           /\ active.play \in Plays /\ active.started \in BOOLEAN
    /\ resources # 0 => active # NoPlay /\ resources = active.play

\* What an event changes of the tracked play.
LEMMA EventTracks ==
    ASSUME ActiveInv, NEW t, NEW kind, NEW position, PlanEvent(t, kind, position)
    PROVE  /\ ActiveInv'
           /\ kind \in TerminalKinds => active' = NoPlay
           /\ active = NoPlay => active' = NoPlay
           /\ active # NoPlay /\ kind \notin TerminalKinds =>
                  /\ active' # NoPlay /\ active'.play = active.play
                  /\ active'.started <=> active.started \/ kind = "Started"
<1>1. CASE kind \in TerminalKinds
  <2>1. active' = NoPlay /\ resources' = 0
    BY <1>1 DEF PlanEvent
  <2>. QED
    BY <1>1, <2>1 DEF ActiveInv
<1>2. CASE kind \notin TerminalKinds /\ active = NoPlay
  <2>1. active' = NoPlay /\ resources' = resources
    BY <1>2 DEF PlanEvent
  <2>. QED
    BY <1>2, <2>1 DEF ActiveInv
<1>3. CASE kind \notin TerminalKinds /\ active # NoPlay
  <2>1. /\ resources' = resources
        /\ \/ kind = "Started" /\ active' = [active EXCEPT !.position = position,
                                                           !.started = TRUE, !.paused = FALSE]
           \/ kind # "Started" /\ active' = [active EXCEPT !.position = position, !.paused = TRUE]
           \/ kind # "Started" /\ active' = [active EXCEPT !.position = position]
           \/ kind # "Started" /\ active' = active
    BY <1>3 DEF PlanEvent, PlanStarted, PlanPaused, PlanPosition, TrackedAs
  <2>2. /\ active = [generation |-> active.generation, play |-> active.play,
                     started |-> active.started, paused |-> active.paused,
                     position |-> active.position]
        /\ active.play \in Plays /\ active.started \in BOOLEAN
    BY <1>3 DEF ActiveInv
  <2>3. \E started \in {active.started, TRUE} : \E paused, spot :
            /\ active' = [generation |-> active.generation, play |-> active.play,
                          started |-> started, paused |-> paused, position |-> spot]
            /\ started = IF kind = "Started" THEN TRUE ELSE active.started
    <3>1. CASE kind = "Started"
      <4>1. active' = [generation |-> active.generation, play |-> active.play,
                       started |-> TRUE, paused |-> FALSE, position |-> position]
        BY <2>1, <2>2, <3>1
      <4>. QED
        BY <3>1, <4>1
    <3>2. CASE kind # "Started"
      <4>1. \E paused, spot :
               active' = [generation |-> active.generation, play |-> active.play,
                          started |-> active.started, paused |-> paused, position |-> spot]
        BY <2>1, <2>2, <3>2
      <4>. QED
        BY <2>2, <3>2, <4>1
    <3>. QED
      BY <3>1, <3>2
  <2>4. active' # NoPlay
    BY <2>3 DEF NoPlay
  <2>. QED
    BY <1>3, <2>1, <2>2, <2>3, <2>4 DEF ActiveInv
<1>. QED
  BY <1>1, <1>2, <1>3

\* So does every other step of the runtime.
LEMMA ActiveInvKept ==
    ASSUME RequestInv, ActiveInv, [ReportNext]_reportVars
    PROVE  ActiveInv'
<1>1. ASSUME NEW kind, NEW position, NEW failed, HandlePlaybackEvent(Sink, kind, position, failed)
      PROVE  ActiveInv'
  BY <1>1, EventTracks DEF HandlePlaybackEvent
<1>2. ASSUME NEW l \in Loaders, NEW start, NEW holds \in BOOLEAN, LoadIfCurrent(l, start, holds)
      PROVE  ActiveInv'
  <2>1. /\ active' = [generation |-> request[l].generation, play |-> request[l].play,
                      started |-> FALSE, paused |-> FALSE, position |-> start]
        /\ resources' \in {0, request[l].play}
        /\ request[l].play \in Plays
    BY <1>2 DEF LoadIfCurrent, Activate, RequestInv
  <2>2. active' # NoPlay
    BY <2>1 DEF NoPlay
  <2>3. active'.play = request[l].play /\ active'.started = FALSE
    BY <2>1
  <2>. QED
    BY <2>1, <2>2, <2>3 DEF ActiveInv
<1>3. CASE \/ active' = NoPlay /\ resources' = 0
           \/ active' = active /\ resources' \in {0, resources}
  BY <1>3 DEF ActiveInv
<1>. QED
  BY <1>1, <1>2, <1>3
     DEF ReportNext, BeginRequest, EndRequest, ChangeAccount, Release, EnqueueReport, reportVars

\* The play the runtime tracks or, once the command is sent, is about to track.
Target == IF Launched THEN request[lock].play ELSE active.play

\* What mpv is told to open, opens and has open is the target.
TargetInv ==
    /\ Told("loadfile") => Target \in {0, Head(cmds).play}
    /\ entry # 0 => Target \in {0, entry}
    /\ ~Loading /\ file # 0 => Target \in {0, file}

\* Nothing moves the player to another play, or the runtime to another target.
LEMMA TargetStays ==
    ASSUME TargetInv, Target' \in {0, Target}, entry' = entry, file' \in {0, file},
           Told("loadfile")' => cmds' = cmds, Loading => Loading'
    PROVE  TargetInv'
<1>1. Told("loadfile")' => Told("loadfile") /\ Head(cmds') = Head(cmds)
  BY DEF Told
<1>2. ASSUME NEW p, Target \in {0, p}
      PROVE  Target' \in {0, p}
  BY <1>2
<1>3. Told("loadfile")' => Target' \in {0, Head(cmds').play}
  BY <1>1, <1>2 DEF TargetInv
<1>4. entry' # 0 => Target' \in {0, entry'}
  BY <1>2 DEF TargetInv
<1>5. ~Loading' /\ file' # 0 => Target' \in {0, file'}
  BY <1>2 DEF TargetInv
<1>. QED
  BY <1>3, <1>4, <1>5 DEF TargetInv

\* A loader sends its command, and then tracks the play of it.
LEMMA LoadTargets ==
    ASSUME Patient, Faults = {}, SettledInv, TargetInv, NEW l \in Loaders, Load(l)
    PROVE  TargetInv'
<1>1. CASE Request(l) \/ GiveUp(l)
  <2>1. UNCHANGED <<coordVars, mpvVars, loadVars, active>> /\ Free
    BY <1>1, SettledIsStill
       DEF Request, GiveUp, BeginRequest, EndRequest, MayAct, SettledInv
  <2>2. Target' = Target /\ (Loading' <=> Loading)
    BY <2>1 DEF Target, Launched, Free, Loading, Preparing, Told, mpvVars, loadVars
  <2>. QED
    BY <2>1, <2>2, TargetStays DEF mpvVars
<1>2. CASE LoadStarting(l) \/ PostMediaType(l) \/ PostStart(l)
  <2>1. /\ UNCHANGED <<reportVars, mpvVars>> /\ lock' = l /\ step' # "activate" /\ ~Launched
    BY <1>2, NativeAssumption DEF LoadStarting, PostMediaType, PostStart, Launched, Free
  <2>2. Preparing' /\ ~Launched'
    BY <2>1, NativeAssumption DEF Preparing, Launched, Free
  <2>3. Target' = Target /\ Loading'
    BY <2>1, <2>2 DEF Target, Loading, reportVars
  <2>. QED
    BY <2>1, <2>3, TargetStays DEF mpvVars
<1>3. CASE LoadFile(l)
  <2>1. /\ UNCHANGED <<request, lock, entry, file>> /\ step' = "activate" /\ lock = l
        /\ cmds' = Append(cmds, [cmd |-> "loadfile", play |-> request[l].play])
        /\ step = "load"
    BY <1>3 DEF LoadFile, reportVars
  <2>2. cmds = <<>> /\ entry = 0
    BY <2>1, NativeAssumption
       DEF SettledInv, NativeInv, LockInv, PaceInv, Free, Launched, Still
  <2>3. cmds' = <<[cmd |-> "loadfile", play |-> request[l].play]>>
    BY <2>1, <2>2
  <2>4. Told("loadfile")' /\ Head(cmds').play = request[l].play
    BY <2>3 DEF Told
  <2>5. Target' = request[l].play
    BY <2>1, NativeAssumption DEF Target, Launched, Free
  <2>. QED
    BY <2>1, <2>2, <2>4, <2>5 DEF TargetInv, Loading
<1>4. CASE Track(l)
  <2>1. /\ UNCHANGED mpvVars /\ lock = l /\ step = "activate" /\ lock' = NoReport
        /\ active'.play = request[l].play
    BY <1>4 DEF Track, Activate
  <2>2. Target' = Target /\ (Loading' <=> Loading)
    BY <2>1, NativeAssumption
       DEF Target, Launched, Free, Loading, Preparing, Told, mpvVars
  <2>. QED
    BY <2>1, <2>2, TargetStays DEF mpvVars
<1>. QED
  BY <1>1, <1>2, <1>3, <1>4 DEF Load, LoadIfCurrentSteps, LoadRejected

\* mpv carries the play from the command to the entry and the file.
LEMMA MpvTargets ==
    ASSUME SettledInv, TargetInv, Mpv
    PROVE  TargetInv'
<1>1. UNCHANGED <<reportVars, loadVars>>
  BY DEF Mpv, Command, EndStopped, Ends, EndsFile, Open, Loaded, FirstFrame, Tick,
         ReportTime, ReportPause, Emits, MpvOnly
<1>2. Target' = Target /\ (Preparing' <=> Preparing)
  BY <1>1 DEF Target, Launched, Free, Preparing, reportVars, loadVars
<1>3. CASE Command
  <2>1. /\ cmds # <<>> /\ cmds' = <<>> /\ file' = file /\ Head(cmds) \in Commands
    <3>1. cmds # <<>> /\ cmds' = Tail(cmds) /\ cmds \in Seq(Commands) /\ Len(cmds) <= 1
      BY <1>3 DEF Command, SettledInv, NativeInv, PlayerInv, PaceInv
    <3>. QED
      BY <1>3, <3>1 DEF Command
  <2>2. CASE Told("loadfile")
    <3>1. entry' = Head(cmds).play /\ entry' # 0
      BY <1>3, <2>1, <2>2 DEF Command, Told, Commands, Plays
    <3>. QED
      BY <1>2, <2>1, <2>2, <3>1 DEF TargetInv, Told, Loading
  <2>3. CASE ~Told("loadfile")
    <3>1. entry = 0 /\ entry' = 0
      BY <1>3, <2>1, <2>3 DEF Command, Told, SettledInv, PaceInv
    <3>. QED
      BY <1>2, <2>1, <2>3, <3>1, TargetStays DEF Told, Loading
  <2>. QED
    BY <2>2, <2>3
<1>4. CASE Open
  <2>1. /\ entry # 0 /\ file' = entry /\ entry' = 0 /\ cmds' = cmds
    BY <1>4 DEF Open
  <2>2. cmds = <<>>
    BY <2>1 DEF SettledInv, PaceInv
  <2>. QED
    BY <1>2, <2>1, <2>2 DEF TargetInv, Told, Loading
<1>5. CASE EndStopped \/ Ends
  <2>1. file' = 0 /\ UNCHANGED <<cmds, entry>>
    BY <1>5 DEF EndStopped, Ends, EndsFile
  <2>. QED
    BY <1>2, <2>1, TargetStays DEF Told, Loading
<1>6. CASE Loaded \/ FirstFrame \/ Tick \/ ReportTime \/ ReportPause
  <2>1. UNCHANGED <<cmds, entry, file>>
    BY <1>6 DEF Loaded, FirstFrame, Tick, ReportTime, ReportPause
  <2>. QED
    BY <1>2, <2>1, TargetStays DEF Told, Loading
<1>. QED
  BY <1>3, <1>4, <1>5, <1>6 DEF Mpv

\* Every step keeps to the target.
LEMMA TargetKept ==
    ASSUME Patient, Faults = {}, SettledInv, ActiveInv, TargetInv, [NativeNext]_allVars
    PROVE  TargetInv'
<1>1. CASE Work
  <2>1. UNCHANGED <<lock, step, request, entry, file>>
    BY <1>1 DEF Work, Coordinate, SinkEvent, Finish, HandlePlaybackEvent, reportVars, mpvVars,
                loadVars
  <2>2. Target' \in {0, Target}
    <3>1. CASE SinkEvent
      <4>1. Free /\ active'.play \in {0, active.play}
        <5>1. Free /\ \E kind, position : PlanEvent(Sink, kind, position)
          BY <3>1 DEF SinkEvent, HandlePlaybackEvent
        <5>2. PICK kind, position : PlanEvent(Sink, kind, position)
          BY <5>1
        <5>. QED
          BY <5>1, <5>2, EventTracks DEF NoPlay
      <4>. QED
        BY <2>1, <4>1 DEF Target, Launched, Free
    <3>2. CASE Coordinate \/ Finish
      BY <2>1, <3>2 DEF Coordinate, Finish, reportVars, Target, Launched, Free
    <3>. QED
      BY <1>1, <3>1, <3>2 DEF Work
  <2>3. (Told("loadfile")' => cmds' = cmds) /\ (Loading => Loading')
    <3>1. CASE UNCHANGED cmds
      BY <2>1, <3>1 DEF Loading, Preparing, Free, Told
    <3>2. CASE ~UNCHANGED cmds
      <4>1. Finish /\ ApplyPendingSelection /\ todo # <<>> /\ slot # 0
        BY <1>1, <3>2 DEF Work, Coordinate, SinkEvent, Finish, ApplyPendingSelection, mpvVars
      <4>2. cmds = <<>> /\ cmds' = Append(cmds, [cmd |-> "select", play |-> slot])
        BY <4>1 DEF ApplyPendingSelection, SettledInv, PaceInv, Awaits
      <4>3. cmds' = <<[cmd |-> "select", play |-> slot]>>
        BY <4>2
      <4>. QED
        BY <2>1, <4>2, <4>3 DEF Loading, Preparing, Free, Told
    <3>. QED
      BY <3>1, <3>2
  <2>. QED
    BY <2>1, <2>2, <2>3, TargetStays
<1>2. CASE (\E t \in Threads : HandOver(t)) \/ UNCHANGED allVars
  <2>1. UNCHANGED <<mpvVars, loadVars, request, active>>
    BY <1>2 DEF HandOver, EnqueueReport, allVars, reportVars
  <2>2. Target' = Target /\ (Loading' <=> Loading)
    BY <2>1 DEF Target, Launched, Free, Loading, Preparing, Told, mpvVars, loadVars
  <2>. QED
    BY <2>1, <2>2, TargetStays DEF mpvVars
<1>3. CASE User
  <2>1. /\ Settled /\ UNCHANGED <<loadVars, request, entry, file>>
        /\ active' = active \/ active' = NoPlay
    BY <1>3 DEF User, MediaKeyStop, PlayerStop, UserPause, UserSends, SwitchAccount, MayAct,
                Release, ChangeAccount, reportVars, mpvVars
  <2>2. ~Loading /\ Free /\ cmds = <<>>
    BY <2>1, SettledIsStill DEF SettledInv
  <2>3. Target' \in {0, Target}
    BY <2>1, <2>2 DEF Target, Launched, Free, loadVars, NoPlay
  <2>4. ~Told("loadfile")'
    BY <1>3, <2>2 DEF User, MediaKeyStop, PlayerStop, UserPause, UserSends, SwitchAccount,
                      mpvVars, Told
  <2>. QED
    BY <2>1, <2>2, <2>3, <2>4, TargetStays
<1>. QED
  BY <1>1, <1>2, <1>3, LoadTargets, MpvTargets DEF NativeNext

-----------------------------------------------------------------------------
(***************************************************************************)
(* Where the player is when every input is handled.                        *)
(***************************************************************************)
\* An event of these kinds is still to be delivered.
Undelivered(kinds) == \E i \in next..Len(out) : out[i].ev.kind \in kinds

\* What the runtime will make of the tracked play once the events of the batch are
\* delivered; a load under way tracks a play that has not started.
Soon == IF Undelivered(TerminalKinds) \/ (Free /\ active = NoPlay) THEN "none"
        ELSE IF Undelivered({"Started"}) \/ (Free /\ active.started) THEN "started"
        ELSE "waiting"

\* What the machine is now.
Now == View(s.phase, pending_load, Soon)

\* The inputs on their way to the machine.
Inbound == batch \o queue

\* The selection, which starts a file that was opened paused, is still to come.
Selecting == (slot # 0 /\ Awaits) \/ Told("select")

\* An outlook that does not fit a file that plays on.
Unsettled(v) ==
    \/ v.phase = "Starting"
    \/ v.phase = "Playing" /\ seen
    \/ v.phase = "Paused" /\ v.play = "waiting"

\* The outlook v is one of mpv's file.
Shows(v) ==
    /\ v.phase # "Stopped" /\ ~v.pending
    /\ stage = "shown" => v.phase # "Starting"
    /\ v.phase = "Paused" => seen
    /\ v.phase = "Playing" => v.play # "waiting"
    /\ Unsettled(v) => Selecting \/ ~pause

\* The outlook v is one of mpv as it is, if no load is on its way.
Agrees(v) ==
    /\ ~Loading /\ file = 0 => v.phase = "Stopped" /\ v.play = "none"
    /\ ~Loading /\ stage \in {"loaded", "shown"} => Shows(v)

\* Unless a load is on its way, what the machine will be agrees with what mpv is.
FutureInv == \A v \in Outlook : Leads(Now, Inbound, v) => Agrees(v)

\* A step that brings no input and changes nothing of the outlook.
LEMMA FutureStays ==
    ASSUME FutureInv, Now' = Now, Inbound' = Inbound,
           \A v \in Outlook : Agrees(v) => Agrees(v)'
    PROVE  FutureInv'
BY DEF FutureInv, Leads, Makes

\* A load on its way leaves everything open.
LEMMA FutureOpen ==
    ASSUME Loading'
    PROVE  FutureInv'
BY DEF FutureInv, Agrees

\* A post: what the last input makes of every outlook before.
LEMMA FuturePosts ==
    ASSUME SettledInv, FutureInv, NEW in \in Posted, Posts(in), UNCHANGED <<active, lock>>,
           \A v, n \in Outlook : Agrees(v) /\ Makes(v, in, n) => Agrees(n)'
    PROVE  FutureInv'
<1>1. /\ queue' = Append(queue, in) /\ UNCHANGED <<s, pending_load, batch, out, next>>
      /\ queue \in Seq(Posted) /\ batch \in Seq(Posted)
  BY DEF Posts, Enqueue, smVars, SettledInv, WorkerInv
<1>2. Now' = Now
  BY <1>1 DEF Now, View, Soon, Undelivered, Free
<1>3. Inbound \in Seq(Posted) /\ Inbound' = Append(Inbound, in)
  BY <1>1 DEF Inbound
<1>. SUFFICES ASSUME NEW n \in Outlook, Leads(Now, Append(Inbound, in), n)
              PROVE  Agrees(n)'
  BY <1>2, <1>3 DEF FutureInv, Leads, Makes
<1>4. PICK v \in Outlook : Leads(Now, Inbound, v) /\ Makes(v, in, n)
  BY <1>3, LeadsOneMore
<1>. QED
  BY <1>4 DEF FutureInv

\* An outlook agrees while nothing of mpv's file changes, but that it plays on.
LEMMA AgreesStays ==
    ASSUME UNCHANGED <<file, stage, seen>>, Loading => Loading',
           Selecting \/ ~pause => Selecting' \/ ~pause',
           NEW v, Agrees(v)
    PROVE  Agrees(v)'
BY DEF Agrees, Shows, Unsettled

\* While it loads everything is open, and tracking the play changes no outlook.
LEMMA LoadFutures ==
    ASSUME Patient, Faults = {}, SettledInv, ActiveInv, FutureInv,
           NEW l \in Loaders, Load(l), SettledInv'
    PROVE  FutureInv'
<1>1. CASE Request(l) \/ GiveUp(l)
  <2>1. UNCHANGED <<coordVars, mpvVars, loadVars, active>>
    BY <1>1 DEF Request, GiveUp, BeginRequest, EndRequest
  <2>2. Now' = Now /\ Inbound' = Inbound
    BY <2>1 DEF Now, View, Soon, Undelivered, Free, Inbound, coordVars, smVars, batchVars,
                loadVars
  <2>3. (Loading' <=> Loading) /\ (Selecting' <=> Selecting)
    BY <2>1 DEF Loading, Preparing, Selecting, Awaits, Brings, Told, Free, coordVars, batchVars,
                loadVars, mpvVars
  <2>. QED
    BY <2>1, <2>2, <2>3, FutureStays, AgreesStays DEF mpvVars
<1>2. CASE LoadStarting(l) \/ PostMediaType(l) \/ PostStart(l) \/ LoadFile(l)
  <2>1. CASE ~LoadFile(l)
    <3>1. lock' = l /\ step' # "activate"
      BY <1>2, <2>1 DEF LoadStarting, PostMediaType, PostStart
    <3>2. Preparing'
      BY <3>1, NativeAssumption DEF Preparing, Free
    <3>. QED
      BY <3>2, FutureOpen DEF Loading
  <2>2. CASE LoadFile(l)
    <3>1. cmds' = Append(cmds, [cmd |-> "loadfile", play |-> request[l].play])
          /\ lock = l /\ step = "load"
      BY <2>2 DEF LoadFile
    <3>2. cmds = <<>>
      BY <3>1, NativeAssumption
         DEF SettledInv, NativeInv, LockInv, PaceInv, Free, Launched
    <3>3. cmds' = <<[cmd |-> "loadfile", play |-> request[l].play]>>
      BY <3>1, <3>2
    <3>4. Told("loadfile")'
      BY <3>3 DEF Told
    <3>. QED
      BY <3>4, FutureOpen DEF Loading
  <2>. QED
    BY <1>2, <2>1, <2>2
<1>3. CASE Track(l)
  <2>1. /\ UNCHANGED <<coordVars, mpvVars, slot>> /\ lock = l /\ step = "activate"
        /\ lock' = NoReport /\ request[l].play \in Plays
        /\ active' = [generation |-> request[l].generation, play |-> request[l].play,
                      started |-> FALSE, paused |-> FALSE, position |-> Start]
    BY <1>3, NativeAssumption
       DEF Track, Activate, SettledInv, NativeInv, LockInv, RequestInv, Free
  <2>2. active' # NoPlay /\ active'.started = FALSE
    BY <2>1 DEF NoPlay
  <2>3. ~Free
    BY <2>1, NativeAssumption DEF Free
  <2>4. Now' = Now /\ Inbound' = Inbound
    BY <2>1, <2>2, <2>3
       DEF Now, View, Soon, Undelivered, Inbound, coordVars, smVars, batchVars
  <2>5. (Loading' <=> Loading) /\ (Selecting' <=> Selecting)
    BY <2>1, NativeAssumption DEF Loading, Preparing, Selecting, Awaits, Brings, Told, Free,
                                  coordVars, batchVars, mpvVars
  <2>. QED
    BY <2>1, <2>4, <2>5, FutureStays, AgreesStays DEF mpvVars
<1>. QED
  BY <1>1, <1>2, <1>3 DEF Load, LoadIfCurrentSteps, LoadRejected

\* A command is carried out.
LEMMA CommandFutures ==
    ASSUME SettledInv, FutureInv, Command
    PROVE  FutureInv'
<1>1. /\ cmds # <<>> /\ cmds' = <<>> /\ Head(cmds) \in Commands
      /\ UNCHANGED <<coordVars, reportVars, loadVars, file, stage, seen>>
  <2>1. cmds # <<>> /\ cmds' = Tail(cmds) /\ cmds \in Seq(Commands) /\ Len(cmds) <= 1
    BY DEF Command, SettledInv, NativeInv, PlayerInv, PaceInv
  <2>2. cmds' = <<>> /\ Head(cmds) \in Commands
    BY <2>1
  <2>. QED
    BY <2>1, <2>2 DEF Command, MpvOnly
<1>2. Now' = Now /\ Inbound' = Inbound /\ (Awaits' <=> Awaits)
  BY <1>1 DEF Now, View, Soon, Undelivered, Free, Inbound, Awaits, Brings, coordVars, smVars,
              batchVars, loadVars, reportVars
<1>3. CASE Told("loadfile")
  <2>1. entry' # 0
    BY <1>1, <1>3 DEF Command, Told, Commands, Plays
  <2>. QED
    BY <2>1, FutureOpen DEF Loading
<1>4. CASE Told("stop")
  <2>1. pause' = pause /\ entry = 0 /\ entry' = 0 /\ ~Awaits /\ ~Told("select")
    BY <1>1, <1>4 DEF Command, Told, SettledInv, PaceInv, Still
  <2>2. (Loading => Loading') /\ ~Selecting
    BY <1>1, <1>4, <2>1 DEF Loading, Preparing, Free, Told, Selecting, loadVars
  <2>. QED
    BY <1>1, <1>2, <2>1, <2>2, FutureStays, AgreesStays
<1>5. CASE Told("select")
  <2>1. pause' = FALSE /\ entry' = entry
    BY <1>1, <1>5 DEF Command, Told
  <2>2. Loading => Loading'
    BY <1>1, <1>5, <2>1 DEF Loading, Preparing, Free, Told, loadVars
  <2>. QED
    BY <1>1, <1>2, <2>1, <2>2, FutureStays, AgreesStays
<1>6. CASE Told("pause")
  <2>1. /\ entry' = entry /\ Still /\ (stage = "shown" => seen = pause)
    BY <1>1, <1>6 DEF Command, Told, SettledInv, PaceInv
  <2>2. (Loading => Loading') /\ ~Selecting
    BY <1>1, <1>6, <2>1 DEF Loading, Preparing, Free, Told, Selecting, Still, loadVars
  <2>3. ASSUME NEW v \in Outlook, Agrees(v)
        PROVE  Agrees(v)'
    <3>1. CASE Loading
      BY <2>2, <3>1 DEF Agrees
    <3>2. CASE ~Loading /\ stage = "shown"
      <4>1. /\ v.phase # "Stopped" /\ ~v.pending /\ v.phase # "Starting"
            /\ v.phase = "Paused" => seen
            /\ v.phase = "Playing" => v.play # "waiting"
            /\ ~Unsettled(v)
        <5>1. Shows(v)
          BY <2>3, <3>2 DEF Agrees
        <5>2. Unsettled(v) => seen
          BY <5>1, <3>2 DEF Shows, Unsettled
        <5>3. Unsettled(v) => ~pause
          BY <5>1, <2>2 DEF Shows
        <5>. QED
          BY <5>1, <5>2, <5>3, <2>1, <3>2 DEF Shows
      <4>2. ~Unsettled(v)'
        BY <1>1, <4>1 DEF Unsettled
      <4>3. Shows(v)'
        BY <1>1, <4>1, <4>2, Zenon DEF Shows
      <4>. QED
        BY <1>1, <3>2, <4>3 DEF Agrees, SettledInv, PaceInv
    <3>3. CASE ~Loading /\ stage = "idle"
      BY <1>1, <2>3, <3>3 DEF Agrees, SettledInv, PaceInv
    <3>. QED
      BY <2>1, <3>1, <3>2, <3>3 DEF Still
  <2>. QED
    BY <1>2, <2>3, FutureStays
<1>. QED
  BY <1>1, <1>3, <1>4, <1>5, <1>6 DEF Told, Commands

\* The file ends, and the machine will hear of it.
LEMMA EndFutures ==
    ASSUME SettledInv, FutureInv, EndStopped \/ Ends
    PROVE  FutureInv'
<1>1. PICK reason \in EndReasons :
          EndsFile(reason) /\ (stage = "opening" => reason = "Error")
                           /\ stage \in {"opening", "loaded", "shown"}
  BY DEF EndStopped, Ends, EndReasons, SettledInv, PaceInv
<1>. DEFINE in == [op |-> "EndFile", reason |-> reason]
<1>2. /\ file' = 0 /\ stage' = "idle" /\ Posts(in) /\ in \in Posted
      /\ UNCHANGED <<reportVars, loadVars, cmds, entry>>
  BY <1>1, PostedInputs DEF EndsFile, Emits, MpvOnly
<1>3. ASSUME NEW v \in Outlook, NEW n \in Outlook, Agrees(v), Makes(v, in, n)
      PROVE  Agrees(n)'
  <2>1. CASE Loading'
    BY <1>2, <2>1 DEF Agrees
  <2>2. CASE ~Loading'
    <3>1. ~Loading
      BY <1>2, <2>2 DEF Loading, Preparing, Told, Free, loadVars
    <3>2. v.pending => reason = "Error"
      BY <1>1, <1>3, <3>1 DEF Agrees, Shows
    <3>3. n.phase = "Stopped" /\ n.play = "none"
      BY <1>3, <3>2 DEF Makes
    <3>. QED
      BY <1>2, <3>3 DEF Agrees
  <2>. QED
    BY <2>1, <2>2
<1>. HIDE DEF in
<1>. QED
  BY <1>2, <1>3, FuturePosts DEF reportVars, loadVars

\* The file is loaded, and its selection to come.
LEMMA LoadedFutures ==
    ASSUME SettledInv, FutureInv, Loaded, SettledInv'
    PROVE  FutureInv'
<1>. DEFINE in == [op |-> "FileLoaded"]
<1>1. /\ stage = "opening" /\ stage' = "loaded" /\ Posts(in) /\ in \in Posted
      /\ UNCHANGED <<reportVars, loadVars, cmds, entry, file, pause, seen>>
  BY PostedInputs DEF Loaded, Emits, MpvOnly
<1>2. Selecting'
  <2>1. slot # 0
    BY <1>1 DEF SettledInv, PaceInv
  <2>2. Awaits'
    BY <1>1, PostAwaits DEF SettledInv
  <2>. QED
    BY <1>1, <2>1, <2>2 DEF Selecting, loadVars
<1>3. file' # 0
  BY <1>1 DEF SettledInv, PaceInv
<1>4. ASSUME NEW v \in Outlook, NEW n \in Outlook, Agrees(v), Makes(v, in, n)
      PROVE  Agrees(n)'
  <2>1. n.phase = "Starting" /\ ~n.pending
    BY <1>4 DEF Makes
  <2>2. Shows(n)'
    BY <1>1, <1>2, <2>1 DEF Shows
  <2>. QED
    BY <1>3, <2>2 DEF Agrees
<1>. HIDE DEF in
<1>. QED
  BY <1>1, <1>4, FuturePosts DEF reportVars, loadVars

\* The first frame is shown.
LEMMA FrameFutures ==
    ASSUME SettledInv, FutureInv, FirstFrame
    PROVE  FutureInv'
<1>. DEFINE in == [op |-> "PlaybackRestart"]
<1>1. /\ stage = "loaded" /\ stage' = "shown" /\ Posts(in) /\ in \in Posted
      /\ UNCHANGED <<reportVars, loadVars, cmds, entry, file, pause, seen>>
  BY PostedInputs DEF FirstFrame, Emits, MpvOnly
<1>2. (Loading' <=> Loading) /\ (Selecting' <=> Selecting) /\ file # 0
  <2>1. Awaits' <=> Awaits
    BY <1>1, PostAwaits DEF SettledInv
  <2>. QED
    BY <1>1, <2>1
       DEF Loading, Preparing, Told, Free, Selecting, loadVars, SettledInv, PaceInv
<1>3. ASSUME NEW v \in Outlook, NEW n \in Outlook, Agrees(v), Makes(v, in, n), ~Loading
      PROVE  Shows(n)'
  <2>1. Shows(v)
    BY <1>1, <1>3 DEF Agrees
  <2>2. CASE v.phase = "Starting"
    <3>1. n.phase = "Playing" /\ n.pending = v.pending /\ n.play = Begun(v.play)
      BY <1>3, <2>2 DEF Makes
    <3>2. ~v.pending /\ (Selecting \/ ~pause)
      BY <2>1, <2>2 DEF Shows, Unsettled
    <3>. QED
      BY <1>1, <1>2, <3>1, <3>2 DEF Shows, Begun
  <2>3. CASE v.phase # "Starting"
    <3>1. n = v
      BY <1>3, <2>3 DEF Makes
    <3>. QED
      BY <1>1, <1>2, <2>1, <2>3, <3>1 DEF Shows, Unsettled
  <2>. QED
    BY <2>2, <2>3
<1>4. ASSUME NEW v \in Outlook, NEW n \in Outlook, Agrees(v), Makes(v, in, n)
      PROVE  Agrees(n)'
  BY <1>1, <1>2, <1>3, <1>4 DEF Agrees
<1>. HIDE DEF in
<1>. QED
  BY <1>1, <1>4, FuturePosts DEF reportVars, loadVars

\* A position is reported.
LEMMA TimeFutures ==
    ASSUME SettledInv, FutureInv, ReportTime
    PROVE  FutureInv'
<1>. DEFINE in == [op |-> "Position", position |-> time]
<1>1. /\ Posts(in) /\ in \in Posted
      /\ UNCHANGED <<reportVars, loadVars, cmds, entry, file, stage, pause, seen>>
  BY PostedInputs DEF ReportTime, Emits, MpvOnly, SettledInv, NativeInv, PlayerInv
<1>2. (Loading' <=> Loading) /\ (Selecting' <=> Selecting)
  <2>1. Awaits' <=> Awaits
    BY <1>1, PostAwaits DEF SettledInv
  <2>. QED
    BY <1>1, <2>1 DEF Loading, Preparing, Told, Free, Selecting, loadVars
<1>3. ASSUME NEW v \in Outlook, NEW n \in Outlook, Agrees(v), Makes(v, in, n)
      PROVE  Agrees(n)'
  <2>1. n = v
    BY <1>3 DEF Makes
  <2>2. Agrees(v)'
    BY <1>1, <1>2, <1>3, AgreesStays
  <2>. QED
    BY <2>1, <2>2
<1>. HIDE DEF in
<1>. QED
  BY <1>1, <1>3, FuturePosts DEF reportVars, loadVars

\* mpv's pause is reported: a file that is paused stays so, or is to be selected.
LEMMA PauseFutures ==
    ASSUME SettledInv, FutureInv, ReportPause
    PROVE  FutureInv'
<1>. DEFINE in == [op |-> "PauseChanged", flag |-> pause]
<1>1. /\ Posts(in) /\ in \in Posted /\ seen # pause /\ seen' = pause
      /\ pause \in BOOLEAN /\ seen \in BOOLEAN
      /\ UNCHANGED <<reportVars, loadVars, cmds, entry, file, stage, pause>>
  BY PostedInputs
     DEF ReportPause, Emits, MpvOnly, SettledInv, NativeInv, PlayerInv, PaceInv
<1>2. (Loading' <=> Loading) /\ (Selecting' <=> Selecting)
  <2>1. Awaits' <=> Awaits
    BY <1>1, PostAwaits DEF SettledInv
  <2>. QED
    BY <1>1, <2>1 DEF Loading, Preparing, Told, Free, Selecting, loadVars
<1>3. ASSUME NEW v \in Outlook, NEW n \in Outlook, Agrees(v), Makes(v, in, n)
      PROVE  Agrees(n)'
  <2>1. CASE ~Loading /\ file = 0
    <3>1. v.phase = "Stopped" /\ v.play = "none" /\ stage = "idle"
      BY <1>3, <2>1 DEF Agrees, SettledInv, PaceInv
    <3>2. n = v
      BY <1>3, <3>1 DEF Makes
    <3>. QED
      BY <1>1, <3>1, <3>2 DEF Agrees
  <2>2. CASE ~Loading /\ stage \in {"loaded", "shown"}
    <3>1. Shows(v)
      BY <1>3, <2>2 DEF Agrees
    <3>2. CASE pause
      <4>1. n.phase = "Paused" /\ n.pending = v.pending /\ n.play = v.play
        BY <1>3, <3>1, <3>2 DEF Makes, Shows
      <4>2. n.play = "waiting" => Selecting
        <5>1. v.phase \in {"Starting", "Playing", "Paused"}
          BY <3>1 DEF Shows, Outlook, Phases
        <5>. QED
          BY <1>1, <3>1, <3>2, <4>1, <5>1 DEF Shows, Unsettled
      <4>. QED
        BY <1>1, <1>2, <2>2, <3>1, <3>2, <4>1, <4>2
           DEF Agrees, Shows, Unsettled, SettledInv, PaceInv
    <3>3. CASE ~pause
      <4>1. n.phase # "Stopped" /\ n.pending = v.pending /\ n.phase # "Paused"
            /\ (n.phase = "Starting" => v.phase = "Starting")
            /\ (n.phase = "Playing" => n.play # "waiting")
        BY <1>3, <3>1, <3>3 DEF Makes, Shows, Begun
      <4>. QED
        BY <1>1, <2>2, <3>1, <3>3, <4>1 DEF Agrees, Shows, SettledInv, PaceInv
    <3>. QED
      BY <3>2, <3>3
  <2>3. CASE Loading \/ (file # 0 /\ stage \notin {"loaded", "shown"})
    BY <1>1, <1>2, <2>3 DEF Agrees
  <2>. QED
    BY <2>1, <2>2, <2>3
<1>. HIDE DEF in
<1>. QED
  BY <1>1, <1>3, FuturePosts DEF reportVars, loadVars

\* Whatever mpv does, the outlooks follow.
LEMMA MpvFutures ==
    ASSUME SettledInv, FutureInv, Mpv, SettledInv'
    PROVE  FutureInv'
<1>1. CASE Open \/ Tick
  <2>1. UNCHANGED <<coordVars, reportVars, loadVars, cmds, seen>>
    BY <1>1 DEF Open, Tick, MpvOnly
  <2>2. Now' = Now /\ Inbound' = Inbound /\ (Awaits' <=> Awaits)
    BY <2>1 DEF Now, View, Soon, Undelivered, Free, Inbound, Awaits, Brings, coordVars, smVars,
                batchVars, loadVars, reportVars
  <2>3. CASE Tick
    <3>1. UNCHANGED <<entry, file, stage, pause>>
      BY <2>3 DEF Tick
    <3>2. (Loading' <=> Loading) /\ (Selecting' <=> Selecting)
      BY <2>1, <2>2, <3>1 DEF Loading, Preparing, Told, Free, Selecting, loadVars
    <3>. QED
      BY <2>1, <2>2, <3>1, <3>2, FutureStays, AgreesStays
  <2>4. CASE Open
    <3>1. stage' = "opening" /\ file' # 0
      BY <2>4 DEF Open
    <3>2. \A v \in Outlook : Agrees(v)'
      BY <3>1 DEF Agrees
    <3>. QED
      BY <2>2, <3>2, FutureStays
  <2>. QED
    BY <1>1, <2>3, <2>4
<1>. QED
  BY <1>1, CommandFutures, EndFutures, LoadedFutures, FrameFutures, TimeFutures, PauseFutures
     DEF Mpv

\* Concatenation with nothing.
LEMMA NothingAppended ==
    ASSUME NEW S, NEW q \in Seq(S)
    PROVE  q \o <<>> = q /\ <<>> \o q = q
OBVIOUS

\* The events of a batch with those of one more input.
LEMMA CollectedAppended ==
    ASSUME NEW evs \in Seq(Stamped), NEW res \in Seq(Event)
    PROVE  LET grown == evs \o Collected(res) IN
           /\ Len(grown) = Len(evs) + Len(res)
           /\ \A i \in 1..Len(evs) : grown[i] = evs[i]
           /\ \A i \in 1..Len(res) : grown[Len(evs) + i].ev = res[i]
<1>. DEFINE more == Collected(res)
            grown == evs \o more
            S == [ev : Event, snapshot : {Fresh}]
<1>1. Len(res) \in Nat /\ DOMAIN res = 1..Len(res)
  OBVIOUS
<1>2. more = [i \in 1..Len(res) |-> [ev |-> res[i], snapshot |-> Fresh]]
  BY <1>1 DEF Collected
<1>3. \A i \in 1..Len(res) : [ev |-> res[i], snapshot |-> Fresh] \in S
  BY <1>1
<1>4. \A i \in 1..Len(res) : more[i].ev = res[i]
  BY <1>2
<1>5. more \in Seq(S) /\ Len(more) = Len(res)
  <2>. HIDE DEF S
  <2>1. more \in [1..Len(res) -> S]
    BY <1>2, <1>3
  <2>. HIDE DEF more
  <2>. QED
    BY <1>1, <2>1
<1>. HIDE DEF more, S
<1>6. /\ Len(grown) = Len(evs) + Len(more)
      /\ \A i \in 1..Len(evs) : grown[i] = evs[i]
      /\ \A i \in 1..Len(more) : grown[Len(evs) + i] = more[i]
  BY <1>5
<1>. HIDE DEF grown
<1>. QED
  BY <1>4, <1>5, <1>6, Zenon DEF grown, more

\* The events a handler returns are delivered with its batch.
LEMMA ApplyAdds ==
    ASSUME SettledInv, ApplyInput, NEW kinds
    PROVE  Undelivered(kinds)' <=> Undelivered(kinds) \/ KindsIn(emitted') \cap kinds # {}
<1>. DEFINE in == Head(batch)
<1>1. /\ pc = "apply" /\ batch # <<>> /\ Handle(in) /\ next' = next
      /\ out' = out \o Collected(emitted' \o OwnEvent(in))
  BY DEF ApplyInput
<1>2. in \in Posted /\ next = 1
  BY <1>1 DEF SettledInv, WorkerInv
<1>3. OwnEvent(in) = <<>>
  <2>1. in.op \notin {"Metadata", "Seeked", "Artwork", "QueueCaps"}
    BY <1>2 DEF Posted
  <2>. QED
    BY <2>1 DEF OwnEvent
<1>4. out \in Seq(Stamped) /\ emitted' \in Seq(Event)
  <2>1. IInv /\ in \in Inputs
    BY <1>2, NativeAssumption DEF SettledInv, NativeInv, BatchInv
  <2>2. IInv'
    BY <1>1, <2>1, HandleKeeps
  <2>. QED
    BY <2>2 DEF IInv, TypeOK, SettledInv, NativeInv, BatchInv
<1>5. out' = out \o Collected(emitted')
  <2>1. emitted' \o <<>> = emitted'
    BY <1>4, NothingAppended
  <2>. QED
    BY <1>1, <1>3, <2>1, Zenon
<1>6. /\ Len(out') = Len(out) + Len(emitted')
      /\ \A i \in 1..Len(out) : out'[i] = out[i]
      /\ \A i \in 1..Len(emitted') : out'[Len(out) + i].ev = emitted'[i]
  BY <1>4, <1>5, CollectedAppended, Zenon
<1>7. Len(out) \in Nat /\ Len(emitted') \in Nat /\ DOMAIN emitted' = 1..Len(emitted')
  BY <1>4
<1>. HIDE DEF in
<1>8. ASSUME Undelivered(kinds)'
      PROVE  Undelivered(kinds) \/ KindsIn(emitted') \cap kinds # {}
  <2>1. PICK i \in 1..Len(out') : out'[i].ev.kind \in kinds
    BY <1>1, <1>2, <1>8 DEF Undelivered
  <2>2. CASE i \in 1..Len(out)
    BY <1>2, <1>6, <2>1, <2>2 DEF Undelivered
  <2>3. CASE i \notin 1..Len(out)
    <3>1. i - Len(out) \in 1..Len(emitted') /\ i = Len(out) + (i - Len(out))
      BY <1>6, <1>7, <2>1, <2>3
    <3>2. emitted'[i - Len(out)].kind \in kinds
      BY <1>6, <2>1, <3>1
    <3>. QED
      BY <1>7, <3>1, <3>2 DEF KindsIn
  <2>. QED
    BY <2>2, <2>3
<1>9. ASSUME Undelivered(kinds)
      PROVE  Undelivered(kinds)'
  <2>1. PICK i \in 1..Len(out) : out[i].ev.kind \in kinds
    BY <1>2, <1>9 DEF Undelivered
  <2>2. i \in 1..Len(out') /\ out'[i].ev.kind \in kinds
    BY <1>6, <1>7, <2>1
  <2>. QED
    BY <1>1, <1>2, <2>2 DEF Undelivered
<1>10. ASSUME KindsIn(emitted') \cap kinds # {}
       PROVE  Undelivered(kinds)'
  <2>1. PICK i \in 1..Len(emitted') : emitted'[i].kind \in kinds
    BY <1>7, <1>10 DEF KindsIn
  <2>2. Len(out) + i \in 1..Len(out') /\ out'[Len(out) + i].ev.kind \in kinds
    BY <1>6, <1>7, <2>1
  <2>. QED
    BY <1>1, <1>2, <2>2 DEF Undelivered
<1>. QED
  BY <1>8, <1>9, <1>10

\* The machine's outlook is one.
LEMMA NowTyped == SettledInv => Now \in Outlook
<1>. SUFFICES ASSUME SettledInv PROVE Now \in Outlook
  OBVIOUS
<1>1. s.phase \in Phases /\ pending_load \in BOOLEAN
  BY DEF SettledInv, NativeInv, BatchInv, IInv, TypeOK, Snapshot
<1>2. Soon \in {"none", "waiting", "started"}
  BY DEF Soon
<1>. QED
  BY <1>1, <1>2 DEF Now, View, Outlook

\* An input is handled: the outlooks that are left were ones before.
LEMMA ApplyFutures ==
    ASSUME SettledInv, FutureInv, ApplyInput, UNCHANGED <<reportVars, mpvVars, loadVars>>,
           SettledInv'
    PROVE  FutureInv'
<1>. DEFINE in == Head(batch)
            kinds == KindsIn(emitted')
<1>1. /\ batch # <<>> /\ Handle(in) /\ batch' = Tail(batch) /\ queue' = queue
      /\ batch \in Seq(Posted) /\ queue \in Seq(Posted) /\ in \in Posted
  BY DEF ApplyInput, SettledInv, WorkerInv
<1>2. Makes(Now, in, View(s'.phase, pending_load', Handled(kinds, Soon)))
  <2>1. IInv /\ Calm
    BY DEF SettledInv, NativeInv, BatchInv, WorkerInv
  <2>2. Makes(View(s.phase, pending_load, Soon), in,
              View(s'.phase, pending_load', Handled(KindsIn(emitted'), Soon)))
    BY <1>1, <2>1, HandleMakes
  <2>. QED
    BY <2>2 DEF Now
<1>3. Soon' = Handled(kinds, Soon)
  <2>1. /\ Undelivered(TerminalKinds)' <=> Undelivered(TerminalKinds)
                                           \/ kinds \cap TerminalKinds # {}
        /\ Undelivered({"Started"})' <=> Undelivered({"Started"}) \/ "Started" \in kinds
    <3>1. kinds \cap {"Started"} # {} <=> "Started" \in kinds
      OBVIOUS
    <3>. QED
      BY <3>1, ApplyAdds
  <2>2. (Free' <=> Free) /\ active' = active
    BY DEF Free, reportVars, loadVars
  <2>. HIDE DEF kinds
  <2>. QED
    BY <2>1, <2>2 DEF Soon, Handled, Begun
<1>4. /\ Inbound \in Seq(Posted) /\ Inbound # <<>> /\ Head(Inbound) = in
      /\ Inbound' = Tail(Inbound)
  <2>1. /\ batch \o queue \in Seq(Posted) /\ batch \o queue # <<>>
        /\ Head(batch \o queue) = Head(batch)
    BY <1>1
  <2>2. Tail(batch \o queue) = Tail(batch) \o queue
    BY <1>1
  <2>. QED
    BY <1>1, <2>1, <2>2 DEF Inbound
<1>5. Now \in Outlook /\ Now' \in Outlook
  <2>1. s'.phase \in Phases /\ pending_load' \in BOOLEAN
    BY DEF SettledInv, NativeInv, BatchInv, IInv, TypeOK, Snapshot
  <2>2. Soon' \in {"none", "waiting", "started"}
    BY DEF Soon
  <2>. QED
    BY <2>1, <2>2, NowTyped DEF Now, View, Outlook
<1>6. ASSUME NEW n \in Outlook, Leads(Now', Inbound', n)
      PROVE  Agrees(n)'
  <2>1. Makes(Now, Head(Inbound), Now')
    BY <1>2, <1>3, <1>4 DEF Now, View
  <2>2. Leads(Now, Inbound, n)
    BY <1>4, <1>5, <1>6, <2>1, LeadsOneLess
  <2>3. Agrees(n)
    BY <2>2 DEF FutureInv
  <2>4. Awaits' <=> Awaits
    BY WorkAwaits DEF SettledInv
  <2>5. (Loading' <=> Loading) /\ (Selecting' <=> Selecting)
    BY <2>4 DEF Loading, Preparing, Told, Free, Selecting, mpvVars, loadVars
  <2>. QED
    BY <2>3, <2>5, AgreesStays DEF mpvVars
<1>. QED
  BY <1>6 DEF FutureInv, Leads, Makes

\* A delivered event does to the tracked play what was foreseen.
LEMMA SinkFutures ==
    ASSUME Faults = {}, SettledInv, ActiveInv, FutureInv, SinkEvent
    PROVE  FutureInv'
<1>. DEFINE kind == out[next].ev.kind
<1>1. /\ pc = "events" /\ next <= Len(out) /\ next' = next + 1 /\ Free /\ cmds' = cmds
      /\ UNCHANGED <<smVars, queue, batch, todo, out, loadVars, entry, file, stage, pause, seen>>
      /\ next \in Nat /\ Len(out) \in Nat
  BY DEF SinkEvent, DeliverEvent, SettledInv, NativeInv, BatchInv
<1>2. \E position : PlanEvent(Sink, kind, position)
  BY DEF SinkEvent, HandlePlaybackEvent
<1>3. ASSUME NEW kinds
      PROVE  Undelivered(kinds) <=> kind \in kinds \/ Undelivered(kinds)'
  <2>1. \A i : i \in next..Len(out) <=> i = next \/ i \in (next + 1)..Len(out)
    BY <1>1
  <2>2. Undelivered(kinds)' <=> \E i \in (next + 1)..Len(out) : out[i].ev.kind \in kinds
    BY <1>1 DEF Undelivered
  <2>. QED
    BY <2>1, <2>2 DEF Undelivered
<1>4. Free'
  BY <1>1 DEF Free, loadVars
<1>5. Soon' = Soon
  <2>1. /\ kind \in TerminalKinds => active' = NoPlay
        /\ active = NoPlay => active' = NoPlay
        /\ active # NoPlay /\ kind \notin TerminalKinds =>
               active' # NoPlay /\ (active'.started <=> active.started \/ kind = "Started")
    BY <1>2, EventTracks
  <2>2. /\ Undelivered(TerminalKinds) <=> kind \in TerminalKinds \/ Undelivered(TerminalKinds)'
        /\ Undelivered({"Started"}) <=> kind = "Started" \/ Undelivered({"Started"})'
    <3>1. kind \in {"Started"} <=> kind = "Started"
      OBVIOUS
    <3>. QED
      BY <1>3, <3>1
  <2>. HIDE DEF kind
  <2>3. CASE Undelivered(TerminalKinds)'
    BY <2>2, <2>3 DEF Soon
  <2>4. CASE ~Undelivered(TerminalKinds)' /\ (active = NoPlay \/ kind \in TerminalKinds)
    BY <1>1, <1>4, <2>1, <2>2, <2>4 DEF Soon
  <2>5. CASE ~Undelivered(TerminalKinds)' /\ active # NoPlay /\ kind \notin TerminalKinds
    <3>1. active' # NoPlay /\ (active'.started <=> active.started \/ kind = "Started")
      BY <2>1, <2>5
    <3>2. ~Undelivered(TerminalKinds)
      BY <2>2, <2>5
    <3>3. Soon' = IF Undelivered({"Started"})' \/ active'.started THEN "started" ELSE "waiting"
      BY <1>4, <2>5, <3>1 DEF Soon
    <3>4. Soon = IF Undelivered({"Started"}) \/ active.started THEN "started" ELSE "waiting"
      BY <1>1, <2>5, <3>2 DEF Soon
    <3>. QED
      BY <2>2, <3>1, <3>3, <3>4
  <2>. QED
    BY <2>3, <2>4, <2>5
<1>6. Now' = Now /\ Inbound' = Inbound
  BY <1>1, <1>5 DEF Now, View, Inbound, smVars
<1>7. (Loading' <=> Loading) /\ (Selecting' <=> Selecting)
  BY <1>1 DEF Loading, Preparing, Told, Free, Selecting, Awaits, Brings, loadVars
<1>. QED
  BY <1>1, <1>6, <1>7, FutureStays, AgreesStays

\* The worker changes no outlook but by handling what is inbound.
LEMMA WorkFutures ==
    ASSUME Faults = {}, SettledInv, ActiveInv, FutureInv, Work, SettledInv'
    PROVE  FutureInv'
<1>1. CASE Coordinate /\ ApplyInput
  BY <1>1, ApplyFutures DEF Coordinate
<1>2. CASE Coordinate /\ (TakeBatch \/ PublishBatch)
  <2>1. UNCHANGED <<reportVars, mpvVars, loadVars>> /\ (Awaits' <=> Awaits)
    BY <1>2, WorkAwaits DEF Coordinate, SettledInv
  <2>2. (Loading' <=> Loading) /\ (Selecting' <=> Selecting)
    BY <2>1 DEF Loading, Preparing, Told, Free, Selecting, mpvVars, loadVars
  <2>3. Inbound' = Inbound
    <3>1. CASE TakeBatch
      <4>1. batch = <<>> /\ batch' = queue /\ queue' = <<>> /\ queue \in Seq(Posted)
        BY <3>1 DEF TakeBatch, At, SettledInv, WorkerInv
      <4>. QED
        BY <4>1, NothingAppended DEF Inbound
    <3>2. CASE PublishBatch
      BY <3>2 DEF PublishBatch, Inbound
    <3>. QED
      BY <1>2, <3>1, <3>2
  <2>4. ASSUME NEW kinds
        PROVE  Undelivered(kinds)' <=> Undelivered(kinds)
    <3>1. CASE TakeBatch
      BY <3>1 DEF TakeBatch, Undelivered
    <3>2. CASE PublishBatch
      <4>1. /\ next' = next /\ next = 1 /\ out \in Seq(Stamped)
            /\ out' = [i \in DOMAIN out |-> [out[i] EXCEPT !.snapshot = s]]
        BY <3>2 DEF PublishBatch, At, SettledInv, WorkerInv, NativeInv, BatchInv
      <4>2. /\ Len(out') = Len(out)
            /\ \A i \in 1..Len(out) : out'[i].ev = out[i].ev
        <5>1. Len(out) \in Nat /\ DOMAIN out = 1..Len(out) /\ DOMAIN out' = 1..Len(out)
          BY <4>1
        <5>2. \A i \in 1..Len(out) : out[i] \in Stamped
          BY <4>1
        <5>3. \A i \in 1..Len(out) : out'[i].ev = out[i].ev
          BY <4>1, <5>1, <5>2 DEF Stamped
        <5>4. out' \in Seq(Stamped)
          <6>1. s \in Snapshot
            BY DEF SettledInv, NativeInv, BatchInv, IInv, TypeOK
          <6>. QED
            BY <4>1, <6>1, PublishStamps
        <5>. QED
          BY <5>1, <5>3, <5>4
      <4>. QED
        BY <4>1, <4>2 DEF Undelivered
    <3>. QED
      BY <1>2, <3>1, <3>2
  <2>5. Now' = Now
    <3>1. UNCHANGED <<s, pending_load, active>> /\ (Free' <=> Free)
      BY <1>2, <2>1 DEF TakeBatch, PublishBatch, smVars, reportVars, loadVars, Free
    <3>. QED
      BY <2>4, <3>1 DEF Now, View, Soon
  <2>. QED
    BY <2>1, <2>2, <2>3, <2>5, FutureStays, AgreesStays DEF mpvVars
<1>3. CASE Finish
  <2>1. /\ next > Len(out) /\ out' = <<>> /\ next' = 1
        /\ UNCHANGED <<smVars, queue, batch, reportVars, lock, step, entry, file, stage, pause,
                       seen>>
        /\ next \in Nat /\ Len(out) \in Nat
    BY <1>3 DEF Finish, FinishBatch, At, SettledInv, NativeInv, BatchInv
  <2>2. ASSUME NEW kinds
        PROVE  ~Undelivered(kinds) /\ ~Undelivered(kinds)'
    BY <2>1 DEF Undelivered
  <2>3. Now' = Now /\ Inbound' = Inbound
    BY <2>1, <2>2 DEF Now, View, Soon, Free, Inbound, smVars, reportVars
  <2>4. (Awaits' <=> Brings(queue)) /\ (Awaits <=> Brings(queue) \/ todo # <<>>)
    BY <1>3, WorkAwaits DEF Finish, SettledInv
  <2>5. (Loading => Loading') /\ (Selecting => Selecting')
    <3>1. CASE todo # <<>> /\ slot # 0
      <4>1. cmds = <<>> /\ cmds' = Append(cmds, [cmd |-> "select", play |-> slot])
        BY <1>3, <2>4, <3>1 DEF Finish, ApplyPendingSelection, SettledInv, PaceInv
      <4>2. cmds' = <<[cmd |-> "select", play |-> slot]>>
        BY <4>1
      <4>. QED
        BY <2>1, <4>1, <4>2 DEF Loading, Preparing, Told, Free, Selecting
    <3>2. CASE ~(todo # <<>> /\ slot # 0)
      <4>1. UNCHANGED <<slot, cmds>>
        BY <1>3, <3>2 DEF Finish, ApplyPendingSelection
      <4>. QED
        BY <2>1, <2>4, <3>2, <4>1 DEF Loading, Preparing, Told, Free, Selecting
    <3>. QED
      BY <3>1, <3>2
  <2>. QED
    BY <2>1, <2>3, <2>5, FutureStays, AgreesStays
<1>. QED
  BY <1>1, <1>2, <1>3, SinkFutures DEF Work, Coordinate

\* Without inputs an outlook leads to itself.
LEMMA LeadsHere ==
    ASSUME NEW m \in Outlook
    PROVE  Leads(m, <<>>, m)
<1>. DEFINE r == [i \in 1..1 |-> m]
<1>1. r \in [1..1 -> Outlook] /\ r[1] = m
  OBVIOUS
<1>2. Len(<<>>) + 1 = 1 /\ 1..Len(<<>>) = {}
  OBVIOUS
<1>. HIDE DEF r
<1>. QED
  BY <1>1, <1>2 DEF Leads

\* Where the player has settled the machine is what it will be.
LEMMA SettledAgrees ==
    ASSUME SettledInv, FutureInv, Settled
    PROVE  /\ Agrees(Now) /\ Inbound = <<>> /\ ~Loading /\ ~Selecting /\ Free
           /\ Soon = IF active = NoPlay THEN "none"
                     ELSE IF active.started THEN "started" ELSE "waiting"
<1>1. /\ Still /\ ~Loading /\ Free /\ cmds = <<>> /\ batch = <<>> /\ queue = <<>> /\ out = <<>>
  BY SettledIsStill DEF SettledInv
<1>2. Inbound = <<>>
  BY <1>1 DEF Inbound
<1>3. Leads(Now, Inbound, Now) /\ Now \in Outlook
  BY <1>2, NowTyped, LeadsHere
<1>4. \A kinds : ~Undelivered(kinds)
  <2>1. next = 1 /\ Len(out) = 0
    BY <1>1 DEF SettledInv, WorkerInv, Settled
  <2>. QED
    BY <2>1 DEF Undelivered
<1>. QED
  BY <1>1, <1>2, <1>3, <1>4 DEF FutureInv, Soon, Selecting, Still, Told

\* The user acts when the player has settled, and only the tracked play changes.
LEMMA UserFutures ==
    ASSUME Patient, SettledInv, FutureInv, User
    PROVE  FutureInv'
<1>1. /\ Settled
      /\ UNCHANGED <<coordVars, loadVars, entry, file, stage, stopping, pause, seen>>
      /\ active' \in {active, NoPlay}
  BY DEF User, MediaKeyStop, PlayerStop, UserPause, UserSends, SwitchAccount, MayAct, Release,
         ChangeAccount, mpvVars, reportVars
<1>2. /\ Agrees(Now) /\ Inbound = <<>> /\ ~Loading /\ ~Selecting /\ Free
      /\ Soon = IF active = NoPlay THEN "none"
                ELSE IF active.started THEN "started" ELSE "waiting"
  BY <1>1, SettledAgrees
<1>3. Inbound' = Inbound
  BY <1>1 DEF Inbound, coordVars, batchVars
<1>4. \A v \in Outlook : Agrees(v) => Agrees(v)'
  BY <1>1, <1>2, AgreesStays
<1>5. CASE active' = active
  <2>1. Now' = Now
    BY <1>1, <1>5 DEF Now, View, Soon, Undelivered, Free, coordVars, smVars, batchVars, loadVars
  <2>. QED
    BY <1>3, <1>4, <2>1, FutureStays
<1>6. CASE active' = NoPlay
  <2>1. Soon' = "none"
    BY <1>1, <1>2, <1>6 DEF Soon, Free, loadVars
  <2>2. Now' = View(s.phase, pending_load, "none")
    BY <1>1, <2>1 DEF Now, View, coordVars, smVars
  <2>3. Agrees(View(s.phase, pending_load, "none"))
    BY <1>2 DEF Agrees, Shows, Unsettled, Now, View
  <2>4. View(s.phase, pending_load, "none") \in Outlook
    BY NowTyped DEF Now, View, Outlook
  <2>5. ASSUME NEW v \in Outlook, Leads(Now', Inbound', v)
        PROVE  Agrees(v)'
    <3>1. v = View(s.phase, pending_load, "none")
      <4>1. Leads(View(s.phase, pending_load, "none"), <<>>, v)
        BY <1>2, <1>3, <2>2, <2>5
      <4>. QED
        BY <4>1, LeadsNowhere
    <3>. QED
      BY <1>4, <2>3, <2>4, <3>1
  <2>. QED
    BY <2>5 DEF FutureInv, Leads, Makes
<1>. QED
  BY <1>1, <1>5, <1>6

-----------------------------------------------------------------------------
\* What the settled player rests on.
RestInv == SettledInv /\ ActiveInv /\ TargetInv /\ FutureInv

\* Every step of native playback keeps it.
LEMMA RestKept ==
    ASSUME Patient, Faults = {}, RestInv, [NativeNext]_allVars
    PROVE  RestInv'
<1>. USE DEF RestInv
<1>1. SettledInv'
  BY PaceKept
<1>2. ActiveInv'
  BY StepsAreReports, ActiveInvKept DEF SettledInv, NativeInv
<1>3. TargetInv'
  BY TargetKept
<1>4. FutureInv'
  <2>1. CASE (\E t \in Threads : HandOver(t)) \/ UNCHANGED allVars
    <3>1. UNCHANGED <<coordVars, mpvVars, loadVars, active>>
      BY <2>1 DEF HandOver, EnqueueReport, allVars, reportVars
    <3>2. Now' = Now /\ Inbound' = Inbound
      BY <3>1 DEF Now, View, Soon, Undelivered, Free, Inbound, coordVars, smVars, batchVars,
                  loadVars
    <3>3. (Loading' <=> Loading) /\ (Selecting' <=> Selecting)
      BY <3>1 DEF Loading, Preparing, Selecting, Awaits, Brings, Told, Free, coordVars,
                  batchVars, loadVars, mpvVars
    <3>. QED
      BY <3>1, <3>2, <3>3, FutureStays, AgreesStays DEF mpvVars
  <2>. QED
    BY <1>1, <2>1, LoadFutures, WorkFutures, MpvFutures, UserFutures DEF NativeNext
<1>. QED
  BY <1>1, <1>2, <1>3, <1>4

\* It holds at the start.
LEMMA RestInit == NativeInit => RestInv
<1>. SUFFICES ASSUME NativeInit PROVE RestInv
  OBVIOUS
<1>1. SettledInv
  BY PaceInit
<1>2. /\ active = NoPlay /\ resources = 0 /\ Free /\ cmds = <<>> /\ entry = 0 /\ file = 0
      /\ batch = <<>> /\ queue = <<>> /\ s.phase = "Stopped"
  BY DEF NativeInit, ReportInit, BatchInit, Init, Fresh, Free
<1>3. ActiveInv
  BY <1>2 DEF ActiveInv
<1>4. ~Told("loadfile") /\ ~Loading
  BY <1>2 DEF Told, Loading, Preparing
<1>5. TargetInv
  BY <1>2, <1>4 DEF TargetInv
<1>6. FutureInv
  <2>1. Now.phase = "Stopped" /\ Now.play = "none"
    BY <1>2 DEF Now, View, Soon
  <2>2. ASSUME NEW v \in Outlook, Leads(Now, Inbound, v)
        PROVE  v = Now
    <3>1. Inbound = <<>>
      BY <1>2 DEF Inbound
    <3>. QED
      BY <2>2, <3>1, LeadsNowhere
  <2>3. stage = "idle"
    BY <1>1, <1>2 DEF SettledInv, PaceInv
  <2>. QED
    BY <2>1, <2>2, <2>3 DEF FutureInv, Agrees
<1>. QED
  BY <1>1, <1>3, <1>5, <1>6 DEF RestInv

\* It holds throughout.
LEMMA RestInvariance ==
    ASSUME Patient, Faults = {}
    PROVE  NativeSpec => []RestInv
<1>1. RestInv /\ [NativeNext]_allVars => RestInv'
  BY RestKept
<1>. QED
  BY <1>1, RestInit, PTL DEF NativeSpec

\* Whatever raced on the way, when nothing is on its way any more the phase the
\* machine published is mpv's: for a user who waits, and an mpv that accepts loads.
THEOREM PhaseSettles ==
    ASSUME Patient, Faults = {}
    PROVE  NativeSpec => []SettledPhase
<1>1. RestInv => SettledPhase
  <2>. SUFFICES ASSUME RestInv, Settled
                PROVE  published.phase = IF file = 0 THEN "Stopped"
                                         ELSE IF pause THEN "Paused" ELSE "Playing"
    BY DEF SettledPhase
  <2>1. /\ Agrees(Now) /\ ~Loading /\ ~Selecting
        /\ published = s /\ seen = pause /\ Now.phase = s.phase
    BY SettledAgrees, SettledIsStill DEF RestInv, SettledInv, Now, View
  <2>2. CASE file = 0
    BY <2>1, <2>2 DEF Agrees
  <2>3. CASE file # 0
    <3>1. Shows(Now) /\ stage = "shown"
      BY <2>1, <2>3 DEF Agrees, Settled, RestInv, SettledInv, PaceInv
    <3>2. Now.phase \in {"Playing", "Paused"}
      BY <3>1, NowTyped DEF Shows, RestInv, Outlook, Phases
    <3>. QED
      BY <2>1, <2>3, <3>1, <3>2 DEF Shows, Unsettled
  <2>. QED
    BY <2>2, <2>3
<1>. QED
  BY <1>1, RestInvariance, PTL

\* Under the same conditions the runtime tracks the play mpv has, as started, or
\* none, and holds no resources but that play's.
THEOREM TrackingSettles ==
    ASSUME Patient, Faults = {}
    PROVE  NativeSpec => []SettledTracking
<1>1. RestInv => SettledTracking
  <2>. SUFFICES ASSUME RestInv, Settled
                PROVE  /\ active # NoPlay => active.play = file /\ active.started
                       /\ resources # 0 => resources = file
    BY DEF SettledTracking
  <2>1. /\ Agrees(Now) /\ ~Loading /\ ~Selecting /\ Free /\ seen = pause
        /\ Now.play = IF active = NoPlay THEN "none"
                      ELSE IF active.started THEN "started" ELSE "waiting"
    BY SettledAgrees, SettledIsStill DEF RestInv, SettledInv, Now, View
  <2>2. ASSUME active # NoPlay
        PROVE  active.play = file /\ active.started
    <3>1. file # 0
      BY <2>1, <2>2 DEF Agrees
    <3>2. Shows(Now) /\ stage = "shown"
      BY <2>1, <3>1 DEF Agrees, Settled, RestInv, SettledInv, PaceInv
    <3>3. Now.phase \in {"Playing", "Paused"}
      BY <3>2, NowTyped DEF Shows, RestInv, Outlook, Phases
    <3>4. Now.play # "waiting"
      BY <2>1, <3>2, <3>3 DEF Shows, Unsettled
    <3>5. active.play \in {0, file} /\ active.play \in Plays
      BY <2>1, <2>2, <3>1 DEF RestInv, TargetInv, Target, Launched, ActiveInv
    <3>. QED
      BY <2>1, <2>2, <3>4, <3>5 DEF Plays
  <2>3. resources # 0 => resources = file
    BY <2>2 DEF RestInv, ActiveInv
  <2>. QED
    BY <2>2, <2>3
<1>. QED
  BY <1>1, RestInvariance, PTL

=============================================================================
