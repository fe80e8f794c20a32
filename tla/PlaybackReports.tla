---------------------------- MODULE PlaybackReports ----------------------------
(***************************************************************************)
(* The playback half of the native runtime's state, of                     *)
(* src/jfn_cef/src/mediastation_runtime.rs: which play is tracked for the  *)
(* server, whose resources (subtitle file and interpolation plan, always   *)
(* set and cleared by the same load) are held, and the account generation. *)
(* The threads that change it are the coordinator's worker through the     *)
(* event sink, the load workers and the account commands.  Each plans its  *)
(* report under the state's lock and enqueues it after releasing the lock; *)
(* hand is the report it carries in between.                               *)
(*                                                                         *)
(* A play is one load request; plays are numbered as they are admitted.    *)
(* Whether ten seconds have passed since the last report is any answer.    *)
(***************************************************************************)
EXTENDS Integers, Sequences, FiniteSets

CONSTANTS
    Sink,       \* the coordinator's worker, which calls the event sink
    Loaders,    \* the workers of load requests
    Account,    \* the thread of the account commands
    Spots,      \* playback positions
    MaxPlays,   \* bound on the loads
    MaxSwitches \* bound on the account changes

ASSUME BoundsAssumption == MaxPlays \in Nat /\ MaxSwitches \in Nat
ASSUME SpotsAssumption == 0 \in Spots
ASSUME ThreadsAssumption == Sink # Account /\ Sink \notin Loaders /\ Account \notin Loaders

Threads == Loaders \cup {Sink, Account}

NoReport  == [kind |-> "None"]
NoPlay    == [play |-> 0]
NoRequest == [play |-> 0]

VARIABLES
    generation, \* number of account changes
    session,    \* an account is configured
    active,     \* active_report: the play that is tracked
    resources,  \* the play whose subtitle and interpolation are held, or 0
    requests,   \* number of load requests admitted
    request,    \* the request each loader works on
    hand,       \* the report each thread planned and has not enqueued
    planned     \* history: reports in the order they were planned

reportVars == <<generation, session, active, resources, requests, request, hand,
                planned>>

Kinds    == {"Playing", "ProgressPlaying", "ProgressPaused", "Stopped"}
Plays    == 1..MaxPlays
Accounts == 0..MaxSwitches
Report   == [generation : Accounts, play : Plays, kind : Kinds, position : Spots]
Tracked  == [generation : Accounts, play : Plays, started : BOOLEAN,
             paused : BOOLEAN, position : Spots]

-----------------------------------------------------------------------------
(***************************************************************************)
(* Planning under the lock.                                                *)
(***************************************************************************)
report_job(a, kind) ==
    [generation |-> a.generation, play |-> a.play, kind |-> kind,
     position |-> a.position]

\* t leaves the lock with the reports jobs, at most one.
Plans(t, jobs) ==
    /\ hand[t] = NoReport
    /\ hand' = [hand EXCEPT ![t] = IF jobs = <<>> THEN NoReport ELSE Head(jobs)]
    /\ planned' = planned \o jobs

\* take_stopped_report: what the tracked play still owes the server.
StoppedReport ==
    IF active # NoPlay /\ active.started THEN <<report_job(active, "Stopped")>> ELSE <<>>

ProgressKind(paused) == IF paused THEN "ProgressPaused" ELSE "ProgressPlaying"

\* The play becomes tracked and, if it has started, reports kind.
TrackedAs(t, tracked, reports, kind) ==
    /\ active' = tracked
    /\ Plans(t, IF reports THEN <<report_job(tracked, kind)>> ELSE <<>>)

\* Fault of the mutation runs: every start opens the play.
PlanStartedAnew(t, position) ==
    TrackedAs(t, [active EXCEPT !.position = position, !.started = TRUE, !.paused = FALSE],
              ~active.started \/ active.paused, "Playing")

PlanStarted(t, position) ==
    TrackedAs(t, [active EXCEPT !.position = position, !.started = TRUE, !.paused = FALSE],
              ~active.started \/ active.paused,
              IF active.started THEN "ProgressPlaying" ELSE "Playing")

PlanPaused(t, position) ==
    TrackedAs(t, [active EXCEPT !.position = position, !.paused = TRUE],
              active.started, "ProgressPaused")

\* due: ten seconds have passed; a completed seek is always due.
PlanPosition(t, position, due) ==
    TrackedAs(t, [active EXCEPT !.position = position], active.started /\ due,
              ProgressKind(active.paused))

TerminalKinds == {"Finished", "Canceled", "Error"}

\* plan_playback_reports, and the resources a terminal event releases.
PlanEvent(t, kind, position) ==
    \/ /\ kind \in TerminalKinds
       /\ active' = NoPlay
       /\ resources' = 0
       /\ Plans(t, StoppedReport)
    \/ /\ kind \notin TerminalKinds
       /\ UNCHANGED resources
       /\ \/ active # NoPlay /\ kind = "Started" /\ PlanStarted(t, position)
          \/ active # NoPlay /\ kind = "Paused" /\ PlanPaused(t, position)
          \/ /\ active # NoPlay /\ kind = "PositionChanged"
             /\ \E due \in BOOLEAN : PlanPosition(t, position, due)
          \/ active # NoPlay /\ kind = "Seeked" /\ PlanPosition(t, position, TRUE)
          \/ /\ \/ active = NoPlay
                \/ kind \notin {"Started", "Paused", "PositionChanged", "Seeked"}
             /\ Plans(t, <<>>)
             /\ UNCHANGED active

\* handle_playback_event: with resources held, a position may show that the
\* interpolation filter failed; the event then counts as an error, and the sink
\* stops the player.
FilterFails(kind) == kind = "PositionChanged" /\ resources # 0

HandlePlaybackEvent(t, kind, position, failed) ==
    /\ failed => FilterFails(kind)
    /\ PlanEvent(t, IF failed THEN "Error" ELSE kind, position)
    /\ UNCHANGED <<generation, session, requests, request>>

-----------------------------------------------------------------------------
(***************************************************************************)
(* Loads, account changes, and the browser's release.                      *)
(***************************************************************************)
\* begin_request: MAX_ACTIVE_LOAD_REQUESTS is one, and the request's guard is
\* dropped when its worker is done.  The request keeps the account it found.
BeginRequest(l) ==
    /\ session
    /\ requests < MaxPlays
    /\ \A k \in Loaders : request[k] = NoRequest /\ hand[k] = NoReport
    /\ requests' = requests + 1
    /\ request' = [request EXCEPT ![l] = [play |-> requests', generation |-> generation]]
    /\ UNCHANGED <<generation, session, active, resources, hand, planned>>

\* Fault of the mutation runs: any account will do.
IsSignedIn(l) == session

\* load_if_current finds the account the request was admitted for.
IsCurrent(l) == session /\ request[l].generation = generation

Working(l) == request[l] # NoRequest

\* The request ends without a load: the account changed, resolving the stream
\* failed or mpv rejected the load.
EndRequest(l) ==
    /\ Working(l)
    /\ request' = [request EXCEPT ![l] = NoRequest]
    /\ UNCHANGED <<generation, session, active, resources, requests, hand, planned>>

\* Fault of the mutation runs: a replacement load does not close the play.
ActivateUnclosed(l, start, holds) ==
    /\ Working(l)
    /\ active' = [generation |-> request[l].generation, play |-> request[l].play,
                  started |-> FALSE, paused |-> FALSE, position |-> start]
    /\ resources' = IF holds THEN request[l].play ELSE 0
    /\ request' = [request EXCEPT ![l] = NoRequest]
    /\ Plans(l, <<>>)
    /\ UNCHANGED <<generation, session, requests>>

\* The end of load_if_current: the load was handed to mpv.
Activate(l, start, holds) ==
    /\ Working(l)
    /\ active' = [generation |-> request[l].generation, play |-> request[l].play,
                  started |-> FALSE, paused |-> FALSE, position |-> start]
    /\ resources' = IF holds THEN request[l].play ELSE 0
    /\ request' = [request EXCEPT ![l] = NoRequest]
    /\ Plans(l, StoppedReport)
    /\ UNCHANGED <<generation, session, requests>>

\* load_if_current as a whole; its lock is held from the check to the end.
LoadIfCurrent(l, start, holds) ==
    /\ Working(l)
    /\ IsCurrent(l)
    /\ Activate(l, start, holds)

\* Fault of the mutation runs: the resources outlive the account's play.
ChangeAccountKeepingFiles(signed_in) ==
    /\ generation < MaxSwitches
    /\ generation' = generation + 1
    /\ session' = signed_in
    /\ active' = NoPlay
    /\ Plans(Account, StoppedReport)
    /\ UNCHANGED <<resources, requests, request>>

\* clear_session, and configure_session_profile with another session.
ChangeAccount(signed_in) ==
    /\ generation < MaxSwitches
    /\ generation' = generation + 1
    /\ session' = signed_in
    /\ active' = NoPlay
    /\ resources' = 0
    /\ Plans(Account, StoppedReport)
    /\ UNCHANGED <<requests, request>>

\* release_playback_resources: playerStop and the browser's close.
Release ==
    /\ resources' = 0
    /\ UNCHANGED <<generation, session, active, requests, request, hand, planned>>

\* enqueue_report, outside the lock.
EnqueueReport(t) ==
    /\ hand[t] # NoReport
    /\ hand' = [hand EXCEPT ![t] = NoReport]
    /\ UNCHANGED <<generation, session, active, resources, requests, request, planned>>

-----------------------------------------------------------------------------
ReportInit ==
    /\ generation = 0 /\ session = TRUE
    /\ active = NoPlay /\ resources = 0
    /\ requests = 0 /\ request = [l \in Loaders |-> NoRequest]
    /\ hand = [t \in Threads |-> NoReport]
    /\ planned = <<>>

\* The kinds of event the sink tells apart; every other kind plans nothing.
EventsHandled == TerminalKinds \cup {"Started", "Paused", "PositionChanged", "Seeked",
                                     "TrackLoaded"}

ReportNext ==
    \/ \E kind \in EventsHandled, position \in Spots, failed \in BOOLEAN :
           HandlePlaybackEvent(Sink, kind, position, failed)
    \/ \E l \in Loaders :
           \/ BeginRequest(l)
           \/ EndRequest(l)
           \/ \E start \in Spots, holds \in BOOLEAN : LoadIfCurrent(l, start, holds)
    \/ \E signed_in \in BOOLEAN : ChangeAccount(signed_in)
    \/ Release
    \/ \E t \in Threads : EnqueueReport(t)

ReportSpec == ReportInit /\ [][ReportNext]_reportVars

-----------------------------------------------------------------------------
(***************************************************************************)
(* Properties.                                                             *)
(***************************************************************************)
ReportTypeOK ==
    /\ generation \in Accounts /\ session \in BOOLEAN
    /\ active \in Tracked \cup {NoPlay}
    /\ resources \in 0..MaxPlays
    /\ requests \in 0..MaxPlays
    /\ request \in [Loaders -> [play : Plays, generation : Accounts] \cup {NoRequest}]
    /\ hand \in [Threads -> Report \cup {NoReport}]
    /\ planned \in Seq(Report)

\* The play that is tracked was loaded for the account that is configured: a
\* request that outlived its account tracks nothing, and an account change
\* leaves no play of the old account behind.
TrackedForThisAccount == active # NoPlay => session /\ active.generation = generation

\* The resources held are those of the tracked play: a subtitle file of another
\* play is neither kept nor released in its place.
ResourcesFollowTrackedPlay ==
    resources # 0 => active # NoPlay /\ resources = active.play

\* In the order the reports are planned every play opens with Playing, closes
\* with Stopped at most once, and is closed before another play opens: only the
\* tracked play, once started, is still open.
Opens(i)  == planned[i].kind = "Playing"
Closes(i) == planned[i].kind = "Stopped"

SessionsAreClosed ==
    \A i \in DOMAIN planned :
        /\ Opens(i) = (i = 1 \/ Closes(i - 1))
        /\ ~Opens(i) => planned[i].play = planned[i - 1].play
        /\ i = Len(planned) => Closes(i) # (active # NoPlay /\ active.started
                                            /\ active.play = planned[i].play)

\* A play is opened once: no play that was closed is opened again.
PlaysOpenOnce ==
    \A i, j \in DOMAIN planned :
        Opens(i) /\ Opens(j) /\ i < j => planned[i].play < planned[j].play
=============================================================================
