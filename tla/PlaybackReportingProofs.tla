------------------------ MODULE PlaybackReportingProofs ------------------------
(***************************************************************************)
(* Theorems about the tracked play and the reports planned for it, about   *)
(* the report dispatcher, and about the two together: for every set of     *)
(* loaders, positions, callers and jobs, every limit of the queue and      *)
(* every bound.                                                            *)
(***************************************************************************)
EXTENDS PlaybackReporting, SequenceTheorems, WellFoundedInduction, TLAPS

-----------------------------------------------------------------------------
(***************************************************************************)
(* The tracked play and the reports planned for it.                        *)
(***************************************************************************)
\* The session that is open is the tracked play's, and only a play that started
\* has one.
OpenIsTracked ==
    active # NoPlay /\ active.started =>
        planned # <<>> /\ planned[Len(planned)].play = active.play

\* Plays are tracked in the order they were admitted, one at a time: a request
\* in flight is younger than everything tracked or reported so far.
PlaysAreNew ==
    /\ active.play <= requests
    /\ \A i \in DOMAIN planned : planned[i].play <= requests
    /\ active # NoPlay /\ ~active.started =>
           \A i \in DOMAIN planned : planned[i].play < active.play
    /\ \A l \in Loaders : request[l] # NoRequest =>
           /\ request[l].play = requests
           /\ active.play < requests
           /\ \A i \in DOMAIN planned : planned[i].play < requests
           /\ \A k \in Loaders : request[k] # NoRequest => k = l

ReportIInv ==
    /\ ReportTypeOK
    /\ TrackedForThisAccount
    /\ ResourcesFollowTrackedPlay
    /\ SessionsAreClosed
    /\ OpenIsTracked
    /\ PlaysAreNew
    /\ PlaysOpenOnce

-----------------------------------------------------------------------------
(***************************************************************************)
(* Reports, plays and the absence of either are told apart.                *)
(***************************************************************************)
LEMMA NoneIsNoPlay ==
    /\ NoPlay \notin Tracked
    /\ \A l : NoRequest \notin [play : Plays, generation : Accounts]
    /\ NoPlay.play = 0
BY DEF NoPlay, NoRequest, Tracked, Plays

\* The plays compared in the history are numbers.
LEMMA PlayNumbers ==
    /\ \A q \in Seq(Report) : \A i \in DOMAIN q : q[i].play \in Nat
    /\ ReportTypeOK => requests \in Nat /\ active.play \in Nat
<1>1. Plays \subseteq Nat /\ \A r \in Report : r.play \in Nat
  BY BoundsAssumption DEF Plays, Report
<1>2. \A q \in Seq(Report) : \A i \in DOMAIN q : q[i] \in Report
  OBVIOUS
<1>3. ReportTypeOK => requests \in Nat
  BY BoundsAssumption DEF ReportTypeOK
<1>4. \A a \in Tracked : a.play \in Nat
  BY <1>1 DEF Tracked
<1>5. ReportTypeOK => active.play \in Nat
  BY <1>4, NoneIsNoPlay DEF ReportTypeOK
<1>. QED
  BY <1>1, <1>2, <1>3, <1>5

\* The report of a tracked play is a report about it.
LEMMA ReportJobTyped ==
    ASSUME NEW a \in Tracked, NEW kind \in Kinds
    PROVE  /\ report_job(a, kind) \in Report
           /\ report_job(a, kind).play = a.play
           /\ report_job(a, kind).kind = kind
BY DEF report_job, Tracked, Report

\* What a step that plans at most one report leaves in planned.
LEMMA PlannedOne ==
    ASSUME planned \in Seq(Report), NEW job \in Report, planned' = planned \o <<job>>
    PROVE  /\ planned' \in Seq(Report)
           /\ Len(planned') = Len(planned) + 1
           /\ DOMAIN planned' = 1..(Len(planned) + 1)
           /\ planned'[Len(planned) + 1] = job
           /\ \A i \in DOMAIN planned : planned'[i] = planned[i]
           /\ DOMAIN planned = 1..Len(planned)
OBVIOUS

\* Leaving the lock with at most one report keeps the types.
LEMMA PlansTyped ==
    ASSUME ReportTypeOK, NEW t \in Threads, NEW job \in Report, NEW reports \in BOOLEAN,
           Plans(t, IF reports THEN <<job>> ELSE <<>>)
    PROVE  /\ hand' \in [Threads -> Report \cup {NoReport}]
           /\ planned' = IF reports THEN planned \o <<job>> ELSE planned
           /\ planned' \in Seq(Report)
<1>1. CASE reports
  <2>1. Head(<<job>>) = job /\ <<job>> # <<>> /\ <<job>> \in Seq(Report)
    OBVIOUS
  <2>2. hand' = [hand EXCEPT ![t] = job] /\ planned' = planned \o <<job>>
    BY <1>1, <2>1, Zenon DEF Plans
  <2>. QED
    BY <1>1, <2>2, PlannedOne DEF ReportTypeOK
<1>2. CASE ~reports
  <2>1. hand' = [hand EXCEPT ![t] = NoReport] /\ planned' = planned \o <<>>
    BY <1>2, Zenon DEF Plans
  <2>2. planned \o <<>> = planned
    BY DEF ReportTypeOK
  <2>. QED
    BY <1>2, <2>1, <2>2 DEF ReportTypeOK
<1>. QED
  BY <1>1, <1>2

-----------------------------------------------------------------------------
(***************************************************************************)
(* The history: what one report more, or none, does to the sessions.       *)
(***************************************************************************)
Open == active # NoPlay /\ active.started

SessionInv == SessionsAreClosed /\ OpenIsTracked

\* A play that has not started opens: no session was open before it.
LEMMA OpeningKeepsSessions ==
    ASSUME ReportTypeOK, SessionInv, NEW job \in Report, planned' = planned \o <<job>>,
           job.kind = "Playing", ~Open, Open', active'.play = job.play
    PROVE  SessionInv'
<1>1. /\ Len(planned') = Len(planned) + 1 /\ DOMAIN planned' = 1..(Len(planned) + 1)
      /\ planned'[Len(planned) + 1] = job /\ Len(planned) \in Nat
      /\ \A i \in DOMAIN planned : planned'[i] = planned[i]
      /\ DOMAIN planned = 1..Len(planned)
  BY PlannedOne DEF ReportTypeOK
<1>2. SessionsAreClosed'
  BY <1>1, SMTT(30) DEF SessionInv, SessionsAreClosed, Opens, Closes, Open
<1>3. OpenIsTracked'
  BY <1>1 DEF OpenIsTracked
<1>. QED
  BY <1>2, <1>3 DEF SessionInv

\* A progress report belongs to the session that is open.
LEMMA ProgressKeepsSessions ==
    ASSUME ReportTypeOK, SessionInv, NEW job \in Report, planned' = planned \o <<job>>,
           job.kind \in {"ProgressPlaying", "ProgressPaused"}, Open, job.play = active.play,
           Open', active'.play = active.play
    PROVE  SessionInv'
<1>1. /\ Len(planned') = Len(planned) + 1 /\ DOMAIN planned' = 1..(Len(planned) + 1)
      /\ planned'[Len(planned) + 1] = job /\ Len(planned) \in Nat
      /\ \A i \in DOMAIN planned : planned'[i] = planned[i]
      /\ DOMAIN planned = 1..Len(planned)
  BY PlannedOne DEF ReportTypeOK
<1>2. Len(planned) \in DOMAIN planned /\ planned[Len(planned)].play = active.play
  BY <1>1 DEF SessionInv, OpenIsTracked, Open, ReportTypeOK
<1>3. SessionsAreClosed'
  BY <1>1, <1>2, SMTT(30) DEF SessionInv, SessionsAreClosed, Opens, Closes, Open
<1>4. OpenIsTracked'
  BY <1>1 DEF OpenIsTracked
<1>. QED
  BY <1>3, <1>4 DEF SessionInv

\* The session that is open closes, and no other is open.
LEMMA ClosingKeepsSessions ==
    ASSUME ReportTypeOK, SessionInv, NEW job \in Report, planned' = planned \o <<job>>,
           job.kind = "Stopped", Open, job.play = active.play, ~Open'
    PROVE  SessionInv'
<1>1. /\ Len(planned') = Len(planned) + 1 /\ DOMAIN planned' = 1..(Len(planned) + 1)
      /\ planned'[Len(planned) + 1] = job /\ Len(planned) \in Nat
      /\ \A i \in DOMAIN planned : planned'[i] = planned[i]
      /\ DOMAIN planned = 1..Len(planned)
  BY PlannedOne DEF ReportTypeOK
<1>2. Len(planned) \in DOMAIN planned /\ planned[Len(planned)].play = active.play
  BY <1>1 DEF SessionInv, OpenIsTracked, Open, ReportTypeOK
<1>3. SessionsAreClosed'
  BY <1>1, <1>2, SMTT(30) DEF SessionInv, SessionsAreClosed, Opens, Closes, Open
<1>4. OpenIsTracked'
  BY DEF OpenIsTracked, Open
<1>. QED
  BY <1>3, <1>4 DEF SessionInv

\* Nothing is reported, and the same session is open or none is.
LEMMA SilenceKeepsSessions ==
    ASSUME SessionInv, planned' = planned,
           Open' <=> Open, Open => active'.play = active.play
    PROVE  SessionInv'
BY DEF SessionInv, SessionsAreClosed, OpenIsTracked, Opens, Closes, Open

\* A play that opens is younger than every play reported so far.
LEMMA OneMoreOpensOnce ==
    ASSUME ReportTypeOK, PlaysOpenOnce, NEW job \in Report, planned' = planned \o <<job>>,
           job.kind = "Playing" => \A i \in DOMAIN planned : planned[i].play < job.play
    PROVE  PlaysOpenOnce'
<1>1. /\ DOMAIN planned' = 1..(Len(planned) + 1)
      /\ planned'[Len(planned) + 1] = job /\ Len(planned) \in Nat
      /\ \A i \in DOMAIN planned : planned'[i] = planned[i]
      /\ DOMAIN planned = 1..Len(planned)
  BY PlannedOne DEF ReportTypeOK
<1>. QED
  BY <1>1, SMTT(30) DEF PlaysOpenOnce, Opens

-----------------------------------------------------------------------------
(***************************************************************************)
(* The two ways a step plans: for the play that stays tracked, and for the *)
(* play that stops being tracked.                                          *)
(***************************************************************************)
\* An event keeps the play tracked, and reports what its state allows.
LEMMA TrackedAsKeeps ==
    ASSUME ReportIInv, active # NoPlay, NEW t \in Threads, NEW tracked \in Tracked,
           tracked.play = active.play, tracked.generation = active.generation,
           NEW reports \in BOOLEAN, NEW kind \in Kinds,
           TrackedAs(t, tracked, reports, kind),
           reports => /\ tracked.started
                      /\ ~active.started => kind = "Playing"
                      /\ active.started => kind \in {"ProgressPlaying", "ProgressPaused"},
           ~reports => tracked.started = active.started,
           UNCHANGED <<generation, session, resources, requests, request>>
    PROVE  ReportIInv'
<1> DEFINE job == report_job(tracked, kind)
<1>1. job \in Report /\ job.play = tracked.play /\ job.kind = kind
  BY ReportJobTyped
<1>2. active' = tracked /\ Plans(t, IF reports THEN <<job>> ELSE <<>>)
  BY Zenon DEF TrackedAs
<1>3. /\ hand' \in [Threads -> Report \cup {NoReport}]
      /\ planned' = IF reports THEN planned \o <<job>> ELSE planned
      /\ planned' \in Seq(Report)
  <2> HIDE DEF job
  <2>. QED
    BY <1>1, <1>2, PlansTyped DEF ReportIInv
<1>4. ReportTypeOK'
  BY <1>2, <1>3 DEF ReportIInv, ReportTypeOK
<1>5. TrackedForThisAccount' /\ ResourcesFollowTrackedPlay'
  BY <1>2, NoneIsNoPlay DEF ReportIInv, TrackedForThisAccount, ResourcesFollowTrackedPlay
<1>6. active' # NoPlay
  BY <1>2, NoneIsNoPlay
<1>7. SessionInv /\ ReportTypeOK
  BY DEF ReportIInv, SessionInv
<1> HIDE DEF job
<1>8. CASE ~reports
  <2>1. planned' = planned /\ (Open' <=> Open)
    BY <1>2, <1>3, <1>6, <1>8 DEF Open
  <2>2. SessionInv'
    BY <1>2, <1>7, <2>1, SilenceKeepsSessions
  <2>3. PlaysAreNew' /\ PlaysOpenOnce'
    BY <1>2, <1>8, <2>1 DEF ReportIInv, PlaysAreNew, PlaysOpenOnce, Opens
  <2>. QED
    BY <1>4, <1>5, <2>2, <2>3 DEF ReportIInv, SessionInv
<1>9. CASE reports
  <2>1. planned' = planned \o <<job>>
    BY <1>3, <1>9
  <2>2. Open'
    BY <1>2, <1>6, <1>9 DEF Open
  <2>3. SessionInv'
    <3>1. CASE active.started
      BY <1>1, <1>2, <1>7, <1>9, <2>1, <2>2, <3>1, ProgressKeepsSessions DEF Open
    <3>2. CASE ~active.started
      BY <1>1, <1>2, <1>7, <1>9, <2>1, <2>2, <3>2, OpeningKeepsSessions DEF Open
    <3>. QED
      BY <3>1, <3>2
  <2>4. PlaysOpenOnce'
    <3>1. job.kind = "Playing" => \A i \in DOMAIN planned : planned[i].play < job.play
      BY <1>1, <1>9 DEF ReportIInv, PlaysAreNew
    <3>. QED
      BY <1>1, <1>7, <2>1, <3>1, OneMoreOpensOnce DEF ReportIInv
  <2>5. PlaysAreNew'
    <3>1. \A i \in DOMAIN planned' : \/ planned'[i].play = active.play
                                     \/ i \in DOMAIN planned /\ planned'[i] = planned[i]
      BY <1>1, <1>7, <2>1, PlannedOne DEF ReportTypeOK
    <3>. QED
      BY <1>2, <1>9, <3>1 DEF ReportIInv, PlaysAreNew
  <2>. QED
    BY <1>4, <1>5, <2>3, <2>4, <2>5 DEF ReportIInv, SessionInv
<1>. QED
  BY <1>8, <1>9

\* The tracked play, if any, is closed: another is tracked, not yet started, or
\* none is.
LEMMA StoppedReportKeeps ==
    ASSUME ReportIInv, NEW t \in Threads, Plans(t, StoppedReport), ~Open'
    PROVE  /\ hand' \in [Threads -> Report \cup {NoReport}]
           /\ planned' \in Seq(Report)
           /\ SessionInv' /\ PlaysOpenOnce'
           /\ \A i \in DOMAIN planned' :
                  \/ planned'[i].play = active.play
                  \/ i \in DOMAIN planned /\ planned'[i] = planned[i]
<1>1. SessionInv /\ ReportTypeOK
  BY DEF ReportIInv, SessionInv
<1>2. CASE Open
  <2> DEFINE job == report_job(active, "Stopped")
  <2>1. active \in Tracked
    BY <1>1, <1>2 DEF ReportTypeOK, Open
  <2>2. job \in Report /\ job.play = active.play /\ job.kind = "Stopped"
    BY <2>1, ReportJobTyped DEF Kinds
  <2>3. Plans(t, IF TRUE THEN <<job>> ELSE <<>>)
    BY <1>2, Zenon DEF StoppedReport, Open
  <2> HIDE DEF job
  <2>4. /\ hand' \in [Threads -> Report \cup {NoReport}]
        /\ planned' = planned \o <<job>>
        /\ planned' \in Seq(Report)
    BY <1>1, <2>2, <2>3, PlansTyped
  <2>5. SessionInv'
    BY <1>1, <1>2, <2>2, <2>4, ClosingKeepsSessions
  <2>6. PlaysOpenOnce'
    BY <1>1, <2>2, <2>4, OneMoreOpensOnce DEF ReportIInv
  <2>. QED
    BY <1>1, <2>2, <2>4, <2>5, <2>6, PlannedOne DEF ReportTypeOK
<1>3. CASE ~Open
  <2>1. StoppedReport = <<>>
    BY <1>3, Zenon DEF StoppedReport, Open
  <2>2. hand' = [hand EXCEPT ![t] = NoReport] /\ planned' = planned \o <<>>
    BY <2>1, Zenon DEF Plans
  <2>3. planned' = planned
    BY <1>1, <2>2 DEF ReportTypeOK
  <2>4. SessionInv'
    BY <1>1, <1>3, <2>3, SilenceKeepsSessions
  <2>. QED
    BY <1>1, <2>2, <2>3, <2>4 DEF ReportIInv, ReportTypeOK, PlaysOpenOnce, Opens
<1>. QED
  BY <1>2, <1>3

\* Nothing is tracked any more, and the history names no play it did not know.
LEMMA NoneTrackedKeepsOrder ==
    ASSUME ReportIInv, active' = NoPlay, planned' \in Seq(Report),
           UNCHANGED <<requests, request>>,
           \A i \in DOMAIN planned' :
               \/ planned'[i].play = active.play
               \/ i \in DOMAIN planned /\ planned'[i] = planned[i]
    PROVE  PlaysAreNew'
<1>1. requests \in Nat /\ active.play \in Nat /\ active'.play = 0
  BY PlayNumbers, NoneIsNoPlay DEF ReportIInv
<1>2. \A i \in DOMAIN planned' : planned'[i].play <= requests
  BY DEF ReportIInv, PlaysAreNew
<1>3. ASSUME NEW l \in Loaders, request'[l] # NoRequest
      PROVE  /\ request'[l].play = requests' /\ active'.play < requests'
             /\ \A i \in DOMAIN planned' : planned'[i].play < requests'
             /\ \A k \in Loaders : request'[k] # NoRequest => k = l
  <2>1. /\ request[l].play = requests /\ active.play < requests
        /\ \A i \in DOMAIN planned : planned[i].play < requests
        /\ \A k \in Loaders : request[k] # NoRequest => k = l
    BY <1>3 DEF ReportIInv, PlaysAreNew
  <2>. QED
    BY <1>1, <2>1
<1>. QED
  BY <1>1, <1>2, <1>3 DEF PlaysAreNew

-----------------------------------------------------------------------------
(***************************************************************************)
(* The initial state, and every action.                                    *)
(***************************************************************************)
\* Nothing is tracked, held or reported at the start.
LEMMA ReportInitIInv == ReportInit => ReportIInv
<1>. SUFFICES ASSUME ReportInit PROVE ReportIInv
  OBVIOUS
<1>1. ReportTypeOK
  BY BoundsAssumption DEF ReportInit, ReportTypeOK, Accounts
<1>2. TrackedForThisAccount /\ ResourcesFollowTrackedPlay /\ OpenIsTracked
  BY DEF ReportInit, TrackedForThisAccount, ResourcesFollowTrackedPlay, OpenIsTracked
<1>3. SessionsAreClosed /\ PlaysOpenOnce
  BY DEF ReportInit, SessionsAreClosed, PlaysOpenOnce
<1>4. PlaysAreNew
  BY NoneIsNoPlay DEF ReportInit, PlaysAreNew
<1>. QED
  BY <1>1, <1>2, <1>3, <1>4 DEF ReportIInv

\* An event from the player.
LEMMA EventKeeps ==
    ASSUME ReportIInv, NEW kind \in EventsHandled, NEW position \in Spots,
           NEW failed \in BOOLEAN, HandlePlaybackEvent(Sink, kind, position, failed)
    PROVE  ReportIInv'
<1> DEFINE k == IF failed THEN "Error" ELSE kind
<1>1. Sink \in Threads /\ PlanEvent(Sink, k, position)
      /\ UNCHANGED <<generation, session, requests, request>>
  BY Zenon DEF HandlePlaybackEvent, Threads
<1> HIDE DEF k
<1>2. ReportTypeOK
  BY DEF ReportIInv
<1>3. CASE active' = NoPlay /\ resources' = 0 /\ Plans(Sink, StoppedReport)
  <2>1. ~Open'
    BY <1>3 DEF Open
  <2>2. /\ hand' \in [Threads -> Report \cup {NoReport}]
        /\ planned' \in Seq(Report)
        /\ SessionInv' /\ PlaysOpenOnce'
        /\ \A i \in DOMAIN planned' :
               \/ planned'[i].play = active.play
               \/ i \in DOMAIN planned /\ planned'[i] = planned[i]
    BY <1>1, <1>3, <2>1, StoppedReportKeeps
  <2>3. ReportTypeOK'
    BY <1>1, <1>2, <1>3, <2>2, BoundsAssumption DEF ReportTypeOK
  <2>4. TrackedForThisAccount' /\ ResourcesFollowTrackedPlay'
    BY <1>3 DEF TrackedForThisAccount, ResourcesFollowTrackedPlay
  <2>5. PlaysAreNew'
    BY <1>1, <1>3, <2>2, NoneTrackedKeepsOrder
  <2>. QED
    BY <2>2, <2>3, <2>4, <2>5 DEF ReportIInv, SessionInv
<1>4. CASE active # NoPlay /\ UNCHANGED resources /\ k = "Started"
           /\ PlanStarted(Sink, position)
  <2> DEFINE tracked == [active EXCEPT !.position = position, !.started = TRUE,
                                       !.paused = FALSE]
             reports == ~active.started \/ active.paused
             report == IF active.started THEN "ProgressPlaying" ELSE "Playing"
  <2>1. TrackedAs(Sink, tracked, reports, report)
    BY <1>4, Zenon DEF PlanStarted
  <2>2. /\ tracked \in Tracked /\ tracked.play = active.play
        /\ tracked.generation = active.generation /\ tracked.started
        /\ reports \in BOOLEAN /\ report \in Kinds
        /\ ~reports => active.started
    BY <1>2, <1>4 DEF ReportTypeOK, Tracked, Kinds
  <2>3. /\ ~active.started => report = "Playing"
        /\ active.started => report \in {"ProgressPlaying", "ProgressPaused"}
    OBVIOUS
  <2>4. ~reports => tracked.started = active.started
    BY <1>2, <1>4, <2>2 DEF ReportTypeOK, Tracked
  <2> HIDE DEF tracked, reports, report
  <2>. QED
    BY <1>1, <1>4, <2>1, <2>2, <2>3, <2>4, TrackedAsKeeps
<1>5. CASE active # NoPlay /\ UNCHANGED resources /\ k = "Paused"
           /\ PlanPaused(Sink, position)
  <2> DEFINE tracked == [active EXCEPT !.position = position, !.paused = TRUE]
  <2>1. TrackedAs(Sink, tracked, active.started, "ProgressPaused")
    BY <1>5, Zenon DEF PlanPaused
  <2>2. /\ tracked \in Tracked /\ tracked.play = active.play
        /\ tracked.generation = active.generation
        /\ tracked.started = active.started /\ active.started \in BOOLEAN
        /\ "ProgressPaused" \in Kinds
    BY <1>2, <1>5 DEF ReportTypeOK, Tracked, Kinds
  <2> HIDE DEF tracked
  <2>. QED
    BY <1>1, <1>5, <2>1, <2>2, TrackedAsKeeps
<1>6. ASSUME active # NoPlay, UNCHANGED resources, NEW due \in BOOLEAN,
             PlanPosition(Sink, position, due)
      PROVE  ReportIInv'
  <2> DEFINE tracked == [active EXCEPT !.position = position]
             reports == active.started /\ due
             report == ProgressKind(active.paused)
  <2>1. TrackedAs(Sink, tracked, reports, report)
    BY <1>6, Zenon DEF PlanPosition
  <2>2. /\ tracked \in Tracked /\ tracked.play = active.play
        /\ tracked.generation = active.generation
        /\ tracked.started = active.started /\ reports \in BOOLEAN
        /\ reports => tracked.started /\ active.started
    BY <1>2, <1>6 DEF ReportTypeOK, Tracked
  <2>3. report \in {"ProgressPlaying", "ProgressPaused"} /\ report \in Kinds
    BY DEF ProgressKind, Kinds
  <2> HIDE DEF tracked, reports, report
  <2>. QED
    BY <1>1, <1>6, <2>1, <2>2, <2>3, TrackedAsKeeps
<1>7. CASE UNCHANGED resources /\ Plans(Sink, <<>>) /\ UNCHANGED active
  <2>1. hand' = [hand EXCEPT ![Sink] = NoReport] /\ planned' = planned \o <<>>
    BY <1>7, Zenon DEF Plans
  <2>2. planned' = planned
    BY <1>2, <2>1 DEF ReportTypeOK
  <2>. QED
    BY <1>1, <1>2, <1>7, <2>1, <2>2 DEF ReportIInv, ReportTypeOK,
       TrackedForThisAccount, ResourcesFollowTrackedPlay, SessionsAreClosed,
       OpenIsTracked, PlaysAreNew, PlaysOpenOnce, Opens, Closes
<1>. QED
  BY <1>1, <1>3, <1>4, <1>5, <1>6, <1>7, Zenon DEF PlanEvent

\* A load request is admitted, for a play that is new.
LEMMA BeginRequestKeeps ==
    ASSUME ReportIInv, NEW l \in Loaders, BeginRequest(l)
    PROVE  ReportIInv'
<1>1. /\ requests' = requests + 1 /\ requests' \in Plays
      /\ request' = [request EXCEPT ![l] = [play |-> requests', generation |-> generation]]
      /\ UNCHANGED <<generation, session, active, resources, hand, planned>>
      /\ \A k \in Loaders : request[k] = NoRequest
  BY BoundsAssumption DEF BeginRequest, ReportIInv, ReportTypeOK, Plays
<1>2. ReportTypeOK'
  BY <1>1, BoundsAssumption DEF ReportIInv, ReportTypeOK, Plays
<1>3. requests \in Nat /\ active.play \in Nat
      /\ \A i \in DOMAIN planned : planned[i].play \in Nat
  BY PlayNumbers DEF ReportIInv, ReportTypeOK
<1>4. PlaysAreNew'
  BY <1>1, <1>3 DEF ReportIInv, ReportTypeOK, PlaysAreNew
<1>. QED
  BY <1>1, <1>2, <1>4 DEF ReportIInv, TrackedForThisAccount, ResourcesFollowTrackedPlay,
     SessionsAreClosed, OpenIsTracked, PlaysOpenOnce, Opens, Closes

\* A request that ends leaves everything else alone.
LEMMA EndRequestKeeps ==
    ASSUME ReportIInv, NEW l \in Loaders, EndRequest(l)
    PROVE  ReportIInv'
BY DEF EndRequest, ReportIInv, ReportTypeOK, TrackedForThisAccount,
   ResourcesFollowTrackedPlay, SessionsAreClosed, OpenIsTracked, PlaysAreNew,
   PlaysOpenOnce, Opens, Closes

\* A load replaces the tracked play, whose session is closed, for the account
\* that is configured.
LEMMA LoadKeeps ==
    ASSUME ReportIInv, NEW l \in Loaders, NEW start \in Spots, NEW holds \in BOOLEAN,
           LoadIfCurrent(l, start, holds)
    PROVE  ReportIInv'
<1>1. /\ request[l] # NoRequest /\ session /\ request[l].generation = generation
      /\ active' = [generation |-> request[l].generation, play |-> request[l].play,
                    started |-> FALSE, paused |-> FALSE, position |-> start]
      /\ resources' = IF holds THEN request[l].play ELSE 0
      /\ request' = [request EXCEPT ![l] = NoRequest]
      /\ Plans(l, StoppedReport) /\ UNCHANGED <<generation, session, requests>>
  BY DEF LoadIfCurrent, Activate, Working, IsCurrent
<1>2. l \in Threads /\ ReportTypeOK
  BY DEF Threads, ReportIInv
<1>3. request[l] \in [play : Plays, generation : Accounts]
  BY <1>1, <1>2 DEF ReportTypeOK
<1>4. active' \in Tracked /\ ~active'.started /\ active' # NoPlay
      /\ active'.play = request[l].play /\ request[l].play \in Plays
  <2>1. request[l].play \in Plays /\ request[l].generation \in Accounts
    BY <1>3
  <2>2. active' \in Tracked
    BY <1>1, <2>1 DEF Tracked
  <2>. QED
    BY <1>1, <2>1, <2>2, NoneIsNoPlay
<1>5. ~Open'
  BY <1>4 DEF Open
<1>6. /\ hand' \in [Threads -> Report \cup {NoReport}]
      /\ planned' \in Seq(Report)
      /\ SessionInv' /\ PlaysOpenOnce'
      /\ \A i \in DOMAIN planned' :
             \/ planned'[i].play = active.play
             \/ i \in DOMAIN planned /\ planned'[i] = planned[i]
  BY <1>1, <1>2, <1>5, StoppedReportKeeps
<1>7. ReportTypeOK'
  BY <1>1, <1>2, <1>4, <1>6, BoundsAssumption DEF ReportTypeOK, Plays
<1>8. TrackedForThisAccount' /\ ResourcesFollowTrackedPlay'
  BY <1>1, <1>4 DEF TrackedForThisAccount, ResourcesFollowTrackedPlay
<1>9. PlaysAreNew'
  <2>1. /\ request[l].play = requests /\ active.play < requests
        /\ \A i \in DOMAIN planned : planned[i].play < requests
        /\ \A k \in Loaders : request[k] # NoRequest => k = l
    BY <1>1 DEF ReportIInv, PlaysAreNew
  <2>2. \A i \in DOMAIN planned' : planned'[i].play < requests
    BY <1>6, <2>1
  <2>3. \A k \in Loaders : request'[k] = NoRequest
    BY <1>1, <1>2, <2>1 DEF ReportTypeOK
  <2>4. requests \in Nat /\ \A i \in DOMAIN planned' : planned'[i].play \in Nat
    BY <1>2, <1>6, PlayNumbers
  <2>. QED
    BY <1>1, <1>4, <2>1, <2>2, <2>3, <2>4 DEF PlaysAreNew
<1>. QED
  BY <1>6, <1>7, <1>8, <1>9 DEF ReportIInv, SessionInv

\* An account change closes the session of the account it ends.
LEMMA ChangeAccountKeeps ==
    ASSUME ReportIInv, NEW signed_in \in BOOLEAN, ChangeAccount(signed_in)
    PROVE  ReportIInv'
<1>1. /\ generation' = generation + 1 /\ session' = signed_in
      /\ active' = NoPlay /\ resources' = 0
      /\ Plans(Account, StoppedReport) /\ UNCHANGED <<requests, request>>
  BY DEF ChangeAccount
<1>2. Account \in Threads /\ ReportTypeOK /\ ~Open'
  BY <1>1 DEF Threads, ReportIInv, Open
<1>3. /\ hand' \in [Threads -> Report \cup {NoReport}]
      /\ planned' \in Seq(Report)
      /\ SessionInv' /\ PlaysOpenOnce'
      /\ \A i \in DOMAIN planned' :
             \/ planned'[i].play = active.play
             \/ i \in DOMAIN planned /\ planned'[i] = planned[i]
  BY <1>1, <1>2, StoppedReportKeeps
<1>4. ReportTypeOK'
  <2>1. generation' \in Accounts
    BY <1>1, <1>2, BoundsAssumption DEF ChangeAccount, ReportTypeOK, Accounts
  <2>. QED
    BY <1>1, <1>2, <1>3, <2>1, BoundsAssumption DEF ReportTypeOK
<1>5. TrackedForThisAccount' /\ ResourcesFollowTrackedPlay'
  BY <1>1 DEF TrackedForThisAccount, ResourcesFollowTrackedPlay
<1>6. PlaysAreNew'
  BY <1>1, <1>3, NoneTrackedKeepsOrder
<1>. QED
  BY <1>3, <1>4, <1>5, <1>6 DEF ReportIInv, SessionInv

\* Resources released early, and a planned report that is enqueued.
LEMMA ReleaseAndEnqueueKeep ==
    ASSUME ReportIInv, Release \/ \E t \in Threads : EnqueueReport(t)
    PROVE  ReportIInv'
<1>1. /\ UNCHANGED <<generation, session, active, requests, request, planned>>
      /\ resources' \in {0, resources}
  BY DEF Release, EnqueueReport
<1>2. hand' \in [Threads -> Report \cup {NoReport}]
  BY DEF Release, EnqueueReport, ReportIInv, ReportTypeOK
<1>3. ReportTypeOK'
  BY <1>1, <1>2, BoundsAssumption DEF ReportIInv, ReportTypeOK
<1>4. TrackedForThisAccount' /\ ResourcesFollowTrackedPlay'
  BY <1>1 DEF ReportIInv, TrackedForThisAccount, ResourcesFollowTrackedPlay
<1>5. SessionsAreClosed' /\ OpenIsTracked'
  BY <1>1 DEF ReportIInv, SessionsAreClosed, OpenIsTracked, Opens, Closes
<1>6. PlaysAreNew' /\ PlaysOpenOnce'
  BY <1>1 DEF ReportIInv, PlaysAreNew, PlaysOpenOnce, Opens
<1>. QED
  BY <1>3, <1>4, <1>5, <1>6 DEF ReportIInv

-----------------------------------------------------------------------------
\* Every step preserves the invariant.
LEMMA ReportStepIInv == ReportIInv /\ [ReportNext]_reportVars => ReportIInv'
<1>. SUFFICES ASSUME ReportIInv, [ReportNext]_reportVars PROVE ReportIInv'
  OBVIOUS
<1>1. CASE UNCHANGED reportVars
  BY <1>1 DEF reportVars, ReportIInv, ReportTypeOK, TrackedForThisAccount,
     ResourcesFollowTrackedPlay, SessionsAreClosed, OpenIsTracked, PlaysAreNew,
     PlaysOpenOnce, Opens, Closes
<1>. QED
  BY <1>1, EventKeeps, BeginRequestKeeps, EndRequestKeeps, LoadKeeps,
     ChangeAccountKeeps, ReleaseAndEnqueueKeep, Zenon DEF ReportNext

LEMMA ReportInvariance == ReportSpec => []ReportIInv
BY ReportInitIInv, ReportStepIInv, PTL DEF ReportSpec

\* Every variable keeps its type.
THEOREM ReportTypes == ReportSpec => []ReportTypeOK
BY ReportInvariance, PTL DEF ReportIInv

\* The tracked play was loaded for the configured account.
THEOREM TrackedAccount == ReportSpec => []TrackedForThisAccount
BY ReportInvariance, PTL DEF ReportIInv

\* The resources held are the tracked play's.
THEOREM TrackedResources == ReportSpec => []ResourcesFollowTrackedPlay
BY ReportInvariance, PTL DEF ReportIInv

\* Every session opens, continues and closes in order, and one at a time.
THEOREM ClosedSessions == ReportSpec => []SessionsAreClosed
BY ReportInvariance, PTL DEF ReportIInv

\* No play is opened twice.
THEOREM OpenedOnce == ReportSpec => []PlaysOpenOnce
BY ReportInvariance, PTL DEF ReportIInv


-----------------------------------------------------------------------------
(***************************************************************************)
(* The dispatcher, for any jobs that are reports.                          *)
(***************************************************************************)
\* The worker leaves for good and empty-handed: after it nobody brings a job, or
\* the shutdown that let it leave refuses it.
ExitIsFinal ==
    /\ worker = "exited" =>
           jobs = <<>> /\ (shutting_down \/ \A c \in Callers : calling[c] = NoJob)
    /\ stopper = "idle" <=> ~shutting_down
    /\ stopper = "joined" => worker = "exited"
    /\ ~handle /\ stopper \in {"idle", "take"} => worker = "exited"

DispatchIInv ==
    /\ DispatchTypeOK
    /\ OneProgressPerGeneration
    /\ WorkerIsAwake
    /\ ExitIsFinal

\* No report is mistaken for the absence of one.
LEMMA NoJobIsNone == NoJob \notin Jobs
BY JobsAssumption DEF NoJob, ReportKinds

-----------------------------------------------------------------------------
(***************************************************************************)
(* Positions in the queue.                                                 *)
(***************************************************************************)
\* A set of positions that is not empty has a first one.
LEMMA FirstPosition ==
    ASSUME NEW S \in SUBSET Nat, S # {}
    PROVE  Min(S) \in S /\ \A i \in S : Min(S) <= i
<1> DEFINE R == OpToRel(<, Nat)
<1>1. IsWellFoundedOn(R, Nat)
  BY NatLessThanWellFounded
<1>2. \A x, y \in Nat : y < x => <<y, x>> \in R
  BY DEF OpToRel
<1> HIDE DEF R
<1>3. \E x \in S : \A y \in S : ~ (<<y, x>> \in R)
  BY <1>1, WFMin
<1>4. PICK x \in S : \A y \in S : ~ (<<y, x>> \in R)
  BY <1>3
<1>5. \A y \in S : ~ (y < x)
  BY <1>2, <1>4, Zenon
<1>6. \A y \in S : x =< y
  BY <1>5
<1>. QED
  BY <1>6 DEF Min

\* One job replaced keeps the queue's length and the other positions.
LEMMA ReplacingOne ==
    ASSUME NEW q \in Seq(Jobs), NEW i \in DOMAIN q, NEW job \in Jobs
    PROVE  /\ [q EXCEPT ![i] = job] \in Seq(Jobs)
           /\ Len([q EXCEPT ![i] = job]) = Len(q)
           /\ DOMAIN [q EXCEPT ![i] = job] = DOMAIN q
           /\ \A j \in DOMAIN q : [q EXCEPT ![i] = job][j] = IF j = i THEN job ELSE q[j]
BY ExceptSeq

\* One job removed: those behind it move up.
LEMMA RemovingOne ==
    ASSUME NEW q \in Seq(Jobs), NEW i \in DOMAIN q
    PROVE  /\ RemoveAt(q, i) \in Seq(Jobs)
           /\ Len(RemoveAt(q, i)) = Len(q) - 1
           /\ \A j \in 1..(Len(q) - 1) :
                  RemoveAt(q, i)[j] = IF j < i THEN q[j] ELSE q[j + 1]
<1>1. i \in 1..Len(q) /\ Len(q) \in Nat
  OBVIOUS
<1>2. /\ SubSeq(q, 1, i - 1) \in Seq(Jobs)
      /\ Len(SubSeq(q, 1, i - 1)) = i - 1
      /\ \A j \in 1..(i - 1) : SubSeq(q, 1, i - 1)[j] = q[j]
  BY <1>1
<1>3. /\ SubSeq(q, i + 1, Len(q)) \in Seq(Jobs)
      /\ Len(SubSeq(q, i + 1, Len(q))) = Len(q) - i
      /\ \A j \in 1..(Len(q) - i) : SubSeq(q, i + 1, Len(q))[j] = q[i + j]
  BY <1>1
<1> DEFINE front == SubSeq(q, 1, i - 1)
           back == SubSeq(q, i + 1, Len(q))
<1>4. RemoveAt(q, i) = front \o back
  BY DEF RemoveAt
<1> HIDE DEF front, back
<1>5. /\ front \o back \in Seq(Jobs)
      /\ Len(front \o back) = (i - 1) + (Len(q) - i)
      /\ \A j \in 1..((i - 1) + (Len(q) - i)) :
             (front \o back)[j] = IF j <= i - 1 THEN front[j] ELSE back[j - (i - 1)]
  <2>1. /\ front \in Seq(Jobs) /\ Len(front) = i - 1
        /\ back \in Seq(Jobs) /\ Len(back) = Len(q) - i
    BY <1>2, <1>3, Zenon DEF front, back
  <2>2. /\ front \o back \in Seq(Jobs)
        /\ Len(front \o back) = Len(front) + Len(back)
        /\ \A j \in 1..(Len(front) + Len(back)) :
               (front \o back)[j] = IF j <= Len(front) THEN front[j]
                                    ELSE back[j - Len(front)]
    BY <2>1, ConcatProperties, Zenon
  <2>. QED
    BY <2>1, <2>2, Zenon
<1>6. (i - 1) + (Len(q) - i) = Len(q) - 1
  BY <1>1
<1>7. ASSUME NEW j \in 1..(Len(q) - 1)
      PROVE  (front \o back)[j] = IF j < i THEN q[j] ELSE q[j + 1]
  <2>1. j \in 1..((i - 1) + (Len(q) - i)) /\ j \in Int /\ i \in Int
    BY <1>1
  <2>2. CASE j < i
    <3>1. j <= i - 1 /\ j \in 1..(i - 1)
      BY <2>1, <2>2
    <3>2. front[j] = q[j]
      BY <1>2, <3>1, Zenon DEF front
    <3>. QED
      BY <1>5, <2>1, <2>2, <3>1, <3>2, Zenon
  <2>3. CASE ~(j < i)
    <3>1. /\ ~(j <= i - 1)
          /\ j - (i - 1) \in 1..(Len(q) - i) /\ i + (j - (i - 1)) = j + 1
      BY <1>1, <2>1, <2>3
    <3>2. back[j - (i - 1)] = q[j + 1]
      BY <1>3, <3>1, Zenon DEF back
    <3>. QED
      BY <1>5, <2>1, <2>3, <3>1, <3>2, Zenon
  <2>. QED
    BY <2>2, <2>3
<1>. QED
  BY <1>4, <1>5, <1>6, <1>7, Zenon

\* The first of the queue leaves.
LEMMA PoppingOne ==
    ASSUME NEW q \in Seq(Jobs), q # <<>>
    PROVE  /\ Head(q) \in Jobs /\ Tail(q) \in Seq(Jobs)
           /\ Len(Tail(q)) = Len(q) - 1
           /\ \A i \in DOMAIN Tail(q) : i + 1 \in DOMAIN q /\ Tail(q)[i] = q[i + 1]
BY HeadTailProperties


-----------------------------------------------------------------------------
(***************************************************************************)
(* The queue after an accepted job.                                        *)
(***************************************************************************)
\* What the queue promises, of the queue q.
Queue(q) ==
    /\ q \in Seq(Jobs) /\ Len(q) <= MAX_PENDING_REPORTS
    /\ \A i, j \in DOMAIN q :
           Progress(q[i]) /\ Progress(q[j]) /\ q[i].generation = q[j].generation => i = j

\* Coalescing puts the job in the place of the account's progress report.
LEMMA CoalescedQueue ==
    ASSUME Queue(jobs), NEW job \in Jobs, Coalesces(job)
    PROVE  Queue(Coalesced(job)) /\ Coalesced(job) # <<>>
<1> DEFINE m == Min(Replaced(job))
<1>1. Replaced(job) \in SUBSET Nat /\ Replaced(job) # {}
  BY DEF Replaced, Coalesces, Queue
<1>2. m \in Replaced(job)
  BY <1>1, FirstPosition
<1> HIDE DEF m
<1>3. m \in DOMAIN jobs /\ Progress(jobs[m]) /\ jobs[m].generation = job.generation
  BY <1>2 DEF Replaced
<1>4. Coalesced(job) = [jobs EXCEPT ![m] = job]
  BY DEF Coalesced, m
<1> DEFINE q == [jobs EXCEPT ![m] = job]
<1>5. /\ q \in Seq(Jobs) /\ Len(q) = Len(jobs) /\ DOMAIN q = DOMAIN jobs
      /\ \A j \in DOMAIN jobs : q[j] = IF j = m THEN job ELSE jobs[j]
  BY <1>3, ReplacingOne DEF Queue
<1> HIDE DEF q
<1>6. ASSUME NEW i \in DOMAIN q, NEW j \in DOMAIN q, Progress(q[i]), Progress(q[j]),
             q[i].generation = q[j].generation
      PROVE  i = j
  <2>1. Progress(jobs[i]) /\ jobs[i].generation = q[i].generation
    BY <1>3, <1>5, <1>6
  <2>2. Progress(jobs[j]) /\ jobs[j].generation = q[j].generation
    BY <1>3, <1>5, <1>6
  <2>. QED
    BY <1>5, <1>6, <2>1, <2>2 DEF Queue
<1>7. q # <<>>
  BY <1>3, <1>5 DEF Queue
<1>. QED
  BY <1>4, <1>5, <1>6, <1>7 DEF Queue, q

\* A queue with one job more, of another account if it reports progress.
LEMMA AppendedQueue ==
    ASSUME NEW q, Queue(q), Len(q) < MAX_PENDING_REPORTS, NEW job \in Jobs,
           Progress(job) => \A i \in DOMAIN q :
               Progress(q[i]) => q[i].generation # job.generation
    PROVE  Queue(Append(q, job)) /\ Append(q, job) # <<>>
<1>1. /\ Append(q, job) \in Seq(Jobs) /\ Len(Append(q, job)) = Len(q) + 1
      /\ Append(q, job)[Len(q) + 1] = job
      /\ \A i \in 1..Len(q) : Append(q, job)[i] = q[i]
      /\ DOMAIN q = 1..Len(q) /\ DOMAIN Append(q, job) = 1..(Len(q) + 1)
      /\ Len(q) \in Nat
  BY AppendProperties DEF Queue
<1>2. Len(Append(q, job)) <= MAX_PENDING_REPORTS
  BY <1>1, PendingAssumption
<1> DEFINE r == Append(q, job)
<1> HIDE DEF r
<1>3. ASSUME NEW i \in 1..(Len(q) + 1), NEW j \in 1..(Len(q) + 1), Progress(r[i]),
             Progress(r[j]), r[i].generation = r[j].generation
      PROVE  i = j
  <2>1. CASE i \in 1..Len(q) /\ j \in 1..Len(q)
    BY <1>1, <1>3, <2>1 DEF Queue, r
  <2>2. CASE i \in 1..Len(q) /\ j = Len(q) + 1
    BY <1>1, <1>3, <2>2 DEF r
  <2>3. CASE i = Len(q) + 1 /\ j \in 1..Len(q)
    BY <1>1, <1>3, <2>3 DEF r
  <2>. QED
    BY <1>1, <2>1, <2>2, <2>3
<1>. QED
  BY <1>1, <1>2, <1>3 DEF Queue, r

\* Eviction makes room for the report that opens or closes a session.
LEMMA EvictingQueue ==
    ASSUME Queue(jobs), NEW job \in Jobs, Evicts(job)
    PROVE  Queue(Evicting(job)) /\ Evicting(job) # <<>>
<1> DEFINE m == Min(Evictable)
           q == RemoveAt(jobs, m)
<1>1. Evictable \in SUBSET Nat /\ Evictable # {}
  BY DEF Evictable, Evicts, Queue
<1>2. m \in Evictable
  BY <1>1, FirstPosition
<1> HIDE DEF m
<1>3. m \in DOMAIN jobs
  BY <1>2 DEF Evictable
<1>4. /\ q \in Seq(Jobs) /\ Len(q) = Len(jobs) - 1
      /\ \A j \in 1..(Len(jobs) - 1) : q[j] = IF j < m THEN jobs[j] ELSE jobs[j + 1]
  BY <1>3, RemovingOne DEF Queue
<1> HIDE DEF q
<1>5. m \in 1..Len(jobs) /\ Len(jobs) \in Nat /\ DOMAIN q = 1..(Len(jobs) - 1)
      /\ DOMAIN jobs = 1..Len(jobs)
  BY <1>3, <1>4 DEF Queue
<1>6. ASSUME NEW i \in DOMAIN q, NEW j \in DOMAIN q, Progress(q[i]), Progress(q[j]),
             q[i].generation = q[j].generation
      PROVE  i = j
  <2> DEFINE from(k) == IF k < m THEN k ELSE k + 1
  <2>1. /\ from(i) \in DOMAIN jobs /\ q[i] = jobs[from(i)]
        /\ from(j) \in DOMAIN jobs /\ q[j] = jobs[from(j)]
    BY <1>4, <1>5
  <2>2. from(i) = from(j)
    <3> HIDE DEF from
    <3>. QED
      BY <1>6, <2>1 DEF Queue
  <2>. QED
    BY <1>5, <2>2
<1>7. Queue(q) /\ Len(q) < MAX_PENDING_REPORTS
  BY <1>4, <1>5, <1>6, PendingAssumption DEF Queue
<1>8. ~Progress(job) /\ Evicting(job) = Append(q, job)
  BY DEF Evicts, Evicting, q, m
<1>. QED
  BY <1>7, <1>8, AppendedQueue

\* The plain case: there is room, and nothing to coalesce with.
LEMMA AppendsQueue ==
    ASSUME Queue(jobs), NEW job \in Jobs, Appends(job)
    PROVE  Queue(Append(jobs, job)) /\ Append(jobs, job) # <<>>
<1>1. Len(jobs) < MAX_PENDING_REPORTS
  BY PendingAssumption DEF Appends, Full, Queue
<1>2. Progress(job) => \A i \in DOMAIN jobs :
          Progress(jobs[i]) => jobs[i].generation # job.generation
  BY DEF Appends, Coalesces, Replaced
<1>. QED
  BY <1>1, <1>2, AppendedQueue

\* The invariant's queue.
LEMMA QueueOfInvariant == DispatchTypeOK /\ OneProgressPerGeneration => Queue(jobs)
BY DEF DispatchTypeOK, OneProgressPerGeneration, Queue

-----------------------------------------------------------------------------
(***************************************************************************)
(* The initial state, and every action.                                    *)
(***************************************************************************)
\* Nothing is pending at the start, with or without a worker.
LEMMA DispatchInitIInv == DispatchInit => DispatchIInv
<1>. SUFFICES ASSUME DispatchInit PROVE DispatchIInv
  OBVIOUS
<1>1. /\ jobs = <<>> /\ accepted = <<>> /\ sent = <<>> /\ sending = NoJob
      /\ shutting_down = FALSE /\ stopper = "idle" /\ handle \in BOOLEAN
      /\ worker = (IF handle THEN "look" ELSE "exited")
      /\ calling = [c \in Callers |-> NoJob]
  BY DEF DispatchInit
<1>2. <<>> \in Seq(Jobs) /\ Len(<<>>) <= MAX_PENDING_REPORTS /\ DOMAIN <<>> = {}
  BY PendingAssumption
<1>3. DispatchTypeOK
  BY <1>1, <1>2 DEF DispatchTypeOK
<1>4. OneProgressPerGeneration /\ WorkerIsAwake /\ ExitIsFinal
  BY <1>1, <1>2 DEF OneProgressPerGeneration, WorkerIsAwake, ExitIsFinal
<1>. QED
  BY <1>3, <1>4 DEF DispatchIInv

\* A caller finds the worker alive.
LEMMA CallKeeps ==
    ASSUME DispatchIInv, NEW c \in Callers, NEW job \in Jobs, Call(c, job)
    PROVE  DispatchIInv'
BY DEF Call, is_available, DispatchIInv, DispatchTypeOK, OneProgressPerGeneration,
   WorkerIsAwake, ExitIsFinal

\* The job is accepted or refused; the worker was alive, or shutdown refuses.
LEMMA ReturnKeeps ==
    ASSUME DispatchIInv, NEW c \in Callers, Return(c)
    PROVE  DispatchIInv'
<1> DEFINE job == calling[c]
<1>1. /\ job # NoJob /\ EnqueueJob(job) /\ calling' = [calling EXCEPT ![c] = NoJob]
      /\ UNCHANGED <<shutting_down, sending, handle, stopper, sent>>
  BY DEF Return
<1>2. job \in Jobs /\ Queue(jobs)
  BY <1>1, QueueOfInvariant DEF DispatchIInv, DispatchTypeOK
<1>3. calling' \in [Callers -> Jobs \cup {NoJob}]
      /\ \A d \in Callers : calling[d] = NoJob => calling'[d] = NoJob
  BY <1>1 DEF DispatchIInv, DispatchTypeOK
<1> HIDE DEF job
<1>4. CASE UNCHANGED <<jobs, worker, accepted>>
  BY <1>1, <1>3, <1>4 DEF DispatchIInv, DispatchTypeOK, OneProgressPerGeneration,
     WorkerIsAwake, ExitIsFinal
<1>5. ASSUME ~shutting_down, Queue(jobs'), jobs' # <<>>, Accepted(job)
      PROVE  DispatchIInv'
  <2>1. worker' = (IF worker = "asleep" THEN "look" ELSE worker)
        /\ accepted' = Append(accepted, job)
    BY <1>5 DEF Accepted
  <2>2. accepted' \in Seq(Jobs)
    BY <1>2, <2>1 DEF DispatchIInv, DispatchTypeOK
  <2>3. worker # "exited"
    BY <1>1, <1>5 DEF DispatchIInv, ExitIsFinal, job
  <2>4. DispatchTypeOK' /\ OneProgressPerGeneration'
    BY <1>1, <1>3, <1>5, <2>1, <2>2 DEF DispatchIInv, DispatchTypeOK, Queue,
       OneProgressPerGeneration
  <2>5. WorkerIsAwake' /\ ExitIsFinal'
    BY <1>1, <2>1, <2>3 DEF DispatchIInv, WorkerIsAwake, ExitIsFinal, DispatchTypeOK
  <2>. QED
    BY <2>4, <2>5 DEF DispatchIInv
<1>6. CASE ~shutting_down /\ Coalesces(job) /\ jobs' = Coalesced(job) /\ Accepted(job)
  BY <1>2, <1>5, <1>6, CoalescedQueue
<1>7. CASE ~shutting_down /\ Evicts(job) /\ jobs' = Evicting(job) /\ Accepted(job)
  BY <1>2, <1>5, <1>7, EvictingQueue
<1>8. CASE ~shutting_down /\ Appends(job) /\ jobs' = Append(jobs, job) /\ Accepted(job)
  BY <1>2, <1>5, <1>8, AppendsQueue
<1>. QED
  BY <1>1, <1>4, <1>6, <1>7, <1>8, Zenon DEF EnqueueJob

\* The worker pops a job, leaves or falls asleep.
LEMMA LookKeeps ==
    ASSUME DispatchIInv, Look
    PROVE  DispatchIInv'
<1>1. /\ worker = "look"
      /\ UNCHANGED <<shutting_down, handle, stopper, calling, accepted, sent>>
  BY DEF Look
<1>2. CASE jobs # <<>> /\ worker' = "sending" /\ sending' = Head(jobs)
           /\ jobs' = Tail(jobs)
  <2>1. /\ Head(jobs) \in Jobs /\ Tail(jobs) \in Seq(Jobs)
        /\ Len(Tail(jobs)) = Len(jobs) - 1
        /\ \A i \in DOMAIN Tail(jobs) :
               i + 1 \in DOMAIN jobs /\ Tail(jobs)[i] = jobs[i + 1]
    BY <1>2, PoppingOne DEF DispatchIInv, DispatchTypeOK
  <2>2. DispatchTypeOK'
    BY <1>1, <1>2, <2>1, NoJobIsNone, PendingAssumption DEF DispatchIInv, DispatchTypeOK
  <2>3. OneProgressPerGeneration'
    <3>1. ASSUME NEW i \in DOMAIN jobs', NEW j \in DOMAIN jobs', Progress(jobs'[i]),
                 Progress(jobs'[j]), jobs'[i].generation = jobs'[j].generation
          PROVE  i = j
      <4>1. i + 1 = j + 1
        BY <1>2, <2>1, <3>1 DEF DispatchIInv, OneProgressPerGeneration
      <4>2. i \in Nat /\ j \in Nat
        BY <2>2 DEF DispatchTypeOK
      <4>. QED
        BY <4>1, <4>2
    <3>. QED
      BY <3>1 DEF OneProgressPerGeneration
  <2>4. WorkerIsAwake' /\ ExitIsFinal'
    BY <1>1, <1>2 DEF DispatchIInv, WorkerIsAwake, ExitIsFinal
  <2>. QED
    BY <2>2, <2>3, <2>4 DEF DispatchIInv
<1>3. CASE jobs = <<>> /\ worker' = (IF shutting_down THEN "exited" ELSE "asleep")
           /\ UNCHANGED <<jobs, sending>>
  BY <1>1, <1>3 DEF DispatchIInv, DispatchTypeOK, OneProgressPerGeneration,
     WorkerIsAwake, ExitIsFinal
<1>. QED
  BY <1>2, <1>3 DEF Look

\* The request to the server ends.
LEMMA SendKeeps ==
    ASSUME DispatchIInv, Send
    PROVE  DispatchIInv'
<1>1. sending \in Jobs /\ sent' = Append(sent, sending) /\ sent' \in Seq(Jobs)
  BY DEF Send, DispatchIInv, DispatchTypeOK
<1>. QED
  BY <1>1, NoJobIsNone DEF Send, DispatchIInv, DispatchTypeOK, OneProgressPerGeneration,
     WorkerIsAwake, ExitIsFinal

\* Shutdown begins, takes the worker's handle and joins it.
LEMMA ShutdownKeeps ==
    ASSUME DispatchIInv, Shutdown
    PROVE  DispatchIInv'
<1>1. CASE BeginShutdown
  BY <1>1 DEF BeginShutdown, DispatchIInv, DispatchTypeOK, OneProgressPerGeneration,
     WorkerIsAwake, ExitIsFinal
<1>2. CASE TakeWorker
  BY <1>2 DEF TakeWorker, DispatchIInv, DispatchTypeOK, OneProgressPerGeneration,
     WorkerIsAwake, ExitIsFinal
<1>3. CASE JoinWorker
  BY <1>3 DEF JoinWorker, DispatchIInv, DispatchTypeOK, OneProgressPerGeneration,
     WorkerIsAwake, ExitIsFinal
<1>. QED
  BY <1>1, <1>2, <1>3 DEF Shutdown

-----------------------------------------------------------------------------
\* Every step preserves the invariant.
LEMMA DispatchStepIInv == DispatchIInv /\ [DispatchNext]_dispatchVars => DispatchIInv'
<1>. SUFFICES ASSUME DispatchIInv, [DispatchNext]_dispatchVars PROVE DispatchIInv'
  OBVIOUS
<1>1. CASE UNCHANGED dispatchVars
  BY <1>1 DEF dispatchVars, DispatchIInv, DispatchTypeOK, OneProgressPerGeneration,
     WorkerIsAwake, ExitIsFinal
<1>. QED
  BY <1>1, CallKeeps, ReturnKeeps, LookKeeps, SendKeeps, ShutdownKeeps
     DEF DispatchNext, Reporter

LEMMA DispatchInvariance == DispatchSpec => []DispatchIInv
BY DispatchInitIInv, DispatchStepIInv, PTL DEF DispatchSpec

\* Every variable keeps its type, and the queue its limit.
THEOREM DispatchTypes == DispatchSpec => []DispatchTypeOK
BY DispatchInvariance, PTL DEF DispatchIInv

\* One account never has two progress reports pending.
THEOREM OneProgressPending == DispatchSpec => []OneProgressPerGeneration
BY DispatchInvariance, PTL DEF DispatchIInv

\* The worker sleeps over nothing: no wake-up is lost.
THEOREM WakeUpsArrive == DispatchSpec => []WorkerIsAwake
BY DispatchInvariance, PTL DEF DispatchIInv

\* When shutdown has joined the worker, the queue is empty and nothing is being
\* sent: a worker that left, left nothing and lets nothing in.
THEOREM ShutdownLeavesNothing == DispatchSpec => []ShutdownDrains
<1>1. DispatchIInv => ShutdownDrains
  BY DEF DispatchIInv, DispatchTypeOK, ExitIsFinal, ShutdownDrains
<1>. QED
  BY <1>1, DispatchInvariance, PTL
-----------------------------------------------------------------------------
(***************************************************************************)
(* The same boundary reports in the same order.                            *)
(***************************************************************************)
\* at takes every boundary report of left to the same one of right.
Matches(at, left, right) ==
    /\ at \in [Boundaries(left) -> Boundaries(right)]
    /\ \A i, j \in Boundaries(left) : i < j => at[i] < at[j]
    /\ \A j \in Boundaries(right) : \E i \in Boundaries(left) : at[i] = j
    /\ \A i \in Boundaries(left) : right[at[i]] = left[i]

LEMMA MatchIsSame ==
    ASSUME NEW at, NEW left, NEW right, Matches(at, left, right)
    PROVE  SameBoundaries(left, right)
BY DEF Matches, SameBoundaries

LEMMA SameIsMatch ==
    ASSUME NEW left, NEW right, SameBoundaries(left, right)
    PROVE  \E at : Matches(at, left, right)
BY DEF Matches, SameBoundaries

\* Two sequences that agree but for reports of progress.
LEMMA SameByPosition ==
    ASSUME NEW left \in Seq(Jobs), NEW right \in Seq(Jobs), Len(left) = Len(right),
           \A i \in 1..Len(left) :
               left[i] = right[i] \/ (Progress(left[i]) /\ Progress(right[i]))
    PROVE  SameBoundaries(left, right)
<1>1. DOMAIN left = 1..Len(left) /\ DOMAIN right = 1..Len(left)
  BY LenProperties
<1>2. Boundaries(left) = Boundaries(right)
  BY <1>1 DEF Boundaries
<1> DEFINE at == [i \in Boundaries(left) |-> i]
<1>3. \A i \in Boundaries(left) : at[i] = i /\ right[i] = left[i]
  BY <1>1 DEF Boundaries
<1>4. at \in [Boundaries(left) -> Boundaries(right)]
  BY <1>2
<1> HIDE DEF at
<1>5. Matches(at, left, right)
  BY <1>2, <1>3, <1>4 DEF Matches
<1>. QED
  BY <1>5, MatchIsSame

LEMMA SameIsTransitive ==
    ASSUME NEW left \in Seq(Jobs), NEW middle \in Seq(Jobs), NEW right \in Seq(Jobs),
           SameBoundaries(left, middle), SameBoundaries(middle, right)
    PROVE  SameBoundaries(left, right)
<1>1. PICK f : Matches(f, left, middle)
  BY SameIsMatch
<1>2. PICK g : Matches(g, middle, right)
  BY SameIsMatch
<1> DEFINE at == [i \in Boundaries(left) |-> g[f[i]]]
<1>3. \A i \in Boundaries(left) : f[i] \in Boundaries(middle) /\ at[i] = g[f[i]]
  BY <1>1 DEF Matches
<1>4. at \in [Boundaries(left) -> Boundaries(right)]
  BY <1>2, <1>3 DEF Matches
<1> HIDE DEF at
<1>5. \A i, j \in Boundaries(left) : i < j => at[i] < at[j]
  BY <1>1, <1>2, <1>3 DEF Matches
<1>6. ASSUME NEW j \in Boundaries(right)
      PROVE  \E i \in Boundaries(left) : at[i] = j
  <2>1. PICK k \in Boundaries(middle) : g[k] = j
    BY <1>2 DEF Matches
  <2>2. PICK i \in Boundaries(left) : f[i] = k
    BY <1>1 DEF Matches
  <2>. QED
    BY <1>3, <2>1, <2>2
<1>7. \A i \in Boundaries(left) : right[at[i]] = left[i]
  BY <1>1, <1>2, <1>3 DEF Matches
<1>8. Matches(at, left, right)
  BY <1>4, <1>5, <1>6, <1>7 DEF Matches
<1>. QED
  BY <1>8, MatchIsSame

\* One report of progress fewer.
LEMMA SameButOne ==
    ASSUME NEW left \in Seq(Jobs), NEW right \in Seq(Jobs), NEW m \in 1..Len(right),
           Progress(right[m]), Len(left) = Len(right) - 1,
           \A j \in 1..(Len(right) - 1) :
               left[j] = IF j < m THEN right[j] ELSE right[j + 1]
    PROVE  SameBoundaries(left, right)
<1> DEFINE from(i) == IF i < m THEN i ELSE i + 1
           at == [i \in Boundaries(left) |-> from(i)]
<1>1. /\ Len(right) \in Nat /\ m \in Nat
      /\ DOMAIN left = 1..(Len(right) - 1) /\ DOMAIN right = 1..Len(right)
  BY LenProperties
<1>2. ASSUME NEW i \in Boundaries(left)
      PROVE  /\ i \in 1..(Len(right) - 1) /\ from(i) \in Boundaries(right)
             /\ right[from(i)] = left[i] /\ at[i] = from(i)
  <2>1. i \in 1..(Len(right) - 1) /\ ~Progress(left[i])
    BY <1>1 DEF Boundaries
  <2>2. from(i) \in 1..Len(right) /\ right[from(i)] = left[i]
    BY <1>1, <2>1
  <2>3. ~Progress(right[from(i)])
    BY <2>1, <2>2
  <2>4. at[i] = from(i)
    OBVIOUS
  <2> HIDE DEF from, at
  <2>. QED
    BY <1>1, <2>1, <2>2, <2>3, <2>4 DEF Boundaries
<1>3. ASSUME NEW j \in Boundaries(right)
      PROVE  \E i \in Boundaries(left) : from(i) = j
  <2> DEFINE i == IF j < m THEN j ELSE j - 1
  <2>1. j \in 1..Len(right) /\ ~Progress(right[j]) /\ j # m
    BY <1>1 DEF Boundaries
  <2>2. i \in 1..(Len(right) - 1) /\ from(i) = j
    BY <1>1, <2>1
  <2>3. left[i] = right[j]
    BY <1>1, <2>1, <2>2
  <2>4. ~Progress(left[i])
    BY <2>1, <2>3
  <2> HIDE DEF i, from
  <2>5. i \in Boundaries(left)
    BY <1>1, <2>2, <2>4 DEF Boundaries
  <2>. QED
    BY <2>2, <2>5
<1>4. \A i, j \in Boundaries(left) : i < j => from(i) < from(j)
  BY <1>1, <1>2
<1> HIDE DEF from
<1>5. at \in [Boundaries(left) -> Boundaries(right)]
  BY <1>2
<1> HIDE DEF at
<1>6. Matches(at, left, right)
  BY <1>2, <1>3, <1>4, <1>5 DEF Matches
<1>. QED
  BY <1>6, MatchIsSame

\* The same job at the end of both.
LEMMA SameWithOneMore ==
    ASSUME NEW left \in Seq(Jobs), NEW right \in Seq(Jobs), NEW job \in Jobs,
           SameBoundaries(left, right)
    PROVE  SameBoundaries(Append(left, job), Append(right, job))
<1> DEFINE more == Append(left, job)
           most == Append(right, job)
<1>1. /\ Len(left) \in Nat /\ DOMAIN left = 1..Len(left)
      /\ DOMAIN more = 1..(Len(left) + 1) /\ more[Len(left) + 1] = job
      /\ \A i \in 1..Len(left) : more[i] = left[i]
  BY AppendProperties, LenProperties
<1>2. /\ Len(right) \in Nat /\ DOMAIN right = 1..Len(right)
      /\ DOMAIN most = 1..(Len(right) + 1) /\ most[Len(right) + 1] = job
      /\ \A i \in 1..Len(right) : most[i] = right[i]
  BY AppendProperties, LenProperties
<1> HIDE DEF more, most
<1>3. PICK f : Matches(f, left, right)
  BY SameIsMatch
<1>4. /\ \A i \in Boundaries(left) : i \in Boundaries(more) /\ i \in 1..Len(left)
      /\ \A i \in Boundaries(more) : i = Len(left) + 1 \/ i \in Boundaries(left)
      /\ Len(left) + 1 \in Boundaries(more) <=> ~Progress(job)
      /\ Len(left) + 1 \notin Boundaries(left)
  BY <1>1 DEF Boundaries
<1>5. /\ \A i \in Boundaries(right) : i \in Boundaries(most) /\ i \in 1..Len(right)
      /\ \A i \in Boundaries(most) : i = Len(right) + 1 \/ i \in Boundaries(right)
      /\ Len(right) + 1 \in Boundaries(most) <=> ~Progress(job)
  BY <1>2 DEF Boundaries
<1> DEFINE to(i) == IF i = Len(left) + 1 THEN Len(right) + 1 ELSE f[i]
           at == [i \in Boundaries(more) |-> to(i)]
<1>6. ASSUME NEW i \in Boundaries(more)
      PROVE  /\ to(i) \in Boundaries(most) /\ most[to(i)] = more[i] /\ at[i] = to(i)
             /\ \/ i = Len(left) + 1 /\ to(i) = Len(right) + 1
                \/ /\ i \in 1..Len(left) /\ to(i) \in 1..Len(right) /\ to(i) = f[i]
                   /\ i \in Boundaries(left)
  <2>1. at[i] = to(i)
    OBVIOUS
  <2>2. CASE i = Len(left) + 1
    BY <1>1, <1>2, <1>4, <1>5, <2>1, <2>2
  <2>3. CASE i \in Boundaries(left)
    <3>1. to(i) = f[i] /\ f[i] \in Boundaries(right) /\ right[f[i]] = left[i]
      BY <1>3, <1>4, <2>3 DEF Matches
    <3> HIDE DEF to, at
    <3>. QED
      BY <1>1, <1>2, <1>4, <1>5, <2>1, <2>3, <3>1
  <2>. QED
    BY <1>4, <2>2, <2>3
<1>7. ASSUME NEW j \in Boundaries(most)
      PROVE  \E i \in Boundaries(more) : to(i) = j
  <2>1. CASE j = Len(right) + 1
    <3>1. Len(left) + 1 \in Boundaries(more) /\ to(Len(left) + 1) = j
      BY <1>4, <1>5, <2>1
    <3>. QED
      BY <3>1
  <2>2. CASE j \in Boundaries(right)
    <3>1. PICK i \in Boundaries(left) : f[i] = j
      BY <1>3, <2>2 DEF Matches
    <3>2. i \in Boundaries(more) /\ to(i) = j
      BY <1>4, <3>1
    <3>. QED
      BY <3>2
  <2>. QED
    BY <1>5, <2>1, <2>2
<1> HIDE DEF to
<1>8. \A i, j \in Boundaries(more) : i < j => to(i) < to(j)
  BY <1>1, <1>2, <1>3, <1>6 DEF Matches
<1>9. at \in [Boundaries(more) -> Boundaries(most)]
  BY <1>6
<1> HIDE DEF at
<1>10. Matches(at, more, most)
  BY <1>6, <1>7, <1>8, <1>9 DEF Matches
<1>. QED
  BY <1>10, MatchIsSame DEF more, most

\* The same jobs in front of both.
LEMMA SameBehind ==
    ASSUME NEW front \in Seq(Jobs), NEW left \in Seq(Jobs), NEW right \in Seq(Jobs),
           SameBoundaries(left, right)
    PROVE  SameBoundaries(front \o left, front \o right)
<1> DEFINE n == Len(front)
           more == front \o left
           most == front \o right
<1>1. /\ n \in Nat /\ Len(left) \in Nat /\ Len(right) \in Nat
      /\ DOMAIN left = 1..Len(left) /\ DOMAIN right = 1..Len(right)
  BY LenProperties
<1>2. /\ DOMAIN more = 1..(n + Len(left))
      /\ \A i \in 1..n : more[i] = front[i]
      /\ \A i \in 1..Len(left) : more[n + i] = left[i]
  BY <1>1, ConcatProperties, LenProperties
<1>3. /\ DOMAIN most = 1..(n + Len(right))
      /\ \A i \in 1..n : most[i] = front[i]
      /\ \A i \in 1..Len(right) : most[n + i] = right[i]
  BY <1>1, ConcatProperties, LenProperties
<1> HIDE DEF n, more, most
<1>4. PICK f : Matches(f, left, right)
  BY SameIsMatch
<1> DEFINE to(i) == IF i <= n THEN i ELSE n + f[i - n]
           at == [i \in Boundaries(more) |-> to(i)]
<1>5. ASSUME NEW i \in Boundaries(more)
      PROVE  /\ to(i) \in Boundaries(most) /\ most[to(i)] = more[i] /\ at[i] = to(i)
             /\ i \in Int
             /\ i > n => /\ i - n \in Boundaries(left) /\ to(i) = n + f[i - n]
                         /\ f[i - n] \in 1..Len(right)
  <2>1. at[i] = to(i)
    OBVIOUS
  <2>2. i \in 1..(n + Len(left)) /\ ~Progress(more[i])
    BY <1>2 DEF Boundaries
  <2>3. CASE i <= n
    <3>1. i \in 1..n /\ to(i) = i /\ most[i] = more[i] /\ i \in 1..(n + Len(right))
      BY <1>1, <1>2, <1>3, <2>2, <2>3
    <3>. QED
      BY <1>1, <1>3, <2>1, <2>2, <2>3, <3>1 DEF Boundaries
  <2>4. CASE ~(i <= n)
    <3>1. i - n \in 1..Len(left) /\ n + (i - n) = i /\ to(i) = n + f[i - n]
      BY <1>1, <2>2, <2>4
    <3>2. left[i - n] = more[i]
      BY <1>2, <3>1
    <3>3. i - n \in Boundaries(left)
      BY <1>1, <2>2, <3>1, <3>2 DEF Boundaries
    <3>4. f[i - n] \in Boundaries(right) /\ right[f[i - n]] = more[i]
      BY <1>4, <3>2, <3>3 DEF Matches
    <3>5. f[i - n] \in 1..Len(right) /\ most[n + f[i - n]] = more[i]
          /\ n + f[i - n] \in 1..(n + Len(right))
      BY <1>1, <1>3, <3>4 DEF Boundaries
    <3> HIDE DEF to, at
    <3>. QED
      BY <1>1, <1>3, <2>1, <2>2, <2>4, <3>1, <3>3, <3>5 DEF Boundaries
  <2>. QED
    BY <2>3, <2>4
<1>6. ASSUME NEW j \in Boundaries(most)
      PROVE  \E i \in Boundaries(more) : to(i) = j
  <2>1. j \in 1..(n + Len(right)) /\ ~Progress(most[j])
    BY <1>3 DEF Boundaries
  <2>2. CASE j <= n
    <3>1. j \in 1..n /\ to(j) = j /\ most[j] = more[j] /\ j \in 1..(n + Len(left))
      BY <1>1, <1>2, <1>3, <2>1, <2>2
    <3>2. j \in Boundaries(more)
      BY <1>2, <2>1, <3>1 DEF Boundaries
    <3>. QED
      BY <3>1, <3>2
  <2>3. CASE ~(j <= n)
    <3>1. j - n \in 1..Len(right) /\ n + (j - n) = j
      BY <1>1, <2>1, <2>3
    <3>2. right[j - n] = most[j]
      BY <1>3, <3>1
    <3>3. j - n \in Boundaries(right)
      BY <1>1, <2>1, <3>1, <3>2 DEF Boundaries
    <3>4. PICK i \in Boundaries(left) : f[i] = j - n
      BY <1>4, <3>3 DEF Matches
    <3>5. i \in 1..Len(left) /\ ~Progress(left[i])
      BY <1>1 DEF Boundaries
    <3>6. n + i \in 1..(n + Len(left)) /\ more[n + i] = left[i]
          /\ ~(n + i <= n) /\ (n + i) - n = i
      BY <1>1, <1>2, <3>5
    <3>7. n + i \in Boundaries(more)
      BY <1>2, <3>5, <3>6 DEF Boundaries
    <3>8. to(n + i) = j
      BY <3>1, <3>4, <3>6
    <3>. QED
      BY <3>7, <3>8
  <2>. QED
    BY <2>2, <2>3
<1>7. \A i \in Boundaries(more) : i <= n => to(i) = i
  OBVIOUS
<1> HIDE DEF to
<1>8. ASSUME NEW i \in Boundaries(more), NEW j \in Boundaries(more), i < j
      PROVE  to(i) < to(j)
  <2>1. CASE j <= n
    BY <1>1, <1>5, <1>7, <1>8, <2>1
  <2>2. CASE i <= n /\ ~(j <= n)
    BY <1>1, <1>5, <1>7, <2>2
  <2>3. CASE ~(i <= n)
    <3>1. i - n \in Boundaries(left) /\ j - n \in Boundaries(left) /\ i - n < j - n
      BY <1>1, <1>5, <1>8, <2>3
    <3>2. f[i - n] < f[j - n]
      BY <1>4, <3>1 DEF Matches
    <3>. QED
      BY <1>1, <1>5, <1>8, <2>3, <3>2
  <2>. QED
    BY <1>1, <1>5, <2>1, <2>2, <2>3
<1>9. at \in [Boundaries(more) -> Boundaries(most)]
  BY <1>5
<1> HIDE DEF at
<1>10. Matches(at, more, most)
  BY <1>5, <1>6, <1>8, <1>9 DEF Matches
<1>. QED
  BY <1>10, MatchIsSame DEF more, most

\* The first of the queue moves to what is being sent.
LEMMA PoppingKeepsTheWay ==
    ASSUME NEW front \in Seq(Jobs), NEW q \in Seq(Jobs), q # <<>>
    PROVE  Append(front, Head(q)) \o Tail(q) = front \o q
<1> DEFINE one == <<Head(q)>>
<1>1. Head(q) \in Jobs /\ Tail(q) \in Seq(Jobs) /\ one \in Seq(Jobs)
  BY HeadTailProperties
<1>2. Append(front, Head(q)) = front \o one
  BY <1>1, AppendIsConcat
<1>3. q = one \o Tail(q)
  BY <1>1
<1> HIDE DEF one
<1>4. (front \o one) \o Tail(q) = front \o (one \o Tail(q))
  BY <1>1, ConcatAssociative
<1>5. (front \o one) \o Tail(q) = front \o q
  BY <1>3, <1>4, Zenon
<1>. QED
  BY <1>2, <1>5, Zenon

\* One more at the end of the queue is one more at the end of the way.
LEMMA AppendingToTheWay ==
    ASSUME NEW front \in Seq(Jobs), NEW q \in Seq(Jobs), NEW job \in Jobs
    PROVE  front \o Append(q, job) = Append(front \o q, job)
<1> DEFINE one == <<job>>
<1>1. one \in Seq(Jobs) /\ front \o q \in Seq(Jobs)
  BY ConcatProperties
<1>2. Append(q, job) = q \o one /\ Append(front \o q, job) = (front \o q) \o one
  BY <1>1, AppendIsConcat, Zenon
<1> HIDE DEF one
<1>3. (front \o q) \o one = front \o (q \o one)
  BY <1>1, ConcatAssociative
<1>. QED
  BY <1>2, <1>3, Zenon

-----------------------------------------------------------------------------
(***************************************************************************)
(* Every step keeps the boundary reports.                                  *)
(***************************************************************************)
LEMMA BeforeQueueTyped == DispatchTypeOK => BeforeQueue \in Seq(Jobs)
BY AppendProperties DEF DispatchTypeOK, BeforeQueue

\* The job is accepted: the queue holds what it held, less progress reports, and
\* then the job, where it may have taken the place of a progress report.
LEMMA ReturnKeepsBoundaries ==
    ASSUME DispatchIInv, BoundariesKeepOrder, NEW c \in Callers, Return(c)
    PROVE  BoundariesKeepOrder'
<1> DEFINE job == calling[c]
           front == BeforeQueue
<1>1. /\ job # NoJob /\ EnqueueJob(job) /\ UNCHANGED <<sending, sent>>
  BY DEF Return
<1>2. job \in Jobs /\ Queue(jobs) /\ jobs \in Seq(Jobs) /\ accepted \in Seq(Jobs)
  BY <1>1, QueueOfInvariant DEF DispatchIInv, DispatchTypeOK
<1>3. front \in Seq(Jobs) /\ front \o jobs \in Seq(Jobs)
  BY <1>2, BeforeQueueTyped, ConcatProperties DEF DispatchIInv
<1>4. SameBoundaries(front \o jobs, accepted)
  BY DEF BoundariesKeepOrder
<1>5. UNCHANGED worker \/ Accepted(job) => BeforeQueue' = front
  BY <1>1 DEF Accepted, BeforeQueue
<1> HIDE DEF job, front
<1>6. CASE UNCHANGED <<jobs, worker, accepted>>
  BY <1>4, <1>5, <1>6 DEF BoundariesKeepOrder
<1>7. ASSUME Accepted(job), NEW q \in Seq(Jobs), SameBoundaries(q, jobs),
             jobs' = Append(q, job)
      PROVE  BoundariesKeepOrder'
  <2>1. front \o q \in Seq(Jobs) /\ SameBoundaries(front \o q, front \o jobs)
    BY <1>2, <1>3, <1>7, SameBehind, ConcatProperties
  <2>2. SameBoundaries(front \o q, accepted)
    BY <1>2, <1>3, <1>4, <2>1, SameIsTransitive
  <2>3. SameBoundaries(Append(front \o q, job), Append(accepted, job))
    BY <1>2, <2>1, <2>2, SameWithOneMore
  <2>4. front \o jobs' = Append(front \o q, job) /\ accepted' = Append(accepted, job)
    BY <1>2, <1>3, <1>7, AppendingToTheWay, Zenon DEF Accepted
  <2>. QED
    BY <1>5, <1>7, <2>3, <2>4 DEF BoundariesKeepOrder
<1>8. CASE Coalesces(job) /\ jobs' = Coalesced(job) /\ Accepted(job)
  <2> DEFINE m == Min(Replaced(job))
  <2>1. Replaced(job) \in SUBSET Nat /\ Replaced(job) # {}
    BY <1>2, <1>8 DEF Replaced, Coalesces
  <2>2. m \in Replaced(job)
    BY <2>1, FirstPosition
  <2>3. m \in 1..Len(jobs) /\ Progress(jobs[m]) /\ Progress(job)
    BY <1>2, <1>8, <2>2 DEF Replaced, Coalesces
  <2>4. jobs' = [jobs EXCEPT ![m] = job]
    BY <1>8 DEF Coalesced
  <2> HIDE DEF m
  <2>5. /\ jobs' \in Seq(Jobs) /\ Len(jobs') = Len(jobs)
        /\ \A j \in 1..Len(jobs) : jobs'[j] = IF j = m THEN job ELSE jobs[j]
    BY <1>2, <2>3, <2>4, ExceptSeq
  <2>6. SameBoundaries(jobs', jobs)
    BY <1>2, <2>3, <2>5, SameByPosition
  <2>7. front \o jobs' \in Seq(Jobs) /\ SameBoundaries(front \o jobs', front \o jobs)
    BY <1>2, <1>3, <2>5, <2>6, SameBehind, ConcatProperties
  <2>8. accepted' = Append(accepted, job) /\ accepted' \in Seq(Jobs)
    BY <1>2, <1>8 DEF Accepted
  <2>9. SameBoundaries(accepted, accepted')
    <3>1. /\ Len(accepted') = Len(accepted) + 1 /\ Len(accepted) \in Nat
          /\ accepted'[Len(accepted) + 1] = job
          /\ \A i \in 1..Len(accepted) : accepted'[i] = accepted[i]
      BY <1>2, <2>8, AppendProperties, LenProperties
    <3>2. Len(accepted) + 1 \in 1..Len(accepted') /\ Progress(accepted'[Len(accepted) + 1])
      BY <2>3, <3>1
    <3>3. /\ Len(accepted) = Len(accepted') - 1
          /\ \A j \in 1..(Len(accepted') - 1) :
                 accepted[j] = IF j < Len(accepted) + 1 THEN accepted'[j]
                               ELSE accepted'[j + 1]
      BY <3>1
    <3>. QED
      BY <1>2, <2>8, <3>2, <3>3, SameButOne
  <2>10. SameBoundaries(front \o jobs', accepted)
    BY <1>2, <1>3, <1>4, <2>7, SameIsTransitive
  <2>11. SameBoundaries(front \o jobs', accepted')
    BY <1>2, <2>7, <2>8, <2>9, <2>10, SameIsTransitive
  <2>. QED
    BY <1>5, <1>8, <2>11 DEF BoundariesKeepOrder
<1>9. CASE Evicts(job) /\ jobs' = Evicting(job) /\ Accepted(job)
  <2> DEFINE m == Min(Evictable)
             q == RemoveAt(jobs, m)
  <2>1. Evictable \in SUBSET Nat /\ Evictable # {}
    BY <1>2, <1>9 DEF Evictable, Evicts
  <2>2. m \in Evictable
    BY <2>1, FirstPosition
  <2>3. jobs' = Append(q, job)
    BY <1>9 DEF Evicting
  <2> HIDE DEF m
  <2>4. m \in DOMAIN jobs /\ m \in 1..Len(jobs) /\ Progress(jobs[m])
    BY <1>2, <2>2 DEF Evictable
  <2>5. /\ q \in Seq(Jobs) /\ Len(q) = Len(jobs) - 1
        /\ \A j \in 1..(Len(jobs) - 1) : q[j] = IF j < m THEN jobs[j] ELSE jobs[j + 1]
    BY <1>2, <2>4, RemovingOne
  <2> HIDE DEF q
  <2>6. SameBoundaries(q, jobs)
    BY <1>2, <2>4, <2>5, SameButOne
  <2>. QED
    BY <1>7, <1>9, <2>3, <2>5, <2>6
<1>10. CASE Appends(job) /\ jobs' = Append(jobs, job) /\ Accepted(job)
  <2>1. SameBoundaries(jobs, jobs)
    BY <1>2, SameByPosition
  <2>. QED
    BY <1>2, <1>7, <1>10, <2>1
<1>. QED
  BY <1>1, <1>6, <1>8, <1>9, <1>10, Zenon DEF EnqueueJob

\* The worker takes the first report, and sends it.
LEMMA ReporterKeepsBoundaries ==
    ASSUME DispatchIInv, BoundariesKeepOrder, Reporter
    PROVE  BoundariesKeepOrder'
<1>1. sent \in Seq(Jobs) /\ jobs \in Seq(Jobs)
  BY DEF DispatchIInv, DispatchTypeOK
<1>2. BeforeQueue' \o jobs' = BeforeQueue \o jobs /\ accepted' = accepted
  <2>1. CASE Send
    BY <2>1 DEF Send, BeforeQueue
  <2>2. CASE Look /\ jobs # <<>>
    <3>1. BeforeQueue' = Append(sent, Head(jobs)) /\ BeforeQueue = sent
          /\ jobs' = Tail(jobs) /\ accepted' = accepted
      BY <2>2 DEF Look, BeforeQueue
    <3>. QED
      BY <1>1, <2>2, <3>1, PoppingKeepsTheWay
  <2>3. CASE Look /\ jobs = <<>>
    BY <2>3 DEF Look, BeforeQueue
  <2>. QED
    BY <2>1, <2>2, <2>3 DEF Reporter
<1>. QED
  BY <1>2 DEF BoundariesKeepOrder

\* Everything else leaves the reports where they are.
LEMMA BoundariesLeftAlone ==
    ASSUME BoundariesKeepOrder, UNCHANGED <<jobs, sending, sent, accepted>>,
           worker' = "sending" <=> worker = "sending"
    PROVE  BoundariesKeepOrder'
BY DEF BoundariesKeepOrder, BeforeQueue

LEMMA ShutdownKeepsBoundaries ==
    ASSUME BoundariesKeepOrder, Shutdown
    PROVE  BoundariesKeepOrder'
<1>1. UNCHANGED <<jobs, sending, sent, accepted>>
      /\ worker' \in {worker, IF worker = "asleep" THEN "look" ELSE worker}
  BY DEF Shutdown, BeginShutdown, TakeWorker, JoinWorker
<1>. QED
  BY <1>1, BoundariesLeftAlone

LEMMA BoundariesStep ==
    DispatchIInv /\ BoundariesKeepOrder /\ [DispatchNext]_dispatchVars
        => BoundariesKeepOrder'
<1>. SUFFICES ASSUME DispatchIInv, BoundariesKeepOrder, [DispatchNext]_dispatchVars
              PROVE  BoundariesKeepOrder'
  OBVIOUS
<1>1. CASE UNCHANGED dispatchVars
  BY <1>1, BoundariesLeftAlone DEF dispatchVars
<1>2. ASSUME NEW c \in Callers, NEW job \in Jobs, Call(c, job)
      PROVE  BoundariesKeepOrder'
  BY <1>2, BoundariesLeftAlone DEF Call
<1>. QED
  BY <1>1, <1>2, ReturnKeepsBoundaries, ReporterKeepsBoundaries,
     ShutdownKeepsBoundaries DEF DispatchNext

LEMMA BoundariesInit == DispatchInit => BoundariesKeepOrder
<1>. SUFFICES ASSUME DispatchInit PROVE BoundariesKeepOrder
  OBVIOUS
<1>1. BeforeQueue = <<>> /\ jobs = <<>> /\ accepted = <<>>
  BY DEF DispatchInit, BeforeQueue
<1>2. <<>> \in Seq(Jobs) /\ <<>> \o <<>> = <<>> /\ Len(<<>>) = 0
  BY EmptySeq, ConcatEmptySeq
<1>3. SameBoundaries(<<>>, <<>>)
  BY <1>2, SameByPosition
<1>. QED
  BY <1>1, <1>2, <1>3 DEF BoundariesKeepOrder

\* The reports that open and close sessions reach the server in the order they
\* were accepted, none lost and none twice: coalescing, eviction and shutdown
\* spend only reports of progress.
THEOREM BoundariesAreKept == DispatchSpec => []BoundariesKeepOrder
BY DispatchInvariance, BoundariesInit, BoundariesStep, PTL DEF DispatchSpec

-----------------------------------------------------------------------------
(***************************************************************************)
(* The tracked play and the dispatcher together: each step of the whole is *)
(* a step of one, of both, or the shutdown's last word on the play.        *)
(***************************************************************************)
\* What a thread brings is a job of the dispatcher.
LEMMA BroughtIsJob ==
    ASSUME ReportIInv, NEW t \in Threads, hand[t] # NoReport
    PROVE  t \in Callers /\ hand[t] \in Jobs
BY ReportingAssumption DEF ReportIInv, ReportTypeOK

\* shutdown_resources closes the tracked play as an account change does.
LEMMA ShutdownResourcesKeeps ==
    ASSUME ReportIInv, ShutdownResources
    PROVE  ReportIInv'
<1>1. /\ active' = NoPlay /\ resources' = 0 /\ Plans(Account, StoppedReport)
      /\ UNCHANGED <<generation, session, requests, request>>
  BY DEF ShutdownResources
<1>2. Account \in Threads /\ ReportTypeOK /\ ~Open'
  BY <1>1 DEF Threads, ReportIInv, Open
<1>3. /\ hand' \in [Threads -> Report \cup {NoReport}]
      /\ planned' \in Seq(Report)
      /\ SessionInv' /\ PlaysOpenOnce'
      /\ \A i \in DOMAIN planned' :
             \/ planned'[i].play = active.play
             \/ i \in DOMAIN planned /\ planned'[i] = planned[i]
  BY <1>1, <1>2, StoppedReportKeeps
<1>4. ReportTypeOK'
  BY <1>1, <1>2, <1>3, BoundsAssumption DEF ReportTypeOK
<1>5. TrackedForThisAccount' /\ ResourcesFollowTrackedPlay'
  BY <1>1 DEF TrackedForThisAccount, ResourcesFollowTrackedPlay
<1>6. PlaysAreNew'
  BY <1>1, <1>3, NoneTrackedKeepsOrder
<1>. QED
  BY <1>3, <1>4, <1>5, <1>6 DEF ReportIInv, SessionInv

\* A step in which no play, request or report changes.
LEMMA ReportsLeftAlone ==
    ASSUME ReportIInv, UNCHANGED reportVars
    PROVE  ReportIInv'
BY ReportStepIInv

LEMMA DispatchLeftAlone ==
    ASSUME DispatchIInv, BoundariesKeepOrder, UNCHANGED dispatchVars
    PROVE  DispatchIInv' /\ BoundariesKeepOrder'
BY DispatchStepIInv, BoundariesStep

\* The tracked play's half.
LEMMA ReportingKeepsReports ==
    ASSUME ReportIInv, [ReportingNext]_reportingVars
    PROVE  ReportIInv'
<1>1. CASE UNCHANGED reportingVars
  BY <1>1, ReportsLeftAlone DEF reportingVars
<1>2. ASSUME NEW kind \in EventsHandled, NEW position \in Spots, NEW failed \in BOOLEAN,
             Event(kind, position, failed)
      PROVE  ReportIInv'
  BY <1>2, EventKeeps DEF Event
<1>3. ASSUME NEW l \in Loaders, LoadRequest(l)
      PROVE  ReportIInv'
  BY <1>3, BeginRequestKeeps, EndRequestKeeps, LoadKeeps DEF LoadRequest
<1>4. CASE AccountChange
  BY <1>4, ChangeAccountKeeps DEF AccountChange
<1>5. CASE Release
  BY <1>5, ReleaseAndEnqueueKeep
<1>6. ASSUME NEW t \in Threads, Bring(t) \/ Settle(t)
      PROVE  ReportIInv'
  BY <1>6, ReleaseAndEnqueueKeep, ReportsLeftAlone DEF Bring, Settle
<1>7. CASE UNCHANGED reportVars
  BY <1>7, ReportsLeftAlone
<1>8. CASE ShutdownResources
  BY <1>8, ShutdownResourcesKeeps
<1>9. ShutdownReporter => UNCHANGED reportVars
  BY DEF ShutdownReporter
<1>. QED
  BY <1>1, <1>2, <1>3, <1>4, <1>5, <1>6, <1>7, <1>8, <1>9 DEF ReportingNext

\* What the whole does to the dispatcher.
DispatchStep ==
    \/ UNCHANGED dispatchVars
    \/ \E t \in Threads : hand[t] # NoReport /\ Call(t, hand[t])
    \/ \E t \in Threads : Return(t)
    \/ Reporter
    \/ Shutdown

LEMMA ReportingStepsDispatch == [ReportingNext]_reportingVars => DispatchStep
<1>. SUFFICES ASSUME [ReportingNext]_reportingVars PROVE DispatchStep
  OBVIOUS
<1>1. CASE UNCHANGED reportingVars
  BY <1>1 DEF reportingVars, DispatchStep
<1>2. ASSUME NEW kind \in EventsHandled, NEW position \in Spots, NEW failed \in BOOLEAN,
             Event(kind, position, failed)
      PROVE  DispatchStep
  BY <1>2 DEF Event, OnlyReports, DispatchStep
<1>3. ASSUME NEW l \in Loaders, LoadRequest(l)
      PROVE  DispatchStep
  BY <1>3 DEF LoadRequest, OnlyReports, DispatchStep
<1>4. CASE AccountChange \/ (Release /\ OnlyReports) \/ ShutdownResources
  BY <1>4 DEF AccountChange, OnlyReports, ShutdownResources, dispatchVars, DispatchStep
<1>5. ASSUME NEW t \in Threads, Bring(t) \/ Settle(t)
      PROVE  DispatchStep
  BY <1>5 DEF Bring, EnqueueReport, Settle, DispatchStep
<1>6. CASE Reporter \/ ShutdownReporter
  BY <1>6 DEF ShutdownReporter, DispatchStep
<1>. QED
  BY <1>1, <1>2, <1>3, <1>4, <1>5, <1>6, Zenon DEF ReportingNext

\* The dispatcher's half.
LEMMA ReportingKeepsDispatch ==
    ASSUME ReportIInv, DispatchIInv, BoundariesKeepOrder, DispatchStep
    PROVE  DispatchIInv' /\ BoundariesKeepOrder'
<1>1. CASE UNCHANGED dispatchVars
  BY <1>1, DispatchLeftAlone
<1>2. ASSUME NEW t \in Threads, hand[t] # NoReport, Call(t, hand[t])
      PROVE  DispatchIInv' /\ BoundariesKeepOrder'
  <2>1. t \in Callers /\ hand[t] \in Jobs
    BY <1>2, BroughtIsJob
  <2>2. DispatchIInv'
    BY <1>2, <2>1, CallKeeps
  <2>. QED
    BY <1>2, <2>2, BoundariesLeftAlone DEF Call
<1>3. ASSUME NEW t \in Threads, Return(t)
      PROVE  DispatchIInv' /\ BoundariesKeepOrder'
  BY <1>3, ReportingAssumption, ReturnKeeps, ReturnKeepsBoundaries
<1>4. CASE Reporter
  BY <1>4, LookKeeps, SendKeeps, ReporterKeepsBoundaries DEF Reporter
<1>5. CASE Shutdown
  BY <1>5, ShutdownKeeps, ShutdownKeepsBoundaries
<1>. QED
  BY <1>1, <1>2, <1>3, <1>4, <1>5 DEF DispatchStep

-----------------------------------------------------------------------------
(***************************************************************************)
(* The closing reports, from the plan to the server.                       *)
(***************************************************************************)
\* Where a planned report may be.
Underway(report) ==
    \/ report \in refused
    \/ \E t \in Threads : report \in {hand[t], calling[t]}
    \/ \E j \in DOMAIN jobs : jobs[j] = report
    \/ report = sending
    \/ \E j \in DOMAIN sent : sent[j] = report

\* Some thread leaves the state's lock with one report, or with none.
PlansSome ==
    \E t \in Threads : Plans(t, <<>>) \/ \E report : Plans(t, <<report>>)

LEMMA PlansByCase ==
    ASSUME NEW t \in Threads, NEW report, NEW condition,
           Plans(t, IF condition THEN <<report>> ELSE <<>>)
    PROVE  PlansSome
<1>1. CASE condition
  <2>1. Plans(t, <<report>>)
    BY <1>1, Zenon
  <2>. QED
    BY <2>1, Zenon DEF PlansSome
<1>2. CASE ~condition
  <2>1. Plans(t, <<>>)
    BY <1>2, Zenon
  <2>. QED
    BY <2>1, Zenon DEF PlansSome
<1>. QED
  BY <1>1, <1>2

LEMMA StoppedPlansSome ==
    ASSUME NEW t \in Threads, Plans(t, StoppedReport)
    PROVE  PlansSome
BY PlansByCase, Zenon DEF StoppedReport

LEMMA TrackedPlansSome ==
    ASSUME NEW t \in Threads, NEW tracked, NEW reports, NEW kind,
           TrackedAs(t, tracked, reports, kind)
    PROVE  PlansSome
BY PlansByCase, Zenon DEF TrackedAs

\* Whatever the play's half does, it plans at most one report.
LEMMA ReportsPlanSome ==
    ASSUME [ReportingNext]_reportingVars,
           ~\E t \in Threads : Bring(t) \/ Settle(t)
    PROVE  PlansSome \/ UNCHANGED <<hand, planned>>
<1>1. ASSUME NEW kind \in EventsHandled, NEW position \in Spots, NEW failed \in BOOLEAN,
             Event(kind, position, failed)
      PROVE  PlansSome
  <2> DEFINE k == IF failed THEN "Error" ELSE kind
  <2>1. Sink \in Threads /\ PlanEvent(Sink, k, position)
    BY <1>1, Zenon DEF Event, HandlePlaybackEvent, Threads
  <2> HIDE DEF k
  <2>2. CASE Plans(Sink, StoppedReport)
    BY <2>1, <2>2, StoppedPlansSome
  <2>3. CASE PlanStarted(Sink, position)
    BY <2>1, <2>3, TrackedPlansSome, Zenon DEF PlanStarted
  <2>4. CASE PlanPaused(Sink, position)
    BY <2>1, <2>4, TrackedPlansSome, Zenon DEF PlanPaused
  <2>5. ASSUME NEW due \in BOOLEAN, PlanPosition(Sink, position, due)
        PROVE  PlansSome
    BY <2>1, <2>5, TrackedPlansSome, Zenon DEF PlanPosition
  <2>6. CASE Plans(Sink, <<>>)
    BY <2>1, <2>6, Zenon DEF PlansSome
  <2>. QED
    BY <2>1, <2>2, <2>3, <2>4, <2>5, <2>6, Zenon DEF PlanEvent
<1>2. ASSUME NEW l \in Loaders, LoadRequest(l)
      PROVE  PlansSome \/ UNCHANGED <<hand, planned>>
  <2>1. l \in Threads
    BY DEF Threads
  <2>2. CASE BeginRequest(l) \/ EndRequest(l)
    BY <2>2 DEF BeginRequest, EndRequest
  <2>3. ASSUME NEW start \in Spots, NEW holds \in BOOLEAN, LoadIfCurrent(l, start, holds)
        PROVE  PlansSome
    BY <2>1, <2>3, StoppedPlansSome, Zenon DEF LoadIfCurrent, Activate
  <2>. QED
    BY <1>2, <2>2, <2>3, Zenon DEF LoadRequest
<1>3. Account \in Threads
  BY DEF Threads
<1>4. AccountChange \/ ShutdownResources => PlansSome
  BY <1>3, StoppedPlansSome, Zenon DEF AccountChange, ChangeAccount, ShutdownResources
<1>5. Release \/ UNCHANGED reportVars => UNCHANGED <<hand, planned>>
  BY DEF Release, reportVars
<1>6. UNCHANGED reportingVars \/ ShutdownReporter => UNCHANGED reportVars
  BY DEF ShutdownReporter, reportingVars
<1>. QED
  BY <1>1, <1>2, <1>4, <1>5, <1>6, Zenon DEF ReportingNext

LEMMA OneMore ==
    ASSUME NEW S, NEW q \in Seq(S), NEW e \in S
    PROVE  \A more : more = q \o <<e>> =>
               \A i \in DOMAIN more : more[i] = e \/ (i \in DOMAIN q /\ more[i] = q[i])
<1> DEFINE longer == Append(q, e)
<1>1. longer = q \o <<e>>
  BY AppendIsConcat
<1>2. /\ longer \in Seq(S) /\ Len(longer) = Len(q) + 1
      /\ longer[Len(q) + 1] = e /\ \A i \in 1..Len(q) : longer[i] = q[i]
  BY AppendProperties
<1> HIDE DEF longer
<1>3. Len(q) \in Nat /\ DOMAIN q = 1..Len(q) /\ DOMAIN longer = 1..Len(longer)
  BY <1>2, LenProperties
<1>4. \A i \in DOMAIN longer : longer[i] = e \/ (i \in DOMAIN q /\ longer[i] = q[i])
  BY <1>2, <1>3
<1>. QED
  BY <1>1, <1>4, Zenon

\* The report just planned is in its thread's hand, and every other where it was.
LEMMA PlanningKeepsCloses ==
    ASSUME ReportTypeOK, ClosesReachServer, PlansSome,
           UNCHANGED <<calling, jobs, sending, sent>>, refused \subseteq refused'
    PROVE  ClosesReachServer'
<1>1. PICK t \in Threads : Plans(t, <<>>) \/ \E report : Plans(t, <<report>>)
  BY DEF PlansSome
<1>2. hand[t] = NoReport /\ hand \in [Threads -> Report \cup {NoReport}]
      /\ planned \in Seq(Report)
  BY <1>1 DEF Plans, ReportTypeOK
<1>3. ASSUME NEW report, report.kind = "Stopped", Underway(report),
             \A u \in Threads : u # t => hand'[u] = hand[u]
      PROVE  Underway(report)'
  <2>1. report # NoReport
    BY <1>3 DEF NoReport
  <2>. QED
    BY <1>2, <1>3, <2>1 DEF Underway
<1>4. CASE Plans(t, <<>>)
  <2>1. planned' = planned \o <<>> /\ hand' = [hand EXCEPT ![t] = NoReport]
    BY <1>4, Zenon DEF Plans
  <2>2. planned' = planned /\ \A u \in Threads : u # t => hand'[u] = hand[u]
    BY <1>2, <2>1
  <2>. QED
    BY <1>3, <2>2 DEF ClosesReachServer, Underway
<1>5. ASSUME NEW report, Plans(t, <<report>>)
      PROVE  ClosesReachServer'
  <2>1. planned' = planned \o <<report>> /\ Head(<<report>>) = report /\ <<report>> # <<>>
    BY <1>5 DEF Plans
  <2>2. hand' = [hand EXCEPT ![t] = report]
    BY <1>5, <2>1, Zenon DEF Plans
  <2>3. hand'[t] = report /\ \A u \in Threads : u # t => hand'[u] = hand[u]
    BY <1>2, <2>2
  <2> DEFINE all == Report \cup {report}
  <2>4. planned \in Seq(all) /\ report \in all
    BY <1>2, SeqMonotonic
  <2> HIDE DEF all
  <2>5. \A i \in DOMAIN planned' :
            planned'[i] = report \/ (i \in DOMAIN planned /\ planned'[i] = planned[i])
    BY <2>1, <2>4, OneMore
  <2>6. Underway(report)'
    BY <2>3 DEF Underway
  <2>7. ASSUME NEW i \in DOMAIN planned', NEW old, old = planned'[i], old.kind = "Stopped"
        PROVE  Underway(old)'
    <3>1. CASE old = report
      BY <2>6, <3>1
    <3>2. CASE i \in DOMAIN planned /\ old = planned[i]
      <4>1. Underway(old)
        BY <2>7, <3>2 DEF ClosesReachServer, Underway
      <4>. QED
        BY <1>3, <2>3, <2>7, <4>1
    <3>. QED
      BY <2>5, <2>7, <3>1, <3>2
  <2>. QED
    BY <2>7 DEF ClosesReachServer, Underway
<1>. QED
  BY <1>1, <1>4, <1>5

\* A step of the dispatcher that loses no closing report.
LEMMA CarryingKeepsCloses ==
    ASSUME ClosesReachServer, planned' = planned,
           \A report : report.kind = "Stopped" /\ Underway(report) => Underway(report)'
    PROVE  ClosesReachServer'
<1>1. ASSUME NEW i \in DOMAIN planned, NEW old, old = planned[i], old.kind = "Stopped"
      PROVE  Underway(old)'
  <2>1. Underway(old)
    BY <1>1 DEF ClosesReachServer, Underway
  <2>. QED
    BY <1>1, <2>1
<1>. QED
  BY <1>1 DEF ClosesReachServer, Underway

\* A thread whose report the dispatcher's worker may take brings it.
LEMMA CallingKeepsCloses ==
    ASSUME ClosesReachServer, NEW t \in Threads, calling[t] = NoJob,
           calling' = [calling EXCEPT ![t] = hand[t]], planned' = planned,
           DispatchIInv, \A u \in Threads : u # t => hand'[u] = hand[u],
           UNCHANGED <<jobs, sending, sent, refused>>
    PROVE  ClosesReachServer'
<1>1. calling \in [Threads -> Jobs \cup {NoJob}]
  BY ReportingAssumption DEF DispatchIInv, DispatchTypeOK
<1>2. calling'[t] = hand[t] /\ \A u \in Threads : u # t => calling'[u] = calling[u]
  BY <1>1
<1>3. ASSUME NEW report, report.kind = "Stopped", Underway(report)
      PROVE  Underway(report)'
  <2>1. report # NoJob
    BY <1>3 DEF NoJob
  <2>. QED
    BY <1>2, <1>3, <2>1 DEF Underway
<1>. QED
  BY <1>3, CarryingKeepsCloses

\* A thread gives its report up, or brings it to the dispatcher.
LEMMA BringKeepsCloses ==
    ASSUME ReportIInv, DispatchIInv, ClosesReachServer, NEW t \in Threads, Bring(t)
    PROVE  ClosesReachServer'
<1>1. /\ hand[t] # NoReport /\ hand' = [hand EXCEPT ![t] = NoReport]
      /\ planned' = planned
  BY DEF Bring, EnqueueReport
<1>2. hand \in [Threads -> Report \cup {NoReport}]
  BY DEF ReportIInv, ReportTypeOK
<1>3. \A u \in Threads : u # t => hand'[u] = hand[u]
  BY <1>1, <1>2
<1>4. CASE ~is_available /\ refused' = refused \cup {hand[t]} /\ UNCHANGED dispatchVars
  <2>1. ASSUME NEW report, Underway(report)
        PROVE  Underway(report)'
    BY <1>3, <1>4, <2>1 DEF Underway, dispatchVars
  <2>. QED
    BY <1>1, <2>1, CarryingKeepsCloses
<1>5. CASE Call(t, hand[t]) /\ UNCHANGED refused
  <2>1. /\ calling[t] = NoJob /\ calling' = [calling EXCEPT ![t] = hand[t]]
        /\ UNCHANGED <<jobs, sending, sent>>
    BY <1>5 DEF Call
  <2>. QED
    BY <1>1, <1>3, <1>5, <2>1, CallingKeepsCloses
<1>. QED
  BY <1>4, <1>5 DEF Bring

\* Positions of the queue that hold no progress report survive what is accepted.
LEMMA AcceptingKeepsClosing ==
    ASSUME Queue(jobs), NEW job \in Jobs, NEW report, report.kind = "Stopped",
           \/ Coalesces(job) /\ jobs' = Coalesced(job)
           \/ Evicts(job) /\ jobs' = Evicting(job)
           \/ Appends(job) /\ jobs' = Append(jobs, job)
    PROVE  /\ \E j \in DOMAIN jobs' : jobs'[j] = job
           /\ (\E j \in DOMAIN jobs : jobs[j] = report)
                  => \E j \in DOMAIN jobs' : jobs'[j] = report
<1>1. /\ jobs \in Seq(Jobs) /\ Len(jobs) \in Nat /\ DOMAIN jobs = 1..Len(jobs)
  BY LenProperties DEF Queue
<1>2. ~Progress(report)
  BY DEF Progress
<1>3. CASE Coalesces(job) /\ jobs' = Coalesced(job)
  <2> DEFINE m == Min(Replaced(job))
  <2>1. Replaced(job) \in SUBSET Nat /\ Replaced(job) # {}
    BY <1>1, <1>3 DEF Replaced, Coalesces
  <2>2. m \in Replaced(job)
    BY <2>1, FirstPosition
  <2>3. m \in 1..Len(jobs) /\ Progress(jobs[m])
    BY <1>1, <2>2 DEF Replaced
  <2>4. jobs' = [jobs EXCEPT ![m] = job]
    BY <1>3 DEF Coalesced
  <2> HIDE DEF m
  <2>5. /\ DOMAIN jobs' = 1..Len(jobs)
        /\ \A j \in 1..Len(jobs) : jobs'[j] = IF j = m THEN job ELSE jobs[j]
    BY <1>1, <2>3, <2>4, ReplacingOne
  <2>. QED
    BY <1>1, <1>2, <2>3, <2>5
<1>4. CASE Evicts(job) /\ jobs' = Evicting(job)
  <2> DEFINE m == Min(Evictable)
             q == RemoveAt(jobs, m)
  <2>1. Evictable \in SUBSET Nat /\ Evictable # {}
    BY <1>1, <1>4 DEF Evictable, Evicts
  <2>2. m \in Evictable
    BY <2>1, FirstPosition
  <2>3. jobs' = Append(q, job)
    BY <1>4 DEF Evicting
  <2> HIDE DEF m
  <2>4. m \in DOMAIN jobs /\ m \in 1..Len(jobs) /\ Progress(jobs[m])
    BY <1>1, <2>2 DEF Evictable
  <2>5. /\ q \in Seq(Jobs) /\ Len(q) = Len(jobs) - 1
        /\ \A j \in 1..(Len(jobs) - 1) : q[j] = IF j < m THEN jobs[j] ELSE jobs[j + 1]
    BY <1>1, <2>4, RemovingOne
  <2> HIDE DEF q
  <2>6. /\ DOMAIN jobs' = 1..Len(jobs) /\ jobs'[Len(jobs)] = job
        /\ \A j \in 1..(Len(jobs) - 1) : jobs'[j] = q[j]
    <3>1. /\ jobs' \in Seq(Jobs) /\ Len(jobs') = Len(q) + 1
          /\ jobs'[Len(q) + 1] = job /\ \A j \in 1..Len(q) : jobs'[j] = q[j]
      BY <2>3, <2>5, AppendProperties
    <3>2. DOMAIN jobs' = 1..Len(jobs')
      BY <3>1, LenProperties
    <3>3. Len(q) + 1 = Len(jobs)
      BY <1>1, <2>5
    <3>. QED
      BY <2>5, <3>1, <3>2, <3>3
  <2>7. Len(jobs) \in DOMAIN jobs'
    <3>1. ASSUME NEW n \in Nat, m \in 1..n
          PROVE  n \in 1..n
      BY <3>1
    <3>. QED
      BY <1>1, <2>4, <2>6, <3>1, Zenon
  <2>8. ASSUME NEW j \in DOMAIN jobs, jobs[j] = report
        PROVE  \E i \in DOMAIN jobs' : jobs'[i] = report
    <3>1. j # m /\ j \in 1..Len(jobs)
      BY <1>1, <1>2, <2>4, <2>8
    <3>2. CASE j < m
      <4>1. j \in 1..(Len(jobs) - 1)
        BY <1>1, <2>4, <3>1, <3>2
      <4>2. jobs'[j] = report
        BY <2>5, <2>6, <2>8, <3>2, <4>1
      <4>. QED
        BY <2>6, <3>1, <4>2
    <3>3. CASE ~(j < m)
      <4>1. /\ j - 1 \in 1..(Len(jobs) - 1) /\ ~(j - 1 < m) /\ (j - 1) + 1 = j
            /\ j - 1 \in 1..Len(jobs)
        BY <1>1, <2>4, <3>1, <3>3
      <4>2. jobs'[j - 1] = report
        BY <2>5, <2>6, <2>8, <4>1
      <4>. QED
        BY <2>6, <4>1, <4>2
    <3>. QED
      BY <3>2, <3>3
  <2>. QED
    BY <2>6, <2>7, <2>8
<1>5. CASE Appends(job) /\ jobs' = Append(jobs, job)
  <2>1. /\ DOMAIN jobs' = 1..(Len(jobs) + 1) /\ jobs'[Len(jobs) + 1] = job
        /\ \A j \in 1..Len(jobs) : jobs'[j] = jobs[j]
    BY <1>1, <1>5, AppendProperties, LenProperties
  <2>. QED
    BY <1>1, <2>1
<1>. QED
  BY <1>3, <1>4, <1>5

\* The dispatcher accepts the report, or refuses it on the record.
LEMMA SettleKeepsCloses ==
    ASSUME DispatchIInv, ClosesReachServer, NEW t \in Threads, Settle(t)
    PROVE  ClosesReachServer'
<1> DEFINE job == calling[t]
<1>1. /\ job # NoJob /\ EnqueueJob(job) /\ calling' = [calling EXCEPT ![t] = NoJob]
      /\ UNCHANGED <<sending, sent, hand, planned>>
      /\ refused' = IF shutting_down \/ Refuses(job) THEN refused \cup {job} ELSE refused
  BY DEF Settle, Return, reportVars
<1>2. job \in Jobs /\ Queue(jobs) /\ calling \in [Threads -> Jobs \cup {NoJob}]
  BY <1>1, QueueOfInvariant, ReportingAssumption DEF DispatchIInv, DispatchTypeOK
<1>3. \A u \in Threads : u # t => calling'[u] = calling[u]
  BY <1>1, <1>2
<1> HIDE DEF job
<1>4. refused \subseteq refused'
  BY <1>1
<1>5. ASSUME NEW report, report.kind = "Stopped", Underway(report)
      PROVE  Underway(report)'
  <2>1. CASE (shutting_down \/ Refuses(job)) /\ UNCHANGED jobs
    <3>1. job \in refused'
      BY <1>1, <2>1
    <3>. QED
      BY <1>1, <1>3, <1>4, <1>5, <2>1, <3>1 DEF Underway, job
  <2>2. CASE \/ Coalesces(job) /\ jobs' = Coalesced(job)
             \/ Evicts(job) /\ jobs' = Evicting(job)
             \/ Appends(job) /\ jobs' = Append(jobs, job)
    <3>1. /\ \E j \in DOMAIN jobs' : jobs'[j] = job
          /\ (\E j \in DOMAIN jobs : jobs[j] = report)
                 => \E j \in DOMAIN jobs' : jobs'[j] = report
      BY <1>2, <1>5, <2>2, AcceptingKeepsClosing
    <3>2. CASE report = job
      BY <3>1, <3>2 DEF Underway
    <3>3. CASE report # job
      BY <1>1, <1>3, <1>4, <1>5, <3>1, <3>3 DEF Underway, job
    <3>. QED
      BY <3>2, <3>3
  <2>. QED
    BY <1>1, <2>1, <2>2 DEF EnqueueJob
<1>. QED
  BY <1>1, <1>5, CarryingKeepsCloses

\* The worker takes a report and sends it.
LEMMA ReporterKeepsCloses ==
    ASSUME DispatchIInv, ClosesReachServer, Reporter, UNCHANGED <<hand, planned, refused>>
    PROVE  ClosesReachServer'
<1>1. jobs \in Seq(Jobs) /\ sent \in Seq(Jobs) /\ calling' = calling
      /\ (worker = "sending" <=> sending # NoJob) /\ sending \in Jobs \cup {NoJob}
  BY DEF DispatchIInv, DispatchTypeOK, Reporter, Look, Send
<1>2. ASSUME NEW report, report.kind = "Stopped", Underway(report)
      PROVE  Underway(report)'
  <2>1. report # NoJob
    BY <1>2 DEF NoJob
  <2>2. CASE Look /\ jobs = <<>>
    BY <1>1, <1>2, <2>2 DEF Look, Underway
  <2>3. CASE Look /\ jobs # <<>>
    <3>1. /\ sending = NoJob /\ sending' = Head(jobs) /\ jobs' = Tail(jobs)
          /\ UNCHANGED sent
      BY <1>1, <2>3 DEF Look
    <3>2. ASSUME NEW j \in DOMAIN jobs, jobs[j] = report
          PROVE  report = sending' \/ \E i \in DOMAIN jobs' : jobs'[i] = report
      <4>1. j \in 1..Len(jobs) /\ Len(jobs) \in Nat
        BY <1>1, LenProperties
      <4>2. CASE j = 1
        BY <1>1, <2>3, <3>1, <3>2, <4>2
      <4>3. CASE j # 1
        <5>1. j - 1 \in 1..(Len(jobs) - 1) /\ (j - 1) + 1 = j
          BY <4>1, <4>3
        <5>2. /\ jobs' \in Seq(Jobs) /\ Len(jobs') = Len(jobs) - 1
              /\ \A i \in 1..Len(jobs') : jobs'[i] = jobs[i + 1]
          BY <1>1, <2>3, <3>1, HeadTailProperties
        <5>3. DOMAIN jobs' = 1..(Len(jobs) - 1)
          BY <5>2, LenProperties
        <5>4. j - 1 \in DOMAIN jobs' /\ jobs'[j - 1] = report
          BY <3>2, <5>1, <5>2, <5>3
        <5>. QED
          BY <5>4
      <4>. QED
        BY <4>2, <4>3
    <3>. QED
      BY <1>1, <1>2, <2>1, <3>1, <3>2 DEF Underway
  <2>4. CASE Send
    <3>1. sent' = Append(sent, sending) /\ UNCHANGED jobs /\ sending \in Jobs
      BY <1>1, <2>4 DEF Send
    <3>2. /\ DOMAIN sent' = 1..(Len(sent) + 1) /\ sent'[Len(sent) + 1] = sending
          /\ \A j \in 1..Len(sent) : sent'[j] = sent[j]
          /\ DOMAIN sent = 1..Len(sent) /\ Len(sent) \in Nat
      BY <1>1, <3>1, AppendProperties, LenProperties
    <3>3. Len(sent) + 1 \in DOMAIN sent' /\ DOMAIN sent \subseteq DOMAIN sent'
      BY <3>2
    <3>. QED
      BY <1>1, <1>2, <3>1, <3>2, <3>3 DEF Underway
  <2>. QED
    BY <2>2, <2>3, <2>4 DEF Reporter
<1>. QED
  BY <1>2, CarryingKeepsCloses

\* No closing report is lost in a step of the whole.
LEMMA ReportingKeepsCloses ==
    ASSUME ReportIInv, DispatchIInv, ClosesReachServer, [ReportingNext]_reportingVars
    PROVE  ClosesReachServer'
<1>1. ReportTypeOK
  BY DEF ReportIInv
<1>2. ASSUME NEW t \in Threads, Bring(t) \/ Settle(t)
      PROVE  ClosesReachServer'
  BY <1>2, BringKeepsCloses, SettleKeepsCloses
<1>3. CASE Reporter /\ UNCHANGED <<reportVars, closing, refused>>
  BY <1>3, ReporterKeepsCloses DEF reportVars
<1>4. CASE ShutdownReporter
  <2>1. UNCHANGED <<hand, planned, refused, jobs, sending, sent, calling>>
    BY <1>4 DEF ShutdownReporter, Shutdown, BeginShutdown, TakeWorker, JoinWorker,
       reportVars
  <2>. QED
    BY <2>1 DEF ClosesReachServer
<1>5. CASE ~\E t \in Threads : Bring(t) \/ Settle(t)
  <2>1. PlansSome \/ UNCHANGED <<hand, planned>>
    BY <1>5, ReportsPlanSome
  <2>2. CASE UNCHANGED dispatchVars /\ UNCHANGED refused
    <3>1. CASE PlansSome
      BY <1>1, <2>2, <3>1, PlanningKeepsCloses DEF dispatchVars
    <3>2. CASE UNCHANGED <<hand, planned>>
      BY <2>2, <3>2 DEF ClosesReachServer, dispatchVars
    <3>. QED
      BY <2>1, <3>1, <3>2
  <2>3. \/ UNCHANGED dispatchVars /\ UNCHANGED refused
        \/ Reporter /\ UNCHANGED <<reportVars, closing, refused>>
        \/ ShutdownReporter
    BY <1>5 DEF ReportingNext, reportingVars, Event, LoadRequest, AccountChange,
       OnlyReports, ShutdownResources
  <2>. QED
    BY <1>3, <1>4, <2>2, <2>3
<1>. QED
  BY <1>2, <1>5

-----------------------------------------------------------------------------
\* What is known of the pipeline in every state: both halves' invariants, the
\* accepted reports in order, and the closing reports on their way.
ReportingIInv ==
    /\ ReportIInv
    /\ DispatchIInv
    /\ BoundariesKeepOrder
    /\ ClosesReachServer

LEMMA ReportingInitIInv == ReportingInit => ReportingIInv
<1>. SUFFICES ASSUME ReportingInit PROVE ReportingIInv
  OBVIOUS
<1>1. ReportIInv /\ DispatchIInv /\ BoundariesKeepOrder
  BY ReportInitIInv, DispatchInitIInv, BoundariesInit DEF ReportingInit
<1>2. ClosesReachServer
  BY DEF ReportingInit, ReportInit, ClosesReachServer
<1>. QED
  BY <1>1, <1>2 DEF ReportingIInv

LEMMA ReportingStepIInv ==
    ReportingIInv /\ [ReportingNext]_reportingVars => ReportingIInv'
<1>. SUFFICES ASSUME ReportingIInv, [ReportingNext]_reportingVars PROVE ReportingIInv'
  OBVIOUS
<1>1. ReportIInv /\ DispatchIInv /\ BoundariesKeepOrder /\ ClosesReachServer
  BY DEF ReportingIInv
<1>2. ReportIInv'
  BY <1>1, ReportingKeepsReports
<1>3. DispatchIInv' /\ BoundariesKeepOrder'
  BY <1>1, ReportingStepsDispatch, ReportingKeepsDispatch
<1>4. ClosesReachServer'
  BY <1>1, ReportingKeepsCloses
<1>. QED
  BY <1>2, <1>3, <1>4 DEF ReportingIInv

LEMMA ReportingInvariance == ReportingSpec => []ReportingIInv
BY ReportingInitIInv, ReportingStepIInv, PTL DEF ReportingSpec

\* What holds of each half alone holds of the two together, where the threads
\* bring what they planned and the browser's close shuts both down.
THEOREM PipelineKeepsHalves ==
    ReportingSpec =>
        /\ []TrackedForThisAccount /\ []ResourcesFollowTrackedPlay
        /\ []SessionsAreClosed /\ []PlaysOpenOnce
        /\ []OneProgressPerGeneration /\ []WorkerIsAwake /\ []ShutdownDrains
<1>1. DispatchIInv => ShutdownDrains
  BY DEF DispatchIInv, DispatchTypeOK, ExitIsFinal, ShutdownDrains
<1>. QED
  BY <1>1, ReportingInvariance, PTL DEF ReportingIInv, ReportIInv, DispatchIInv

\* In the pipeline too the reports that open and close sessions reach the server
\* in the order they were accepted, none lost and none twice.
THEOREM PipelineKeepsBoundaries == ReportingSpec => []BoundariesKeepOrder
BY ReportingInvariance, PTL DEF ReportingIInv

\* Every play that was opened and is no longer tracked is closed at the server, or
\* its closing report is on the way there or was refused on the record.
THEOREM ClosesAreDelivered == ReportingSpec => []ClosesReachServer
BY ReportingInvariance, PTL DEF ReportingIInv

=============================================================================
