--------------------------- MODULE PlaybackReporting ---------------------------
(***************************************************************************)
(* The tracked play and the report dispatcher together: what the threads   *)
(* of PlaybackReports plan is what they bring to ReportDispatcher, and the *)
(* browser's close closes the tracked play before it shuts the dispatcher  *)
(* down.  enqueue_report only logs a report that is refused.               *)
(***************************************************************************)
EXTENDS PlaybackReports, ReportDispatcher

CONSTANTS
    MaxReports  \* bound on the reports an event may be planned after

\* The threads that plan reports bring them, and no others.
ASSUME ReportingAssumption == Callers = Threads /\ Report \subseteq Jobs

VARIABLES
    closing,    \* shutdown_resources has taken the tracked play
    refused     \* history: reports that were refused

reportingVars == <<reportVars, dispatchVars, closing, refused>>

\* A thread goes on when enqueue_report has returned.
Returned(t) == calling[t] = NoJob

\* Fault of the mutation runs: a report is dropped while the worker is busy.
BringWhenIdle(t) ==
    /\ EnqueueReport(t)
    /\ \/ worker # "sending" /\ Call(t, hand[t])
       \/ worker = "sending" /\ UNCHANGED dispatchVars
    /\ UNCHANGED <<closing, refused>>

\* is_available, the first half of enqueue.
Bring(t) ==
    /\ EnqueueReport(t)
    /\ \/ Call(t, hand[t]) /\ UNCHANGED refused
       \/ ~is_available /\ refused' = refused \cup {hand[t]} /\ UNCHANGED dispatchVars
    /\ UNCHANGED closing

\* The second half.
Settle(t) ==
    /\ Return(t)
    /\ refused' = IF shutting_down \/ Refuses(calling[t])
                  THEN refused \cup {calling[t]} ELSE refused
    /\ UNCHANGED <<reportVars, closing>>

OnlyReports == UNCHANGED <<dispatchVars, closing, refused>>

Event(kind, position, failed) ==
    /\ Returned(Sink)
    /\ Len(planned) < MaxReports
    /\ HandlePlaybackEvent(Sink, kind, position, failed)
    /\ OnlyReports

LoadRequest(l) ==
    /\ Returned(l)
    /\ \/ BeginRequest(l)
       \/ EndRequest(l)
       \/ \E start \in Spots, holds \in BOOLEAN : LoadIfCurrent(l, start, holds)
    /\ OnlyReports

AccountChange ==
    /\ Returned(Account) /\ ~closing
    /\ \E signed_in \in BOOLEAN : ChangeAccount(signed_in)
    /\ OnlyReports

\* shutdown_resources: the tracked play is closed, then the dispatcher.
ShutdownResources ==
    /\ Returned(Account) /\ ~closing
    /\ closing' = TRUE
    /\ active' = NoPlay
    /\ resources' = 0
    /\ Plans(Account, StoppedReport)
    /\ UNCHANGED <<generation, session, requests, request, dispatchVars, refused>>

ShutdownReporter ==
    /\ closing /\ hand[Account] = NoReport /\ Returned(Account)
    /\ Shutdown
    /\ UNCHANGED <<reportVars, closing, refused>>

-----------------------------------------------------------------------------
ReportingInit == ReportInit /\ DispatchInit /\ closing = FALSE /\ refused = {}

ReportingNext ==
    \/ \E kind \in EventsHandled, position \in Spots, failed \in BOOLEAN :
           Event(kind, position, failed)
    \/ \E l \in Loaders : LoadRequest(l)
    \/ AccountChange
    \/ Release /\ OnlyReports
    \/ \E t \in Threads : Bring(t) \/ Settle(t)
    \/ Reporter /\ UNCHANGED <<reportVars, closing, refused>>
    \/ ShutdownResources
    \/ ShutdownReporter

ReportingSpec == ReportingInit /\ [][ReportingNext]_reportingVars

\* The worker's thread runs, every request to the server ends, and a shutdown
\* that began runs on.
ReportingFairSpec ==
    /\ ReportingSpec
    /\ WF_reportingVars(Reporter /\ UNCHANGED <<reportVars, closing, refused>>)
    /\ WF_reportingVars(
           (TakeWorker \/ JoinWorker) /\ UNCHANGED <<reportVars, closing, refused>>)

-----------------------------------------------------------------------------
(***************************************************************************)
(* Properties.                                                             *)
(***************************************************************************)

\* End to end, a play that was opened and is no longer tracked is closed at the
\* server, on the way there, or its closing report was refused: none is lost
\* between the plan and the server.
ClosesReachServer ==
    \A i \in DOMAIN planned :
        planned[i].kind = "Stopped" =>
            \/ planned[i] \in refused
            \/ \E t \in Threads : planned[i] \in {hand[t], calling[t]}
            \/ \E j \in DOMAIN jobs : jobs[j] = planned[i]
            \/ planned[i] = sending
            \/ \E j \in DOMAIN sent : sent[j] = planned[i]

=============================================================================
