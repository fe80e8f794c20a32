--------------------------- MODULE ReportDispatcher ---------------------------
(***************************************************************************)
(* The playback report dispatcher of src/jfn_cef/src/mediastation_runtime  *)
(* .rs: a bounded queue of report jobs, the background worker that sends   *)
(* them to the server, and the shutdown that drains it.  Callers are any   *)
(* threads; enqueue first asks whether the worker lives and then takes the *)
(* queue's lock, so the answer may be stale when it is used.               *)
(*                                                                         *)
(* A job is its account generation, the play it reports, its kind and its  *)
(* position.  What the server answers is left out: a report that fails is  *)
(* logged and counts as sent.                                              *)
(***************************************************************************)
EXTENDS Integers, SequencesExt

CONSTANTS
    Callers,            \* threads that enqueue reports
    Jobs,               \* the jobs they enqueue
    MAX_PENDING_REPORTS,
    MaxCalls            \* bound on the calls of enqueue

ASSUME PendingAssumption == MAX_PENDING_REPORTS \in Nat \ {0}

ReportKinds   == {"Playing", "ProgressPlaying", "ProgressPaused", "Stopped"}
Progress(job) == job.kind \in {"ProgressPlaying", "ProgressPaused"}

ASSUME JobsAssumption == \A job \in Jobs : job.kind \in ReportKinds

NoJob == [kind |-> "None"]

VARIABLES
    jobs,           \* the queue
    shutting_down,
    worker,         \* what the worker thread does
    sending,        \* the job it popped
    handle,         \* the dispatcher holds the worker's join handle
    stopper,        \* how far shutdown has got
    calling,        \* the job each caller brings, once past is_available
    accepted,       \* history: the jobs enqueue returned Ok for, in order
    sent            \* history: the jobs handed to the server, in order

dispatchVars == <<jobs, shutting_down, worker, sending, handle, stopper,
                  calling, accepted, sent>>

-----------------------------------------------------------------------------
(***************************************************************************)
(* enqueue.                                                                *)
(***************************************************************************)
is_available == handle /\ worker # "exited"

\* The first half: a caller that finds no worker gives its job up.
Call(c, job) ==
    /\ calling[c] = NoJob
    /\ is_available
    /\ calling' = [calling EXCEPT ![c] = job]
    /\ UNCHANGED <<jobs, shutting_down, worker, sending, handle, stopper,
                   accepted, sent>>

\* The first pending progress report of job's account, the one job replaces.
Replaced(job) ==
    {i \in DOMAIN jobs : Progress(jobs[i]) /\ jobs[i].generation = job.generation}

\* Fault of the mutation runs: any report but the newest may be evicted.
EvictableAny == 1..(Len(jobs) - 1)

Evictable == {i \in DOMAIN jobs : Progress(jobs[i])}

Full == Len(jobs) >= MAX_PENDING_REPORTS

\* The queue once job is accepted.
Coalesced(job) == [jobs EXCEPT ![Min(Replaced(job))] = job]
Evicting(job)  == Append(RemoveAt(jobs, Min(Evictable)), job)

\* Fault of the mutation runs: a report replaces one of the same kind only.
CoalescesSameKind(job) ==
    Progress(job) /\ \E i \in Replaced(job) : jobs[i].kind = job.kind

Coalesces(job) == Progress(job) /\ Replaced(job) # {}
Evicts(job)    == ~Coalesces(job) /\ Full /\ ~Progress(job) /\ Evictable # {}
Appends(job)   == ~Coalesces(job) /\ ~Full
Refuses(job)   == ~Coalesces(job) /\ Full /\ (Progress(job) \/ Evictable = {})

\* Fault of the mutation runs: an accepted report wakes nobody.
AcceptedUnnotified(job) == accepted' = Append(accepted, job) /\ UNCHANGED worker

Accepted(job) ==
    /\ accepted' = Append(accepted, job)
    /\ worker' = IF worker = "asleep" THEN "look" ELSE worker

\* The second half, under the queue's lock.
EnqueueJob(job) ==
    \/ /\ shutting_down \/ Refuses(job)
       /\ UNCHANGED <<jobs, worker, accepted>>
    \/ ~shutting_down /\ Coalesces(job) /\ jobs' = Coalesced(job) /\ Accepted(job)
    \/ ~shutting_down /\ Evicts(job) /\ jobs' = Evicting(job) /\ Accepted(job)
    \/ ~shutting_down /\ Appends(job) /\ jobs' = Append(jobs, job) /\ Accepted(job)

Return(c) ==
    /\ calling[c] # NoJob
    /\ EnqueueJob(calling[c])
    /\ calling' = [calling EXCEPT ![c] = NoJob]
    /\ UNCHANGED <<shutting_down, sending, handle, stopper, sent>>

-----------------------------------------------------------------------------
(***************************************************************************)
(* playback_report_worker.                                                 *)
(***************************************************************************)
\* Fault of the mutation runs: the worker leaves as soon as shutdown begins.
LookAndLeave ==
    /\ worker = "look"
    /\ \/ /\ jobs # <<>> /\ ~shutting_down
          /\ worker' = "sending"
          /\ sending' = Head(jobs)
          /\ jobs' = Tail(jobs)
       \/ /\ jobs = <<>> \/ shutting_down
          /\ worker' = IF shutting_down THEN "exited" ELSE "asleep"
          /\ UNCHANGED <<jobs, sending>>
    /\ UNCHANGED <<shutting_down, handle, stopper, calling, accepted, sent>>

\* With the queue's lock: pop a job, leave, or sleep until a notification.
Look ==
    /\ worker = "look"
    /\ \/ /\ jobs # <<>>
          /\ worker' = "sending"
          /\ sending' = Head(jobs)
          /\ jobs' = Tail(jobs)
       \/ /\ jobs = <<>>
          /\ worker' = IF shutting_down THEN "exited" ELSE "asleep"
          /\ UNCHANGED <<jobs, sending>>
    /\ UNCHANGED <<shutting_down, handle, stopper, calling, accepted, sent>>

Send ==
    /\ worker = "sending"
    /\ worker' = "look"
    /\ sent' = Append(sent, sending)
    /\ sending' = NoJob
    /\ UNCHANGED <<jobs, shutting_down, handle, stopper, calling, accepted>>

-----------------------------------------------------------------------------
(***************************************************************************)
(* shutdown.                                                               *)
(***************************************************************************)
\* Fault of the mutation runs: shutdown does not notify the worker.
BeginShutdownUnnotified ==
    /\ stopper = "idle"
    /\ stopper' = "take"
    /\ shutting_down' = TRUE
    /\ UNCHANGED <<jobs, worker, sending, handle, calling, accepted, sent>>

BeginShutdown ==
    /\ stopper = "idle"
    /\ stopper' = "take"
    /\ shutting_down' = TRUE
    /\ worker' = IF worker = "asleep" THEN "look" ELSE worker
    /\ UNCHANGED <<jobs, sending, handle, calling, accepted, sent>>

TakeWorker ==
    /\ stopper = "take"
    /\ stopper' = IF handle THEN "join" ELSE "joined"
    /\ handle' = FALSE
    /\ UNCHANGED <<jobs, shutting_down, worker, sending, calling, accepted, sent>>

JoinWorker ==
    /\ stopper = "join" /\ worker = "exited"
    /\ stopper' = "joined"
    /\ UNCHANGED <<jobs, shutting_down, worker, sending, handle, calling,
                   accepted, sent>>

-----------------------------------------------------------------------------
\* new: the worker's thread may fail to start.
DispatchInit ==
    /\ jobs = <<>> /\ shutting_down = FALSE /\ sending = NoJob /\ stopper = "idle"
    /\ handle \in BOOLEAN
    /\ worker = IF handle THEN "look" ELSE "exited"
    /\ calling = [c \in Callers |-> NoJob]
    /\ accepted = <<>> /\ sent = <<>>

Reporter == Look \/ Send
Shutdown == BeginShutdown \/ TakeWorker \/ JoinWorker

Pending == Cardinality({c \in Callers : calling[c] # NoJob})

DispatchNext ==
    \/ \E c \in Callers, job \in Jobs :
           Len(accepted) + Pending < MaxCalls /\ Call(c, job)
    \/ \E c \in Callers : Return(c)
    \/ Reporter
    \/ Shutdown

DispatchSpec == DispatchInit /\ [][DispatchNext]_dispatchVars

\* The worker's thread runs, every request to the server ends, and a shutdown
\* that began runs on.
DispatchFairSpec ==
    DispatchSpec /\ WF_dispatchVars(Reporter) /\ WF_dispatchVars(TakeWorker \/ JoinWorker)

-----------------------------------------------------------------------------
(***************************************************************************)
(* Properties.                                                             *)
(***************************************************************************)
\* Every variable has its type, and the queue its limit.
DispatchTypeOK ==
    /\ jobs \in Seq(Jobs) /\ Len(jobs) <= MAX_PENDING_REPORTS
    /\ shutting_down \in BOOLEAN /\ handle \in BOOLEAN
    /\ worker \in {"look", "asleep", "sending", "exited"}
    /\ sending \in Jobs \cup {NoJob}
    /\ worker = "sending" <=> sending # NoJob
    /\ stopper \in {"idle", "take", "join", "joined"}
    /\ calling \in [Callers -> Jobs \cup {NoJob}]
    /\ accepted \in Seq(Jobs) /\ sent \in Seq(Jobs)

\* Coalescing works: one account never has two progress reports pending, so a
\* slow server holds back one report per account however long a file plays.
OneProgressPerGeneration ==
    \A i, j \in DOMAIN jobs :
        Progress(jobs[i]) /\ Progress(jobs[j]) /\ jobs[i].generation = jobs[j].generation
            => i = j

\* The positions of the reports that open or close a session.
Boundaries(reports) == {i \in DOMAIN reports : ~Progress(reports[i])}

\* Two sequences hold the same boundary reports in the same order: one position
\* of the one for each of the other.
SameBoundaries(left, right) ==
    \E at \in [Boundaries(left) -> Boundaries(right)] :
        /\ \A i, j \in Boundaries(left) : i < j => at[i] < at[j]
        /\ \A j \in Boundaries(right) : \E i \in Boundaries(left) : at[i] = j
        /\ \A i \in Boundaries(left) : right[at[i]] = left[i]

\* What the server got and what the worker has for it, in the order of sending.
BeforeQueue == IF worker = "sending" THEN Append(sent, sending) ELSE sent

\* The reports that open and close a session, of those that were accepted, are
\* never lost, repeated or reordered: coalescing, eviction at the limit and
\* shutdown spend progress reports only.
BoundariesKeepOrder == SameBoundaries(BeforeQueue \o jobs, accepted)

\* The worker never sleeps over work or over a shutdown: wake-ups are not lost.
WorkerIsAwake == worker = "asleep" => jobs = <<>> /\ ~shutting_down

\* When shutdown has joined the worker nothing accepted is left behind, not
\* even by a caller that found the worker alive before shutdown began.
ShutdownDrains == stopper = "joined" => jobs = <<>> /\ sending = NoJob

\* shutdown returns: a shutdown that began is joined.
ShutdownReturns == stopper = "take" ~> stopper = "joined"

=============================================================================
