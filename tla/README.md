# MediaStationGo for Windows: verification of the native client

This directory holds TLA+ modules that model the concurrent and the persistent
core of the desktop client, configurations that check them with TLC, and proofs
checked by TLAPS. Paths below are relative to the Rust workspace (`src/` of the
repository); `runtime.rs` stands for `jfn_cef/src/mediastation_runtime.rs`.

## 1. Inventory

The client embeds a web renderer (CEF) and a native player (libmpv). The
renderer asks the native side to sign in, load, select tracks, pause or stop;
the native side keeps the accounts, resolves the stream, drives mpv, tracks the
play for the media server, follows mpv through a playback state machine, and
updates the application.

| component | state | operations | interacts by |
|---|---|---|---|
| state machine, `playback/src/state_machine.rs` | snapshot, pending load, wish to play, stall properties, frame flag, last item | one handler per input | called by the coordinator's worker |
| coordinator, `playback/src/coordinator.rs`, `ffi.rs`, `wake_event/` | input queue, wake event, running flag, canonical snapshot, sinks, process-wide slot | post, worker loop, start, stop | posts from any thread; sinks called on the worker |
| native runtime, `runtime.rs` | session and generation, active requests, tracked play, subtitle file and interpolation | requests, load_if_current, playback events, account changes, release, shutdown | state lock shared by load workers, the event sink and account commands |
| report dispatcher, `runtime.rs` | bounded queue, shutdown flag, worker | enqueue, worker, shutdown | condition variable; HTTP to the server |
| playback session resolver, `mediastation/src/playback_session.rs` | session cache, per-media locks | resolve | called by load workers |
| accounts and credentials, `runtime.rs`, `mediastation_credentials.rs` | session, generation, account and active credentials | sign in, update, switch, delete, log out, proxy, restore at startup | state lock; credential store; settings |
| settings store, `config/src/lib.rs` | settings, file, save worker with one slot | change, save, save in the background, exit | file; condition variable |
| track preference, `runtime.rs` | the play's preference and revision, the shown tracks, the subtitle file | plan, first-frame reconciliation, selection, track panel | server, mpv, state lock, one request slot |
| application update, `jfn_cef/src/business_update.rs` | three flags, release, packages, partial downloads | check, download, install | three threads; files; starts the updater |
| portable updater, `jfn_rust/src/portable_updater.rs` | install directory, backup, staging | start, back up, install, restart, clean, roll back | a process of its own; files |
| mpv bindings, ingestion | pending selection slot, display values | load, apply selection, mpv event to input | mpv's event thread posts |
| OS media sinks, `playback/src/sink_core.rs` | bounded event queue | on_event, consumer thread | coordinator's worker |
| caches, interpolation runtime, API client | files | download, store, parse | mostly sequential I/O |
| CEF, windows, input, compositing, web client | platform handles | - | not modelled |

### What is hard here

* Three kinds of thread (mpv's events, load workers, account commands) and the
  user act on the same play; the coordinator serialises inputs but batches
  them, so what a sink is told depends on timing.
* A load takes seconds and is only committed if the account is still the same;
  the commit itself (`load_if_current`) posts inputs that are handled before it
  has ended.
* Reports are planned under a lock and enqueued after it, into a queue that
  coalesces and evicts.
* An account operation writes three stores one after another, any of which may
  fail, with the user's next command, a late answer or a crash in between.
* What is cached or planned for one account outlives it: sessions with tokens,
  preferences, reports.
* Two threads decide which tracks are shown: the user's, and a reconciliation
  that runs when the first frame is there.
* An update replaces the program's own files from another process, one by one.
* Sleeping workers, wake-ups and joins at shutdown.

`PROJECT.json` lists the hazards one by one, at their lines, with the
properties that would catch them, and says of the rest why none does.

## 2. Modules

```
PlaybackStateMachine            handlers of the state machine
  PlaybackBatches               what the coordinator promises (abstract)
    PlaybackCoordinator         queue, wake event, worker, sinks, shutdown
    NativePlayback  ----------- coordinator + tracked play + load + mpv
PlaybackReports                 tracked play, accounts, planning of reports
  NativePlayback
  PlaybackReporting ----------- tracked play + threads + dispatcher
ReportDispatcher                bounded queue, worker, shutdown
  PlaybackReporting
SettingsStore                   settings, file, save worker
  AccountStore ---------------- settings + credentials + account operations
SessionResolver                 resolve locks, cache, redirects, account changes
TrackPreference                 plan, reconciliation, selection, track panel
PortableUpdater                 the updater's file operations and rollback
  AppUpdate ------------------- updater + check, download, install, exit, start

PlaybackStateMachineProofs <- PlaybackCoordinatorProofs, NativePlaybackProofs
PlaybackReportingProofs        (tracked play, dispatcher, and the two composed)
AccountStoreProofs             (settings store, and account operations over it)
SessionResolverProofs   TrackPreferenceProofs   AppUpdateProofs
```

**PlaybackStateMachine.** The variables are the fields of
`PlaybackStateMachine` and of its snapshot; every `on_*` handler is an action
with its early returns as disjuncts. What a handler returns (events) and pushes
(actions) are `emitted` and `actions`, overwritten by the next handler. The
fields that handlers only copy when changed (speed, duration, display rate,
buffered ranges) are one function `scalars`.

**PlaybackBatches** is the abstract coordinator: inputs in order, applied in
batches, the snapshot published, events delivered one by one with that
snapshot. **PlaybackCoordinator** adds what makes this true or false: the
handle cloned out of the slot, the push under the queue's lock and the signal
after it, the worker's check / take / wait / drain, the built-in sinks and the
four steps of shutdown. It implements the abstract module with its program
counter mapped (`PcBar`): property `ImplementsBatches`.

**PlaybackReports** has the playback half of `RuntimeState`. A critical section
of the state lock is one action; the report a thread carries from the lock to
`enqueue_report` is `hand[t]`. A play is numbered by its load request; its
subtitle file and interpolation plan are set and cleared together and are one
variable, `resources`. `planned` is a history of the reports in the order of
the lock. **ReportDispatcher** has the queue and its worker; `enqueue` is two
actions, since `is_available` is asked before the queue's lock is taken.
**PlaybackReporting** composes the two, with the browser's close.

**NativePlayback** composes the abstract coordinator, the tracked play, the
steps of `load_if_current` with the runtime's lock held, the pending-selection
slot, and mpv. mpv is external code: a queue of commands, a file that is
opened paused, loaded, shown and ended, and properties that are reported with
the value current when mpv looks. Its events become inputs by `ingest.rs`.

**SettingsStore.** A save is three steps: change, snapshot under the state's
lock, and write or hand-over. The worker takes the slot, writes outside the
lock and looks again. The file is replaced by a rename, so a write happens
whole or not at all. Settings are one opaque value; in `AccountStore` that value
is the selected server, the only field account operations depend on.

**AccountStore.** `op[t]` is what a thread does: the steps of
`persist_active_session`, `update_saved_account`, `delete_saved_account`,
`logout_persisted_session` and `set_global_proxy_mode`, one per call to a store
(a call may fail, and the process may crash before it), with the rollback of
each as steps of its own. `lock` is the runtime's state lock, which an operation
holds from its checks to its commit; what it read before is in `op[t].stored`.
`Start` is the restore at startup, from the settings' file. `was` is a history:
what was stored when the lock was taken (the code reads the same values in its
rollback data). The UI thread selects another server by hand (`saveServerUrl`)
without the lock and hands the settings to the save worker (`OtherSettings`);
`SettingsWorker` writes them when it comes to that, and may fail. Two histories
say what the file can then be held to: `moved`, another server was selected by
hand since the sign-in; `crossed`, a sign-in found a save of the settings under
way, was overtaken by a selection by hand, or a background write was lost.

**SessionResolver.** `load[t]` goes through `execute_load`: the source, the
per-media lock, the cache, the probe with its redirects, the cache entry, and
the hand-over to the player, which compares the generation. Origins stand for
scheme, host and port. Servers answer as they like: any redirect to any origin,
with any stated expiry.

**TrackPreference.** `request` is the slot that loads, selections and the track
panel share; `reconciler[p]` is the thread that a play's first frame starts.
Both go step by step through mpv calls, the server's answer and the commit under
the state lock with its checks of play, generation and `preference_revision`. A
load ends its request when it has put the planned tracks into mpv's pending
slot; mpv opens the file later (`MpvOpens`), with no track, and the tracks are
applied when it says so (`FileLoaded`), with anything the user or an account
change did in between. `Release` is the user's stop: the subtitle's file goes at
once, the play with its terminal event. Keys of tracks are members of small
sets, one for each kind the code tells apart: listed by the server, known to mpv
only, external with a file, and of the old form.

**PortableUpdater** and **AppUpdate.** A file's content is the release it came
with, or the user's. The updater's loops move one file per step, in any order,
each may fail, and the process may be killed between two. Verifying the archive
and unpacking it are two steps, since the code opens it twice. `AppUpdate` adds
the three threads of `business_update.rs` over their flags, the package kept for
a version and its partial download, the application's exit, and a server that
publishes releases meanwhile, also the same version in another build. The user
may start the application at any time, while the updater works, too: the
updater waits for the process that started it (`parent`) and for no other, and
the new process (`running`) has flags of its own over the same files. Two
applications at once do not happen (`init_single_instance`).

Names of definitions follow the source where TLA+ allows it; the map in
`PROJECT.json` gives the lines of every definition.

## 3. What the runs check

| run | shows | bounds |
|---|---|---|
| `state_machine` | in any order of inputs: a stopped machine is clean, a stall is mpv's, only an unpause resumes, Playing needs a frame, every phase change is announced | 2 items, 2 positions, 1 scalar of 2 values; all sequences |
| `coordinator` | the coordinator implements the batches; no wake-up, post or join is lost; the sleep inhibition follows playback | 2 producers, 4 inputs, 3 posts |
| `reporting_pipeline` | every session planned opens and closes once, for the right account; boundaries keep their order; no closing report is lost between plan and server except by a refusal; shutdown drains and returns | 2 plays, 1 account change, 3 threads, limit 2, 4 planned reports, 8 calls |
| `native_settled` | when the dust has settled, phase and tracked play are mpv's | 2 loads, 2 user commands, positions 0 and 1 |
| `native_loads` | a load is one step of the tracked play | 1 load, 1 account change, positions to 2, rejected loads, failing filter |
| `settings` | of the background saves the newest is written last; the exit returns | 2 threads, 3 values, 4 changes, failing writes |
| `accounts` | who is signed in is what the next start restores, the file's server included; signed out stays signed out; a failure leaves no trace | 2 accounts on 2 servers, 2 tokens, 4 operations, 2 faults, 1 crash, 1 change by hand |
| `track_preference` | the user's choice stays; a refused choice is taken back; a subtitle's file outlives its use; a reconciliation keeps mpv's own keys | 1 media id, 6 kinds of key, 2 loads or 1 load and 1 account change, 1 selection, 5 saved preferences |
| `session_resolver` | tokens reach their own server only; what is played was resolved for the account that plays it; one probe per key; loads end | 2 loaders, 4 accounts, 3 origins, 1 redirect, 3 times, 2 loads, 2 account changes |
| `app_update` | the installation is the target's release whole or what it was; the user's files stay; a verified package stays until the updater has it; partial downloads do not block later ones | 4 files, 4 releases (one version built twice), 2 publications, 2 faults, 1 exit or kill beside the updates' own |
| `accounts_kept` | *violated*: a credential is the one its last sign-in or update left | 3 tokens, 3 operations, no fault, no crash |
| `track_choice` | *violated*: every choice of the user stays | as `track_preference` |

The bounds are the smallest at which what the properties are about happens.
Three posts give every split of inputs into batches and a post in every state
of the worker. A limit of two pending reports gives coalescing, eviction and
refusal. Four account operations give a sign-in on each server, a switch back
and a late answer; two faults give a failing step and a failing rollback, or a
failing write of the worker. Two loads of `track_preference` give a
reconciliation that outlives its play and a plan that waits behind the file
before; an account change takes the place of one of them (`MaxTurns`), but may
overtake the request of the second. In the
resolver, the times give a session that is fresh, within its safety margin and
expired, and the four accounts differ from each other in one of token, proxy
and server at a time. The releases share files, drop files and add one that may
meet the user's. Runs that may come to rest say `CHECK_DEADLOCK FALSE` and why.

What assumptions some properties carry:

* `native_settled` assumes a patient user: stops, pauses and loads are given
  when the player has settled (`Patient`), and mpv rejects nothing. Without
  either the two properties do not hold, which is what the hazards at
  `state_machine.rs:143` and `runtime.rs:1527` are about. `native_loads` has no
  such assumption.
* `ChoiceStays` excuses a selection that a reconciliation got in the way of
  (`disputed`): one that was under way, of an earlier play too, or whose first
  frame came during the selection; and one made while mpv still opened the file,
  which the load's plan then overwrites (`replanned`). `ChoiceIsFinal`, without
  the excuse for the reconciliation, is what the code promises and run
  `track_choice` refutes. `RollbackAgrees` holds until the first frame, the plan
  or another request changes what is shown.
* `FilesOutliveUse` ends with the user's stop (`released`): the file is deleted
  while the play is tracked and mpv may show it a little longer, which
  `docs/mediastation-windows-spike.md:188-189` says.
* `InstallIsWhole` excuses an updater that was killed or whose rollback failed
  (`torn`): the code has no recovery for either. It says the version of the
  target and not its build: the archive may be exchanged between its
  verification and its unpacking, where only the version is compared.
  `UserFilesStay` has no excuse.
* `VerifiedStays` is about the process that verified, from there to the updater
  it started, for as long as that process runs: what the flags promise. An
  application started again while the updater works may replace the archive,
  since its flags are its own; and the updater, when it cleans up, may remove
  what that application has just verified (`wiped`). Two updaters at once are
  beyond the model: `StartUpdater` waits for the first to end.
* `SessionIsPersisted`, `LogoutIsFinal` and `FailureLeavesNoTrace` excuse a
  rollback that failed and was reported, and a deletion's rollback that wrote
  back a credential that had changed meanwhile (`broken`). What the first says
  of the file it says when no save is under way, unless another server was
  selected by hand (`moved`) or saves crossed (`crossed`). Without the last
  excuse TLC refutes it: see the surprises below.
  `FailureLeavesNoTrace` speaks of the selected server for sign-ins only, the
  operations that write it, and under the same excuse (`crossed`).

Every property of a passing run is shown not to be vacuous by a mutant of a
mapped definition (operators commented "Fault of the mutation runs"), under
which TLC finds it violated.

### Fairness

Weak fairness is assumed of threads that run, and of nothing else. The
coordinator's worker, the report worker and the save worker take their next
step if they can: each is a plain loop that blocks only where the model does,
and requests to the server have timeouts. A producer that has pushed an input
goes on to signal, a thread that has changed the settings goes on to save them,
and a shutdown that began goes on. A load that runs goes on (`Loader(t)`), with
its lock being passed on by a mutex; weak fairness is enough because no loader
takes the lock again for the same load. None is assumed of anybody beginning
something: producers, callers, loads, account changes, shutdowns.

### Disagreements with the documentation

Two runs expect a violation; `PROJECT.json` quotes the lines.

* `accounts_kept`: a switch commits a credential it read before it waited for
  the server, over an update that was committed meanwhile.
* `track_choice`: the reconciliation checks the revision once and then works
  for a while; a choice made in that time is overwritten.

Other divergences and surprises, met while modelling and noted at the hazards:

* Events carry the snapshot of the end of their batch: a play that ends in the
  batch of its last position is closed at position 0.
* The pause every load asks for, and the unpause after track selection, take
  the machine to `Playing` without the first frame.
* `pending_load` is one flag for any number of loads; the end of a file that a
  second load replaces can be announced as `Canceled`.
* Across two plays of one account a progress report can be sent after the
  closing report of its play's successor was queued.
* A save copies the settings before it queues for the file, so the older copy of
  a save begun before a sign-in may be written after it: the next start finds
  the old server and refuses the new credential.
* A server selected by hand while a sign-in is being undone is overwritten by
  its rollback, which writes the server it had read.
* A choice made while mpv opens the file is overwritten by the plan of the load
  at FILE_LOADED; when it was refused instead, the rollback writes what mpv
  showed then, which was no track.
* A stop lets go of whatever subtitle file is held, also that of a load that was
  committed just before.
* A crash in the middle of a switch leaves a server and a credential that the
  next start refuses: the user is signed out. A start brings back the account
  credential of the active one, also after it was deleted or updated by an
  operation that did not touch the active one.
* A reconciliation whose subtitle download fails changes the saved preference;
  with two external subtitles the catalog names mpv's single one after the
  first.
* A link that states an expiry within a minute is cached for two minutes.
* A proxy that never continues a download blocks it while a partial is kept; a
  check that ends during a download may announce another release as ready.

## 4. What is proved

All theorems hold for every value of the constants under the assumptions
stated, by name, in the modules that declare the constants: distinct markers
for "nothing" and "nobody", bounds that are numbers, a limit of at least one, a
server for every account, an application file in every package.

`PlaybackStateMachineProofs` proves type correctness and the safety and action
properties of the state machine. The argument is
one inductive invariant, `TypeOK` with `StoppedIsClean`, `PauseIntent`,
`StallIsReal` and `VariantSwitchSpansReload`; one lemma per handler shows that
it is kept. The conjuncts need each other: a pause is only left for `Stopped`
cleanly because a stopped machine is absent, and a promotion clears the variant
switch only in phases the others bound. `PhasesAreAnnounced` is proved from it
with a lemma per handler on the kinds of the events it returns (`Announced`,
which also says that a changed media type is announced).

`PlaybackCoordinatorProofs` proves, for any producers, inputs and number of
posts, that no wake-up is lost, that the coordinator implements
`PlaybackBatches`, and that the idle-inhibit level follows playback.
`NoLostWakeup` needs who will set the event while it is clear (`WakeInv`): the
producer between push and signal, the stopper between its two steps. The
refinement maps the worker's place only, so the lemmas first show that each
handler is the same on both sides; then every step is a step of the abstract
module or a stutter, given that a batch is empty unless it is being applied and
that the built-in sinks run after the last event (`RefInv`).
`InhibitFollowsPlayback` combines the two modules: a handler that makes the
sink look at nothing leaves the level the machine asks for (`UnseenKeepsLevel`,
from `Announced`), so that a batch always holds an event to look at or needs
none (`Pending`). As a by-product the machine's safety invariants hold under
the coordinator, too. The one assumption is that an input carries what its
handler is given (`InputAssumption`).

`PlaybackReportingProofs` has three sections. The first proves every property
of the tracked play, for any number of loaders, positions, loads and account
changes. `SessionsAreClosed` alone is not inductive: that a progress or closing
report belongs to the last session of the history needs `OpenIsTracked` (the
open session is the tracked play's), and that no play opens twice needs
`PlaysAreNew` (a request in flight is younger than every play tracked or
reported, and there is one at most, which is what `MAX_ACTIVE_LOAD_REQUESTS` = 1
gives).

The second proves the dispatcher's invariants for every limit of at least one,
every set of reports and every number of callers. The queue's part rests on
lemmas about replacing, removing and appending one job (`CoalescedQueue`,
`EvictingQueue`, `AppendsQueue`). `ShutdownDrains` needs `ExitIsFinal`: the
worker leaves with an empty queue, and from then on either no caller is past the
availability check or the shutting-down flag refuses what it brings; the handle
is taken once, so joined means left. `BoundariesKeepOrder` says of two sequences
that their opening and closing reports are the same in the same order. It is
stated by a correspondence of positions (`SameBoundaries`) and not by filtering,
whose definition is recursive; its lemmas (`SameByPosition`,
`SameIsTransitive`, `SameButOne`, `SameWithOneMore`, `SameBehind`) say what each
change of the queue does to it.

The third composes the two. Every step of the pipeline is a step of each half or
leaves it alone, so both invariants carry over (`PipelineKeepsHalves`), and
`ClosesReachServer` follows from where a planned report is: a thread has planned
it and holds it, has brought it to the dispatcher, or the dispatcher accepted or
refused it. What the halves assume of each other is `ReportingAssumption`: the
dispatcher's callers are the threads that plan, and what they bring are reports.

`AccountStoreProofs` first proves type correctness and `NewestSurvives` of the
settings store. The strengthening says where the newest snapshot is
(`NewestIsSomewhere`: in the slot, being written, or written last) and that the
worker rests on an empty slot only (`RestsWhenDone`). Each step has a lemma of
its own, which the account operations use again.

Then it proves all three properties of run `accounts`, and types. The session a
start restores is in three stores that one operation writes one after another,
so in the middle of one the properties are false and say nothing. The invariant
`StoreInv` has the missing half: while nobody holds the lock the credentials
agree with the session (`FreeInv`); while somebody does, what it found there
when it took the lock agreed (`WasHeld`), and the credentials are that with its
completed steps applied, or its rollback's (`AccountHeld`, `ActiveHeld`;
`UrlHeld` says what a rollback has still to do). Three lemmas carry this over a
step of a thread without the lock (`FreeStepKeeps`), with it (`HeldStepKeeps`)
and giving it up (`EndKeeps`). `RecentInv` says that an operation begun before
the last sign-out is an authentication whose generation is old, which is why its
answer is refused.

The settings' file has an invariant of its own, `FileInv`, that holds while no
save crossed another and no rollback failed. `Filed` is what the file will hold
when the worker has nothing left to write: the slot, else what is being written,
else the file. `FiledInv` says that it is what is in memory when nobody is about
to save something else, `CarriedInv` that whoever carries a snapshot carries what
is in memory. A sign-in that selects another server saves alone and knows which
of the two is in memory and which in the file (`Alone`, `SelectedHeld`), and the
server of the session is the selected one, or was when the sign-in under way took
the lock (`ServerKept`). With no save under way the file is then the memory
(`FileIsMemory`), which gives `SessionIsPersisted` its last clause and
`FailureLeavesNoTrace` its own.

`SessionResolverProofs` proves the three safety properties of the resolver. It
needs that a generation stands for one account (`GenerationsAreAccounts`), that
cached tokens are at home (`SessionsAreHome`), and that who probes holds the
lock of its key (`ProbersHoldLock`).

`AppUpdateProofs` first has the inductive invariant of the updater, one lemma
per step: for each phase, what the install directory is, file by file, as a
function of the directory before and of the files already visited, and that the
backup holds what was taken. Nothing outside the files that either manifest
names is moved, and a managed name that the user occupies is refused before the
first move. Then it shows that nothing the application does disturbs this, and
that the updater is only ever started for a release that has the application in
it: theorems `UserFilesAreKept` and `UpdatesAreAtomic`. Last, `VerifiedIsKept`:
a download may run on beside an installation, but then both want the same
release, because a check that ends forgets what was downloaded and the flags
allow one download (`ThreadsInv`); a download removes a package only when it is
not the wanted one (`PackagesInv`); a process that has ended has no threads
(`RunningInv`); and while the process that started the updater runs, its flags
still keep every other download away (`HandedInv`). An updater that still works
for an earlier process may only remove its archive, which is what `wiped`
records. `PartialsAreHarmless` rests on versions that only grow: a download is
for a version no older than those of the partial files (`OrderInv`). A download
that has just failed for the bytes it continued therefore leaves, for every
version that may be fetched next, nothing to continue, the same bytes, or too
many of them (`Clear`, `MissesInv`), and the next one does not fail for them.

`TrackPreferenceProofs` proves all four properties of run `track_preference`,
for any tracks, preferences, plays, selections and account changes. `TrackIInv`
follows a selection and the reconciliations step by step: the tracked play is
the last one loaded, and a worker belongs to a play that was (`PlaysFollow`); a
worker corrects only axes it has looked at, and no subtitle key of mpv's own
(`CorrectsLate`); a selection that nothing got in the way of finds mpv and
server as it left them, and outdates the play's own reconciliation before it
touches a track (`SelectionIsAlone`, `Outdated`). While a choice stands every
worker that is past its check wants the same (`ChoiceIsSafe`), and after a
refusal none is (`RefusalIsSafe`). The load's plan has lemmas of its own: a file
that is opened was given no track and its play does not count as `Playing` yet
(`OpeningIsSafe`); the plan that arrives finds no selection but one it disputes,
and shows no file that is not held (`FileLoadedIsSafe`); only a stop lets a file
go before its play, and says so (`ReleaseIsSafe`). Two of the paths that
`disputed` names were found where the proof failed without them, and confirmed
with TLC.

`NativePlaybackProofs` proves of the composition of coordinator, tracked play,
load worker and mpv that it implements both `PlaybackBatches`
(`NativeIsBatched`) and `PlaybackReports` (`LoadsAreWhole`, the property
`LoadsAreAtomic`). The second needs `LockInv`: whoever holds the runtime's lock
is a loader whose account is still the configured one, at each of its steps, so
that the last of them is the whole of `load_if_current`. The machine's safety
invariants follow for whatever mpv does (`MachineSafeInNative`).

The module's second half proves `SettledPhase` (`PhaseSettles`) and
`SettledTracking` (`TrackingSettles`), for `Patient` and no `Faults`, the
conditions of run `native_settled`. Before it settles the player is out of step:
mpv is ahead of the inputs it posted, the worker of the events it has yet to
deliver, the runtime of both. The invariant therefore speaks of what will be. An
outlook is a phase, a pending load and whether the tracked play will have
started; `Makes` says what one input makes of it and `Leads` what a sequence
does, `Soon` counts in the events of the batch, and `HandleMakes` shows that the
handlers do what `Makes` says. `FutureInv`: unless a load is on its way, every
outlook the inbound inputs lead to agrees with mpv as it is now, so that a post
lengthens the sequence by what mpv has just done (`FuturePosts`), and handling
an input drops outlooks and adds none (`ApplyFutures`). Why the machine leaves
`Starting` is `Selecting`: a file that is paused while its outlook says
otherwise has its selection still to come. `PaceInv` says what a patient user
brings about, one load or command at a time; `TargetInv` that the play told,
opened and held by mpv is the tracked one or the one about to be.

Only model-checked: liveness (outside the prover's reach, as is everything that
needs ENABLED). No module declares a recursive operator.

## 5. What is not modelled

* Accounts: the two-step login and the password change before the commit, and
  the record format of the credential store. Of the savers of settings, those
  that write at once without a selected server: the interpolation model
  (`runtime.rs:4799`) and the window's geometry at the exit (`app.rs:416`); their
  saves cross others as the proxy mode's does. The overlay's
  `set_server_url` (`business_overlay.rs`) has no caller that is reached:
  `jfn_overlay_init` is never called. `OtherSettings` begins after the restore,
  which runs before the browser exists (`app.rs:525`).
* Resolver: `invalidate`, which the program never calls; stream versions,
  ranges and lengths.
* Updates: the installer package, which is an external program; the parsing of
  arguments and the checks of paths; more than one updater at a time, which an
  application started again could bring about.
* Tracks: how mpv's track list is parsed and keys are formed; more than one
  external subtitle in mpv; the audio track that an unprobed source leaves to
  mpv's demuxer. mpv takes commands in the order they were given, so giving one
  and its effect are one step, and the first frame comes after the plan.
* The queue of each OS media sink: one thread drains one queue and shows what it
  gets. The lock order of slot, sink list and runtime state, which is safe
  because sinks are registered before the first load.
* The catalogue, image and home caches (snapshots replaced whole), the
  interpolation plan (selection by hardware; the failure it reports is in
  `PlaybackReports`), and the rest of the API client (sequential HTTP).
* Everything that is a binding to CEF, mpv's API or a window system: most of
  the repository's lines. It translates calls and events one to one and keeps
  handles; what would have to be right is on the other side.
* In `NativePlayback` seeking and stalls are left out; the state machine's own
  module has both. Error texts, logging and headers are data no property
  depends on.

## 6. Where to go on

* What `SettledPhase` becomes for an impatient user: which of the races at
  `state_machine.rs:143` a later input repairs.
* The composition of `AccountStore` with `SessionResolver` and `PlaybackReports`:
  each has the generation, none all of its readers.
* A module of the OS media sinks' queue and of the lock order.
