---------------------------- MODULE SettingsStore ----------------------------
(***************************************************************************)
(* The settings store of src/config/src/lib.rs: the settings in memory,    *)
(* their file, the callers that save at once (settings_save), and the one  *)
(* worker that saves in the background (settings_save_async).              *)
(*                                                                         *)
(* Every save copies the settings under the state's lock and writes the    *)
(* copy later: at once, under SAVE_LOCK, or through the worker's slot of   *)
(* one snapshot.  The file is replaced by a rename, so a write happens     *)
(* whole or not at all.  The settings are one opaque value here.           *)
(***************************************************************************)
EXTENDS Naturals

CONSTANTS
    Values,     \* contents of the settings
    Savers,     \* threads that change and save settings
    Immediate,  \* those that may save at once
    Exiter,     \* the thread that saves and stops the worker at exit
    NoData,     \* no snapshot
    MaxChanges, \* bound on the changes
    Unwritable  \* whether writes of the file may fail

ASSUME SettingsAssumption ==
    /\ NoData \notin Values
    /\ Immediate \subseteq Savers /\ Exiter \in Immediate
    /\ MaxChanges \in Nat
    /\ Unwritable \in BOOLEAN

VARIABLES
    data,       \* State::data, the settings in memory
    disk,       \* the settings file
    saver,      \* where each thread is: at, and the snapshot it carries
    pending,    \* Pending::data, or NoData
    stop,       \* Pending::stop
    worker,     \* none, awake, asleep, writing or gone
    writing,    \* the snapshot the worker writes, or NoData
    handed,     \* history: the snapshot last handed to the worker, or NoData
    wrote,      \* history: the snapshot the worker last tried to write
    changes     \* number of changes

saveVars     == <<saver, pending, stop, worker, writing, handed, wrote>>
settingsVars == <<data, disk, saveVars, changes>>

Idle == [at |-> "idle", snap |-> NoData]

Places == {"idle", "changed", "saving", "handing", "joining", "done"}

-----------------------------------------------------------------------------
(***************************************************************************)
(* Changing and saving.                                                    *)
(***************************************************************************)
\* A setter; its caller saves next.
Change(t, v) ==
    /\ saver[t].at = "idle"
    /\ data' = v
    /\ saver' = [saver EXCEPT ![t].at = "changed"]
    /\ UNCHANGED <<disk, pending, stop, worker, writing, handed, wrote>>

\* The snapshot of settings_save or settings_save_async.
Snapshot(t, how) ==
    /\ saver[t].at = "changed"
    /\ saver' = [saver EXCEPT ![t] = [at |-> how, snap |-> data]]
    /\ UNCHANGED <<data, disk, pending, stop, worker, writing, handed, wrote>>

\* save_data, under SAVE_LOCK.
WriteFile(snap, ok) == disk' = IF ok THEN snap ELSE disk

Save(t, ok) ==
    /\ saver[t].at = "saving"
    /\ WriteFile(saver[t].snap, ok)
    /\ saver' = [saver EXCEPT ![t] = Idle]
    /\ UNCHANGED <<data, pending, stop, worker, writing, handed, wrote>>

\* Fault of the mutation runs: the first snapshot stays in the slot.
HandOverFirst(t) ==
    /\ saver[t].at = "handing"
    /\ saver' = [saver EXCEPT ![t] = Idle]
    /\ IF stop THEN UNCHANGED <<pending, worker, handed>>
       ELSE /\ pending' = IF pending = NoData THEN saver[t].snap ELSE pending
            /\ handed' = saver[t].snap
            /\ worker' = IF worker \in {"none", "asleep"} THEN "awake" ELSE worker
    /\ UNCHANGED <<data, disk, stop, writing, wrote>>

\* The rest of settings_save_async: the newest snapshot takes the slot, and the
\* worker is started or woken; after the stop nothing happens.
HandOver(t) ==
    /\ saver[t].at = "handing"
    /\ saver' = [saver EXCEPT ![t] = Idle]
    /\ IF stop THEN UNCHANGED <<pending, worker, handed>>
       ELSE /\ pending' = saver[t].snap
            /\ handed' = saver[t].snap
            /\ worker' = IF worker \in {"none", "asleep"} THEN "awake" ELSE worker
    /\ UNCHANGED <<data, disk, stop, writing, wrote>>

-----------------------------------------------------------------------------
(***************************************************************************)
(* The worker: save_worker_loop.                                           *)
(***************************************************************************)
Look ==
    /\ worker = "awake"
    /\ worker' = IF pending # NoData THEN "writing" ELSE IF stop THEN "gone" ELSE "asleep"
    /\ pending' = NoData
    /\ writing' = pending
    /\ UNCHANGED <<data, disk, saver, stop, handed, wrote>>

WorkerWrites(ok) ==
    /\ worker = "writing"
    /\ WriteFile(writing, ok)
    /\ worker' = "awake"
    /\ wrote' = writing
    /\ writing' = NoData
    /\ UNCHANGED <<data, saver, pending, stop, handed>>

Writes == \E ok \in BOOLEAN : (~ok => Unwritable) /\ WorkerWrites(ok)

-----------------------------------------------------------------------------
(***************************************************************************)
(* The end: settings_shutdown_save_worker, after a last settings_save.     *)
(***************************************************************************)
\* A worker that was never asked for is not stopped either.
ShutdownUnneeded ==
    /\ saver[Exiter].at = "idle" /\ worker = "none"
    /\ saver' = [saver EXCEPT ![Exiter].at = "done"]
    /\ UNCHANGED <<data, disk, pending, stop, worker, writing, handed, wrote>>

\* Fault of the mutation runs: the sleeping worker is not notified.
BeginShutdownQuietly ==
    /\ saver[Exiter].at = "idle" /\ ~stop /\ worker # "none"
    /\ stop' = TRUE
    /\ saver' = [saver EXCEPT ![Exiter].at = "joining"]
    /\ UNCHANGED <<data, disk, pending, worker, writing, handed, wrote>>

BeginShutdown ==
    /\ saver[Exiter].at = "idle" /\ ~stop /\ worker # "none"
    /\ stop' = TRUE
    /\ worker' = IF worker = "asleep" THEN "awake" ELSE worker
    /\ saver' = [saver EXCEPT ![Exiter].at = "joining"]
    /\ UNCHANGED <<data, disk, pending, writing, handed, wrote>>

Join ==
    /\ saver[Exiter].at = "joining" /\ worker = "gone"
    /\ saver' = [saver EXCEPT ![Exiter].at = "done"]
    /\ UNCHANGED <<data, disk, pending, stop, worker, writing, handed, wrote>>

-----------------------------------------------------------------------------
SettingsInit ==
    /\ data \in Values /\ disk = data
    /\ saver = [t \in Savers |-> Idle]
    /\ pending = NoData /\ stop = FALSE
    /\ worker = "none" /\ writing = NoData
    /\ handed = NoData /\ wrote = NoData
    /\ changes = 0

\* The exiting thread puts the window's geometry into the settings and saves it
\* at once (shutdown_runtime); the others save in the background or at once.
Progress(t) ==
    \/ t \in Immediate /\ Snapshot(t, "saving")
    \/ t # Exiter /\ Snapshot(t, "handing")
    \/ \E ok \in BOOLEAN : (~ok => Unwritable) /\ Save(t, ok)
    \/ HandOver(t)

Worker == Look \/ Writes

SettingsNext ==
    \/ /\ changes < MaxChanges /\ changes' = changes + 1
       /\ \E t \in Savers, v \in Values : Change(t, v)
    \/ /\ \/ \E t \in Savers : Progress(t)
          \/ Worker
          \/ ShutdownUnneeded \/ BeginShutdown \/ Join
       /\ UNCHANGED changes

\* A save that has begun runs to its end; the worker runs when it may.
SettingsFairness ==
    /\ \A t \in Savers : WF_settingsVars(Progress(t) /\ UNCHANGED changes)
    /\ WF_settingsVars(Worker /\ UNCHANGED changes)
    /\ WF_settingsVars(Join /\ UNCHANGED changes)

SettingsSpec     == SettingsInit /\ [][SettingsNext]_settingsVars
SettingsFairSpec == SettingsSpec /\ SettingsFairness

-----------------------------------------------------------------------------
(***************************************************************************)
(* Properties.                                                             *)
(***************************************************************************)
\* Type correctness of the store and its worker.
SettingsTypeOK ==
    /\ data \in Values /\ disk \in Values
    /\ saver \in [Savers -> [at : Places, snap : Values \cup {NoData}]]
    /\ {pending, writing, handed, wrote} \subseteq Values \cup {NoData}
    /\ worker \in {"none", "awake", "asleep", "writing", "gone"}
    /\ stop \in BOOLEAN
    /\ changes \in Nat

\* "Only the newest snapshot survives": whenever the worker has nothing left to
\* do, what it wrote last is what was handed over last, also when snapshots were
\* replaced in the slot, the worker was busy or the stop came first.
NewestSurvives ==
    worker \in {"none", "asleep", "gone"} => pending = NoData /\ wrote = handed

\* The shutdown that joins the worker returns, whatever the worker was at.
ExitReturns == saver[Exiter].at = "joining" ~> saver[Exiter].at = "done"

=============================================================================
