--------------------------- MODULE PortableUpdater ---------------------------
(***************************************************************************)
(* The portable updater of src/jfn_rust/src/portable_updater.rs: a process *)
(* of its own that checks and unpacks the downloaded archive, waits for    *)
(* the application to exit, and then moves the managed files of the        *)
(* install directory aside and the new ones in, file by file, with a       *)
(* rollback when a step fails.                                             *)
(*                                                                         *)
(* A file's content is the release it came with, or the user's.  The files *)
(* of a loop are taken in any order.  The file App stands for the four     *)
(* files every package must have, the file manifest among them.            *)
(***************************************************************************)
EXTENDS Naturals

CONSTANTS
    Files,      \* relative paths
    App,        \* the application with its manifest
    Releases,   \* contents of packages, by version and build
    Manifest,   \* the files of a release
    NoFile,     \* nothing at a path
    User,       \* a file of the user's
    MaxFaults   \* bound on the failing steps

ASSUME UpdaterAssumption ==
    /\ App \in Files
    /\ Manifest \in [Releases -> SUBSET Files]
    /\ \A r \in Releases : App \in Manifest[r]
    /\ {NoFile, User} \cap Releases = {}
    /\ NoFile # User
    /\ MaxFaults \in Nat

VARIABLES
    dir,        \* the install directory
    backup,     \* the workspace's backup
    staged,     \* the workspace's staging directory
    at,         \* where the updater is; "none" when none runs
    target,     \* the release it, or the last one, was started for, or NoFile
    current,    \* the files the installed manifest named when it started
    unpacked,   \* the release whose package it unpacked, or NoFile
    todo,       \* files its loop has still to visit
    backed_up, installed, \* AppliedUpdate
    was,        \* history: the install directory before it
    torn,       \* history: a rollback failed, or the updater was killed
    faults      \* number of steps that failed

workVars    == <<backup, staged, todo, backed_up, installed>>
runVars     == <<at, target, current, unpacked, was, torn>>
updaterVars == <<dir, workVars, runVars, faults>>

Empty == [f \in Files |-> NoFile]

\* A step fails only as often as the bound allows.
May(ok) == faults' = (IF ok THEN faults ELSE faults + 1) /\ faults' <= MaxFaults

New == Manifest[unpacked]

-----------------------------------------------------------------------------
(***************************************************************************)
(* The start: run, up to the parent's exit.                                *)
(***************************************************************************)
\* One updater at a time.  A second one of the same version cannot be prepared
\* while the first one's file is in use; that one of another version waits is a
\* bound.
StartUpdater(r) ==
    /\ at = "none"
    /\ at' = "started" /\ target' = r
    /\ was' = dir
    /\ UNCHANGED <<dir, workVars, current, unpacked, torn, faults>>

\* What is left of its workspace no later updater looks at.
Forgets ==
    /\ at' = "none" /\ current' = {} /\ unpacked' = NoFile
    /\ backup' = Empty /\ staged' = Empty
    /\ todo' = {} /\ backed_up' = {} /\ installed' = {}

Ends == Forgets /\ UNCHANGED <<target, was, torn>>

\* The installed manifest is read, and the archive is verified.
VerifyArchive(archive, ok) ==
    /\ at = "started"
    /\ May(ok)
    /\ IF ok /\ dir[App] \in Releases /\ archive = target
       THEN /\ at' = "verified"
            /\ current' = Manifest[dir[App]]
            /\ UNCHANGED <<target, unpacked, was, torn, workVars>>
       ELSE Ends
    /\ UNCHANGED dir

\* The archive is opened again and unpacked; its version is compared, its
\* checksum is not.
Unpack(archive, ok) ==
    /\ at = "verified"
    /\ May(ok)
    /\ IF ok /\ archive \in Releases /\ archive.version = target.version
       THEN /\ at' = "prepared"
            /\ unpacked' = archive
            /\ staged' = [f \in Files |-> IF f \in Manifest[archive] THEN archive ELSE NoFile]
            /\ UNCHANGED <<target, current, was, torn, backup, todo, backed_up, installed>>
       ELSE Ends
    /\ UNCHANGED dir

\* The parent did not exit in time.
GivesUp ==
    /\ at = "prepared" /\ May(FALSE) /\ Ends
    /\ UNCHANGED dir

\* Fault of the mutation runs: every target that exists is replaced.
CollidesNever == FALSE

\* preflight_targets: a new file may not replace one that is not managed.
Collides == \E f \in New \ current : dir[f] # NoFile

ParentGone ==
    /\ at = "prepared"
    /\ IF Collides
       THEN Ends
       ELSE /\ at' = "backup"
            /\ todo' = {f \in current \cup New : dir[f] # NoFile}
            /\ backed_up' = {} /\ installed' = {}
            /\ UNCHANGED <<target, current, unpacked, was, torn, backup, staged>>
    /\ UNCHANGED <<dir, faults>>

-----------------------------------------------------------------------------
(***************************************************************************)
(* apply_update.                                                           *)
(***************************************************************************)
\* What a step of the updater leaves alone.
Stays == UNCHANGED <<target, current, unpacked, was, torn>>

BackUp(f, ok) ==
    /\ at = "backup" /\ f \in todo
    /\ May(ok)
    /\ IF ok
       THEN /\ backup' = [backup EXCEPT ![f] = dir[f]]
            /\ dir' = [dir EXCEPT ![f] = NoFile]
            /\ todo' = todo \ {f}
            /\ backed_up' = backed_up \cup {f}
            /\ UNCHANGED at
       ELSE at' = "remove" /\ todo' = installed /\ UNCHANGED <<dir, backup, backed_up>>
    /\ Stays /\ UNCHANGED <<staged, installed>>

BackedUp ==
    /\ at = "backup" /\ todo = {}
    /\ at' = "install" /\ todo' = New
    /\ Stays /\ UNCHANGED <<dir, backup, staged, backed_up, installed, faults>>

Install(f, ok) ==
    /\ at = "install" /\ f \in todo
    /\ May(ok)
    /\ IF ok
       THEN /\ dir' = [dir EXCEPT ![f] = staged[f]]
            /\ staged' = [staged EXCEPT ![f] = NoFile]
            /\ todo' = todo \ {f}
            /\ installed' = installed \cup {f}
            /\ UNCHANGED at
       ELSE at' = "remove" /\ todo' = installed /\ UNCHANGED <<dir, staged, installed>>
    /\ Stays /\ UNCHANGED <<backup, backed_up>>

\* The updated application is started; when that fails, too, all is undone.
Restart(ok) ==
    /\ at = "install" /\ todo = {}
    /\ May(ok)
    /\ IF ok THEN at' = "clean" /\ UNCHANGED todo
             ELSE at' = "remove" /\ todo' = installed
    /\ Stays /\ UNCHANGED <<dir, backup, staged, backed_up, installed>>

Clean ==
    /\ at = "clean" /\ Ends
    /\ UNCHANGED <<dir, faults>>

-----------------------------------------------------------------------------
(***************************************************************************)
(* rollback_update: it goes on past a step that fails.                     *)
(***************************************************************************)
Remove(f, ok) ==
    /\ at = "remove" /\ f \in todo
    /\ May(ok)
    /\ dir' = IF ok THEN [dir EXCEPT ![f] = NoFile] ELSE dir
    /\ torn' = (torn \/ ~ok)
    /\ todo' = todo \ {f}
    /\ UNCHANGED <<at, target, current, unpacked, was, backup, staged, backed_up, installed>>

\* Fault of the mutation runs: the restore starts from the files installed.
RemovedForInstalled ==
    /\ at = "remove" /\ todo = {}
    /\ at' = "restore" /\ todo' = backed_up \cap installed
    /\ Stays /\ UNCHANGED <<dir, backup, staged, backed_up, installed, faults>>

Removed ==
    /\ at = "remove" /\ todo = {}
    /\ at' = "restore" /\ todo' = backed_up
    /\ Stays /\ UNCHANGED <<dir, backup, staged, backed_up, installed, faults>>

Restore(f, ok) ==
    /\ at = "restore" /\ f \in todo
    /\ May(ok)
    /\ dir' = IF ok THEN [dir EXCEPT ![f] = backup[f]] ELSE dir
    /\ backup' = IF ok THEN [backup EXCEPT ![f] = NoFile] ELSE backup
    /\ torn' = (torn \/ ~ok)
    /\ todo' = todo \ {f}
    /\ UNCHANGED <<at, target, current, unpacked, was, staged, backed_up, installed>>

RolledBack ==
    /\ at = "restore" /\ todo = {} /\ Ends
    /\ UNCHANGED <<dir, faults>>

\* The process is killed, or the computer stops.
Killed ==
    /\ at # "none" /\ Forgets
    /\ torn' = TRUE
    /\ UNCHANGED <<dir, target, was, faults>>

Moves ==
    \/ \E f \in Files, ok \in BOOLEAN :
           BackUp(f, ok) \/ Install(f, ok) \/ Remove(f, ok) \/ Restore(f, ok)
    \/ BackedUp \/ Removed \/ RolledBack

UpdaterInit ==
    /\ backup = Empty /\ staged = Empty
    /\ at = "none" /\ target = NoFile /\ current = {} /\ unpacked = NoFile
    /\ todo = {} /\ backed_up = {} /\ installed = {}
    /\ was = dir /\ torn = FALSE /\ faults = 0

-----------------------------------------------------------------------------
(***************************************************************************)
(* Properties.                                                             *)
(***************************************************************************)
\* Type correctness of the updater and the directories it works on.
UpdaterTypeOK ==
    /\ {dir, was, backup, staged} \subseteq [Files -> Releases \cup {NoFile, User}]
    /\ at \in {"none", "started", "verified", "prepared", "backup", "install", "clean",
              "remove", "restore"}
    /\ {target, unpacked} \subseteq Releases \cup {NoFile}
    /\ UNION {current, todo, backed_up, installed} \subseteq Files
    /\ torn \in BOOLEAN

\* The directory an update to release r makes of directory d.
Updated(d, r) ==
    [f \in Files |-> IF f \in Manifest[r] THEN r
                     ELSE IF d[App] \in Releases /\ f \in Manifest[d[App]] THEN NoFile
                     ELSE d[f]]

\* All or nothing: when no updater runs, the install directory is what the last
\* one found, or what a package of the version it was started for makes of that,
\* whichever step failed, unless its rollback failed or it was killed.  That it is
\* the very build that was verified cannot be said: see Unpack.
InstallIsWhole ==
    at = "none" /\ ~torn =>
        \/ dir = was
        \/ \E r \in Releases : r.version = target.version /\ dir = Updated(was, r)

\* The test managed_update_preserves_unknown_files: a file the user put into the
\* install directory is never touched, not even by an update that is killed or
\* cannot be undone.
UserFilesStay == \A f \in Files : was[f] = User => dir[f] = User
=============================================================================
