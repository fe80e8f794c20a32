--------------------------- MODULE AppUpdateProofs ---------------------------
(***************************************************************************)
(* The application and its updater together: for any files, releases and   *)
(* publications, and whatever the downloads and installations do, an       *)
(* update is all or nothing and leaves the user's files alone.             *)
(*                                                                         *)
(* First the updater: the inductive invariant behind UserFilesStay and     *)
(* InstallIsWhole, and the proof that each of its steps preserves it,      *)
(* whichever of them fail.  Then the application around it.                *)
(***************************************************************************)
EXTENDS AppUpdate, TLAPS

\* Where files are moved.
Working == {"backup", "install", "clean", "remove", "restore"}

Affected == current \cup New
Existing == {f \in Affected : was[f] # NoFile}

\* The files the manifest in directory d names are not the user's.
ManagedIn(d) == d[App] \in Releases => \A f \in Manifest[d[App]] : d[f] # User

\* What is known of the release and the manifest the updater was started with.
FilesAreKnown ==
    /\ at # "none" => target \in Releases
    /\ at \in {"started", "verified", "prepared"} => dir = was
    /\ at \in {"verified", "prepared"} \cup Working =>
           was[App] \in Releases /\ current = Manifest[was[App]]
    /\ at \in {"prepared"} \cup Working =>
           unpacked \in Releases /\ unpacked.version = target.version

\* While no file is moved, what the last updater left is in order.
RestInv == at \notin Working => UserFilesStay /\ ManagedIn(dir) /\ InstallIsWhole

\* While files are moved, each of them is where it was, new or gone, and only
\* managed ones are moved.
WorkInv ==
    at \in Working =>
        /\ ManagedIn(was)
        /\ \A f \in New \ current : was[f] = NoFile
        /\ \A f \in Files : /\ dir[f] \in {NoFile, unpacked, was[f]}
                            /\ f \notin Affected => dir[f] = was[f]
        /\ backed_up \subseteq Existing
        /\ installed \subseteq New

\* The staging directory holds the release until it is moved.
StagedInv ==
    /\ at \in {"prepared", "backup"} => \A f \in New : staged[f] = unpacked
    /\ at = "install" => \A f \in todo : staged[f] = unpacked

\* The backup holds what was taken from the install directory.
BackupInv ==
    /\ at \in {"backup", "install", "clean", "remove"} =>
           \A f \in backed_up : backup[f] = was[f]
    /\ at = "restore" => \A f \in todo : backup[f] = was[f]

\* What the loop has still to visit, and the directory it has made so far.
BackingUpInv ==
    at = "backup" =>
        /\ todo = Existing \ backed_up
        /\ installed = {}
        /\ \A f \in Files : dir[f] = IF f \in backed_up THEN NoFile ELSE was[f]

InstallInv ==
    at \in {"install", "clean"} =>
        /\ todo = New \ installed
        /\ at = "clean" => todo = {}
        /\ backed_up = Existing
        /\ \A f \in Files : dir[f] = IF f \in installed THEN unpacked
                                     ELSE IF f \in backed_up THEN NoFile ELSE was[f]

RemoveInv ==
    at = "remove" =>
        /\ todo \subseteq installed
        /\ \A f \in installed \ backed_up : was[f] = NoFile
        /\ ~torn => \A f \in Files : dir[f] = IF f \in todo THEN unpacked
                                              ELSE IF f \in backed_up THEN NoFile ELSE was[f]

RestoreInv ==
    at = "restore" =>
        /\ todo \subseteq backed_up
        /\ ~torn => \A f \in Files : dir[f] = IF f \in todo THEN NoFile ELSE was[f]

KnownInv == UpdaterTypeOK /\ FilesAreKnown
LoopInv  == BackingUpInv /\ InstallInv /\ RemoveInv /\ RestoreInv

UpdaterInv ==
    KnownInv /\ RestInv /\ WorkInv /\ StagedInv /\ BackupInv /\ LoopInv

-----------------------------------------------------------------------------
(***************************************************************************)
(* What the invariant says of the files.                                   *)
(***************************************************************************)
\* The files an update moves are not the user's.
LEMMA AffectedAreManaged ==
    ASSUME KnownInv, WorkInv, at \in Working, NEW f \in Affected
    PROVE  f \in Files /\ was[f] # User
<1>1. f \in Files
  BY UpdaterAssumption DEF KnownInv, UpdaterTypeOK, FilesAreKnown, Affected, New, Working
<1>2. CASE f \in current
  BY <1>1, <1>2 DEF KnownInv, FilesAreKnown, WorkInv, ManagedIn
<1>3. CASE f \in New \ current
  BY <1>1, <1>3, UpdaterAssumption DEF WorkInv
<1> QED
  BY <1>2, <1>3 DEF Affected

\* Whenever an update ends, the user's files are in place.
LEMMA WorkLeavesUserFiles ==
    ASSUME KnownInv, WorkInv, at \in Working
    PROVE  UserFilesStay /\ ManagedIn(dir)
<1>1. UserFilesStay
  BY AffectedAreManaged DEF UserFilesStay, WorkInv
<1>2. ManagedIn(dir)
  <2> SUFFICES ASSUME dir[App] \in Releases, NEW f \in Manifest[dir[App]]
               PROVE  dir[f] # User
    BY DEF ManagedIn
  <2>1. App \in Files /\ unpacked \in Releases
    BY UpdaterAssumption DEF KnownInv, FilesAreKnown, Working
  <2>2. dir[App] \in {unpacked, was[App]}
    BY <2>1, UpdaterAssumption DEF WorkInv
  <2>3. f \in Affected
    BY <2>2 DEF Affected, New, KnownInv, FilesAreKnown
  <2>4. f \in Files /\ was[f] # User
    BY <2>3, AffectedAreManaged
  <2>5. dir[f] \in {NoFile, unpacked, was[f]}
    BY <2>4 DEF WorkInv
  <2> QED
    BY <2>1, <2>4, <2>5, UpdaterAssumption
<1> QED
  BY <1>1, <1>2

\* A finished update is the one its release makes.
LEMMA FinishedIsUpdated ==
    ASSUME KnownInv, WorkInv, InstallInv, at = "clean"
    PROVE  dir = Updated(was, unpacked)
<1>1. /\ was[App] \in Releases /\ current = Manifest[was[App]]
      /\ dir \in [Files -> Releases \cup {NoFile, User}]
      /\ installed = New
  BY DEF KnownInv, UpdaterTypeOK, FilesAreKnown, WorkInv, InstallInv, Working
<1>2. ASSUME NEW f \in Files PROVE dir[f] = Updated(was, unpacked)[f]
  BY <1>1 DEF Updated, New, InstallInv, Existing, Affected
<1>3. dir = [f \in Files |-> dir[f]] /\ Updated(was, unpacked) = [f \in Files |-> Updated(was, unpacked)[f]]
  BY <1>1 DEF Updated
<1> QED
  BY <1>2, <1>3

\* A rollback in which nothing failed restores every file.
LEMMA RolledBackIsWhole ==
    ASSUME KnownInv, RestoreInv, at = "restore", todo = {}, ~torn
    PROVE  dir = was
<1>1. /\ dir \in [Files -> Releases \cup {NoFile, User}]
      /\ was \in [Files -> Releases \cup {NoFile, User}]
  BY DEF KnownInv, UpdaterTypeOK
<1>2. \A f \in Files : dir[f] = was[f]
  BY DEF RestoreInv
<1> QED
  BY <1>1, <1>2

-----------------------------------------------------------------------------
(***************************************************************************)
(* The ends of an update, and its start.                                   *)
(***************************************************************************)
\* Before the first update nothing has been moved.
LEMMA InitIsKnown ==
    ASSUME UpdaterInit, dir \in [Files -> Releases \cup {NoFile, User}], ManagedIn(dir)
    PROVE  UpdaterInv
<1>1. KnownInv
  BY DEF UpdaterInit, KnownInv, UpdaterTypeOK, FilesAreKnown, Empty, Working
<1>2. RestInv
  BY DEF UpdaterInit, RestInv, UserFilesStay, InstallIsWhole
<1>3. WorkInv /\ StagedInv /\ BackupInv /\ LoopInv
  BY DEF UpdaterInit, WorkInv, Working, StagedInv, BackupInv, LoopInv, BackingUpInv,
         InstallInv, RemoveInv, RestoreInv
<1> QED
  BY <1>1, <1>2, <1>3 DEF UpdaterInv

\* An updater that ends with the directory in order leaves it so.
LEMMA ForgettingIsSafe ==
    ASSUME UpdaterInv, Forgets, UNCHANGED <<dir, was>>, torn' \in BOOLEAN,
           target' = target,
           ~torn' => \/ dir = was
                     \/ \E r \in Releases : /\ r.version = target.version
                                            /\ dir = Updated(was, r)
    PROVE  UpdaterInv'
<1>1. KnownInv'
  BY DEF UpdaterInv, Forgets, KnownInv, UpdaterTypeOK, FilesAreKnown, Empty, Working
<1>2. UserFilesStay /\ ManagedIn(dir)
  BY WorkLeavesUserFiles DEF UpdaterInv, RestInv
<1>3. RestInv'
  BY <1>2 DEF Forgets, RestInv, UserFilesStay, ManagedIn, InstallIsWhole, Updated
<1>4. (WorkInv /\ StagedInv /\ BackupInv /\ LoopInv)'
  BY DEF Forgets, WorkInv, Working, StagedInv, BackupInv, LoopInv, BackingUpInv,
         InstallInv, RemoveInv, RestoreInv
<1> QED
  BY <1>1, <1>3, <1>4 DEF UpdaterInv

\* The updater is started, and nothing has been moved.
LEMMA StartKeeps ==
    ASSUME UpdaterInv, NEW r \in Releases, StartUpdater(r)
    PROVE  UpdaterInv'
<1> USE DEF StartUpdater, workVars
<1>1. KnownInv'
  BY DEF UpdaterInv, KnownInv, UpdaterTypeOK, FilesAreKnown, Working
<1>2. UserFilesStay /\ ManagedIn(dir)
  BY DEF UpdaterInv, RestInv, Working
<1>3. RestInv'
  BY <1>2 DEF RestInv, UserFilesStay, ManagedIn, InstallIsWhole
<1>4. (WorkInv /\ StagedInv /\ BackupInv /\ LoopInv)'
  BY DEF WorkInv, Working, StagedInv, BackupInv, LoopInv, BackingUpInv, InstallInv,
         RemoveInv, RestoreInv
<1> QED
  BY <1>1, <1>3, <1>4 DEF UpdaterInv

\* The updater ends before it has moved a file.
LEMMA StoppingKeeps ==
    ASSUME UpdaterInv, at \in {"started", "verified", "prepared"}, Ends, UNCHANGED dir
    PROVE  UpdaterInv'
<1>1. dir = was /\ torn \in BOOLEAN
  BY DEF UpdaterInv, KnownInv, FilesAreKnown, UpdaterTypeOK
<1> QED
  BY <1>1, ForgettingIsSafe DEF Ends

\* The archive is verified, or the updater ends.
LEMMA VerifyArchiveKeeps ==
    ASSUME UpdaterInv, NEW archive, NEW ok \in BOOLEAN, VerifyArchive(archive, ok)
    PROVE  UpdaterInv'
<1>1. at = "started" /\ dir = was /\ dir' = dir
  BY DEF VerifyArchive, UpdaterInv, KnownInv, FilesAreKnown
<1>2. CASE ~(ok /\ dir[App] \in Releases /\ archive = target)
  BY <1>1, <1>2, StoppingKeeps DEF VerifyArchive
<1>3. CASE ok /\ dir[App] \in Releases /\ archive = target
  <2>1. /\ at' = "verified"
        /\ current' = Manifest[dir[App]]
        /\ UNCHANGED <<target, unpacked, was, torn, workVars>>
    BY <1>3 DEF VerifyArchive
  <2>2. UpdaterTypeOK'
    <3>1. current' \subseteq Files
      BY <1>3, <2>1, UpdaterAssumption
    <3> QED
      BY <1>1, <2>1, <3>1 DEF UpdaterInv, KnownInv, UpdaterTypeOK, workVars
  <2>3. FilesAreKnown'
    BY <1>1, <1>3, <2>1 DEF UpdaterInv, KnownInv, FilesAreKnown, Working
  <2>4. UserFilesStay /\ ManagedIn(dir)
    BY <1>1 DEF UpdaterInv, RestInv, Working
  <2>5. RestInv'
    BY <1>1, <2>1, <2>4 DEF RestInv, UserFilesStay, ManagedIn, InstallIsWhole
  <2>6. (WorkInv /\ StagedInv /\ BackupInv /\ LoopInv)'
    BY <2>1 DEF WorkInv, Working, StagedInv, BackupInv, LoopInv, BackingUpInv, InstallInv,
                RemoveInv, RestoreInv
  <2> QED
    BY <2>2, <2>3, <2>5, <2>6 DEF UpdaterInv, KnownInv
<1> QED
  BY <1>2, <1>3

\* The archive is unpacked, or the updater ends.
LEMMA UnpackKeeps ==
    ASSUME UpdaterInv, NEW archive, NEW ok \in BOOLEAN, Unpack(archive, ok)
    PROVE  UpdaterInv'
<1>1. at = "verified" /\ dir = was /\ dir' = dir
  BY DEF Unpack, UpdaterInv, KnownInv, FilesAreKnown
<1>2. CASE ~(ok /\ archive \in Releases /\ archive.version = target.version)
  BY <1>1, <1>2, StoppingKeeps DEF Unpack
<1>3. CASE ok /\ archive \in Releases /\ archive.version = target.version
  <2>1. /\ at' = "prepared"
        /\ unpacked' = archive
        /\ staged' = [f \in Files |-> IF f \in Manifest[archive] THEN archive ELSE NoFile]
        /\ UNCHANGED <<target, current, was, torn, backup, todo, backed_up, installed>>
    BY <1>3 DEF Unpack
  <2>2. Manifest[archive] \subseteq Files
    BY <1>3, UpdaterAssumption
  <2>3. UpdaterTypeOK'
    <3>1. staged' \in [Files -> Releases \cup {NoFile, User}]
      BY <1>3, <2>1
    <3> QED
      BY <1>1, <1>3, <2>1, <3>1 DEF UpdaterInv, KnownInv, UpdaterTypeOK
  <2>4. FilesAreKnown'
    BY <1>1, <1>3, <2>1 DEF UpdaterInv, KnownInv, FilesAreKnown, Working
  <2>5. UserFilesStay /\ ManagedIn(dir)
    BY <1>1 DEF UpdaterInv, RestInv, Working
  <2>6. RestInv'
    BY <1>1, <2>1, <2>5 DEF RestInv, UserFilesStay, ManagedIn, InstallIsWhole
  <2>7. StagedInv'
    BY <2>1, <2>2 DEF StagedInv, New
  <2>8. (WorkInv /\ BackupInv /\ LoopInv)'
    BY <2>1 DEF WorkInv, Working, BackupInv, LoopInv, BackingUpInv, InstallInv,
                RemoveInv, RestoreInv
  <2> QED
    BY <2>3, <2>4, <2>6, <2>7, <2>8 DEF UpdaterInv, KnownInv
<1> QED
  BY <1>2, <1>3

\* The files to back up are those that exist, unless a target collides.
LEMMA ParentGoneKeeps ==
    ASSUME UpdaterInv, ParentGone
    PROVE  UpdaterInv'
<1>1. CASE Collides
  BY <1>1, StoppingKeeps DEF ParentGone
<1>2. CASE ~Collides
  <2>1. /\ at = "prepared" /\ at' = "backup"
        /\ todo' = {f \in current \cup New : dir[f] # NoFile}
        /\ backed_up' = {} /\ installed' = {}
        /\ UNCHANGED <<dir, target, current, unpacked, was, torn, backup, staged>>
    BY <1>2 DEF ParentGone
  <2>2. /\ dir = was /\ unpacked \in Releases /\ New \subseteq Files /\ current \subseteq Files
        /\ was[App] \in Releases /\ current = Manifest[was[App]]
    BY <2>1, UpdaterAssumption
    DEF UpdaterInv, KnownInv, FilesAreKnown, UpdaterTypeOK, New
  <2>3. KnownInv'
    BY <2>1, <2>2 DEF UpdaterInv, KnownInv, UpdaterTypeOK, FilesAreKnown, Working
  <2>4. ManagedIn(was) /\ \A f \in New \ current : was[f] = NoFile
    BY <1>2, <2>1, <2>2 DEF UpdaterInv, RestInv, Working, Collides
  <2>5. WorkInv'
    BY <2>1, <2>2, <2>4 DEF WorkInv, ManagedIn, Affected, Existing, New
  <2>6. StagedInv' /\ BackupInv'
    BY <2>1 DEF UpdaterInv, StagedInv, BackupInv, New
  <2>7. LoopInv'
    BY <2>1, <2>2 DEF LoopInv, BackingUpInv, InstallInv, RemoveInv, RestoreInv,
                      Existing, Affected, New
  <2>8. RestInv'
    BY <2>1 DEF RestInv, Working
  <2> QED
    BY <2>3, <2>5, <2>6, <2>7, <2>8 DEF UpdaterInv
<1> QED
  BY <1>1, <1>2

\* An update that is complete leaves the release whole.
LEMMA CleanKeeps ==
    ASSUME UpdaterInv, Clean
    PROVE  UpdaterInv'
<1>1. /\ at = "clean" /\ torn \in BOOLEAN
      /\ unpacked \in Releases /\ unpacked.version = target.version
  BY DEF Clean, UpdaterInv, KnownInv, FilesAreKnown, UpdaterTypeOK, Working
<1>2. dir = Updated(was, unpacked)
  BY <1>1, FinishedIsUpdated DEF UpdaterInv, LoopInv
<1> QED
  BY <1>1, <1>2, ForgettingIsSafe DEF Clean, Ends

\* A rollback that is complete leaves what was there before.
LEMMA RolledBackKeeps ==
    ASSUME UpdaterInv, RolledBack
    PROVE  UpdaterInv'
<1>1. ~torn => dir = was
  BY RolledBackIsWhole DEF RolledBack, UpdaterInv, LoopInv
<1>2. torn \in BOOLEAN
  BY DEF UpdaterInv, KnownInv, UpdaterTypeOK
<1> QED
  BY <1>1, <1>2, ForgettingIsSafe DEF RolledBack, Ends

\* A kill leaves the files where they are, and the update torn.
LEMMA KilledKeeps ==
    ASSUME UpdaterInv, Killed
    PROVE  UpdaterInv'
  BY ForgettingIsSafe DEF Killed

-----------------------------------------------------------------------------
(***************************************************************************)
(* The steps that move files.                                              *)
(***************************************************************************)
\* What is common to them: the loop moves on, and the rest follows.
LEMMA MovingKeeps ==
    ASSUME UpdaterInv, at \in Working, at' \in Working, Stays \/ UNCHANGED <<target, current, unpacked, was>>,
           UpdaterTypeOK', WorkInv', StagedInv', BackupInv', LoopInv'
    PROVE  UpdaterInv'
<1>1. UNCHANGED <<target, current, unpacked, was>>
  BY DEF Stays
<1>2. FilesAreKnown'
  BY <1>1 DEF UpdaterInv, KnownInv, FilesAreKnown, Working
<1>3. RestInv'
  BY DEF RestInv
<1> QED
  BY <1>2, <1>3 DEF UpdaterInv, KnownInv

\* A step that fails begins the rollback with what is installed.
LEMMA FailingKeeps ==
    ASSUME UpdaterInv, at \in {"backup", "install"}, at' = "remove", todo' = installed,
           Stays, UNCHANGED <<dir, backup, staged, backed_up, installed>>
    PROVE  UpdaterInv'
<1>1. UpdaterTypeOK'
  BY DEF Stays, UpdaterInv, KnownInv, UpdaterTypeOK
<1>2. WorkInv'
  BY DEF Stays, UpdaterInv, WorkInv, Working, ManagedIn, Affected, Existing, New
<1>3. StagedInv' /\ BackupInv'
  BY DEF Stays, UpdaterInv, StagedInv, BackupInv
<1>4. \A f \in installed \ backed_up : was[f] = NoFile
  BY DEF UpdaterInv, WorkInv, Working, LoopInv, BackingUpInv, InstallInv, Existing, Affected
<1>5. RemoveInv'
  BY <1>4 DEF Stays, UpdaterInv, LoopInv, BackingUpInv, InstallInv, RemoveInv
<1>6. LoopInv'
  BY <1>5 DEF LoopInv, BackingUpInv, InstallInv, RestoreInv
<1> QED
  BY <1>1, <1>2, <1>3, <1>6, MovingKeeps DEF Working

\* One file is moved into the backup, or that fails.
LEMMA BackUpKeeps ==
    ASSUME UpdaterInv, NEW f \in Files, NEW ok \in BOOLEAN, BackUp(f, ok)
    PROVE  UpdaterInv'
<1>1. CASE ~ok
  BY <1>1, FailingKeeps DEF BackUp
<1>2. CASE ok
  <2>1. /\ at = "backup" /\ f \in todo
        /\ backup' = [backup EXCEPT ![f] = dir[f]]
        /\ dir' = [dir EXCEPT ![f] = NoFile]
        /\ todo' = todo \ {f} /\ backed_up' = backed_up \cup {f}
        /\ UNCHANGED <<at, staged, installed, target, current, unpacked, was, torn>>
    BY <1>2 DEF BackUp, Stays
  <2>2. UpdaterTypeOK'
    BY <2>1 DEF UpdaterInv, KnownInv, UpdaterTypeOK
  <2>3. f \in Existing \ backed_up /\ dir[f] = was[f]
    BY <2>1 DEF UpdaterInv, LoopInv, BackingUpInv
  <2>4. \A g \in Files : dir'[g] = IF g = f THEN NoFile ELSE dir[g]
    BY <2>1 DEF UpdaterInv, KnownInv, UpdaterTypeOK
  <2>5. \A g \in Files : backup'[g] = IF g = f THEN dir[f] ELSE backup[g]
    BY <2>1 DEF UpdaterInv, KnownInv, UpdaterTypeOK
  <2>6. WorkInv'
    BY <2>1, <2>3, <2>4
    DEF UpdaterInv, WorkInv, Working, ManagedIn, Affected, Existing, New
  <2>7. StagedInv'
    BY <2>1 DEF UpdaterInv, StagedInv, New
  <2>8. BackupInv'
    BY <2>1, <2>3, <2>5 DEF UpdaterInv, KnownInv, UpdaterTypeOK, BackupInv
  <2>9. LoopInv'
    BY <2>1, <2>3, <2>4
    DEF UpdaterInv, LoopInv, BackingUpInv, InstallInv, RemoveInv, RestoreInv,
        Existing, Affected, New
  <2> QED
    BY <2>1, <2>2, <2>6, <2>7, <2>8, <2>9, MovingKeeps DEF Working
<1> QED
  BY <1>1, <1>2

\* All files are backed up, and the new ones are to be installed.
LEMMA BackedUpKeeps ==
    ASSUME UpdaterInv, BackedUp
    PROVE  UpdaterInv'
<1>1. /\ at = "backup" /\ todo = {} /\ at' = "install" /\ todo' = New
      /\ UNCHANGED <<dir, backup, staged, backed_up, installed, target, current, unpacked, was, torn>>
  BY DEF BackedUp, Stays
<1>2. New \subseteq Files
  BY <1>1, UpdaterAssumption DEF UpdaterInv, KnownInv, FilesAreKnown, Working, New
<1>3. UpdaterTypeOK'
  BY <1>1, <1>2 DEF UpdaterInv, KnownInv, UpdaterTypeOK
<1>4. WorkInv'
  BY <1>1 DEF UpdaterInv, WorkInv, Working, ManagedIn, Affected, Existing, New
<1>5. StagedInv' /\ BackupInv'
  BY <1>1 DEF UpdaterInv, StagedInv, BackupInv, New
<1>6. backed_up = Existing /\ installed = {}
  BY <1>1 DEF UpdaterInv, WorkInv, Working, LoopInv, BackingUpInv
<1>7. LoopInv'
  BY <1>1, <1>6
  DEF UpdaterInv, LoopInv, BackingUpInv, InstallInv, RemoveInv, RestoreInv, Existing,
      Affected, New
<1> QED
  BY <1>1, <1>3, <1>4, <1>5, <1>7, MovingKeeps DEF Working

\* One new file is moved in, or that fails.
LEMMA InstallKeeps ==
    ASSUME UpdaterInv, NEW f \in Files, NEW ok \in BOOLEAN, Install(f, ok)
    PROVE  UpdaterInv'
<1>1. CASE ~ok
  BY <1>1, FailingKeeps DEF Install
<1>2. CASE ok
  <2>1. /\ at = "install" /\ f \in todo
        /\ dir' = [dir EXCEPT ![f] = staged[f]]
        /\ staged' = [staged EXCEPT ![f] = NoFile]
        /\ todo' = todo \ {f} /\ installed' = installed \cup {f}
        /\ UNCHANGED <<at, backup, backed_up, target, current, unpacked, was, torn>>
    BY <1>2 DEF Install, Stays
  <2>2. UpdaterTypeOK'
    BY <2>1 DEF UpdaterInv, KnownInv, UpdaterTypeOK
  <2>3. f \in New \ installed /\ staged[f] = unpacked
    BY <2>1 DEF UpdaterInv, LoopInv, InstallInv, StagedInv
  <2>4. \A g \in Files : dir'[g] = IF g = f THEN unpacked ELSE dir[g]
    BY <2>1, <2>3 DEF UpdaterInv, KnownInv, UpdaterTypeOK
  <2>5. \A g \in Files : staged'[g] = IF g = f THEN NoFile ELSE staged[g]
    BY <2>1 DEF UpdaterInv, KnownInv, UpdaterTypeOK
  <2>6. WorkInv'
    BY <2>1, <2>3, <2>4
    DEF UpdaterInv, WorkInv, Working, ManagedIn, Affected, Existing, New
  <2>7. StagedInv'
    BY <2>1, <2>5 DEF UpdaterInv, KnownInv, UpdaterTypeOK, StagedInv
  <2>8. BackupInv'
    BY <2>1 DEF UpdaterInv, BackupInv
  <2>9. LoopInv'
    BY <2>1, <2>3, <2>4
    DEF UpdaterInv, LoopInv, BackingUpInv, InstallInv, RemoveInv, RestoreInv,
        Existing, Affected, New
  <2> QED
    BY <2>1, <2>2, <2>6, <2>7, <2>8, <2>9, MovingKeeps DEF Working
<1> QED
  BY <1>1, <1>2

\* The application is started again, or all is undone.
LEMMA RestartKeeps ==
    ASSUME UpdaterInv, NEW ok \in BOOLEAN, Restart(ok)
    PROVE  UpdaterInv'
<1>1. CASE ~ok
  BY <1>1, FailingKeeps DEF Restart
<1>2. CASE ok
  <2>1. /\ at = "install" /\ todo = {} /\ at' = "clean"
        /\ UNCHANGED <<todo, dir, backup, staged, backed_up, installed, target, current, unpacked, was,
                       torn>>
    BY <1>2 DEF Restart, Stays
  <2>2. UpdaterTypeOK'
    BY <2>1 DEF UpdaterInv, KnownInv, UpdaterTypeOK
  <2>3. WorkInv'
    BY <2>1 DEF UpdaterInv, WorkInv, Working, ManagedIn, Affected, Existing, New
  <2>4. StagedInv' /\ BackupInv'
    BY <2>1 DEF UpdaterInv, StagedInv, BackupInv
  <2>5. LoopInv'
    BY <2>1 DEF UpdaterInv, LoopInv, BackingUpInv, InstallInv, RemoveInv, RestoreInv,
                Existing, Affected, New
  <2> QED
    BY <2>1, <2>2, <2>3, <2>4, <2>5, MovingKeeps DEF Working
<1> QED
  BY <1>1, <1>2

\* The rollback removes one file, and goes on if it cannot.
LEMMA RemoveKeeps ==
    ASSUME UpdaterInv, NEW f \in Files, NEW ok \in BOOLEAN, Remove(f, ok)
    PROVE  UpdaterInv'
<1>1. /\ at = "remove" /\ f \in todo
      /\ dir' = IF ok THEN [dir EXCEPT ![f] = NoFile] ELSE dir
      /\ torn' = (torn \/ ~ok) /\ todo' = todo \ {f}
      /\ UNCHANGED <<at, target, current, unpacked, was, backup, staged, backed_up, installed>>
  BY DEF Remove
<1>2. UpdaterTypeOK'
  BY <1>1 DEF UpdaterInv, KnownInv, UpdaterTypeOK
<1>3. f \in installed /\ f \in New
  BY <1>1 DEF UpdaterInv, LoopInv, RemoveInv, WorkInv, Working
<1>4. \A g \in Files : dir'[g] = IF ok /\ g = f THEN NoFile ELSE dir[g]
  BY <1>1 DEF UpdaterInv, KnownInv, UpdaterTypeOK
<1>5. WorkInv'
  BY <1>1, <1>3, <1>4
  DEF UpdaterInv, WorkInv, Working, ManagedIn, Affected, Existing, New
<1>6. StagedInv' /\ BackupInv'
  BY <1>1 DEF UpdaterInv, StagedInv, BackupInv
<1>7. LoopInv'
  BY <1>1, <1>3, <1>4
  DEF UpdaterInv, KnownInv, UpdaterTypeOK, LoopInv, BackingUpInv, InstallInv, RemoveInv,
      RestoreInv
<1> QED
  BY <1>1, <1>2, <1>5, <1>6, <1>7, MovingKeeps DEF Working

\* All installed files have been visited, and the backup is to be restored.
LEMMA RemovedKeeps ==
    ASSUME UpdaterInv, Removed
    PROVE  UpdaterInv'
<1>1. /\ at = "remove" /\ todo = {} /\ at' = "restore" /\ todo' = backed_up
      /\ UNCHANGED <<dir, backup, staged, backed_up, installed, target, current, unpacked, was, torn>>
  BY DEF Removed, Stays
<1>2. UpdaterTypeOK'
  BY <1>1 DEF UpdaterInv, KnownInv, UpdaterTypeOK
<1>3. WorkInv'
  BY <1>1 DEF UpdaterInv, WorkInv, Working, ManagedIn, Affected, Existing, New
<1>4. StagedInv' /\ BackupInv'
  BY <1>1 DEF UpdaterInv, StagedInv, BackupInv
<1>5. LoopInv'
  BY <1>1
  DEF UpdaterInv, LoopInv, BackingUpInv, InstallInv, RemoveInv, RestoreInv
<1> QED
  BY <1>1, <1>2, <1>3, <1>4, <1>5, MovingKeeps DEF Working

\* The rollback restores one file, and goes on if it cannot.
LEMMA RestoreKeeps ==
    ASSUME UpdaterInv, NEW f \in Files, NEW ok \in BOOLEAN, Restore(f, ok)
    PROVE  UpdaterInv'
<1>1. /\ at = "restore" /\ f \in todo
      /\ dir' = IF ok THEN [dir EXCEPT ![f] = backup[f]] ELSE dir
      /\ backup' = IF ok THEN [backup EXCEPT ![f] = NoFile] ELSE backup
      /\ torn' = (torn \/ ~ok) /\ todo' = todo \ {f}
      /\ UNCHANGED <<at, target, current, unpacked, was, staged, backed_up, installed>>
  BY DEF Restore
<1>2. UpdaterTypeOK'
  BY <1>1 DEF UpdaterInv, KnownInv, UpdaterTypeOK
<1>3. backup[f] = was[f] /\ f \in Affected
  BY <1>1
  DEF UpdaterInv, BackupInv, LoopInv, RestoreInv, WorkInv, Working, Existing
<1>4. \A g \in Files : dir'[g] = IF ok /\ g = f THEN was[f] ELSE dir[g]
  BY <1>1, <1>3 DEF UpdaterInv, KnownInv, UpdaterTypeOK
<1>5. \A g \in Files : g # f => backup'[g] = backup[g]
  BY <1>1 DEF UpdaterInv, KnownInv, UpdaterTypeOK
<1>6. WorkInv'
  BY <1>1, <1>3, <1>4
  DEF UpdaterInv, WorkInv, Working, ManagedIn, Affected, Existing, New
<1>7. StagedInv'
  BY <1>1 DEF UpdaterInv, StagedInv
<1>8. BackupInv'
  BY <1>1, <1>5 DEF UpdaterInv, KnownInv, UpdaterTypeOK, BackupInv
<1>9. LoopInv'
  BY <1>1, <1>3, <1>4
  DEF UpdaterInv, KnownInv, UpdaterTypeOK, LoopInv, BackingUpInv, InstallInv, RemoveInv,
      RestoreInv
<1> QED
  BY <1>1, <1>2, <1>6, <1>7, <1>8, <1>9, MovingKeeps DEF Working

\* Every step that moves files keeps the invariant.
LEMMA MovesKeep ==
    ASSUME UpdaterInv, Moves
    PROVE  UpdaterInv'
  BY BackUpKeeps, InstallKeeps, RemoveKeeps, RestoreKeeps, BackedUpKeeps, RemovedKeeps,
     RolledBackKeeps
  DEF Moves

\* Whoever does not touch the updater's state leaves the invariant alone.
LEMMA OthersKeep ==
    ASSUME UpdaterInv, UNCHANGED <<dir, workVars, runVars>>
    PROVE  UpdaterInv'
<1> USE DEF workVars, runVars
<1>1. KnownInv'
  BY DEF UpdaterInv, KnownInv, UpdaterTypeOK, FilesAreKnown
<1>2. RestInv'
  BY DEF UpdaterInv, RestInv, UserFilesStay, ManagedIn, InstallIsWhole, Updated
<1>3. WorkInv'
  BY DEF UpdaterInv, WorkInv, ManagedIn, Affected, Existing, New
<1>4. StagedInv' /\ BackupInv'
  BY DEF UpdaterInv, StagedInv, BackupInv, New
<1>5. LoopInv'
  BY DEF UpdaterInv, LoopInv, BackingUpInv, InstallInv, RemoveInv, RestoreInv, Existing,
         Affected, New
<1> QED
  BY <1>1, <1>2, <1>3, <1>4, <1>5 DEF UpdaterInv

\* The user's files are where they were, and the directory is whole, in every
\* state of the invariant.
LEMMA InvIsEnough ==
    ASSUME UpdaterInv
    PROVE  UpdaterTypeOK /\ UserFilesStay /\ InstallIsWhole
<1>1. UserFilesStay
  BY WorkLeavesUserFiles DEF UpdaterInv, RestInv
<1>2. InstallIsWhole
  BY DEF UpdaterInv, RestInv, InstallIsWhole, Working
<1> QED
  BY <1>1, <1>2 DEF UpdaterInv, KnownInv

-----------------------------------------------------------------------------
(***************************************************************************)
(* The application around the updater.                                     *)
(***************************************************************************)

\* What the threads hand to each other is a release, so that the updater is
\* started for one.
ReleasesKnown ==
    /\ latest \in Releases
    /\ release \in Releases \cup {NoRelease}
    /\ install = [at |-> install.at, release |-> install.release, path |-> install.path]
    /\ install.at # "idle" => install.release \in Releases

UpdateInv == UpdaterInv /\ ReleasesKnown

\* The updater's state but for the count of its failures.
updaterState == <<dir, workVars, runVars>>

-----------------------------------------------------------------------------
\* The application starts with one release installed and no updater.
LEMMA UpdateInitEstablishes == UpdateInit => UpdateInv
<1> SUFFICES ASSUME UpdateInit PROVE UpdateInv
  OBVIOUS
<1>1. dir \in [Files -> Releases \cup {NoFile, User}]
  BY AppUpdateAssumption DEF UpdateInit
<1>2. ManagedIn(dir)
  BY DEF UpdateInit, ManagedIn
<1>3. UpdaterInv
  BY <1>1, <1>2, InitIsKnown DEF UpdateInit
<1>4. ReleasesKnown
  BY AppUpdateAssumption DEF UpdateInit, ReleasesKnown, NoInstall
<1> QED
  BY <1>3, <1>4 DEF UpdateInv

\* A step of the application that leaves the updater alone.
LEMMA AloneKeeps ==
    ASSUME UpdateInv, UNCHANGED updaterState, ReleasesKnown'
    PROVE  UpdateInv'
  BY OthersKeep DEF UpdateInv, updaterState

\* A check offers a release or none.
LEMMA CheckKeeps ==
    ASSUME UpdateInv, BeginCheck \/ EndCheck \/ CheckFails
    PROVE  UpdateInv'
<1>1. UNCHANGED updaterState
  BY DEF BeginCheck, EndCheck, CheckFails, OnlyFlags, updaterVars, updaterState
<1>2. UNCHANGED <<latest, install>>
  BY DEF BeginCheck, EndCheck, CheckFails, OnlyFlags, serverVars, threadVars
<1>3. release' \in {release, latest, NoRelease}
  BY DEF BeginCheck, EndCheck, CheckFails
<1>4. ReleasesKnown'
  BY <1>2, <1>3 DEF UpdateInv, ReleasesKnown
<1> QED
  BY <1>1, <1>4, AloneKeeps

\* A download does not touch the install directory.
LEMMA DownloadKeeps ==
    ASSUME UpdateInv, BeginDownload \/ DownloadThread
    PROVE  UpdateInv'
<1>1. UNCHANGED updaterState
  BY DEF BeginDownload, DownloadThread, Look, Refused, Breaks, Receive, Replace, Rename,
         Cleanup, EndDownload, OnlyFlags, Fetches, updaterVars, updaterState
<1>2. UNCHANGED <<latest, release, install>>
  BY DEF BeginDownload, DownloadThread, Look, Refused, Breaks, Receive, Replace, Rename,
         Cleanup, EndDownload, OnlyFlags, Fetches, serverVars, flagVars
<1>3. ReleasesKnown'
  BY <1>2 DEF UpdateInv, ReleasesKnown
<1> QED
  BY <1>1, <1>3, AloneKeeps

\* What is installed is the release on offer.
LEMMA BeginInstallKeeps ==
    ASSUME UpdateInv, BeginInstall
    PROVE  UpdateInv'
<1>1. UNCHANGED updaterState
  BY DEF BeginInstall, OnlyFlags, updaterVars, updaterState
<1>2. ReleasesKnown'
  BY DEF BeginInstall, OnlyFlags, serverVars, UpdateInv, ReleasesKnown
<1> QED
  BY <1>1, <1>2, AloneKeeps

\* The verification goes on with that release, or ends.
LEMMA VerifyKeeps ==
    ASSUME UpdateInv, Verify \/ LaunchFails
    PROVE  UpdateInv'
<1>1. UNCHANGED updaterState
  BY DEF Verify, LaunchFails, updaterVars, updaterState
<1>2. UNCHANGED <<latest, release>>
  BY DEF Verify, LaunchFails, InstallFails, serverVars, flagVars
<1>3. install.at # "idle"
  BY DEF Verify, LaunchFails
<1>4. install' = NoInstall \/ install' = [install EXCEPT !.at = "launch"]
  BY DEF Verify, LaunchFails, InstallFails
<1>5. /\ install' = [at |-> install'.at, release |-> install'.release, path |-> install'.path]
      /\ install'.at # "idle" => install'.release \in Releases
  BY <1>3, <1>4 DEF UpdateInv, ReleasesKnown, NoInstall
<1>6. ReleasesKnown'
  BY <1>2, <1>5 DEF UpdateInv, ReleasesKnown
<1> QED
  BY <1>1, <1>6, AloneKeeps

\* The updater is started for a release.
LEMMA LaunchKeeps ==
    ASSUME UpdateInv, Launch
    PROVE  UpdateInv'
<1>1. install.release \in Releases
  BY DEF Launch, UpdateInv, ReleasesKnown
<1>2. UpdaterInv'
  BY <1>1, StartKeeps DEF Launch, UpdateInv
<1>3. ReleasesKnown'
  BY DEF Launch, UpdateInv, ReleasesKnown, NoInstall, serverVars, flagVars
<1> QED
  BY <1>2, <1>3 DEF UpdateInv

\* A process that ends or starts leaves the updater alone.
LEMMA ExitStartKeeps ==
    ASSUME UpdateInv, Exit \/ Start
    PROVE  UpdateInv'
<1>1. UNCHANGED updaterState
  BY DEF Exit, Start, updaterVars, updaterState
<1>2. ReleasesKnown'
  BY DEF Exit, Start, serverVars, flagVars, threadVars, NoInstall, UpdateInv, ReleasesKnown
<1> QED
  BY <1>1, <1>2, AloneKeeps

\* The server publishes releases only.
LEMMA PublishKeeps ==
    ASSUME UpdateInv, NEW r \in Releases, Publish(r)
    PROVE  UpdateInv'
<1>1. UNCHANGED updaterState
  BY DEF Publish, updaterVars, updaterState
<1>2. ReleasesKnown'
  BY DEF Publish, flagVars, threadVars, UpdateInv, ReleasesKnown
<1> QED
  BY <1>1, <1>2, AloneKeeps

\* The updater works beside the application, and knows its releases.
LEMMA UpdaterKeeps ==
    ASSUME UpdateInv, Updater
    PROVE  UpdateInv'
<1>1. ReleasesKnown'
  <2>1. UNCHANGED <<latest, release, install>>
    BY DEF Updater, OnlyUpdater, updateVars, serverVars, flagVars, threadVars
  <2> QED
    BY <2>1 DEF UpdateInv, ReleasesKnown
<1>2. UpdaterInv'
  <2>1. CASE \E ok \in BOOLEAN : VerifyArchive(Archive, ok) \/ Unpack(Archive, ok)
    BY <2>1, VerifyArchiveKeeps, UnpackKeeps DEF UpdateInv
  <2>2. CASE GivesUp
    BY <2>2, StoppingKeeps DEF GivesUp, UpdateInv
  <2>3. CASE ParentGone
    BY <2>3, ParentGoneKeeps DEF UpdateInv
  <2>4. CASE Moves
    BY <2>4, MovesKeep DEF UpdateInv
  <2>5. CASE \E ok \in BOOLEAN : Restart(ok)
    BY <2>5, RestartKeeps DEF UpdateInv
  <2>6. CASE Clean
    BY <2>6, CleanKeeps DEF UpdateInv
  <2>7. CASE Killed
    BY <2>7, KilledKeeps DEF UpdateInv
  <2> QED
    BY <2>1, <2>2, <2>3, <2>4, <2>5, <2>6, <2>7 DEF Updater
<1> QED
  BY <1>1, <1>2 DEF UpdateInv

\* Every step of the whole keeps the invariant.
LEMMA UpdateNextKeeps == UpdateInv /\ [UpdateNext]_vars => UpdateInv'
<1> SUFFICES ASSUME UpdateInv, [UpdateNext]_vars PROVE UpdateInv'
  OBVIOUS
<1>1. CASE UNCHANGED vars
  <2>1. UNCHANGED updaterState /\ UNCHANGED <<latest, release, install>>
    BY <1>1 DEF vars, updateVars, updaterVars, updaterState, serverVars, flagVars, threadVars
  <2>2. ReleasesKnown'
    BY <2>1 DEF UpdateInv, ReleasesKnown
  <2> QED
    BY <2>1, <2>2, AloneKeeps
<1>2. CASE UpdateNext
  BY <1>2, CheckKeeps, DownloadKeeps, BeginInstallKeeps, VerifyKeeps, LaunchKeeps,
     ExitStartKeeps, UpdaterKeeps, PublishKeeps
  DEF UpdateNext
<1> QED
  BY <1>1, <1>2

\* The invariant of the updater and the application holds in every state.
THEOREM UpdatesAreSafe == UpdateSpec => []UpdateInv
  BY UpdateInitEstablishes, UpdateNextKeeps, PTL DEF UpdateSpec

\* Type correctness of the updater of portable_updater.rs and its directories.
THEOREM UpdaterTypes == UpdateSpec => []UpdaterTypeOK
<1>1. UpdateInv => UpdaterTypeOK
  BY InvIsEnough DEF UpdateInv
<1> QED
  BY <1>1, UpdatesAreSafe, PTL

\* The test managed_update_preserves_unknown_files, for any files and releases:
\* no update, completed, rolled back, failed in its rollback or killed, touches a
\* file of the user's.
THEOREM UserFilesAreKept == UpdateSpec => []UserFilesStay
<1>1. UpdateInv => UserFilesStay
  BY InvIsEnough DEF UpdateInv
<1> QED
  BY <1>1, UpdatesAreSafe, PTL

\* apply_update is all or nothing, whichever of its steps fails: once no updater
\* runs, the install directory is as it was or as a package of the target's version
\* makes it.
THEOREM UpdatesAreAtomic == UpdateSpec => []InstallIsWhole
<1>1. UpdateInv => InstallIsWhole
  BY InvIsEnough DEF UpdateInv
<1> QED
  BY <1>1, UpdatesAreSafe, PTL

-----------------------------------------------------------------------------
(***************************************************************************)
(* What was verified stays.  A download may run on while a package is      *)
(* installed, but then it is the same release: a check that ends between   *)
(* forgets what was downloaded, and no second download begins.  An updater *)
(* of an earlier process may only remove the package.                      *)
(***************************************************************************)
\* The threads and the flags that keep them apart.
ThreadsInv ==
    /\ download = [at |-> download.at, release |-> download.release]
    /\ download.at # "idle" => download.release \in Releases
    /\ {up, installing, downloading, parent, wiped} \subseteq BOOLEAN
    /\ downloading <=> download.at # "idle"
    /\ install.at \in {"idle", "verify", "launch"}
    /\ install.at # "idle" => installing /\ install.path \in Versions
    /\ install.at = "launch" => install.path = install.release.version
    /\ downloaded \in Versions \cup {0}
    /\ download.at # "idle" /\ downloaded # 0 => Wanted = release
    /\ download.at # "idle" /\ install.at # "idle" => Wanted = install.release

\* The files the threads share: a package lies under its own version, and a
\* download replaces one only to put the wanted release in its place.
PackagesInv ==
    /\ package \in [Versions -> Releases \cup {NoFile}]
    /\ DOMAIN part = Versions
    /\ \A v \in Versions : package[v] # NoFile => package[v].version = v
    /\ download.at \in {"replace", "rename"} => Kept.of = Wanted
    /\ download.at \in {"request", "replace", "rename"} => package[Name] # Wanted

\* A process that has ended has no threads.
RunningInv ==
    ~up => release = NoRelease /\ install.at = "idle" /\ download.at = "idle"

\* The updater that has been started finds its archive as long as the process that
\* started it runs.
HandedOver == at \in {"started", "verified"} /\ parent

HandedInv ==
    HandedOver =>
        /\ install.at = "idle" /\ installing
        /\ download.at # "idle" => Wanted = target

VerifyInv == ThreadsInv /\ PackagesInv /\ RunningInv /\ HandedInv /\ VerifiedStays

\* What the steps of one part leave alone.
verifyVars == <<up, parent, wiped, installing, downloading, release, downloaded, download,
                install, package, part, at, target>>

\* Where nothing of it changes the invariant stays.
LEMMA VerifyInvStutters ==
    ASSUME VerifyInv, UNCHANGED verifyVars
    PROVE  VerifyInv'
BY DEF VerifyInv, ThreadsInv, PackagesInv, RunningInv, HandedInv, VerifiedStays, verifyVars,
       HandedOver, Wanted, Name, Kept, StillThere

\* A check that ends forgets what was downloaded, and offers newer releases only.
LEMMA CheckKeepsVerified ==
    ASSUME UpdateInv, VerifyInv, BeginCheck \/ EndCheck \/ CheckFails
    PROVE  VerifyInv'
<1>1. CASE BeginCheck \/ CheckFails
  BY <1>1, VerifyInvStutters
     DEF runVars, BeginCheck, CheckFails, OnlyFlags, fileVars, appVars, updaterVars, threadVars,
         verifyVars
<1>2. CASE EndCheck
  <2>1. /\ UNCHANGED <<up, parent, wiped, installing, downloading, download, install, package,
                       part, at, target>>
        /\ release' = IF latest.version > Running THEN latest ELSE NoRelease
        /\ downloaded' = 0 /\ up
    BY <1>2 DEF runVars, EndCheck, OnlyFlags, fileVars, appVars, updaterVars, threadVars
  <2>2. ThreadsInv'
    BY <2>1 DEF VerifyInv, ThreadsInv, Wanted
  <2>3. PackagesInv'
    BY <2>1 DEF VerifyInv, PackagesInv, Wanted, Name, Kept
  <2>4. RunningInv'
    BY <2>1 DEF VerifyInv, RunningInv
  <2>5. HandedInv' /\ VerifiedStays'
    BY <2>1 DEF VerifyInv, HandedInv, HandedOver, VerifiedStays, Wanted, StillThere
  <2>. QED
    BY <2>2, <2>3, <2>4, <2>5 DEF VerifyInv
<1>. QED
  BY <1>1, <1>2

\* A download begins for the release that is offered, and not during an
\* installation.
LEMMA BeginDownloadKeepsVerified ==
    ASSUME UpdateInv, VerifyInv, BeginDownload
    PROVE  VerifyInv'
<1>1. /\ UNCHANGED <<up, parent, wiped, installing, release, downloaded, install, package, part,
                     at, target>>
      /\ downloading' = TRUE /\ download' = [at |-> "look", release |-> release]
      /\ up /\ ~installing /\ release # NoRelease
  BY DEF runVars, BeginDownload, OnlyFlags, fileVars, appVars, updaterVars
<1>2. release \in Releases
  BY <1>1 DEF UpdateInv, ReleasesKnown
<1>3. install.at = "idle" /\ ~HandedOver
  BY <1>1 DEF VerifyInv, ThreadsInv, HandedInv
<1>4. ThreadsInv'
  BY <1>1, <1>2, <1>3 DEF VerifyInv, ThreadsInv, Wanted
<1>5. PackagesInv'
  BY <1>1 DEF VerifyInv, PackagesInv, Wanted, Name, Kept
<1>6. RunningInv'
  BY <1>1 DEF VerifyInv, RunningInv
<1>7. HandedInv' /\ VerifiedStays'
  BY <1>1, <1>3 DEF VerifyInv, HandedInv, HandedOver, VerifiedStays
<1>. QED
  BY <1>4, <1>5, <1>6, <1>7 DEF VerifyInv

\* A download's own steps, for what they make of the two files.
LEMMA DownloadStepKeepsVerified ==
    ASSUME UpdateInv, VerifyInv, NEW to,
           up, download.at # "idle", to # "idle",
           download' = [download EXCEPT !.at = to],
           UNCHANGED <<up, parent, wiped, installing, downloading, release, downloaded, install,
                       at, target>>,
           PackagesInv', VerifiedStays'
    PROVE  VerifyInv'
<1>1. download'.at = to /\ download'.release = download.release
      /\ download' = [at |-> download'.at, release |-> download'.release]
  BY DEF VerifyInv, ThreadsInv
<1>2. Wanted' = Wanted
  BY <1>1 DEF Wanted
<1>3. ThreadsInv'
  BY <1>1, <1>2 DEF VerifyInv, ThreadsInv
<1>4. RunningInv'
  BY <1>1 DEF VerifyInv, RunningInv
<1>5. HandedInv'
  BY <1>1, <1>2 DEF VerifyInv, HandedInv, HandedOver
<1>. QED
  BY <1>3, <1>4, <1>5 DEF VerifyInv

\* The download's thread removes a package only when it is not what is wanted,
\* which is what an installation that runs meanwhile has verified.
LEMMA DownloadKeepsVerified ==
    ASSUME UpdateInv, VerifyInv, DownloadThread
    PROVE  VerifyInv'
<1>0. /\ up /\ download.at # "idle" /\ Wanted \in Releases /\ Name \in Versions
      /\ Wanted # NoFile
  <2>1. up /\ download.at # "idle"
    BY DEF DownloadThread, Look, Refused, Breaks, Receive, Replace, Rename, Cleanup,
           EndDownload, DownloadAt
  <2>2. Wanted \in Releases
    BY <2>1 DEF VerifyInv, ThreadsInv, Wanted
  <2>. QED
    BY <2>1, <2>2, UpdaterAssumption DEF Name, Versions
<1>1. /\ install.at = "launch" => Wanted = install.release /\ install.path = Name
      /\ HandedOver => Wanted = target /\ target.version = Name
  BY <1>0 DEF VerifyInv, ThreadsInv, HandedInv, Name
<1>2. /\ install.at = "launch" => StillThere(Name, Wanted)
      /\ HandedOver => StillThere(Name, Wanted)
  BY <1>1 DEF VerifyInv, VerifiedStays, HandedOver
<1>. DEFINE Others == UNCHANGED <<up, parent, wiped, installing, downloading, release,
                                  downloaded, install, at, target>>
<1>3. CASE Look \/ Refused \/ Breaks \/ Receive
  <2>1. Others /\ UNCHANGED package
    BY <1>3 DEF runVars, Look, Refused, Breaks, Receive, Fetches, flagVars, appVars, fileVars
  <2>2. DOMAIN part' = Versions
    BY <1>3 DEF Look, Refused, Breaks, Receive, fileVars, VerifyInv, PackagesInv
  <2>3. PICK to \in {"done", "replace", "request", "failed"} :
            download' = [download EXCEPT !.at = to]
    BY <1>3 DEF Look, Refused, Breaks, Receive, DownloadAt
  <2>4. download'.at = to /\ Wanted' = Wanted /\ Name' = Name
    BY <2>3 DEF VerifyInv, ThreadsInv, Wanted, Name
  <2>9. \A x : [download EXCEPT !.at = x].at = x
    BY DEF VerifyInv, ThreadsInv
  <2>5. to = "replace" => part'[Name].of = Wanted
    <3>1. CASE Look
      <4>1. download'.at = "replace" => part' = part /\ part[Name].of = Wanted
        BY <2>9, <3>1, Zenon DEF Look, DownloadAt, Kept, fileVars
      <4>. QED
        BY <2>4, <4>1
    <3>2. CASE Receive
      <4>. DEFINE len  == IF Size[Served] < Size[Wanted] THEN Size[Served] ELSE Size[Wanted]
                  file == Continued(len)
                  good == Size[Served] = Size[Wanted] /\ file.of = Wanted
      <4>1. download' = [download EXCEPT !.at = IF good THEN "replace" ELSE "failed"]
        BY <3>2, Zenon DEF Receive, DownloadAt
      <4>2. part' = [part EXCEPT ![Name] = file]
        BY <3>2, Zenon DEF Receive
      <4>3. to = "replace" => file.of = Wanted
        BY <2>4, <2>9, <4>1, Zenon
      <4>4. part'[Name] = file
        <5>. HIDE DEF file
        <5>. QED
          BY <1>0, <4>2 DEF VerifyInv, PackagesInv
      <4>. QED
        BY <4>3, <4>4, Zenon
    <3>3. CASE Refused \/ Breaks
      BY <2>4, <3>3 DEF Refused, Breaks, DownloadAt, VerifyInv, ThreadsInv
    <3>. QED
      BY <1>3, <3>1, <3>2, <3>3
  <2>6. to \in {"request", "replace"} => package[Name] # Wanted
    <3>1. CASE Look
      <4>1. download'.at \in {"request", "replace"} => package[Name] # Wanted
        BY <2>9, <3>1, Zenon DEF Look, DownloadAt
      <4>. QED
        BY <2>4, <4>1
    <3>2. CASE Refused \/ Breaks \/ Receive
      BY <3>2 DEF Refused, Breaks, Receive, DownloadAt, VerifyInv, PackagesInv
    <3>. QED
      BY <1>3, <3>1, <3>2
  <2>7. PackagesInv'
    BY <2>1, <2>2, <2>4, <2>5, <2>6 DEF VerifyInv, PackagesInv, Kept
  <2>8. VerifiedStays'
    BY <2>1 DEF VerifyInv, VerifiedStays, StillThere
  <2>. QED
    BY <1>0, <2>1, <2>3, <2>7, <2>8, DownloadStepKeepsVerified
<1>4. CASE \E ok \in BOOLEAN : Replace(ok) \/ Rename(ok)
  <2>0. PICK ok \in BOOLEAN : Replace(ok) \/ Rename(ok)
    BY <1>4
  <2>1. /\ Others /\ Kept.of = Wanted /\ package[Name] # Wanted
        /\ install.at = "launch" \/ HandedOver => wiped /\ package[Name] = NoFile
    BY <1>2, <2>0 DEF runVars, Replace, Rename, DownloadAt, Fetches, flagVars, appVars, VerifyInv,
                      PackagesInv, StillThere
  <2>2. PICK to \in {"rename", "failed", "cleanup"} :
            /\ download' = [download EXCEPT !.at = to]
            /\ to = "rename" => Replace(ok) /\ ok
    BY <2>0 DEF Replace, Rename, DownloadAt
  <2>3. download'.at = to /\ Wanted' = Wanted /\ Name' = Name
    BY <2>2 DEF VerifyInv, ThreadsInv, Wanted, Name
  <2>4. \/ package' = package \/ package' = [package EXCEPT ![Name] = NoFile]
        \/ package' = [package EXCEPT ![Name] = Wanted]
    BY <2>0, <2>1 DEF Replace, Rename
  <2>5. part' = part \/ part' = [part EXCEPT ![Name] = NoPart]
    BY <2>0 DEF Replace, Rename
  <2>6. to = "rename" => part' = part /\ package' = [package EXCEPT ![Name] = NoFile]
    BY <2>2 DEF Replace
  <2>7. PackagesInv'
    <3>1. package' \in [Versions -> Releases \cup {NoFile}] /\ DOMAIN part' = Versions
      BY <1>0, <2>4, <2>5 DEF VerifyInv, PackagesInv
    <3>2. \A v \in Versions : package'[v] # NoFile => package'[v].version = v
      BY <1>0, <2>4 DEF VerifyInv, PackagesInv, Name
    <3>3. to = "rename" => part'[Name].of = Wanted /\ package'[Name] # Wanted
      BY <1>0, <2>1, <2>6 DEF VerifyInv, PackagesInv, Kept
    <3>. QED
      BY <2>2, <2>3, <3>1, <3>2, <3>3 DEF PackagesInv, Kept
  <2>8. VerifiedStays'
    <3>1. install.at = "launch" \/ HandedOver => StillThere(Name, Wanted)'
      BY <1>0, <2>1, <2>3, <2>4 DEF StillThere, VerifyInv, PackagesInv
    <3>. QED
      BY <1>1, <2>1, <2>3, <3>1 DEF VerifiedStays, HandedOver, StillThere
  <2>. QED
    BY <1>0, <2>1, <2>2, <2>7, <2>8, DownloadStepKeepsVerified
<1>5. CASE Cleanup
  <2>1. /\ Others /\ UNCHANGED part
        /\ package' = [v \in Versions |-> IF v = Name THEN package[v] ELSE NoFile]
        /\ download' = [download EXCEPT !.at = "done"]
    BY <1>5 DEF runVars, Cleanup, DownloadAt, Fetches, flagVars, appVars
  <2>2. download'.at = "done" /\ Name' = Name /\ Wanted' = Wanted
    BY <2>1 DEF VerifyInv, ThreadsInv, Wanted, Name
  <2>3. PackagesInv'
    BY <2>1, <2>2 DEF VerifyInv, PackagesInv
  <2>4. VerifiedStays'
    BY <1>0, <1>1, <1>2, <2>1 DEF VerifiedStays, HandedOver, StillThere
  <2>. QED
    BY <1>0, <2>1, <2>3, <2>4, DownloadStepKeepsVerified
<1>6. CASE EndDownload
  <2>1. /\ UNCHANGED <<up, parent, wiped, installing, release, install, package, part, at,
                     target>>
        /\ downloading' = FALSE /\ download' = NoDownload
        /\ downloaded' \in {0, Name}
    BY <1>6 DEF runVars, EndDownload, OnlyFlags, fileVars, appVars, updaterVars
  <2>2. download'.at = "idle" /\ download' = [at |-> download'.at, release |-> download'.release]
    BY <2>1 DEF NoDownload
  <2>3. ThreadsInv'
    BY <1>0, <2>1, <2>2 DEF VerifyInv, ThreadsInv
  <2>4. PackagesInv'
    BY <2>1, <2>2 DEF VerifyInv, PackagesInv
  <2>5. RunningInv' /\ HandedInv' /\ VerifiedStays'
    BY <2>1, <2>2 DEF VerifyInv, RunningInv, HandedInv, HandedOver, VerifiedStays, StillThere
  <2>. QED
    BY <2>3, <2>4, <2>5 DEF VerifyInv
<1>. QED
  BY <1>3, <1>4, <1>5, <1>6 DEF DownloadThread

\* An installation begins with what was downloaded of the release on offer, and
\* a download that still runs wants the same.
LEMMA BeginInstallKeepsVerified ==
    ASSUME UpdateInv, VerifyInv, BeginInstall
    PROVE  VerifyInv'
<1>1. /\ UNCHANGED <<up, parent, wiped, downloading, release, downloaded, download, package, part,
                     at, target>>
      /\ installing' = TRUE /\ up /\ ~installing /\ release # NoRelease /\ downloaded # 0
      /\ install' = [at |-> "verify", release |-> release, path |-> downloaded]
  BY DEF runVars, BeginInstall, OnlyFlags, fileVars, appVars, updaterVars
<1>2. ~HandedOver
  BY <1>1 DEF VerifyInv, HandedInv
<1>3. ThreadsInv'
  BY <1>1 DEF VerifyInv, ThreadsInv, Wanted
<1>4. PackagesInv'
  BY <1>1 DEF VerifyInv, PackagesInv, Wanted, Name, Kept
<1>5. RunningInv'
  BY <1>1 DEF VerifyInv, RunningInv
<1>6. HandedInv' /\ VerifiedStays'
  BY <1>1, <1>2 DEF HandedInv, HandedOver, VerifiedStays
<1>. QED
  BY <1>3, <1>4, <1>5, <1>6 DEF VerifyInv

\* The package is verified, and the updater is started for it or not.
LEMMA InstallKeepsVerified ==
    ASSUME UpdateInv, VerifyInv, Verify \/ Launch \/ LaunchFails
    PROVE  VerifyInv'
<1>1. /\ UNCHANGED <<up, downloading, release, download, package, part>>
      /\ up /\ installing /\ install.at # "idle" /\ ~HandedOver
      /\ install.path \in Versions /\ install.release \in Releases
  <2>1. install.at # "idle" /\ up
    BY DEF Verify, Launch, LaunchFails
  <2>2. UNCHANGED <<up, downloading, release, download, package, part>>
    BY DEF Verify, Launch, LaunchFails, InstallFails, StartUpdater, flagVars, fileVars,
           appVars, updaterVars
  <2>. QED
    BY <2>1, <2>2 DEF VerifyInv, ThreadsInv, HandedInv, UpdateInv, ReleasesKnown
<1>2. PackagesInv'
  BY <1>1 DEF VerifyInv, PackagesInv, Wanted, Name, Kept
<1>3. CASE /\ install' = NoInstall /\ installing' = FALSE /\ downloaded' = 0
           /\ UNCHANGED <<at, target, parent, wiped>>
  <2>1. install'.at = "idle"
    BY <1>3 DEF NoInstall
  <2>2. ThreadsInv'
    BY <1>1, <1>3, <2>1 DEF VerifyInv, ThreadsInv, Wanted
  <2>3. RunningInv'
    BY <1>1, <1>3, <2>1 DEF VerifyInv, RunningInv
  <2>4. HandedInv' /\ VerifiedStays'
    BY <1>1, <1>3, <2>1 DEF HandedInv, HandedOver, VerifiedStays
  <2>. QED
    BY <1>2, <2>2, <2>3, <2>4 DEF VerifyInv
<1>4. CASE /\ install' = [install EXCEPT !.at = "launch"] /\ wiped' = FALSE
           /\ package[install.path] = install.release
           /\ UNCHANGED <<installing, downloaded, at, target, parent>>
  <2>1. /\ install'.at = "launch" /\ install'.release = install.release
        /\ install'.path = install.path
    BY <1>4 DEF UpdateInv, ReleasesKnown
  <2>2. install.path = install.release.version
    BY <1>1, <1>4, UpdaterAssumption DEF VerifyInv, PackagesInv
  <2>3. ThreadsInv'
    BY <1>1, <1>4, <2>1, <2>2 DEF VerifyInv, ThreadsInv, Wanted
  <2>4. RunningInv'
    BY <1>1, <1>4, <2>1 DEF VerifyInv, RunningInv
  <2>5. HandedInv' /\ VerifiedStays'
    BY <1>1, <1>4, <2>1 DEF HandedInv, HandedOver, VerifiedStays, StillThere
  <2>. QED
    BY <1>2, <2>3, <2>4, <2>5 DEF VerifyInv
<1>5. CASE Launch
  <2>1. /\ install.at = "launch" /\ install' = NoInstall /\ at' = "started"
        /\ target' = install.release /\ UNCHANGED <<installing, downloaded, wiped>>
        /\ parent' = TRUE
    BY <1>5 DEF Launch, StartUpdater, flagVars
  <2>2. install'.at = "idle"
    BY <2>1 DEF NoInstall
  <2>3. ThreadsInv'
    BY <1>1, <2>1, <2>2 DEF VerifyInv, ThreadsInv, Wanted
  <2>4. RunningInv'
    BY <1>1, <2>1, <2>2 DEF VerifyInv, RunningInv
  <2>5. HandedInv'
    BY <1>1, <2>1, <2>2 DEF VerifyInv, ThreadsInv, HandedInv, HandedOver, Wanted
  <2>6. VerifiedStays'
    BY <1>1, <2>1, <2>2 DEF VerifyInv, ThreadsInv, VerifiedStays, StillThere
  <2>. QED
    BY <1>2, <2>3, <2>4, <2>5, <2>6 DEF VerifyInv
<1>6. LaunchFails => /\ install' = NoInstall /\ installing' = FALSE /\ downloaded' = 0
                     /\ UNCHANGED <<at, target, parent, wiped>>
  BY DEF LaunchFails, InstallFails, appVars, runVars
<1>7. Verify => \/ /\ install' = NoInstall /\ installing' = FALSE /\ downloaded' = 0
                   /\ UNCHANGED <<at, target, parent, wiped>>
                \/ /\ install' = [install EXCEPT !.at = "launch"] /\ wiped' = FALSE
                   /\ package[install.path] = install.release
                   /\ UNCHANGED <<installing, downloaded, at, target, parent>>
  BY DEF Verify, InstallFails, flagVars, appVars, updaterVars, runVars
<1>. QED
  BY <1>3, <1>4, <1>5, <1>6, <1>7

\* A process that ends takes its threads with it, and the next one begins with
\* none.
LEMMA ExitStartKeepsVerified ==
    ASSUME UpdateInv, VerifyInv, Exit \/ Start
    PROVE  VerifyInv'
<1>1. CASE Exit
  <2>1. /\ UNCHANGED <<package, part, at, target>>
        /\ up' = FALSE /\ downloading' = FALSE /\ installing' = FALSE
        /\ parent' = FALSE /\ wiped' = FALSE
        /\ release' = NoRelease /\ downloaded' = 0
        /\ download' = NoDownload /\ install' = NoInstall
    BY <1>1 DEF Exit, fileVars, updaterVars, runVars
  <2>2. /\ download'.at = "idle" /\ install'.at = "idle"
        /\ download' = [at |-> download'.at, release |-> download'.release]
    BY <2>1 DEF NoDownload, NoInstall
  <2>3. ThreadsInv'
    BY <2>1, <2>2 DEF ThreadsInv
  <2>4. PackagesInv'
    BY <2>1, <2>2 DEF VerifyInv, PackagesInv
  <2>5. RunningInv' /\ HandedInv'
    BY <2>1, <2>2 DEF RunningInv, HandedInv, HandedOver
  <2>6. VerifiedStays'
    BY <2>1, <2>2 DEF VerifiedStays
  <2>. QED
    BY <2>3, <2>4, <2>5, <2>6 DEF VerifyInv
<1>2. CASE Start
  <2>1. /\ UNCHANGED <<installing, downloading, release, downloaded, download, install, package,
                       part, at, target, parent, wiped>>
        /\ up' = TRUE
    BY <1>2 DEF Start, flagVars, threadVars, fileVars, updaterVars, runVars
  <2>2. ThreadsInv' /\ PackagesInv'
    BY <2>1 DEF VerifyInv, ThreadsInv, PackagesInv, Wanted, Name, Kept
  <2>3. RunningInv' /\ HandedInv' /\ VerifiedStays'
    BY <2>1 DEF VerifyInv, RunningInv, HandedInv, HandedOver, VerifiedStays, StillThere, Wanted
  <2>. QED
    BY <2>2, <2>3 DEF VerifyInv
<1>. QED
  BY <1>1, <1>2

\* The updater leaves the packages alone until it has installed its own, which it
\* then removes.
LEMMA UpdaterKeepsVerified ==
    ASSUME UpdateInv, VerifyInv, Updater
    PROVE  VerifyInv'
<1>. DEFINE Rest == <<installing, downloading, release, downloaded, download, install, part,
                      parent>>
<1>1. UNCHANGED Rest
  BY DEF Updater, OnlyUpdater, updateVars, flagVars, threadVars, fileVars, appVars
<1>2. CASE \/ \E ok \in BOOLEAN : VerifyArchive(Archive, ok) /\ OnlyUpdater
           \/ \E ok \in BOOLEAN : Unpack(Archive, ok) /\ OnlyUpdater
           \/ parent /\ GivesUp /\ OnlyUpdater
           \/ ~parent /\ ParentGone /\ OnlyUpdater
           \/ Moves /\ OnlyUpdater
           \/ Killed /\ UNCHANGED <<fileVars, up, wiped>>
  <2>1. /\ UNCHANGED <<up, wiped, package, target>>
        /\ at' \in {"started", "verified"} => at = "started"
    BY <1>2 DEF VerifyArchive, Unpack, GivesUp, ParentGone, Moves, BackUp, Install, Remove,
                Restore, BackedUp, Removed, RolledBack, Stays, Killed, Ends, Forgets,
                OnlyUpdater, updateVars, fileVars, appVars
  <2>2. ThreadsInv' /\ PackagesInv'
    BY <1>1, <2>1 DEF VerifyInv, ThreadsInv, PackagesInv, Wanted, Name, Kept
  <2>3. RunningInv' /\ HandedInv' /\ VerifiedStays'
    BY <1>1, <2>1 DEF VerifyInv, RunningInv, HandedInv, HandedOver, VerifiedStays, StillThere,
                      Wanted
  <2>. QED
    BY <2>2, <2>3 DEF VerifyInv
<1>3. CASE \E ok \in BOOLEAN :
              /\ Restart(ok) /\ up' = (up \/ ok)
              /\ UNCHANGED <<fileVars, wiped>>
  <2>1. PICK ok \in BOOLEAN : Restart(ok) /\ up' = (up \/ ok)
    BY <1>3
  <2>2. UNCHANGED <<package, wiped, target>> /\ at' \in {"clean", "remove"}
    BY <1>3, <2>1 DEF Restart, Stays, fileVars
  <2>3. ThreadsInv'
    BY <1>1, <2>1, <2>2, Zenon DEF VerifyInv, ThreadsInv, Wanted
  <2>4. PackagesInv'
    BY <1>1, <2>2 DEF VerifyInv, PackagesInv, Wanted, Name, Kept
  <2>5. RunningInv' /\ HandedInv' /\ VerifiedStays'
    BY <1>1, <2>1, <2>2 DEF VerifyInv, RunningInv, HandedInv, HandedOver, VerifiedStays,
                            StillThere
  <2>. QED
    BY <2>3, <2>4, <2>5 DEF VerifyInv
<1>4. CASE /\ Clean
           /\ package' = [package EXCEPT ![target.version] = NoFile]
           /\ wiped' = up /\ UNCHANGED up
  <2>1. at' = "none"
    BY <1>4 DEF Clean, Ends, Forgets
  <2>2. ThreadsInv'
    BY <1>1, <1>4 DEF VerifyInv, ThreadsInv, Wanted
  <2>3. /\ package' \in [Versions -> Releases \cup {NoFile}]
        /\ \A v \in Versions : package'[v] \in {NoFile, package[v]}
    BY <1>4 DEF VerifyInv, PackagesInv
  <2>4. PackagesInv'
    <3>1. download.at # "idle" => Wanted # NoFile
      BY UpdaterAssumption DEF VerifyInv, ThreadsInv, Wanted
    <3>2. /\ download.at # "idle" => Name \in Versions
          /\ UNCHANGED <<Name, Wanted, Kept, download, part>>
      BY <1>1 DEF VerifyInv, ThreadsInv, Versions, Name, Wanted, Kept
    <3>. QED
      BY <2>3, <3>1, <3>2 DEF VerifyInv, PackagesInv
  <2>5. RunningInv' /\ HandedInv'
    BY <1>1, <1>4, <2>1 DEF VerifyInv, RunningInv, HandedInv, HandedOver
  <2>6. VerifiedStays'
    <3>. SUFFICES ASSUME install.at = "launch" PROVE StillThere(install.path, install.release)'
      BY <1>1, <2>1 DEF VerifiedStays, StillThere
    <3>1. up /\ install.path \in Versions /\ StillThere(install.path, install.release)
      BY DEF VerifyInv, ThreadsInv, RunningInv, VerifiedStays
    <3>. QED
      BY <1>1, <1>4, <2>3, <3>1 DEF StillThere
  <2>. QED
    BY <2>2, <2>4, <2>5, <2>6 DEF VerifyInv
<1>. QED
  BY <1>2, <1>3, <1>4 DEF Updater

\* Every step keeps what was verified in place.
LEMMA NextKeepsVerified ==
    ASSUME UpdateInv, VerifyInv, [UpdateNext]_vars
    PROVE  VerifyInv'
<1>1. CASE UNCHANGED vars \/ \E r \in Releases : Publish(r)
  BY <1>1, VerifyInvStutters
     DEF runVars, vars, updateVars, updaterVars, flagVars, threadVars, fileVars, appVars, Publish,
         verifyVars
<1>. QED
  BY <1>1, CheckKeepsVerified, BeginDownloadKeepsVerified, DownloadKeepsVerified,
     BeginInstallKeepsVerified, InstallKeepsVerified, ExitStartKeepsVerified,
     UpdaterKeepsVerified DEF UpdateNext

\* What keeps the verified package in place holds throughout.
LEMMA VerificationsStay == UpdateSpec => []VerifyInv
<1>1. UpdateInit => VerifyInv
  <2>. SUFFICES ASSUME UpdateInit PROVE VerifyInv
    OBVIOUS
  <2>1. /\ download.at = "idle" /\ install.at = "idle"
        /\ download = [at |-> download.at, release |-> download.release]
        /\ at = "none"
    BY DEF UpdateInit, UpdaterInit, NoDownload, NoInstall
  <2>2. ThreadsInv
    BY <2>1 DEF UpdateInit, ThreadsInv
  <2>3. PackagesInv
    BY <2>1 DEF UpdateInit, PackagesInv
  <2>4. RunningInv /\ HandedInv /\ VerifiedStays
    BY <2>1 DEF UpdateInit, RunningInv, HandedInv, HandedOver, VerifiedStays
  <2>. QED
    BY <2>2, <2>3, <2>4 DEF VerifyInv
<1>2. UpdateInv /\ VerifyInv /\ [UpdateNext]_vars => VerifyInv'
  BY NextKeepsVerified
<1>. QED
  BY <1>1, <1>2, UpdatesAreSafe, PTL DEF UpdateSpec

\* What install_update has verified is not exchanged for another build as long as
\* its process runs, for any releases: no download, check or updater does it.
THEOREM VerifiedIsKept == UpdateSpec => []VerifiedStays
<1>1. VerifyInv => VerifiedStays
  BY DEF VerifyInv
<1>. QED
  BY <1>1, VerificationsStay, PTL

-----------------------------------------------------------------------------
(***************************************************************************)
(* Partial downloads are overcome.  Versions only grow: a download is for  *)
(* a version no older than those of the partial files.  So a download that *)
(* has just failed for the bytes it continued leaves no file that can      *)
(* stand in the way of any release the application may fetch next.         *)
(***************************************************************************)
\* What is fetched, offered and on the disk follows what was published.
OrderInv ==
    /\ release # NoRelease => release.version <= latest.version
    /\ download.at # "idle" =>
           /\ Name <= latest.version
           /\ release # NoRelease => Name <= release.version
    /\ \A v \in Versions : part[v].len # 0 =>
           /\ v <= latest.version
           /\ release # NoRelease => v <= release.version
           /\ download.at # "idle" => v <= Name

\* A download of what the server has under a version is not hindered: there is
\* nothing to continue, or the same bytes, or too many of them.
Clear(v) ==
    \/ part[v].len = 0
    \/ part[v].of = hosted[v]
    \/ ~(part[v].len < Size[hosted[v]])

\* After a failure, that holds of every version that may be fetched next.
MissesInv ==
    /\ misses \in {0, 1}
    /\ misses = 1 =>
           /\ Clear(latest.version)
           /\ release # NoRelease => Clear(release.version)
           /\ download.at # "idle" => Clear(Name)

ResumeInv == OrderInv /\ MissesInv

resumeVars == <<latest, hosted, release, download, part, misses>>

\* Where nothing of it changes the invariant stays.
LEMMA ResumeInvStutters ==
    ASSUME ResumeInv, UNCHANGED resumeVars
    PROVE  ResumeInv'
BY DEF ResumeInv, OrderInv, MissesInv, Clear, resumeVars, Wanted, Name

\* Of the releases at hand the versions can be compared.
LEMMA VersionsKnown ==
    ASSUME UpdateInv, VerifyInv
    PROVE  /\ Versions \subseteq Nat
           /\ latest.version \in Versions
           /\ release # NoRelease => release.version \in Versions
           /\ download.at # "idle" => Wanted \in Releases /\ Name \in Versions
           /\ DOMAIN part = Versions
BY AppUpdateAssumption
   DEF UpdateInv, ReleasesKnown, VerifyInv, ThreadsInv, PackagesInv, Versions, Wanted, Name

\* A check offers the latest release or none.
LEMMA CheckKeepsResume ==
    ASSUME UpdateInv, VerifyInv, ResumeInv, BeginCheck \/ EndCheck \/ CheckFails
    PROVE  ResumeInv'
<1>1. /\ UNCHANGED <<latest, hosted, download, part, misses>>
      /\ release' \in {release, latest, NoRelease}
  BY DEF BeginCheck, EndCheck, CheckFails, OnlyFlags, serverVars, fileVars, threadVars
<1>2. UNCHANGED <<Wanted, Name>>
  BY <1>1 DEF Wanted, Name
<1>3. OrderInv'
  BY <1>1, <1>2, VersionsKnown DEF ResumeInv, OrderInv
<1>4. MissesInv'
  BY <1>1, <1>2 DEF ResumeInv, MissesInv, Clear
<1>. QED
  BY <1>3, <1>4 DEF ResumeInv

\* A download begins for the release that is offered.
LEMMA BeginDownloadKeepsResume ==
    ASSUME UpdateInv, VerifyInv, ResumeInv, BeginDownload
    PROVE  ResumeInv'
<1>1. /\ UNCHANGED <<latest, hosted, release, part, misses>>
      /\ download' = [at |-> "look", release |-> release]
      /\ release # NoRelease
  BY DEF BeginDownload, OnlyFlags, serverVars, fileVars
<1>2. Name' = release.version
  BY <1>1 DEF Wanted, Name
<1>3. OrderInv'
  BY <1>1, <1>2, VersionsKnown DEF ResumeInv, OrderInv
<1>4. MissesInv'
  BY <1>1, <1>2 DEF ResumeInv, MissesInv, Clear
<1>. QED
  BY <1>3, <1>4 DEF ResumeInv

\* A download's own steps, for what they make of its partial file.
LEMMA DownloadStepKeepsResume ==
    ASSUME UpdateInv, VerifyInv, ResumeInv, NEW to,
           download.at # "idle", download' = [download EXCEPT !.at = to],
           UNCHANGED <<latest, hosted, release>>,
           NEW file, part' = part \/ part' = [part EXCEPT ![Name] = file],
           \/ misses' = 0
           \/ misses' = misses /\ (part' = part \/ file.len = 0)
           \/ misses' = 1 /\ ~(file.len < Size[hosted[Name]])
                          /\ part' = [part EXCEPT ![Name] = file]
    PROVE  ResumeInv'
<1>1. Name \in Versions /\ Wanted \in Releases /\ DOMAIN part = Versions
      /\ latest.version \in Versions /\ Versions \subseteq Nat
      /\ (release # NoRelease => release.version \in Versions)
  BY VersionsKnown
<1>2. UNCHANGED <<Wanted, Name>>
  BY DEF VerifyInv, ThreadsInv, Wanted, Name
<1>3. DOMAIN part' = Versions /\ \A v \in Versions : part'[v] = part[v] \/ v = Name
  BY <1>1
<1>4. OrderInv'
  BY <1>1, <1>2, <1>3 DEF ResumeInv, OrderInv
<1>5. ASSUME misses' = 1, NEW v \in Versions,
             \/ v = latest.version \/ v = Name
             \/ v = release.version /\ release # NoRelease
      PROVE  Clear(v)'
  <2>1. CASE misses' = misses /\ (part' = part \/ file.len = 0)
    <3>1. Clear(v)
      BY <1>5, <2>1 DEF ResumeInv, MissesInv
    <3>. QED
      BY <1>1, <2>1, <3>1 DEF Clear
  <2>2. CASE ~(file.len < Size[hosted[Name]]) /\ part' = [part EXCEPT ![Name] = file]
    <3>1. CASE v = Name
      BY <1>1, <2>2, <3>1 DEF Clear
    <3>2. CASE v # Name
      <4>1. Name <= v
        BY <1>5, <3>2 DEF ResumeInv, OrderInv
      <4>2. part[v].len = 0
        BY <1>1, <3>2, <4>1 DEF ResumeInv, OrderInv
      <4>. QED
        BY <1>3, <3>2, <4>2 DEF Clear
    <3>. QED
      BY <3>1, <3>2
  <2>. QED
    BY <1>5, <2>1, <2>2
<1>6. MissesInv'
  <2>1. misses' \in {0, 1}
    BY DEF ResumeInv, MissesInv
  <2>2. misses' = 1 => Clear(latest.version)' /\ Clear(Name)'
    BY <1>1, <1>2, <1>5
  <2>3. misses' = 1 /\ release # NoRelease => Clear(release.version)'
    BY <1>1, <1>5
  <2>. QED
    BY <2>1, <2>2, <2>3 DEF MissesInv
<1>. QED
  BY <1>4, <1>6 DEF ResumeInv

\* A download that fails for the bytes it continued has filled its partial file,
\* and of a second one in a row nothing is left to continue.
LEMMA ReceiveKeepsResume ==
    ASSUME UpdateInv, VerifyInv, ResumeInv, Receive
    PROVE  ResumeInv'
<1>. DEFINE len  == IF Size[Served] < Size[Wanted] THEN Size[Served] ELSE Size[Wanted]
            file == Continued(len)
            good == Size[Served] = Size[Wanted] /\ file.of = Wanted
            to   == IF good THEN "replace" ELSE "failed"
<1>1. /\ download.at = "request" /\ download' = [download EXCEPT !.at = to]
      /\ part' = [part EXCEPT ![Name] = file]
      /\ misses' = IF good \/ Served # Wanted THEN 0 ELSE misses + 1
      /\ UNCHANGED <<latest, hosted, release>>
  BY Zenon DEF Receive, DownloadAt, Fetches, flagVars, serverVars
<1>2. Name \in Versions /\ Wanted \in Releases
  BY <1>1, VersionsKnown
<1>3. misses' # 0 => misses = 0 /\ Served = Wanted
  <2>. SUFFICES ASSUME misses' # 0, misses = 1 PROVE FALSE
    BY <1>1 DEF ResumeInv, MissesInv
  <2>1. Served = Wanted /\ file.of # Wanted
    BY <1>1
  <2>2. Retained # 0 /\ Kept.of # Served
    BY <2>1 DEF Continued
  <2>3. Kept.len # 0 /\ Kept.len < Size[Wanted]
    BY <2>2 DEF Retained
  <2>4. Clear(Name)
    BY <1>1 DEF ResumeInv, MissesInv
  <2>. QED
    BY <2>1, <2>2, <2>3, <2>4 DEF Clear, Kept, Served
<1>4. Served = Wanted => file.len = Size[Wanted]
  BY DEF Continued
<1>5. Served = Wanted => ~(file.len < Size[hosted[Name]])
  BY <1>2, <1>4, AppUpdateAssumption DEF Served
<1>6. misses' = 0 \/ (misses' = 1 /\ ~(file.len < Size[hosted[Name]]))
  BY <1>1, <1>3, <1>5 DEF ResumeInv, MissesInv
<1>. HIDE DEF file, to
<1>. QED
  BY <1>1, <1>6, DownloadStepKeepsResume

\* The download's thread.
LEMMA DownloadKeepsResume ==
    ASSUME UpdateInv, VerifyInv, ResumeInv, DownloadThread
    PROVE  ResumeInv'
<1>1. CASE Look \/ Cleanup \/ (\E ok \in BOOLEAN : Replace(ok) \/ Rename(ok))
  <2>1. /\ download.at # "idle" /\ UNCHANGED <<latest, hosted, release, misses>>
        /\ \E to : download' = [download EXCEPT !.at = to]
        /\ part' = part \/ part' = [part EXCEPT ![Name] = NoPart]
    BY <1>1 DEF Look, Cleanup, Replace, Rename, DownloadAt, Fetches, flagVars, serverVars,
                fileVars
  <2>2. NoPart.len = 0
    BY DEF NoPart
  <2>. HIDE DEF NoPart
  <2>. QED
    BY <2>1, <2>2, DownloadStepKeepsResume DEF ResumeInv, MissesInv
<1>2. CASE Refused \/ Breaks
  <2>1. /\ download.at # "idle" /\ UNCHANGED <<latest, hosted, release>> /\ misses' = 0
        /\ \E to : download' = [download EXCEPT !.at = to]
        /\ \E file : part' = part \/ part' = [part EXCEPT ![Name] = file]
    BY <1>2 DEF Refused, Breaks, DownloadAt, Fetches, flagVars, serverVars, fileVars
  <2>. QED
    BY <2>1, DownloadStepKeepsResume
<1>3. CASE EndDownload
  <2>1. /\ UNCHANGED <<latest, hosted, release, part, misses>> /\ download' = NoDownload
    BY <1>3 DEF EndDownload, OnlyFlags, serverVars, fileVars
  <2>2. download'.at = "idle"
    BY <2>1 DEF NoDownload
  <2>3. OrderInv'
    BY <2>1, <2>2 DEF ResumeInv, OrderInv
  <2>4. MissesInv'
    BY <2>1, <2>2 DEF ResumeInv, MissesInv, Clear
  <2>. QED
    BY <2>3, <2>4 DEF ResumeInv
<1>. QED
  BY <1>1, <1>2, <1>3, ReceiveKeepsResume DEF DownloadThread

\* The application's end forgets what it was fetching, and a publication begins
\* the count anew.
LEMMA ExitPublishKeepsResume ==
    ASSUME UpdateInv, VerifyInv, ResumeInv, Exit \/ \E r \in Releases : Publish(r)
    PROVE  ResumeInv'
<1>1. CASE Exit
  <2>1. /\ UNCHANGED <<latest, hosted, part, misses>>
        /\ release' = NoRelease /\ download' = NoDownload
    BY <1>1 DEF Exit, serverVars, fileVars
  <2>2. download'.at = "idle"
    BY <2>1 DEF NoDownload
  <2>3. OrderInv'
    BY <2>1, <2>2 DEF ResumeInv, OrderInv
  <2>4. MissesInv'
    BY <2>1, <2>2 DEF ResumeInv, MissesInv, Clear
  <2>. QED
    BY <2>3, <2>4 DEF ResumeInv
<1>2. ASSUME NEW r \in Releases, Publish(r) PROVE ResumeInv'
  <2>1. /\ UNCHANGED <<release, download, part>> /\ latest' = r /\ misses' = 0
        /\ r.version >= latest.version
    BY <1>2 DEF Publish, flagVars, threadVars, fileVars
  <2>2. r.version \in Nat
    BY AppUpdateAssumption
  <2>3. UNCHANGED <<Wanted, Name>>
    BY <2>1 DEF Wanted, Name
  <2>4. OrderInv'
    BY <2>1, <2>2, <2>3, VersionsKnown DEF ResumeInv, OrderInv
  <2>. QED
    BY <2>1, <2>4 DEF ResumeInv, MissesInv
<1>. QED
  BY <1>1, <1>2

\* Every step keeps it.
LEMMA NextKeepsResume ==
    ASSUME UpdateInv, VerifyInv, ResumeInv, [UpdateNext]_vars
    PROVE  ResumeInv'
<1>1. CASE UNCHANGED vars \/ BeginInstall \/ Verify \/ Launch \/ LaunchFails \/ Start \/ Updater
  <2>1. UNCHANGED resumeVars
    BY <1>1 DEF vars, updateVars, BeginInstall, OnlyFlags, Verify, Launch, LaunchFails,
                InstallFails, Start, Updater, OnlyUpdater, serverVars, flagVars, threadVars,
                fileVars, resumeVars
  <2>. QED
    BY <2>1, ResumeInvStutters
<1>. QED
  BY <1>1, CheckKeepsResume, BeginDownloadKeepsResume, DownloadKeepsResume,
     ExitPublishKeepsResume DEF UpdateNext

\* Of downloads of the published build that nothing disturbs at most one in a row
\* fails, for any releases and sizes: a partial file of download_update never
\* stands in the way of the next download.
THEOREM PartialsAreHarmless == UpdateSpec => []PartialsAreOvercome
<1>1. UpdateInit => ResumeInv
  <2>. SUFFICES ASSUME UpdateInit PROVE ResumeInv
    OBVIOUS
  <2>1. download.at = "idle" /\ \A v \in Versions : part[v].len = 0
    BY DEF UpdateInit, NoDownload, NoPart
  <2>. QED
    BY <2>1 DEF UpdateInit, ResumeInv, OrderInv, MissesInv
<1>2. UpdateInv /\ VerifyInv /\ ResumeInv /\ [UpdateNext]_vars => ResumeInv'
  BY NextKeepsResume
<1>3. ResumeInv => PartialsAreOvercome
  BY DEF ResumeInv, MissesInv, PartialsAreOvercome
<1>. QED
  BY <1>1, <1>2, <1>3, UpdatesAreSafe, VerificationsStay, PTL DEF UpdateSpec

=============================================================================
