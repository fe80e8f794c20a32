------------------------------ MODULE AppUpdate ------------------------------
(***************************************************************************)
(* Updating the application: the checks, downloads and installations of    *)
(* src/jfn_cef/src/business_update.rs, each on a thread of its own over    *)
(* one state, and the portable updater they start.                         *)
(*                                                                         *)
(* A package is known by its release: version and build, where another     *)
(* build is the same version published again, under the same file name.   *)
(* Lengths are in chunks; a file that was continued with bytes of another  *)
(* build is Mixed.  The metadata and the checksum of a release are read    *)
(* together.  Only the portable package is modelled.                       *)
(***************************************************************************)
EXTENDS PortableUpdater

CONSTANTS
    First,      \* the release that is installed
    Size,       \* of a release's package
    Mixed,      \* bytes of more than one release
    NoRelease,  \* no release, no path
    MaxPublished, \* bound on the publications
    MaxExits    \* bound on the ends of the application before an update

ASSUME AppUpdateAssumption ==
    /\ First \in Releases
    /\ \A r \in Releases : r.version \in Nat /\ Size[r] \in Nat \ {0}
    /\ {Mixed, NoRelease} \cap Releases = {}
    /\ MaxPublished \in Nat /\ MaxExits \in Nat

Versions == {r.version : r \in Releases}

VARIABLES
    hosted,     \* the server: the build each version has, or NoRelease
    latest,     \* the server: the latest release
    up,         \* the application runs
    running,    \* the release its process was, or the last one was, started from
    leaving,    \* it was told to shut down
    parent,     \* the process that started the updater still runs
    wiped,      \* history: an updater removed its archive since this process verified one
    checking, downloading, installing, release, downloaded, \* UpdateState
    download,   \* the download thread: at, release
    install,    \* the installation thread: at, release, path
    package,    \* the package kept for a version, or NoFile
    part,       \* the unfinished download of a version: of, len
    published,  \* number of publications
    exits,      \* number of ends
    misses      \* history: undisturbed downloads that failed in a row

serverVars == <<hosted, latest, published>>
flagVars   == <<checking, downloading, installing, release, downloaded>>
threadVars == <<download, install>>
fileVars   == <<package, part>>
appVars    == <<up, running, leaving, parent, wiped, exits>>
updateVars == <<serverVars, flagVars, threadVars, fileVars, appVars, misses>>
vars       == <<updateVars, updaterVars>>

NoPart     == [of |-> NoRelease, len |-> 0]
NoDownload == [at |-> "idle", release |-> NoRelease]
NoInstall  == [at |-> "idle", release |-> NoRelease, path |-> 0]

OnlyFlags == UNCHANGED <<serverVars, fileVars, appVars, misses, updaterVars>>

-----------------------------------------------------------------------------
(***************************************************************************)
(* check_for_updates.                                                      *)
(***************************************************************************)
BeginCheck ==
    /\ up /\ ~checking /\ ~downloading /\ ~installing
    /\ checking' = TRUE
    /\ UNCHANGED <<downloading, installing, release, downloaded, threadVars>>
    /\ OnlyFlags

Running == running.version

\* is_newer_release; what was downloaded before is forgotten either way.
EndCheck ==
    /\ up /\ checking /\ checking' = FALSE
    /\ release' = IF latest.version > Running THEN latest ELSE NoRelease
    /\ downloaded' = 0
    /\ UNCHANGED <<downloading, installing, threadVars>>
    /\ OnlyFlags

CheckFails ==
    /\ up /\ checking /\ checking' = FALSE
    /\ May(FALSE)
    /\ UNCHANGED <<downloading, installing, release, downloaded, threadVars>>
    /\ UNCHANGED <<serverVars, fileVars, appVars, misses>>
    /\ UNCHANGED <<dir, workVars, runVars>>

-----------------------------------------------------------------------------
(***************************************************************************)
(* download_update.                                                        *)
(***************************************************************************)
\* Fault of the mutation runs: an installation does not keep a download away.
BeginDownloadAnyhow ==
    /\ up /\ ~downloading /\ release # NoRelease
    /\ downloading' = TRUE
    /\ download' = [at |-> "look", release |-> release]
    /\ UNCHANGED <<checking, installing, release, downloaded, install>>
    /\ OnlyFlags

BeginDownload ==
    /\ up /\ ~downloading /\ ~installing /\ release # NoRelease
    /\ downloading' = TRUE
    /\ download' = [at |-> "look", release |-> release]
    /\ UNCHANGED <<checking, installing, release, downloaded, install>>
    /\ OnlyFlags

Wanted  == download.release
Name    == Wanted.version
Kept    == part[Name]

\* What the download's thread leaves alone until it ends.
Fetches ==
    /\ UNCHANGED <<flagVars, install, serverVars, appVars>>
    /\ UNCHANGED <<dir, workVars, runVars>>

DownloadAt(from, to) ==
    download.at = from /\ download' = [download EXCEPT !.at = to]

\* A complete package is kept; an unfinished one that is complete or too long is
\* used or removed.
Look ==
    /\ up /\ download.at = "look"
    /\ LET whole == Kept.len = Size[Wanted] IN
       \/ /\ package[Name] = Wanted
          /\ DownloadAt("look", "done") /\ UNCHANGED fileVars
       \/ /\ package[Name] # Wanted
          /\ whole /\ Kept.of = Wanted
          /\ DownloadAt("look", "replace") /\ UNCHANGED fileVars
       \/ /\ package[Name] # Wanted
          /\ ~(whole /\ Kept.of = Wanted)
          /\ DownloadAt("look", "request")
          /\ part' = IF Kept.len >= Size[Wanted] THEN [part EXCEPT ![Name] = NoPart] ELSE part
          /\ UNCHANGED package
    /\ Fetches /\ UNCHANGED <<misses, faults>>

\* The range asked for, and what the server's answer would make of the file: its
\* bytes follow the retained ones, up to the size the release declares.
Retained == IF Kept.len < Size[Wanted] THEN Kept.len ELSE 0
Served   == hosted[Name]

Continued(len) ==
    [of  |-> IF Retained = 0 \/ Kept.of = Served THEN Served
             ELSE IF len = Retained THEN Kept.of ELSE Mixed,
     len |-> len]

\* validate_content_range
Accepts == Retained = 0 \/ Size[Served] = Size[Wanted]

\* The request fails, or the proxy does not continue a download.
Refused ==
    /\ up /\ DownloadAt("request", "failed")
    /\ IF Accepts THEN May(FALSE) ELSE UNCHANGED faults
    /\ misses' = 0
    /\ Fetches /\ UNCHANGED fileVars

\* The answer breaks off; what has arrived stays.
Breaks ==
    /\ up /\ DownloadAt("request", "failed")
    /\ Accepts /\ May(FALSE)
    /\ \E len \in Retained..Size[Served] :
           /\ len <= Size[Wanted]
           /\ part' = [part EXCEPT ![Name] = Continued(len)]
    /\ misses' = 0
    /\ Fetches /\ UNCHANGED package

\* Fault of the mutation runs: a mismatch puts the retained bytes back.
ReceiveAgain ==
    /\ up /\ download.at = "request" /\ Accepts
    /\ LET file == Continued(Size[Wanted])
           good == Size[Served] = Size[Wanted] /\ file.of = Wanted
       IN  /\ DownloadAt("request", IF good THEN "replace" ELSE "failed")
           /\ part' = IF good THEN [part EXCEPT ![Name] = file] ELSE part
           /\ misses' = IF good \/ Served # Wanted THEN 0 ELSE misses + 1
    /\ Fetches /\ UNCHANGED <<package, faults>>

\* The answer arrives; its size and checksum decide.
Receive ==
    /\ up /\ download.at = "request" /\ Accepts
    /\ LET len  == IF Size[Served] < Size[Wanted] THEN Size[Served] ELSE Size[Wanted]
           file == Continued(len)
           good == Size[Served] = Size[Wanted] /\ file.of = Wanted
       IN  /\ DownloadAt("request", IF good THEN "replace" ELSE "failed")
           /\ part' = [part EXCEPT ![Name] = file]
           /\ misses' = IF good \/ Served # Wanted THEN 0 ELSE misses + 1
    /\ Fetches /\ UNCHANGED <<package, faults>>

\* The old package of that name is removed, the new one takes its place, and the
\* packages of other versions go.
Replace(ok) ==
    /\ up /\ DownloadAt("replace", IF ok THEN "rename" ELSE "failed")
    /\ (ok \/ package[Name] # NoFile) /\ May(ok)
    /\ package' = IF ok THEN [package EXCEPT ![Name] = NoFile] ELSE package
    /\ Fetches /\ UNCHANGED <<part, misses>>

Rename(ok) ==
    /\ up /\ DownloadAt("rename", IF ok THEN "cleanup" ELSE "failed")
    /\ May(ok)
    /\ package' = IF ok THEN [package EXCEPT ![Name] = Kept.of] ELSE package
    /\ part' = IF ok THEN [part EXCEPT ![Name] = NoPart] ELSE part
    /\ Fetches /\ UNCHANGED misses

Cleanup ==
    /\ up /\ DownloadAt("cleanup", "done")
    /\ package' = [v \in Versions |-> IF v = Name THEN package[v] ELSE NoFile]
    /\ Fetches /\ UNCHANGED <<part, misses, faults>>

EndDownload ==
    /\ up /\ download.at \in {"done", "failed"}
    /\ downloading' = FALSE
    /\ downloaded' = IF download.at = "done" THEN Name ELSE 0
    /\ download' = NoDownload
    /\ UNCHANGED <<checking, installing, release, install>>
    /\ OnlyFlags

DownloadThread ==
    \/ Look \/ Refused \/ Breaks \/ Receive
    \/ \E ok \in BOOLEAN : Replace(ok) \/ Rename(ok)
    \/ Cleanup \/ EndDownload

-----------------------------------------------------------------------------
(***************************************************************************)
(* install_update.                                                         *)
(***************************************************************************)
BeginInstall ==
    /\ up /\ ~installing /\ release # NoRelease /\ downloaded # 0
    /\ installing' = TRUE
    /\ install' = [at |-> "verify", release |-> release, path |-> downloaded]
    /\ UNCHANGED <<checking, downloading, release, downloaded, download>>
    /\ OnlyFlags

InstallFails ==
    /\ installing' = FALSE /\ downloaded' = 0
    /\ install' = NoInstall
    /\ UNCHANGED <<checking, downloading, release, download>>
    /\ UNCHANGED <<serverVars, fileVars, appVars, misses>>

Verify ==
    /\ up /\ install.at = "verify"
    /\ IF package[install.path] = install.release
       THEN /\ install' = [install EXCEPT !.at = "launch"]
            /\ wiped' = FALSE
            /\ UNCHANGED <<flagVars, download, serverVars, fileVars, up, running, leaving,
                           parent, exits, misses>>
       ELSE InstallFails
    /\ UNCHANGED updaterVars

\* launch_portable_updater, and the shutdown that follows.
Launch ==
    /\ up /\ install.at = "launch"
    /\ dir[App] # NoFile
    /\ StartUpdater(install.release)
    /\ install' = NoInstall
    /\ leaving' = TRUE /\ parent' = TRUE
    /\ UNCHANGED <<flagVars, download, serverVars, fileVars, up, running, wiped, exits,
                   misses>>

\* The updater is missing from the install directory, or the copy of an earlier
\* one is in use.
NoHelper ==
    dir[App] = NoFile \/ (at # "none" /\ target.version = install.release.version)

LaunchFails ==
    /\ up /\ install.at = "launch"
    /\ IF NoHelper THEN UNCHANGED faults ELSE May(FALSE)
    /\ InstallFails
    /\ UNCHANGED <<dir, workVars, runVars>>

-----------------------------------------------------------------------------
(***************************************************************************)
(* The application's end and start, the updater, and the server.           *)
(***************************************************************************)
\* Nothing of the state outlives the process; the files do.
Exit ==
    /\ up /\ up' = FALSE
    /\ leaving' = FALSE /\ parent' = FALSE /\ wiped' = FALSE
    /\ exits' = IF leaving THEN exits ELSE exits + 1
    /\ exits' <= MaxExits
    /\ checking' = FALSE /\ downloading' = FALSE /\ installing' = FALSE
    /\ release' = NoRelease /\ downloaded' = 0
    /\ download' = NoDownload /\ install' = NoInstall
    /\ UNCHANGED <<running, serverVars, fileVars, misses, updaterVars>>

\* The user starts the application, while an updater works, too; of two processes
\* the later one leaves at once.
Start ==
    /\ ~up /\ dir[App] \in Releases
    /\ up' = TRUE /\ running' = dir[App]
    /\ UNCHANGED <<serverVars, flagVars, threadVars, fileVars, leaving, parent, wiped, exits,
                   misses, updaterVars>>

Archive == package[target.version]

OnlyUpdater == UNCHANGED updateVars

Updater ==
    \/ \E ok \in BOOLEAN : VerifyArchive(Archive, ok) /\ OnlyUpdater
    \/ \E ok \in BOOLEAN : Unpack(Archive, ok) /\ OnlyUpdater
    \/ parent /\ GivesUp /\ OnlyUpdater
    \/ ~parent /\ ParentGone /\ OnlyUpdater
    \/ Moves /\ OnlyUpdater
    \/ \E ok \in BOOLEAN :
          /\ Restart(ok)
          /\ up' = (up \/ ok)
          /\ running' = IF ok /\ ~up THEN dir[App] ELSE running
          /\ UNCHANGED <<serverVars, flagVars, threadVars, fileVars, leaving, parent, wiped,
                         exits, misses>>
    \/ /\ Clean
       /\ package' = [package EXCEPT ![target.version] = NoFile]
       /\ wiped' = up
       /\ UNCHANGED <<serverVars, flagVars, threadVars, part, up, running, leaving, parent,
                      exits, misses>>
    \/ /\ exits < MaxExits /\ exits' = exits + 1
       /\ Killed
       /\ UNCHANGED <<serverVars, flagVars, threadVars, fileVars, up, running, leaving, parent,
                      wiped, misses>>

\* A release is published, or its version again with another build.
Publish(r) ==
    /\ published < MaxPublished /\ published' = published + 1
    /\ r.version >= latest.version /\ r # latest
    /\ latest' = r
    /\ hosted' = [hosted EXCEPT ![r.version] = r]
    /\ misses' = 0
    /\ UNCHANGED <<flagVars, threadVars, fileVars, appVars, updaterVars>>

-----------------------------------------------------------------------------
UpdateInit ==
    /\ dir \in [Files -> {First, NoFile, User}]
    /\ \A f \in Files : dir[f] = First => f \in Manifest[First]
    /\ \A f \in Manifest[First] : dir[f] # User
    /\ dir[App] = First
    /\ UpdaterInit
    /\ latest = First
    /\ hosted = [v \in Versions |-> IF v = First.version THEN First ELSE NoRelease]
    /\ up = TRUE /\ running = First /\ leaving = FALSE
    /\ parent = FALSE /\ wiped = FALSE
    /\ checking = FALSE /\ downloading = FALSE /\ installing = FALSE
    /\ release = NoRelease /\ downloaded = 0
    /\ download = NoDownload /\ install = NoInstall
    /\ package = [v \in Versions |-> NoFile]
    /\ part = [v \in Versions |-> NoPart]
    /\ published = 0 /\ exits = 0 /\ misses = 0

UpdateNext ==
    \/ BeginCheck \/ EndCheck \/ CheckFails
    \/ BeginDownload \/ DownloadThread
    \/ BeginInstall \/ Verify \/ Launch \/ LaunchFails
    \/ Exit \/ Start \/ Updater
    \/ \E r \in Releases : Publish(r)

UpdateSpec == UpdateInit /\ [][UpdateNext]_vars

-----------------------------------------------------------------------------
(***************************************************************************)
(* Properties.                                                             *)
(***************************************************************************)
\* What a process has verified, where it left it: it may only have been removed,
\* by the updater of an earlier process that ended meanwhile.
StillThere(path, r) == package[path] = r \/ (wiped /\ package[path] = NoFile)

\* What install_update has verified is not exchanged for another build until the
\* updater is started, nor while the process that started it still runs, although
\* a check may end and a download run on meanwhile: only the three flags and the
\* order of their tests keep it.  Once that process is gone, nothing does: the
\* user may start the application again, and its flags are its own.
VerifiedStays ==
    /\ install.at = "launch" => StillThere(install.path, install.release)
    /\ at \in {"started", "verified"} /\ parent => StillThere(target.version, target)

\* A partial download never stands in the way of the next ones: of downloads of
\* the published build that nothing disturbs, at most one in a row fails,
\* whatever bytes an earlier build or a broken connection has left.
PartialsAreOvercome == misses <= 1
=============================================================================
