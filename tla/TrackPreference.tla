---------------------------- MODULE TrackPreference ----------------------------
(***************************************************************************)
(* Which audio and subtitle tracks a play shows, what the runtime and the  *)
(* server remember of the choice, and the three that change it             *)
(* (src/jfn_cef/src/mediastation_runtime.rs): a load, which plans them     *)
(* from the saved preference; the reconciliation after the first frame, on *)
(* a thread of its own; and the user's selection.  Loads, selections and   *)
(* the track panel share one request slot, the reconciliation does not.    *)
(* mpv opens a file after the load's request has ended, with no track, and *)
(* is given the planned tracks only when it says so (src/mpv/src/api.rs).  *)
(*                                                                         *)
(* A key is the stable name of a track; an optional key is a set of at     *)
(* most one.  Every file has the same tracks.  A request that fails before *)
(* it changed anything only frees its slot and is left out.  mpv is handed *)
(* commands in the order they were given: giving one and its effect on the *)
(* open file are one step.                                                 *)
(***************************************************************************)
EXTENDS Integers, Sequences, FiniteSets

CONSTANTS
    Media,          \* media ids, which are the preference scopes too
    Audio,          \* keys of the audio tracks
    Listed,         \* keys of the embedded subtitles the server lists
    Runtime,        \* keys of the embedded subtitles only mpv knows
    Externals,      \* the server's external subtitles, in order
    Legacy,         \* saved keys of the old runtime form
    FirstAudio,     \* the first audio track
    PlanDefault,    \* the subtitle a plan falls back to, if any
    RuntimeDefault, \* preferred_runtime_subtitle_track, if any
    InitialSaved,   \* preferences a server may hold
    MaxPlays,       \* bound on the loads
    MaxSelections,  \* bound on the user's selections
    MaxChanges,     \* bound on the account changes
    MaxTurns        \* bound on the loads and account changes together

ExternalKeys == {Externals[i] : i \in DOMAIN Externals}
Subtitles    == Listed \cup Runtime \cup ExternalKeys

ASSUME TracksAssumption ==
    /\ Externals \in Seq(ExternalKeys)
    /\ FirstAudio \in Audio
    /\ PlanDefault \subseteq Listed \cup ExternalKeys
    /\ RuntimeDefault \subseteq Runtime
    /\ Runtime \cap (Listed \cup ExternalKeys) = {} /\ Legacy \cap Subtitles = {}
ASSUME BoundsAssumption ==
    {MaxPlays, MaxSelections, MaxChanges, MaxTurns} \subseteq Nat

SavedKeys   == UNION {p.subtitle \cup p.audio : p \in InitialSaved}
Keys        == Audio \cup Subtitles \cup SavedKeys
Preferences == [configured : BOOLEAN, enabled : BOOLEAN, subtitle : SUBSET Keys,
                audio : SUBSET Keys]

ASSUME SavedAssumption ==
    \A p \in InitialSaved :
        p \in [configured : BOOLEAN, enabled : BOOLEAN, subtitle : SUBSET SavedKeys,
              audio : SUBSET SavedKeys]

VARIABLES
    generation, \* RuntimeState::generation: the account
    active,     \* RuntimeState::active_report, with its preference
    held,       \* RuntimeState::active_subtitle: the external file that is kept
    queued,     \* mpv: the play it is to open next, 0 for none
    player,     \* mpv: the play it has open, and the tracks it shows
    pending,    \* PendingTrackSelection: the tracks planned for the next file
    loaded,     \* number of the FILE_LOADED that were not handled yet
    planned,    \* the open file was given its planned tracks
    saved,      \* the server's preferences, of each account
    persistent, \* the server keeps preferences
    request,    \* the request that has the slot
    reconciler, \* the reconciliation of each play
    plays,      \* number of loads
    selections, \* number of selections
    chosen,     \* history: the user's choice for the play, once it was answered
    undone,     \* history: the last selection was refused and rolled back
    disputed,   \* history: a reconciliation or the load got in the selection's way
    replanned,  \* history: it was the load, whose plan was applied after it began
    released    \* history: the user's stop let the play's file go

loadHistory == <<replanned, released>>
historyVars == <<chosen, undone, disputed, loadHistory>>
stateVars   == <<generation, active, held>>
openingVars == <<queued, pending, loaded, planned>>
vars == <<stateVars, openingVars, player, saved, persistent, request, reconciler, plays,
          selections, historyVars>>

NoPlay    == [play |-> 0]
Idle      == [play |-> 0, audio |-> {}, subtitle |-> {}]
NoRequest == [kind |-> "none", step |-> "none"]
NoUpdate  == [enabled |-> {}, subtitle |-> {}, audio |-> {}]
NoWorker  == [step |-> "none"]
NoChoice  == [axis |-> "none", key |-> {}]
NoPlan    == [audio |-> {}, subtitle |-> {}]

Accounts == 0..MaxChanges

-----------------------------------------------------------------------------
(***************************************************************************)
(* Preferences, updates, and what mpv shows.                               *)
(***************************************************************************)
OrElse(new, old) == IF new = {} THEN old ELSE new

\* commit_active_preference_update, and the server's partial update.
Applied(p, u) ==
    [configured |-> TRUE,
     enabled    |-> IF u.enabled = {} THEN p.enabled ELSE TRUE \in u.enabled,
     subtitle   |-> OrElse(u.subtitle, p.subtitle),
     audio      |-> OrElse(u.audio, p.audio)]

\* runtime_track_catalog names mpv's n-th external subtitle after the server's
\* n-th; mpv holds at most one.
CatalogKey(subtitle) ==
    IF subtitle # {} /\ subtitle \subseteq ExternalKeys THEN {Externals[1]} ELSE subtitle

\* runtime_preference_update
Shown(pl) == [enabled |-> {pl.subtitle # {}}, subtitle |-> CatalogKey(pl.subtitle),
              audio |-> pl.audio]

\* build_playback_track_plan
PlanAudio(p) == IF p.audio \cap Audio # {} THEN p.audio ELSE {FirstAudio}
PlanSubtitle(p) ==
    IF ~p.enabled THEN {} ELSE OrElse(p.subtitle \cap (Listed \cup ExternalKeys), PlanDefault)

IsCurrent(gen, media) == generation = gen /\ active # NoPlay /\ active.media = media

-----------------------------------------------------------------------------
(***************************************************************************)
(* apply_track_selection, under the state's lock.                          *)
(***************************************************************************)
\* mpv obeys; when it has no file open the property it sets shows nothing.
Obeys(axis, key) ==
    /\ player' = IF player.play = 0 THEN player ELSE [player EXCEPT ![axis] = key]
    /\ held' = IF axis = "subtitle" THEN key \cap ExternalKeys ELSE held

\* Fault of the mutation runs: the kept file is let go before mpv is asked.
RefusesEmptyHanded(axis) ==
    /\ held' = {}
    /\ \/ UNCHANGED player
       \/ axis = "subtitle" /\ held # {} /\ player' = [player EXCEPT !.subtitle = {}]

\* mpv refuses; a kept external subtitle was removed first and is added again,
\* which mpv may refuse too.
Refuses(axis) ==
    /\ UNCHANGED held
    /\ \/ UNCHANGED player
       \/ axis = "subtitle" /\ held # {} /\ player' = [player EXCEPT !.subtitle = {}]

-----------------------------------------------------------------------------
(***************************************************************************)
(* The play: loads, opening, first frame, end, stop, account changes.      *)
(***************************************************************************)
Forget ==
    /\ chosen' = NoChoice /\ undone' = FALSE /\ disputed' = FALSE
    /\ replanned' = FALSE /\ released' = FALSE

\* begin_request, and load_playback_preference of its worker.
BeginLoad(m) ==
    /\ request = NoRequest /\ plays < MaxPlays /\ plays + generation < MaxTurns
    /\ request' = [kind |-> "load", step |-> "load", generation |-> generation, media |-> m,
                   preference |-> saved[generation][m]]
    /\ UNCHANGED <<stateVars, openingVars, player, saved, persistent, reconciler, plays,
                   selections, historyVars>>

\* load_if_current: the plan is put into the slot and the file asked for.
LoadIfCurrent ==
    /\ request.step = "load"
    /\ request' = NoRequest
    /\ IF request.generation # generation
       THEN UNCHANGED <<stateVars, queued, pending, plays, historyVars>>
       ELSE LET p == request.preference IN
            /\ plays' = plays + 1
            /\ active' = [play |-> plays + 1, media |-> request.media, preference |-> p,
                          revision |-> 0, reconciled |-> FALSE]
            /\ held' = PlanSubtitle(p) \cap ExternalKeys
            /\ queued' = plays + 1
            /\ pending' = [audio |-> PlanAudio(p), subtitle |-> PlanSubtitle(p)]
            /\ Forget
            /\ UNCHANGED generation
    /\ UNCHANGED <<player, loaded, planned, saved, persistent, reconciler, selections>>

\* The load fails: its subtitle's download, the player, or the account changed.
\* When mpv refuses the command, the slot, filled before, is emptied.
LoadFails ==
    /\ request.step = "load"
    /\ request' = NoRequest
    /\ pending' \in {pending, NoPlan}
    /\ UNCHANGED <<stateVars, queued, player, loaded, planned, saved, persistent, reconciler,
                   plays, selections, historyVars>>

\* mpv opens the file, paused and with no track: what it had open ends.
MpvOpens ==
    /\ queued # 0
    /\ queued' = 0
    /\ player' = [play |-> queued, audio |-> {}, subtitle |-> {}]
    /\ loaded' = loaded + 1 /\ planned' = FALSE
    /\ UNCHANGED <<stateVars, pending, saved, persistent, request, reconciler, plays,
                   selections, historyVars>>

\* jfn_mpv_apply_pending_track_selection_and_play, of the event FILE_LOADED.  mpv
\* may fail to open the external subtitle, and does when its file is gone.
FileLoaded ==
    /\ loaded > 0
    /\ loaded' = loaded - 1
    /\ IF pending = NoPlan THEN UNCHANGED <<pending, player, planned, historyVars>>
       ELSE LET late == request.kind = "select" \/ chosen # NoChoice IN
            /\ pending' = NoPlan
            /\ planned' = (player.play # 0)
            /\ \E shown \in {pending.subtitle, pending.subtitle \ ExternalKeys} :
                   /\ shown \cap ExternalKeys \subseteq held
                   /\ player' = IF player.play = 0 THEN player
                                ELSE [player EXCEPT !.audio = pending.audio,
                                                    !.subtitle = shown]
            /\ disputed' = (disputed \/ late) /\ replanned' = (replanned \/ late)
            /\ undone' = FALSE
            /\ UNCHANGED <<chosen, released>>
    /\ UNCHANGED <<stateVars, queued, saved, persistent, request, reconciler, plays,
                   selections>>

\* handle_playback_event of the first Started starts the reconciliation.  mpv plays,
\* and restarts the playback, only after the planned tracks were selected.
FirstFrame ==
    /\ active # NoPlay /\ ~active.reconciled
    /\ player.play = active.play /\ planned
    /\ active' = [active EXCEPT !.reconciled = TRUE]
    /\ reconciler' = [reconciler EXCEPT ![active.play] =
           [step |-> "source", generation |-> generation, media |-> active.media,
            preference |-> active.preference, revision |-> active.revision,
            shown |-> Idle, correction |-> NoUpdate]]
    /\ disputed' = (disputed \/ request.kind = "select")
    /\ undone' = FALSE
    /\ UNCHANGED <<generation, held, openingVars, player, saved, persistent, request, plays,
                   selections, chosen, replanned, released>>

\* mpv ends the file it has open, and may give up the one it was to open.
EndOfFile ==
    /\ player # Idle \/ queued # 0
    /\ player' = Idle /\ planned' = FALSE
    /\ queued' \in {queued, 0}
    /\ UNCHANGED <<stateVars, pending, loaded, saved, persistent, request, reconciler, plays,
                   selections, historyVars>>

\* handle_playback_event of the end of a file: the tracked play's, or, late, of an
\* earlier one, or of a play whose filter failed and that mpv still has open.
TerminalEvent ==
    /\ active # NoPlay
    /\ active' = NoPlay /\ held' = {} /\ Forget
    /\ UNCHANGED <<generation, openingVars, player, saved, persistent, request, reconciler,
                   plays, selections>>

\* release_playback_resources, after the user's stop was handed to mpv: the play
\* is tracked until the event of its end.
Release ==
    /\ active # NoPlay
    /\ held' = {} /\ released' = TRUE
    /\ UNCHANGED <<generation, active, openingVars, player, saved, persistent, request,
                   reconciler, plays, selections, chosen, undone, disputed, replanned>>

\* mpv may go on playing.
ChangeAccount ==
    /\ generation < MaxChanges /\ plays + generation < MaxTurns
    /\ generation' = generation + 1
    /\ active' = NoPlay /\ held' = {} /\ Forget
    /\ UNCHANGED <<openingVars, player, saved, persistent, request, reconciler, plays,
                   selections>>

-----------------------------------------------------------------------------
(***************************************************************************)
(* execute_track_selection.                                                *)
(***************************************************************************)
Choices == [axis : {"audio"}, key : {{a} : a \in Audio}]
           \cup [axis : {"subtitle"}, key : {{}} \cup {{s} : s \in Subtitles}]

\* A reconciliation past its check will not see a new revision.
Early    == {"none", "source", "check"}
Underway == \E p \in DOMAIN reconciler : reconciler[p].step \notin Early

UpdateOf(c) ==
    IF c.axis = "audio" THEN [NoUpdate EXCEPT !.audio = c.key]
    ELSE [NoUpdate EXCEPT !.enabled = {c.key # {}}, !.subtitle = c.key]

\* begin_request and active_playback_source, and the catalog, whose selected
\* tracks are what a rollback writes.  The key must be in the catalog.
BeginSelect(m, c) ==
    /\ request = NoRequest /\ selections < MaxSelections
    /\ IsCurrent(generation, m)
    /\ player.play # 0 \/ c.key = {} \/ c.key \subseteq ExternalKeys
    /\ selections' = selections + 1
    /\ request' = [kind |-> "select", step |-> "persist", generation |-> generation,
                   media |-> m, choice |-> c, before |-> Shown(player)]
    /\ chosen' = NoChoice /\ undone' = FALSE /\ disputed' = Underway
    /\ replanned' = FALSE
    /\ UNCHANGED <<stateVars, openingVars, player, saved, persistent, reconciler, plays,
                   released>>

Save(gen, m, u) == saved' = [saved EXCEPT ![gen][m] = Applied(@, u)]

Advance(step) == request' = [request EXCEPT !.step = step]
EndRequest    == request' = NoRequest

\* The subtitle is fetched if it is external, and the choice saved; either may
\* fail, and the account may have changed.
SelectPersist ==
    /\ request.step = "persist"
    /\ \/ /\ request.generation = generation
          /\ IF persistent THEN Save(generation, request.media, UpdateOf(request.choice))
             ELSE UNCHANGED saved
          /\ Advance("bump")
       \/ EndRequest /\ UNCHANGED saved
    /\ UNCHANGED <<stateVars, openingVars, player, persistent, reconciler, plays,
                   selections, historyVars>>

\* Fault of the mutation runs: the choice leaves no mark.
SelectWithoutBump ==
    /\ request.step = "bump"
    /\ IF request.generation = generation THEN Advance("apply") ELSE EndRequest
    /\ UNCHANGED <<stateVars, openingVars, player, saved, persistent, reconciler, plays,
                   selections, historyVars>>

\* bump_preference_revision; with another account the request ends.
SelectBump ==
    /\ request.step = "bump"
    /\ IF request.generation = generation
       THEN /\ Advance("apply")
            /\ active' = IF active = NoPlay THEN active
                         ELSE [active EXCEPT !.revision = @ + 1]
       ELSE EndRequest /\ UNCHANGED active
    /\ UNCHANGED <<generation, held, openingVars, player, saved, persistent, reconciler,
                   plays, selections, historyVars>>

SelectApply ==
    /\ request.step = "apply"
    /\ LET c == request.choice IN
       \/ /\ IsCurrent(request.generation, request.media)
          /\ Obeys(c.axis, c.key) /\ Advance("commit") /\ UNCHANGED undone
       \/ /\ IsCurrent(request.generation, request.media)
          /\ Refuses(c.axis) /\ Advance("rollback") /\ undone' = (player' = player)
       \/ /\ ~IsCurrent(request.generation, request.media)
          /\ Advance("rollback") /\ UNCHANGED <<player, held, undone>>
    /\ UNCHANGED <<generation, active, openingVars, saved, persistent, reconciler, plays,
                   selections, chosen, disputed, loadHistory>>

\* commit_active_preference_update, of the reconciliation too.
CommitTo(gen, m, u) ==
    active' = IF IsCurrent(gen, m)
              THEN [active EXCEPT !.preference = Applied(@, u)] ELSE active

SelectCommit ==
    /\ request.step = "commit"
    /\ CommitTo(request.generation, request.media, UpdateOf(request.choice))
    /\ chosen' = IF IsCurrent(request.generation, request.media) THEN request.choice
                 ELSE chosen
    /\ EndRequest
    /\ UNCHANGED <<generation, held, openingVars, player, saved, persistent, reconciler,
                   plays, selections, undone, disputed, loadHistory>>

\* Fault of the mutation runs: nothing is rolled back.
RollbackNothing ==
    /\ request.step = "rollback"
    /\ EndRequest
    /\ UNCHANGED <<stateVars, openingVars, player, saved, persistent, reconciler, plays,
                   selections, historyVars>>

\* rollback_track_preference writes what mpv showed before, if the account is
\* the same; its failure is logged.
SelectRollback ==
    /\ request.step = "rollback"
    /\ \/ /\ persistent /\ request.generation = generation
          /\ Save(generation, request.media, request.before)
          /\ UNCHANGED undone
       \/ UNCHANGED saved /\ undone' = FALSE
    /\ EndRequest
    /\ UNCHANGED <<stateVars, openingVars, player, persistent, reconciler, plays,
                   selections, chosen, disputed, loadHistory>>

-----------------------------------------------------------------------------
(***************************************************************************)
(* execute_tracks_request: the track panel restores an embedded subtitle   *)
(* the preference asks for when none is shown.                             *)
(***************************************************************************)
\* pending_embedded_subtitle_preference
Pending(p) ==
    IF ~p.enabled \/ player.play = 0 \/ player.subtitle # {} THEN {}
    ELSE IF p.subtitle = {} THEN IF p.configured THEN {} ELSE RuntimeDefault
    ELSE IF p.subtitle \subseteq Legacy THEN RuntimeDefault
    ELSE p.subtitle \cap (Listed \cup Runtime)

BeginTracks(m) ==
    /\ request = NoRequest
    /\ IsCurrent(generation, m)
    /\ Pending(active.preference) # {}
    /\ request' = [kind |-> "tracks", step |-> "restore", generation |-> generation,
                   media |-> m, key |-> Pending(active.preference)]
    /\ UNCHANGED <<stateVars, openingVars, player, saved, persistent, reconciler, plays,
                   selections, historyVars>>

TracksRestore ==
    /\ request.step = "restore"
    /\ \/ /\ IsCurrent(request.generation, request.media)
          /\ Obeys("subtitle", request.key) /\ undone' = FALSE
       \/ /\ IsCurrent(request.generation, request.media)
          /\ Refuses("subtitle") /\ undone' = FALSE
       \/ /\ ~IsCurrent(request.generation, request.media)
          /\ UNCHANGED <<player, held, undone>>
    /\ EndRequest
    /\ UNCHANGED <<generation, active, openingVars, saved, persistent, reconciler, plays,
                   selections, chosen, disputed, loadHistory>>

-----------------------------------------------------------------------------
(***************************************************************************)
(* reconcile_runtime_track_preference_inner, of play p.                    *)
(***************************************************************************)
Reconcile(p, worker) == reconciler' = [reconciler EXCEPT ![p] = worker]
To(p, step)          == Reconcile(p, [reconciler[p] EXCEPT !.step = step])
Leave(p)             == Reconcile(p, NoWorker)

\* The play is looked up by its media id; it may be a later one.
ReconcileSource(p) ==
    /\ reconciler[p].step = "source"
    /\ LET r == reconciler[p] IN
       IF IsCurrent(r.generation, r.media) THEN To(p, "check") ELSE Leave(p)
    /\ UNCHANGED <<stateVars, openingVars, player, saved, persistent, request, plays,
                   selections, historyVars>>

\* The revision is compared once, with that of whatever play is tracked by now:
\* every play counts its revisions from 0.
ReconcileCheck(p) ==
    /\ reconciler[p].step = "check"
    /\ LET r == reconciler[p] IN
       IF generation = r.generation /\ active # NoPlay /\ active.revision = r.revision
       THEN To(p, "catalog")
            /\ disputed' = (disputed \/ request.kind = "select" \/ p # active.play)
       ELSE Leave(p) /\ UNCHANGED disputed
    /\ UNCHANGED <<stateVars, openingVars, player, saved, persistent, request, plays,
                   selections, chosen, undone, loadHistory>>

\* current_runtime_track_catalog: mpv's track list, empty with no file open.
ReconcileCatalog(p) ==
    /\ reconciler[p].step = "catalog"
    /\ Reconcile(p, [reconciler[p] EXCEPT !.step = "audio", !.shown = player])
    /\ UNCHANGED <<stateVars, openingVars, player, saved, persistent, request, plays,
                   selections, historyVars>>

Open(r)         == r.shown.play # 0
FallbackAudio(r) == IF Open(r) THEN r.shown.audio ELSE {}

\* The preferred audio is selected; when that fails, or the file has it not, the
\* preference is to be corrected to the track shown.
ReconcileAudio(p) ==
    /\ reconciler[p].step = "audio"
    /\ LET r == reconciler[p]
           wanted == r.preference.audio
           present == Open(r) /\ wanted \subseteq Audio
           corrected == [r EXCEPT !.step = "subtitle", !.correction.audio = FallbackAudio(r)]
       IN \/ /\ wanted # {} /\ present /\ wanted # r.shown.audio
             /\ IsCurrent(r.generation, r.media)
             /\ Obeys("audio", wanted) /\ To(p, "subtitle")
          \/ /\ wanted # {} /\ present /\ wanted # r.shown.audio
             /\ Refuses("audio") /\ Reconcile(p, corrected)
          \/ /\ wanted # {} /\ ~present /\ r.preference.configured
             /\ Reconcile(p, corrected) /\ UNCHANGED <<player, held>>
          \/ /\ \/ wanted = {}
                \/ present /\ wanted = r.shown.audio
                \/ ~present /\ ~r.preference.configured
             /\ To(p, "subtitle") /\ UNCHANGED <<player, held>>
    /\ UNCHANGED <<generation, active, openingVars, saved, persistent, request, plays,
                   selections, historyVars>>

\* The reconciliation selects subtitle key, and goes on with correction u.
Selects(p, key, u) ==
    LET r == reconciler[p] IN
    /\ IsCurrent(r.generation, r.media)
    /\ Obeys("subtitle", key)
    /\ Reconcile(p, [r EXCEPT !.step = "correct", !.correction = u])

\* It cannot: the file is not fetched, mpv refuses, or the play is another.  It
\* then ends, or goes on with correction u.
CannotSelect(p) ==
    \/ UNCHANGED <<player, held>>
    \/ IsCurrent(reconciler[p].generation, reconciler[p].media) /\ Refuses("subtitle")
Corrects(p, u) ==
    Reconcile(p, [reconciler[p] EXCEPT !.step = "correct", !.correction = u])

\* correction_from_subtitle_baseline
FromBaseline(r) == [r.correction EXCEPT !.enabled = Shown(r.shown).enabled,
                                        !.subtitle = Shown(r.shown).subtitle]

Unknown(r, key) == key \cap ExternalKeys = {} /\ ~(Open(r) /\ key \subseteq Subtitles)

\* Fault of the mutation runs: a key of mpv's own is corrected like any other.
ReconcileAnyKey(p) ==
    LET r == reconciler[p]
        key == r.preference.subtitle
    IN \/ /\ key = CatalogKey(r.shown.subtitle)
          /\ To(p, "correct") /\ UNCHANGED <<player, held>>
       \/ /\ key # CatalogKey(r.shown.subtitle)
          /\ \/ ~Unknown(r, key) /\ Selects(p, key, r.correction)
             \/ CannotSelect(p) /\ Corrects(p, FromBaseline(r))

\* A saved key: shown already; of the old form; or selected by its name, where
\* an external subtitle is fetched first.  A key of mpv's own is never corrected.
ReconcileKey(p) ==
    LET r == reconciler[p]
        key == r.preference.subtitle
        moved == [r.correction EXCEPT !.enabled = {TRUE}, !.subtitle = RuntimeDefault]
        native == key \subseteq Runtime \cup Legacy
    IN \/ /\ key = CatalogKey(r.shown.subtitle)
          /\ To(p, "correct") /\ UNCHANGED <<player, held>>
       \/ /\ key # CatalogKey(r.shown.subtitle) /\ key \subseteq Legacy
          /\ \/ /\ Open(r) /\ RuntimeDefault # {} /\ RuntimeDefault = r.shown.subtitle
                /\ Corrects(p, moved) /\ UNCHANGED <<player, held>>
             \/ /\ Open(r) /\ RuntimeDefault # {} /\ RuntimeDefault # r.shown.subtitle
                /\ Selects(p, RuntimeDefault, moved)
             \/ /\ RuntimeDefault # r.shown.subtitle \/ RuntimeDefault = {}
                /\ CannotSelect(p) /\ Leave(p)
       \/ /\ key # CatalogKey(r.shown.subtitle) /\ ~(key \subseteq Legacy)
          /\ \/ ~Unknown(r, key) /\ Selects(p, key, r.correction)
             \/ native /\ CannotSelect(p) /\ Leave(p)
             \/ ~native /\ CannotSelect(p) /\ Corrects(p, FromBaseline(r))

ReconcileSubtitle(p) ==
    /\ reconciler[p].step = "subtitle"
    /\ LET r == reconciler[p]
           wanted == r.preference
           preferred == IF Open(r) THEN RuntimeDefault ELSE {}
       IN \/ wanted.enabled /\ wanted.subtitle # {} /\ ReconcileKey(p)
          \/ /\ wanted.enabled /\ wanted.subtitle = {} /\ wanted.configured
             /\ Corrects(p, [r.correction EXCEPT !.enabled = {FALSE}])
             /\ UNCHANGED <<player, held>>
          \/ /\ wanted.enabled /\ wanted.subtitle = {} /\ ~wanted.configured
             /\ \/ /\ preferred = {} \/ preferred = r.shown.subtitle
                   /\ To(p, "correct") /\ UNCHANGED <<player, held>>
                \/ /\ preferred # {} /\ preferred # r.shown.subtitle
                   /\ \/ Selects(p, preferred, r.correction)
                      \/ CannotSelect(p) /\ Leave(p)
          \/ /\ ~wanted.enabled /\ r.shown.subtitle = {}
             /\ To(p, "correct") /\ UNCHANGED <<player, held>>
          \/ /\ ~wanted.enabled /\ r.shown.subtitle # {}
             /\ \/ Selects(p, {}, r.correction)
                \/ CannotSelect(p) /\ Leave(p)
    /\ UNCHANGED <<generation, active, openingVars, saved, persistent, request, plays,
                   selections, historyVars>>

\* The correction is saved, unless there is none, the account changed, or the
\* server fails; it is written to the scope the play was loaded with.
ReconcileCorrect(p) ==
    /\ reconciler[p].step = "correct"
    /\ LET r == reconciler[p] IN
       \/ /\ r.correction # NoUpdate /\ persistent /\ r.generation = generation
          /\ Save(generation, r.media, r.correction) /\ To(p, "commit")
       \/ Leave(p) /\ UNCHANGED saved
    /\ UNCHANGED <<stateVars, openingVars, player, persistent, request, plays, selections,
                   historyVars>>

ReconcileCommit(p) ==
    /\ reconciler[p].step = "commit"
    /\ LET r == reconciler[p] IN CommitTo(r.generation, r.media, r.correction)
    /\ Leave(p)
    /\ UNCHANGED <<generation, held, openingVars, player, saved, persistent, request, plays,
                   selections, historyVars>>

-----------------------------------------------------------------------------
TrackInit ==
    /\ generation = 0 /\ active = NoPlay /\ held = {} /\ player = Idle
    /\ persistent \in BOOLEAN
    /\ \E p \in InitialSaved :
           /\ ~persistent => ~p.configured
           /\ saved = [a \in Accounts |-> [m \in Media |-> p]]
    /\ queued = 0 /\ pending = NoPlan /\ loaded = 0 /\ planned = FALSE
    /\ request = NoRequest
    /\ reconciler = [p \in 1..MaxPlays |-> NoWorker]
    /\ plays = 0 /\ selections = 0
    /\ chosen = NoChoice /\ undone = FALSE /\ disputed = FALSE
    /\ replanned = FALSE /\ released = FALSE

Request ==
    \/ LoadIfCurrent \/ LoadFails
    \/ SelectPersist \/ SelectBump \/ SelectApply \/ SelectCommit \/ SelectRollback
    \/ TracksRestore

Reconciler(p) ==
    \/ ReconcileSource(p) \/ ReconcileCheck(p) \/ ReconcileCatalog(p) \/ ReconcileAudio(p)
    \/ ReconcileSubtitle(p) \/ ReconcileCorrect(p) \/ ReconcileCommit(p)

TrackNext ==
    \/ \E m \in Media : BeginLoad(m) \/ BeginTracks(m)
    \/ \E m \in Media, c \in Choices : BeginSelect(m, c)
    \/ Request
    \/ \E p \in 1..MaxPlays : Reconciler(p)
    \/ MpvOpens \/ FileLoaded \/ FirstFrame \/ EndOfFile
    \/ TerminalEvent \/ Release \/ ChangeAccount

TrackSpec == TrackInit /\ [][TrackNext]_vars

-----------------------------------------------------------------------------
(***************************************************************************)
(* Properties.                                                             *)
(***************************************************************************)
\* mpv has the tracked play's file open, and was given its planned tracks.
Playing == active # NoPlay /\ player.play = active.play /\ planned

Holds(p, c) ==
    IF c.axis = "audio" THEN p.audio = c.key
    ELSE (p.enabled <=> c.key # {}) /\ (c.key # {} => p.subtitle = c.key)

Honoured ==
    /\ player[chosen.axis] = chosen.key
    /\ Holds(active.preference, chosen)
    /\ persistent => Holds(saved[generation][active.media], chosen)

\* mpv's external subtitle has the name of the server's first, so another one
\* cannot be told from it.
Named(c) == c.axis = "subtitle" => CatalogKey(c.key) = c.key

\* A track the user chose, and the catalog can name, is shown, tracked and saved
\* as long as its play lasts, unless something got in the way of the selection: the
\* file was opened only after it began, so that the plan of its load came later; or
\* a reconciliation was past its check of the revision, or began, while it was
\* carried out, or was begun for an earlier play and took this one for its own.
ChoiceStays ==
    Playing /\ chosen # NoChoice /\ Named(chosen) /\ ~disputed => Honoured

\* The same of every choice that was made of an open file, as preference_revision
\* promises.
ChoiceIsFinal == Playing /\ chosen # NoChoice /\ ~replanned => Honoured

\* After a selection that mpv refused and the server took back, the saved
\* preference is what mpv shows, by the names of the catalog, until another request,
\* the first frame or the plan of the load changes what is shown.
RollbackAgrees ==
    Playing /\ undone /\ ~disputed /\ persistent /\ request = NoRequest
    => LET s == saved[generation][active.media] IN s = Applied(s, Shown(player))

\* The file of an external subtitle is kept for as long as its play shows it, or
\* until the user stops the player, after which mpv may show it a little longer.
FilesOutliveUse ==
    Playing /\ ~released /\ player.subtitle \subseteq ExternalKeys
    => player.subtitle \subseteq held

\* A reconciliation of a play with a subtitle key of mpv's own saves no other
\* subtitle, whether the track was found, refused or missing.
RuntimeKeysAreKept ==
    [][\A p \in 1..MaxPlays :
           LET r == reconciler[p] IN
           /\ r.step = "correct" /\ reconciler'[p].step = "commit"
           /\ r.preference.enabled
           /\ r.preference.subtitle # {} /\ r.preference.subtitle \subseteq Runtime
           => /\ saved'[r.generation][r.media].subtitle = saved[r.generation][r.media].subtitle
              /\ saved'[r.generation][r.media].enabled = saved[r.generation][r.media].enabled]_vars

=============================================================================
