------------------------- MODULE TrackPreferenceProofs -------------------------
(***************************************************************************)
(* Theorems about the shown, the tracked and the saved tracks, for every   *)
(* set of tracks, preferences and media, and every number of loads,        *)
(* selections and account changes.                                         *)
(***************************************************************************)
EXTENDS TrackPreference, TLAPS

Active  == [play : 1..MaxPlays, media : Media, preference : Preferences, revision : Nat,
            reconciled : BOOLEAN]
Plans   == [audio : SUBSET Keys, subtitle : SUBSET Keys]
Players == [play : 0..MaxPlays, audio : SUBSET Keys, subtitle : SUBSET Keys]
Updates == [enabled : SUBSET BOOLEAN, subtitle : SUBSET Keys, audio : SUBSET Keys]
Workers == [step : {"source", "check", "catalog", "audio", "subtitle", "correct", "commit"},
            generation : Accounts, media : Media, preference : Preferences,
            revision : Nat, shown : Players, correction : Updates]

Loads      == [kind : {"load"}, step : {"load"}, generation : Accounts, media : Media,
               preference : Preferences]
Selections == [kind : {"select"}, step : {"persist", "bump", "apply", "commit", "rollback"},
               generation : Accounts, media : Media, choice : Choices, before : Updates]
Restores   == [kind : {"tracks"}, step : {"restore"}, generation : Accounts, media : Media,
               key : SUBSET Keys]

TrackTypeOK ==
    /\ generation \in Accounts
    /\ active \in Active \cup {NoPlay}
    /\ held \subseteq ExternalKeys
    /\ player \in Players
    /\ queued \in 0..MaxPlays /\ pending \in Plans /\ loaded \in Nat /\ planned \in BOOLEAN
    /\ saved \in [Accounts -> [Media -> Preferences]]
    /\ persistent \in BOOLEAN
    /\ request \in Loads \cup Selections \cup Restores \cup {NoRequest}
    /\ reconciler \in [1..MaxPlays -> Workers \cup {NoWorker}]
    /\ plays \in 0..MaxPlays /\ selections \in Nat
    /\ request.step = "load" => plays < MaxPlays
    /\ chosen \in Choices \cup {NoChoice}
    /\ undone \in BOOLEAN /\ disputed \in BOOLEAN
    /\ replanned \in BOOLEAN /\ released \in BOOLEAN

-----------------------------------------------------------------------------
(***************************************************************************)
(* The inductive invariant.                                                *)
(***************************************************************************)
\* The reconciliation of the tracked play.
Own == reconciler[active.play]

\* mpv has no file that was not loaded, and the tracked play is the last one loaded;
\* it has a reconciliation from its first frame on.
PlaysFollow ==
    /\ player.play <= plays /\ queued <= plays
    /\ \A p \in 1..MaxPlays : reconciler[p] # NoWorker => p <= plays
    /\ active # NoPlay =>
           /\ active.play = plays
           /\ ~active.reconciled => Own = NoWorker
           /\ Own # NoWorker => /\ Own.revision <= active.revision
                                /\ Own.generation = generation /\ Own.media = active.media

\* The preference asks for a subtitle key of mpv's own.
OwnKey(r) ==
    r.preference.enabled /\ r.preference.subtitle # {} /\ r.preference.subtitle \subseteq Runtime

\* A reconciliation has no correction of a track it did not look at, and none of a
\* subtitle key of mpv's own.
CorrectsLate ==
    \A p \in 1..MaxPlays :
        LET r == reconciler[p] IN
        r # NoWorker =>
            /\ r.step \in {"source", "check", "catalog", "audio", "subtitle"} \/ OwnKey(r) =>
                   r.correction.enabled = {} /\ r.correction.subtitle = {}
            /\ r.step \in {"source", "check", "catalog", "audio"} => r.correction.audio = {}

\* What the play's own reconciliation was begun with is older than the selection.
Outdated == Own # NoWorker => Own.revision < active.revision

\* A selection that nothing got in the way of finds mpv and the server as it left
\* them, step by step.
SelectionIsAlone ==
    request.kind = "select" /\ active # NoPlay =>
        /\ request.generation = generation /\ request.media = active.media
        /\ ~disputed =>
               /\ ~Underway
               /\ request.step \in {"apply", "commit", "rollback"} => Outdated
               /\ persistent /\ request.step \in {"bump", "apply", "commit"} =>
                      Holds(saved[generation][active.media], request.choice)
               /\ Playing /\ request.step = "commit" =>
                      player[request.choice.axis] = request.choice.key
               /\ /\ Playing
                  /\ request.step \in {"persist", "bump", "apply"} \/ undone
                  => request.before = Shown(player)

\* A track panel's request is for the tracked play.
RestoreIsCurrent ==
    request.kind = "tracks" /\ active # NoPlay =>
        request.generation = generation /\ request.media = active.media

\* Reconciliation r wants the choice c, finds it shown, and corrects nothing of it.
Wants(r, c) ==
    /\ Holds(r.preference, c)
    /\ r.step \in {"audio", "subtitle"} => Open(r) /\ r.shown[c.axis] = c.key
    /\ IF c.axis = "audio" THEN r.correction.audio = {}
       ELSE r.correction.enabled = {} /\ r.correction.subtitle = {}

\* While a choice stands, who may touch the tracks wants the same.
ChoiceIsSafe ==
    /\ chosen # NoChoice => request.kind # "select"
    /\ Playing /\ chosen # NoChoice /\ Named(chosen) /\ ~disputed =>
           /\ request.kind = "tracks" => chosen.axis = "audio"
           /\ Own # NoWorker /\ Own.step \in Early /\ Own.revision = active.revision =>
                  Holds(Own.preference, chosen)
           /\ \A p \in 1..MaxPlays :
                  reconciler[p].step \notin Early =>
                      p = active.play /\ Wants(reconciler[p], chosen)

\* Nobody touches the tracks after a selection that was taken back, until a request
\* does.
RefusalIsSafe ==
    undone =>
        /\ request.kind = "select" => request.step = "rollback"
        /\ Playing /\ ~disputed => Outdated /\ ~Underway
        /\ Playing /\ ~disputed /\ persistent /\ request.kind # "select" =>
               LET s == saved[generation][active.media] IN s = Applied(s, Shown(player))

TrackSafe ==
    /\ PlaysFollow
    /\ CorrectsLate
    /\ SelectionIsAlone
    /\ RestoreIsCurrent
    /\ ChoiceStays
    /\ ChoiceIsSafe
    /\ RefusalIsSafe
    /\ FilesOutliveUse

TrackIInv == TrackTypeOK /\ TrackSafe

-----------------------------------------------------------------------------
(***************************************************************************)
(* Types.                                                                  *)
(***************************************************************************)
\* Nothing is not mistaken for something.
LEMMA NothingIsApart ==
    /\ NoPlay \notin Active /\ NoPlay.play = 0
    /\ NoWorker \notin Workers /\ NoWorker.step = "none"
    /\ NoRequest \notin Loads \cup Selections \cup Restores
    /\ NoRequest.kind = "none" /\ NoRequest.step = "none"
    /\ NoChoice \notin Choices /\ NoChoice.axis = "none"
    /\ Idle \in Players /\ Idle.play = 0 /\ Idle.subtitle = {}
    /\ NoUpdate \in Updates
    /\ NoUpdate.enabled = {} /\ NoUpdate.subtitle = {} /\ NoUpdate.audio = {}
BY BoundsAssumption DEF NoPlay, Active, NoWorker, Workers, NoRequest, Loads, Selections,
   Restores, NoChoice, Choices, Idle, Players, NoUpdate, Updates

\* A choice names a track of its axis, or turns the subtitle off.
LEMMA ChoiceTyped ==
    ASSUME NEW c \in Choices
    PROVE  /\ c.axis \in {"audio", "subtitle"} /\ c.key \subseteq Keys
           /\ c.axis = "audio" => c.key # {} /\ c.key \subseteq Audio
           /\ c.axis = "subtitle" /\ c.key # {} =>
                  \E s \in Subtitles : c.key = {s}
           /\ UpdateOf(c) \in Updates
BY DEF Choices, Keys, UpdateOf, NoUpdate, Updates

\* What a preference becomes by an update, field by field.
LEMMA AppliedTyped ==
    ASSUME NEW p \in Preferences, NEW u \in Updates
    PROVE  /\ Applied(p, u) \in Preferences
           /\ Applied(p, u).configured = TRUE
           /\ Applied(p, u).enabled = IF u.enabled = {} THEN p.enabled ELSE TRUE \in u.enabled
           /\ Applied(p, u).subtitle = IF u.subtitle = {} THEN p.subtitle ELSE u.subtitle
           /\ Applied(p, u).audio = IF u.audio = {} THEN p.audio ELSE u.audio
<1> DEFINE on  == IF u.enabled = {} THEN p.enabled ELSE TRUE \in u.enabled
           sub == IF u.subtitle = {} THEN p.subtitle ELSE u.subtitle
           aud == IF u.audio = {} THEN p.audio ELSE u.audio
<1>1. Applied(p, u) = [configured |-> TRUE, enabled |-> on, subtitle |-> sub, audio |-> aud]
  BY Zenon DEF Applied, OrElse
<1>2. on \in BOOLEAN
  <2>1. p.enabled \in BOOLEAN
    BY DEF Preferences
  <2>2. CASE u.enabled = {}
    BY <2>1, <2>2
  <2>3. CASE u.enabled # {}
    <3>1. (TRUE \in u.enabled) \in BOOLEAN
      OBVIOUS
    <3>2. on = (TRUE \in u.enabled)
      BY <2>3, Zenon
    <3>. QED
      BY <3>1, <3>2, Zenon
  <2>. QED
    BY <2>2, <2>3
<1>3. sub \in SUBSET Keys /\ aud \in SUBSET Keys
  BY DEF Preferences, Updates
<1> HIDE DEF on, sub, aud
<1>4. Applied(p, u) \in Preferences
  BY <1>1, <1>2, <1>3 DEF Preferences
<1>5. /\ Applied(p, u).configured = TRUE /\ Applied(p, u).enabled = on
      /\ Applied(p, u).subtitle = sub /\ Applied(p, u).audio = aud
  BY <1>1
<1>. QED
  BY <1>4, <1>5, Zenon DEF on, sub, aud

\* What the player shows is an update.
LEMMA ShownTyped ==
    ASSUME NEW pl \in Players
    PROVE  /\ Shown(pl) \in Updates
           /\ Shown(pl).enabled = {pl.subtitle # {}}
           /\ Shown(pl).subtitle = CatalogKey(pl.subtitle) /\ Shown(pl).audio = pl.audio
           /\ CatalogKey(pl.subtitle) = {} <=> pl.subtitle = {}
<1>1. CatalogKey(pl.subtitle) \in SUBSET Keys
  <2>1. CASE pl.subtitle # {} /\ pl.subtitle \subseteq ExternalKeys
    <3>1. ExternalKeys # {} /\ Externals \in Seq(ExternalKeys)
      BY <2>1, TracksAssumption
    <3>2. Externals[1] \in ExternalKeys
      BY <3>1 DEF ExternalKeys
    <3>. QED
      BY <2>1, <3>2 DEF CatalogKey, Keys, Subtitles
  <2>2. CASE ~(pl.subtitle # {} /\ pl.subtitle \subseteq ExternalKeys)
    BY <2>2 DEF CatalogKey, Players
  <2>. QED
    BY <2>1, <2>2
<1>2. CatalogKey(pl.subtitle) = {} <=> pl.subtitle = {}
  BY DEF CatalogKey
<1>. QED
  BY <1>1, <1>2 DEF Shown, Updates, Players

\* A plan has tracks of the file.
LEMMA PlanTyped ==
    ASSUME NEW p \in Preferences
    PROVE  PlanAudio(p) \in SUBSET Keys /\ PlanSubtitle(p) \in SUBSET Keys
BY TracksAssumption DEF PlanAudio, PlanSubtitle, OrElse, Preferences, Keys, Subtitles

LEMMA InitTyped == TrackInit => TrackTypeOK
<1> SUFFICES ASSUME TrackInit PROVE TrackTypeOK
  OBVIOUS
<1>1. PICK p \in InitialSaved : saved = [a \in Accounts |-> [m \in Media |-> p]]
  BY DEF TrackInit
<1>2. p \in Preferences
  BY SavedAssumption DEF Preferences, Keys
<1>3. saved \in [Accounts -> [Media -> Preferences]]
  BY <1>1, <1>2
<1>4. reconciler \in [1..MaxPlays -> Workers \cup {NoWorker}]
  BY DEF TrackInit
<1>5. /\ generation \in Accounts /\ held \subseteq ExternalKeys
      /\ plays \in 0..MaxPlays /\ selections \in Nat
  BY BoundsAssumption DEF TrackInit, Accounts
<1>7. /\ persistent \in BOOLEAN /\ undone \in BOOLEAN /\ disputed \in BOOLEAN
      /\ planned \in BOOLEAN /\ replanned \in BOOLEAN /\ released \in BOOLEAN
  BY Zenon DEF TrackInit
<1>6. active = NoPlay /\ player = Idle /\ request = NoRequest /\ chosen = NoChoice
  BY DEF TrackInit
<1>8. queued \in 0..MaxPlays /\ pending \in Plans /\ loaded \in Nat
  BY BoundsAssumption DEF TrackInit, Plans, NoPlan
<1>. QED
  BY <1>3, <1>4, <1>5, <1>6, <1>7, <1>8, NothingIsApart DEF TrackTypeOK

\* The step a request is at tells what it is.
LEMMA RequestOfStep ==
    ASSUME TrackTypeOK
    PROVE  /\ request.kind = "load" <=> request.step = "load"
           /\ request.kind = "tracks" <=> request.step = "restore"
           /\ request.kind = "none" <=> request = NoRequest
           /\ request.kind = "load" => request \in Loads
           /\ request.kind = "select" => request \in Selections
           /\ request.kind = "tracks" => request \in Restores
           /\ request.step \in {"persist", "bump", "apply", "commit", "rollback"} =>
                  request.kind = "select"
           /\ request.kind \in {"load", "select", "tracks", "none"}
BY NothingIsApart DEF TrackTypeOK, Loads, Selections, Restores

LEMMA SaveTyped ==
    ASSUME TrackTypeOK, NEW gen \in Accounts, NEW m \in Media, NEW u \in Updates,
           Save(gen, m, u)
    PROVE  saved' \in [Accounts -> [Media -> Preferences]]
<1>1. saved[gen] \in [Media -> Preferences] /\ saved[gen][m] \in Preferences
  BY DEF TrackTypeOK
<1>2. Applied(saved[gen][m], u) \in Preferences
  BY <1>1, AppliedTyped
<1>3. saved' = [saved EXCEPT ![gen] = [saved[gen] EXCEPT ![m] = Applied(saved[gen][m], u)]]
  BY DEF Save
<1>4. [saved[gen] EXCEPT ![m] = Applied(saved[gen][m], u)] \in [Media -> Preferences]
  BY <1>1, <1>2
<1>. QED
  BY <1>3, <1>4 DEF TrackTypeOK

LEMMA CommitTyped ==
    ASSUME TrackTypeOK, NEW gen \in Accounts, NEW m \in Media, NEW u \in Updates,
           CommitTo(gen, m, u)
    PROVE  active' \in Active \cup {NoPlay}
<1>1. CASE IsCurrent(gen, m)
  <2>1. active \in Active /\ active.preference \in Preferences
    BY <1>1 DEF TrackTypeOK, IsCurrent, Active
  <2>2. Applied(active.preference, u) \in Preferences
    BY <2>1, AppliedTyped
  <2>3. active' = [active EXCEPT !.preference = Applied(active.preference, u)]
    BY <1>1 DEF CommitTo
  <2>. QED
    BY <2>1, <2>2, <2>3 DEF Active
<1>2. CASE ~IsCurrent(gen, m)
  BY <1>2 DEF CommitTo, TrackTypeOK
<1>. QED
  BY <1>1, <1>2

\* mpv shows tracks and the runtime keeps files, whether mpv obeys or refuses.
LEMMA SelectionTyped ==
    ASSUME TrackTypeOK, NEW axis \in {"audio", "subtitle"}, NEW key \in SUBSET Keys,
           Obeys(axis, key) \/ Refuses(axis) \/ UNCHANGED <<player, held>>
    PROVE  player' \in Players /\ held' \subseteq ExternalKeys
<1>1. CASE Obeys(axis, key)
  BY <1>1 DEF TrackTypeOK, Obeys, Players
<1>2. CASE Refuses(axis)
  BY <1>2 DEF TrackTypeOK, Refuses, Players
<1>. QED
  BY <1>1, <1>2 DEF TrackTypeOK

LEMMA LoadStepsTyped ==
    ASSUME TrackTypeOK,
           (\E m \in Media : BeginLoad(m) \/ BeginTracks(m)) \/ LoadIfCurrent \/ LoadFails
    PROVE  TrackTypeOK'
<1>1. ASSUME NEW m \in Media, BeginLoad(m) PROVE TrackTypeOK'
  <2>1. request' \in Loads
    BY <1>1 DEF BeginLoad, TrackTypeOK, Loads
  <2>. QED
    BY <1>1, <2>1 DEF BeginLoad, TrackTypeOK, stateVars, openingVars, historyVars, loadHistory
<1>2. ASSUME NEW m \in Media, BeginTracks(m) PROVE TrackTypeOK'
  <2>1. active \in Active /\ active.preference \in Preferences
    BY <1>2 DEF BeginTracks, IsCurrent, TrackTypeOK, Active
  <2>2. Pending(active.preference) \in SUBSET Keys
    BY <2>1, TracksAssumption DEF Pending, Preferences, Keys, Subtitles
  <2>3. request' \in Restores
    BY <1>2, <2>2 DEF BeginTracks, TrackTypeOK, Restores
  <2>. QED
    BY <1>2, <2>3 DEF BeginTracks, TrackTypeOK, stateVars, openingVars, historyVars, loadHistory
<1>3. CASE LoadIfCurrent
  <2>1. request \in Loads /\ request.preference \in Preferences /\ request.media \in Media
    BY <1>3, RequestOfStep DEF LoadIfCurrent, Loads
  <2>2. CASE request.generation # generation
    BY <1>3, <2>2, NothingIsApart DEF LoadIfCurrent, TrackTypeOK, stateVars,
       historyVars, loadHistory
  <2>3. CASE request.generation = generation
    <3> DEFINE p == request.preference
               plan == [audio |-> PlanAudio(p), subtitle |-> PlanSubtitle(p)]
    <3>1. plan \in Plans
      BY <2>1, PlanTyped DEF Plans
    <3>2. /\ plays' = plays + 1 /\ request' = NoRequest
          /\ active' = [play |-> plays + 1, media |-> request.media, preference |-> p,
                        revision |-> 0, reconciled |-> FALSE]
          /\ held' = PlanSubtitle(p) \cap ExternalKeys
          /\ queued' = plays + 1 /\ pending' = plan
          /\ chosen' = NoChoice
          /\ UNCHANGED <<generation, player, loaded, planned, saved, persistent, reconciler,
                         selections>>
      BY <1>3, <2>3 DEF LoadIfCurrent, Forget
    <3>3. plays + 1 \in 1..MaxPlays /\ plays \in Nat
      BY <1>3, BoundsAssumption DEF LoadIfCurrent, TrackTypeOK
    <3>4. active' \in Active
      BY <2>1, <3>2, <3>3 DEF Active
    <3>5. /\ undone' \in BOOLEAN /\ disputed' \in BOOLEAN
          /\ replanned' \in BOOLEAN /\ released' \in BOOLEAN
      BY <1>3, <2>3 DEF LoadIfCurrent, Forget
    <3> HIDE DEF plan
    <3>6. /\ held' \subseteq ExternalKeys /\ plays' \in 0..MaxPlays
          /\ queued' \in 0..MaxPlays /\ pending' \in Plans
      BY <3>1, <3>2, <3>3
    <3> HIDE DEF p
    <3>. QED
      BY <3>2, <3>4, <3>5, <3>6, NothingIsApart DEF TrackTypeOK
  <2>. QED
    BY <2>2, <2>3
<1>4. CASE LoadFails
  <2>1. pending' \in Plans
    BY <1>4 DEF LoadFails, TrackTypeOK, Plans, NoPlan
  <2>. QED
    BY <1>4, <2>1, NothingIsApart DEF LoadFails, TrackTypeOK, stateVars, historyVars,
       loadHistory
<1>. QED
  BY <1>1, <1>2, <1>3, <1>4

LEMMA SelectStepsTyped ==
    ASSUME TrackTypeOK,
           \/ \E m \in Media, c \in Choices : BeginSelect(m, c)
           \/ SelectPersist \/ SelectBump \/ SelectApply \/ SelectCommit \/ SelectRollback
           \/ TracksRestore
    PROVE  TrackTypeOK'
<1> USE DEF stateVars, openingVars, historyVars, loadHistory
<1>1. ASSUME NEW m \in Media, NEW c \in Choices, BeginSelect(m, c) PROVE TrackTypeOK'
  <2>1. request' \in Selections
    BY <1>1, ShownTyped DEF BeginSelect, TrackTypeOK, Selections
  <2>2. selections' = selections + 1 /\ chosen' = NoChoice /\ undone' = FALSE
    BY <1>1 DEF BeginSelect
  <2>3. selections' \in Nat /\ undone' \in BOOLEAN
    <3>1. selections \in Nat
      BY DEF TrackTypeOK
    <3>2. selections' \in Nat
      BY <2>2, <3>1
    <3>. QED
      BY <2>2, <3>2
  <2>4. disputed' \in BOOLEAN
    <3>1. disputed' = Underway
      BY <1>1 DEF BeginSelect
    <3>2. Underway \in BOOLEAN
      BY DEF Underway
    <3>. QED
      BY <3>1, <3>2, Zenon
  <2>. QED
    BY <1>1, <2>1, <2>2, <2>3, <2>4 DEF BeginSelect, TrackTypeOK, Selections
<1>2. CASE SelectPersist
  <2>1. request \in Selections
    BY <1>2, RequestOfStep DEF SelectPersist
  <2>2. saved' \in [Accounts -> [Media -> Preferences]]
    <3>1. CASE UNCHANGED saved
      BY <3>1 DEF TrackTypeOK
    <3>2. CASE Save(generation, request.media, UpdateOf(request.choice))
      <4>1. request.choice \in Choices /\ request.media \in Media /\ generation \in Accounts
        BY <2>1 DEF Selections, TrackTypeOK
      <4>. QED
        BY <3>2, <4>1, ChoiceTyped, SaveTyped
    <3>. QED
      BY <1>2, <3>1, <3>2 DEF SelectPersist
  <2>3. request' \in Selections \cup {NoRequest} /\ request'.step # "load"
    BY <1>2, <2>1, NothingIsApart DEF SelectPersist, Advance, EndRequest, Selections
  <2>. QED
    BY <1>2, <2>2, <2>3 DEF SelectPersist, TrackTypeOK
<1>3. CASE SelectBump
  <2>1. request \in Selections
    BY <1>3, RequestOfStep DEF SelectBump
  <2>2. active' \in Active \cup {NoPlay}
    BY <1>3 DEF SelectBump, TrackTypeOK, Active
  <2>3. request' \in Selections \cup {NoRequest} /\ request'.step # "load"
    BY <1>3, <2>1, NothingIsApart DEF SelectBump, Advance, EndRequest, Selections
  <2>. QED
    BY <1>3, <2>2, <2>3 DEF SelectBump, TrackTypeOK
<1>4. CASE SelectApply
  <2>1. request \in Selections
    BY <1>4, RequestOfStep DEF SelectApply
  <2>2. request.choice.axis \in {"audio", "subtitle"} /\ request.choice.key \in SUBSET Keys
    BY <2>1, ChoiceTyped DEF Selections
  <2>3. \/ Obeys(request.choice.axis, request.choice.key) \/ Refuses(request.choice.axis)
        \/ UNCHANGED <<player, held>>
    BY <1>4 DEF SelectApply
  <2>4. player' \in Players /\ held' \subseteq ExternalKeys
    BY <2>2, <2>3, SelectionTyped
  <2>5. request' \in Selections /\ request'.step # "load"
    BY <1>4, <2>1 DEF SelectApply, Advance, Selections
  <2>6. undone' \in BOOLEAN
    BY <1>4 DEF SelectApply, TrackTypeOK
  <2>. QED
    BY <1>4, <2>4, <2>5, <2>6 DEF SelectApply, TrackTypeOK
<1>5. CASE SelectCommit
  <2>1. request \in Selections
    BY <1>5, RequestOfStep DEF SelectCommit
  <2>2. active' \in Active \cup {NoPlay}
    BY <1>5, <2>1, CommitTyped, ChoiceTyped DEF SelectCommit, Selections
  <2>3. chosen' \in Choices \cup {NoChoice}
    BY <1>5, <2>1 DEF SelectCommit, Selections, TrackTypeOK
  <2>. QED
    BY <1>5, <2>2, <2>3, NothingIsApart DEF SelectCommit, EndRequest, TrackTypeOK
<1>6. CASE SelectRollback
  <2>1. request \in Selections
    BY <1>6, RequestOfStep DEF SelectRollback
  <2>2. saved' \in [Accounts -> [Media -> Preferences]]
    <3>1. CASE UNCHANGED saved
      BY <3>1 DEF TrackTypeOK
    <3>2. CASE Save(generation, request.media, request.before)
      <4>1. request.before \in Updates /\ request.media \in Media /\ generation \in Accounts
        BY <2>1 DEF Selections, TrackTypeOK
      <4>. QED
        BY <3>2, <4>1, SaveTyped
    <3>. QED
      BY <1>6, <3>1, <3>2 DEF SelectRollback
  <2>3. undone' \in BOOLEAN
    BY <1>6 DEF SelectRollback, TrackTypeOK
  <2>. QED
    BY <1>6, <2>2, <2>3, NothingIsApart DEF SelectRollback, EndRequest, TrackTypeOK
<1>7. CASE TracksRestore
  <2>1. request \in Restores
    BY <1>7, RequestOfStep DEF TracksRestore
  <2>2. player' \in Players /\ held' \subseteq ExternalKeys
    <3>1. request.key \in SUBSET Keys
      BY <2>1 DEF Restores
    <3>2. Obeys("subtitle", request.key) \/ Refuses("subtitle") \/ UNCHANGED <<player, held>>
      BY <1>7 DEF TracksRestore
    <3>. QED
      BY <3>1, <3>2, SelectionTyped
  <2>3. undone' \in BOOLEAN
    BY <1>7 DEF TracksRestore, TrackTypeOK
  <2>. QED
    BY <1>7, <2>2, <2>3, NothingIsApart DEF TracksRestore, EndRequest, TrackTypeOK
<1>. QED
  BY <1>1, <1>2, <1>3, <1>4, <1>5, <1>6, <1>7

LEMMA PlayStepsTyped ==
    ASSUME TrackTypeOK,
           MpvOpens \/ FileLoaded \/ FirstFrame \/ EndOfFile \/ TerminalEvent \/ Release
           \/ ChangeAccount
    PROVE  TrackTypeOK'
<1> USE DEF stateVars, openingVars, historyVars, loadHistory
<1>1. CASE FirstFrame
  <2>1. active \in Active
    BY <1>1 DEF FirstFrame, TrackTypeOK
  <2>2. active' \in Active
    BY <1>1, <2>1 DEF FirstFrame, Active
  <2> DEFINE w == [step |-> "source", generation |-> generation, media |-> active.media,
                   preference |-> active.preference, revision |-> active.revision,
                   shown |-> Idle, correction |-> NoUpdate]
  <2>3. w \in Workers
    BY <2>1, NothingIsApart DEF Workers, Active, TrackTypeOK
  <2>4. reconciler' = [reconciler EXCEPT ![active.play] = w]
    BY <1>1 DEF FirstFrame
  <2> HIDE DEF w
  <2>5. reconciler' \in [1..MaxPlays -> Workers \cup {NoWorker}]
    BY <2>3, <2>4 DEF TrackTypeOK
  <2>6. disputed' \in BOOLEAN /\ undone' \in BOOLEAN
    BY <1>1 DEF FirstFrame, TrackTypeOK
  <2>. QED
    BY <1>1, <2>2, <2>5, <2>6 DEF FirstFrame, TrackTypeOK
<1>2. CASE EndOfFile
  <2>1. player' \in Players /\ planned' \in BOOLEAN
    BY <1>2, NothingIsApart DEF EndOfFile
  <2>2. queued' \in 0..MaxPlays
    BY <1>2, BoundsAssumption DEF EndOfFile, TrackTypeOK
  <2>. QED
    BY <1>2, <2>1, <2>2 DEF EndOfFile, TrackTypeOK
<1>3. CASE TerminalEvent
  BY <1>3, NothingIsApart DEF TerminalEvent, Forget, TrackTypeOK
<1>4. CASE ChangeAccount
  <2>1. generation' \in Accounts
    BY <1>4, BoundsAssumption DEF ChangeAccount, TrackTypeOK, Accounts
  <2>. QED
    BY <1>4, <2>1, NothingIsApart DEF ChangeAccount, Forget, TrackTypeOK
<1>5. CASE MpvOpens
  <2>1. player' \in Players /\ queued' \in 0..MaxPlays
    BY <1>5, BoundsAssumption DEF MpvOpens, TrackTypeOK, Players
  <2>2. loaded' \in Nat
    BY <1>5 DEF MpvOpens, TrackTypeOK
  <2>. QED
    BY <1>5, <2>1, <2>2 DEF MpvOpens, TrackTypeOK
<1>6. CASE FileLoaded
  <2>1. loaded' \in Nat
    BY <1>6 DEF FileLoaded, TrackTypeOK
  <2>2. CASE pending = NoPlan
    BY <1>6, <2>1, <2>2 DEF FileLoaded, TrackTypeOK
  <2>3. CASE pending # NoPlan
    <3>1. /\ disputed' \in BOOLEAN /\ replanned' \in BOOLEAN /\ undone' \in BOOLEAN
          /\ planned' \in BOOLEAN
      BY <1>6, <2>3, Zenon DEF FileLoaded
    <3>2. pending' \in Plans
      BY <1>6, <2>3 DEF FileLoaded, NoPlan, Plans
    <3>3. player' \in Players
      BY <1>6, <2>3 DEF FileLoaded, TrackTypeOK, Players, Plans
    <3>. QED
      BY <1>6, <2>1, <2>3, <3>1, <3>2, <3>3 DEF FileLoaded, TrackTypeOK
  <2>. QED
    BY <2>2, <2>3
<1>7. CASE Release
  BY <1>7, NothingIsApart DEF Release, TrackTypeOK
<1>. QED
  BY <1>1, <1>2, <1>3, <1>4, <1>5, <1>6, <1>7

-----------------------------------------------------------------------------
(***************************************************************************)
(* What a step of a reconciliation does to everything else.                *)
(***************************************************************************)
\* The worker goes on as w, for the same play and with the same preference.
GoesOn(p, w) ==
    /\ w \in Workers \cup {NoWorker}
    /\ reconciler' = [reconciler EXCEPT ![p] = w]
    /\ w # NoWorker =>
           /\ w.generation = reconciler[p].generation /\ w.media = reconciler[p].media
           /\ w.preference = reconciler[p].preference /\ w.revision = reconciler[p].revision

\* At step axis the tracked play's tracks of that axis may be touched.
Touches(p, axis) ==
    \/ UNCHANGED <<player, held>>
    \/ /\ reconciler[p].step = axis
       /\ IsCurrent(reconciler[p].generation, reconciler[p].media)
       /\ (\E key \in SUBSET Keys : Obeys(axis, key)) \/ Refuses(axis)

Resumed(r, step, shown, u) == [r EXCEPT !.step = step, !.shown = shown, !.correction = u]

LEMMA GoingOn ==
    ASSUME TrackTypeOK, NEW p \in 1..MaxPlays, reconciler[p] \in Workers,
           NEW step \in {"source", "check", "catalog", "audio", "subtitle", "correct", "commit"},
           NEW shown \in Players, NEW u \in Updates,
           Reconcile(p, Resumed(reconciler[p], step, shown, u))
    PROVE  /\ reconciler'[p] \in Workers /\ GoesOn(p, reconciler'[p])
           /\ reconciler'[p].step = step /\ reconciler'[p].shown = shown
           /\ reconciler'[p].correction = u
<1> DEFINE w == Resumed(reconciler[p], step, shown, u)
<1>1. w \in Workers
  BY DEF Workers, Resumed
<1>2. /\ w.step = step /\ w.shown = shown /\ w.correction = u
      /\ w.generation = reconciler[p].generation /\ w.media = reconciler[p].media
      /\ w.preference = reconciler[p].preference /\ w.revision = reconciler[p].revision
  BY DEF Workers, Resumed
<1>3. reconciler' = [reconciler EXCEPT ![p] = w]
  BY DEF Reconcile
<1> HIDE DEF w
<1>4. reconciler'[p] = w
  BY <1>3 DEF TrackTypeOK
<1>. QED
  BY <1>1, <1>2, <1>3, <1>4 DEF GoesOn

\* The worker leaves.
LEMMA Leaving ==
    ASSUME TrackTypeOK, NEW p \in 1..MaxPlays, Leave(p)
    PROVE  reconciler'[p] = NoWorker /\ GoesOn(p, reconciler'[p])
BY DEF Leave, Reconcile, GoesOn, TrackTypeOK

\* A record with a field set to what it is, is itself.
LEMMA SameFields ==
    ASSUME NEW r \in Workers,
           NEW step \in {"source", "check", "catalog", "audio", "subtitle", "correct", "commit"},
           NEW shown \in Players, NEW u \in Updates
    PROVE  /\ [r EXCEPT !.step = step] = Resumed(r, step, r.shown, r.correction)
           /\ [r EXCEPT !.step = step, !.shown = shown] = Resumed(r, step, shown, r.correction)
           /\ [r EXCEPT !.step = step, !.correction = u] = Resumed(r, step, r.shown, u)
           /\ r.shown \in Players /\ r.correction \in Updates
BY DEF Workers, Resumed

LEMMA CheckStep ==
    ASSUME TrackTypeOK, NEW p \in 1..MaxPlays, ReconcileCheck(p)
    PROVE  /\ reconciler[p] \in Workers
           /\ GoesOn(p, reconciler'[p])
           /\ reconciler'[p] # NoWorker =>
                  /\ reconciler'[p] \in Workers
                  /\ reconciler'[p].step = "catalog"
                  /\ reconciler'[p].correction = reconciler[p].correction
                  /\ active.revision = reconciler[p].revision
                  /\ ~disputed' => ~disputed /\ request.kind # "select" /\ p = active.play
           /\ disputed' \in BOOLEAN /\ (disputed => disputed')
<1>1. reconciler[p] \in Workers
  BY NothingIsApart DEF ReconcileCheck, TrackTypeOK
<1> DEFINE r == reconciler[p]
<1>2. CASE generation = r.generation /\ active # NoPlay /\ active.revision = r.revision
  <2>1. /\ reconciler' = [reconciler EXCEPT ![p] = [r EXCEPT !.step = "catalog"]]
        /\ disputed' = (disputed \/ request.kind = "select" \/ p # active.play)
    BY <1>2 DEF ReconcileCheck, To, Reconcile
  <2>2. [r EXCEPT !.step = "catalog"] \in Workers
    BY <1>1 DEF Workers
  <2>3. /\ reconciler'[p] = [r EXCEPT !.step = "catalog"]
        /\ GoesOn(p, [r EXCEPT !.step = "catalog"])
        /\ reconciler'[p].step = "catalog" /\ reconciler'[p].correction = r.correction
    BY <1>1, <2>1, <2>2 DEF GoesOn, TrackTypeOK, Workers
  <2>. QED
    BY <1>1, <1>2, <2>1, <2>2, <2>3
<1>3. CASE ~(generation = r.generation /\ active # NoPlay /\ active.revision = r.revision)
  <2>1. reconciler' = [reconciler EXCEPT ![p] = NoWorker] /\ UNCHANGED disputed
    BY <1>3 DEF ReconcileCheck, Leave, Reconcile
  <2>2. reconciler'[p] = NoWorker /\ GoesOn(p, NoWorker)
    BY <2>1 DEF GoesOn, TrackTypeOK
  <2>. QED
    BY <1>1, <2>1, <2>2 DEF TrackTypeOK
<1>. QED
  BY <1>2, <1>3

LEMMA SourceStep ==
    ASSUME TrackTypeOK, NEW p \in 1..MaxPlays, ReconcileSource(p)
    PROVE  /\ reconciler[p] \in Workers
           /\ GoesOn(p, reconciler'[p])
           /\ reconciler'[p] # NoWorker =>
                  /\ reconciler'[p] \in Workers
                  /\ reconciler'[p].step = "check"
                  /\ reconciler'[p].correction = reconciler[p].correction
<1>1. reconciler[p] \in Workers
  BY NothingIsApart DEF ReconcileSource, TrackTypeOK
<1>2. reconciler[p].shown \in Players /\ reconciler[p].correction \in Updates
  BY <1>1 DEF Workers
<1>3. CASE To(p, "check")
  <2>1. Reconcile(p, Resumed(reconciler[p], "check", reconciler[p].shown,
                             reconciler[p].correction))
    BY <1>1, <1>2, <1>3, SameFields DEF To
  <2>. QED
    BY <1>1, <1>2, <2>1, GoingOn
<1>4. CASE Leave(p)
  BY <1>1, <1>4, Leaving
<1>. QED
  BY <1>3, <1>4 DEF ReconcileSource

LEMMA CatalogStep ==
    ASSUME TrackTypeOK, NEW p \in 1..MaxPlays, ReconcileCatalog(p)
    PROVE  /\ reconciler[p] \in Workers
           /\ reconciler'[p] \in Workers /\ GoesOn(p, reconciler'[p])
           /\ reconciler'[p].step = "audio" /\ reconciler'[p].shown = player
           /\ reconciler'[p].correction = reconciler[p].correction
<1>1. reconciler[p] \in Workers
  BY NothingIsApart DEF ReconcileCatalog, TrackTypeOK
<1>2. player \in Players /\ reconciler[p].correction \in Updates
  BY <1>1 DEF TrackTypeOK, Workers
<1>3. Reconcile(p, Resumed(reconciler[p], "audio", player, reconciler[p].correction))
  BY <1>1, <1>2, SameFields DEF ReconcileCatalog
<1>. QED
  BY <1>1, <1>2, <1>3, GoingOn

LEMMA AudioStep ==
    ASSUME TrackTypeOK, NEW p \in 1..MaxPlays, ReconcileAudio(p)
    PROVE  /\ reconciler[p] \in Workers
           /\ reconciler'[p] \in Workers /\ GoesOn(p, reconciler'[p])
           /\ reconciler'[p].step = "subtitle"
           /\ reconciler'[p].shown = reconciler[p].shown
           /\ reconciler'[p].correction.enabled = reconciler[p].correction.enabled
           /\ reconciler'[p].correction.subtitle = reconciler[p].correction.subtitle
           /\ Touches(p, "audio")
           /\ /\ reconciler[p].preference.audio # {}
              /\ reconciler[p].preference.audio \subseteq Audio
              /\ Open(reconciler[p])
              /\ reconciler[p].shown.audio = reconciler[p].preference.audio
              => UNCHANGED <<player, held>> /\ reconciler'[p].correction = reconciler[p].correction
<1> DEFINE r == reconciler[p]
           wanted == r.preference.audio
           present == Open(r) /\ wanted \subseteq Audio
           mended == [r.correction EXCEPT !.audio = FallbackAudio(r)]
<1>1. r \in Workers
  BY NothingIsApart DEF ReconcileAudio, TrackTypeOK
<1>2. r.shown \in Players /\ r.correction \in Updates /\ wanted \in SUBSET Keys
  BY <1>1 DEF Workers, Preferences
<1>3. mended \in Updates /\ mended.enabled = r.correction.enabled
      /\ mended.subtitle = r.correction.subtitle
  BY <1>2 DEF FallbackAudio, Players, Updates
<1>4. [r EXCEPT !.step = "subtitle", !.correction.audio = FallbackAudio(r)]
          = Resumed(r, "subtitle", r.shown, mended)
  BY <1>1 DEF Workers, Resumed
<1>5. [r EXCEPT !.step = "subtitle"] = Resumed(r, "subtitle", r.shown, r.correction)
  BY <1>1, <1>2, SameFields
<1> HIDE DEF mended
<1>6. ASSUME Reconcile(p, Resumed(r, "subtitle", r.shown, mended))
      PROVE  /\ reconciler'[p] \in Workers /\ GoesOn(p, reconciler'[p])
             /\ reconciler'[p].step = "subtitle" /\ reconciler'[p].shown = r.shown
             /\ reconciler'[p].correction = mended
  BY <1>1, <1>2, <1>3, <1>6, GoingOn
<1>7. ASSUME Reconcile(p, Resumed(r, "subtitle", r.shown, r.correction))
      PROVE  /\ reconciler'[p] \in Workers /\ GoesOn(p, reconciler'[p])
             /\ reconciler'[p].step = "subtitle" /\ reconciler'[p].shown = r.shown
             /\ reconciler'[p].correction = r.correction
  BY <1>1, <1>2, <1>7, GoingOn
<1>8. r.step = "audio"
  BY DEF ReconcileAudio
<1>9. CASE /\ wanted # {} /\ present /\ wanted # r.shown.audio
           /\ IsCurrent(r.generation, r.media)
           /\ Obeys("audio", wanted) /\ To(p, "subtitle")
  BY <1>1, <1>2, <1>5, <1>7, <1>8, <1>9 DEF To, Touches
<1>10. CASE /\ wanted # {} /\ present /\ wanted # r.shown.audio
            /\ Refuses("audio")
            /\ Reconcile(p, [r EXCEPT !.step = "subtitle", !.correction.audio = FallbackAudio(r)])
  BY <1>1, <1>3, <1>4, <1>6, <1>10 DEF Touches, Refuses
<1>11. CASE /\ wanted # {} /\ ~present /\ r.preference.configured
            /\ Reconcile(p, [r EXCEPT !.step = "subtitle", !.correction.audio = FallbackAudio(r)])
            /\ UNCHANGED <<player, held>>
  BY <1>1, <1>3, <1>4, <1>6, <1>11 DEF Touches
<1>12. CASE To(p, "subtitle") /\ UNCHANGED <<player, held>>
  BY <1>1, <1>5, <1>7, <1>12 DEF To, Touches
<1>. QED
  BY <1>9, <1>10, <1>11, <1>12 DEF ReconcileAudio

\* The subtitle shown is the one preferred, by its catalog name.
Content(r) ==
    IF r.preference.enabled
    THEN /\ r.preference.subtitle # {} /\ r.shown.subtitle = r.preference.subtitle
         /\ CatalogKey(r.preference.subtitle) = r.preference.subtitle
    ELSE r.shown.subtitle = {}

\* The ways a reconciliation may deal with the subtitle: it is content, or goes on
\* with correction u, or gives up.
Deals(p, key, u) ==
    \/ Selects(p, key, u)
    \/ CannotSelect(p) /\ Corrects(p, u)
    \/ CannotSelect(p) /\ Leave(p)

\* A correction of the subtitle alone, and none when the key is mpv's own.
Mends(r, u) ==
    /\ u \in Updates /\ u.audio = r.correction.audio
    /\ OwnKey(r) => u.enabled = r.correction.enabled /\ u.subtitle = r.correction.subtitle

LEMMA Mending ==
    ASSUME NEW r \in Workers
    PROVE  /\ Mends(r, r.correction)
           /\ ~OwnKey(r) => Mends(r, FromBaseline(r))
           /\ ~OwnKey(r) => Mends(r, [r.correction EXCEPT !.enabled = {FALSE}])
           /\ ~OwnKey(r) => Mends(r, [r.correction EXCEPT !.enabled = {TRUE},
                                                           !.subtitle = RuntimeDefault])
<1>1. r.correction \in Updates /\ r.shown \in Players
  BY DEF Workers
<1>2. Shown(r.shown).enabled \in SUBSET BOOLEAN /\ Shown(r.shown).subtitle \in SUBSET Keys
  BY <1>1, ShownTyped DEF Updates
<1>3. FromBaseline(r) \in Updates /\ FromBaseline(r).audio = r.correction.audio
  BY <1>1, <1>2 DEF FromBaseline, Updates
<1>4. RuntimeDefault \in SUBSET Keys
  BY TracksAssumption DEF Keys, Subtitles
<1>5. /\ [r.correction EXCEPT !.enabled = {FALSE}] \in Updates
      /\ [r.correction EXCEPT !.enabled = {FALSE}].audio = r.correction.audio
      /\ [r.correction EXCEPT !.enabled = {TRUE}, !.subtitle = RuntimeDefault] \in Updates
      /\ [r.correction EXCEPT !.enabled = {TRUE}, !.subtitle = RuntimeDefault].audio
             = r.correction.audio
  BY <1>1, <1>4 DEF Updates
<1>. QED
  BY <1>1, <1>3, <1>5 DEF Mends

LEMMA KeyBranches ==
    ASSUME TrackTypeOK, NEW p \in 1..MaxPlays, reconciler[p] \in Workers,
           reconciler[p].preference.enabled, reconciler[p].preference.subtitle # {},
           ReconcileKey(p)
    PROVE  \/ To(p, "correct") /\ UNCHANGED <<player, held>>
           \/ /\ ~Content(reconciler[p])
              /\ \E key \in SUBSET Keys, u \in Updates :
                     Mends(reconciler[p], u) /\ Deals(p, key, u)
<1> DEFINE r == reconciler[p]
           key == r.preference.subtitle
           moved == [r.correction EXCEPT !.enabled = {TRUE}, !.subtitle = RuntimeDefault]
<1>1. key \in SUBSET Keys /\ RuntimeDefault \in SUBSET Keys
  BY TracksAssumption DEF Workers, Preferences, Keys, Subtitles
<1>2. UNCHANGED <<player, held>> => CannotSelect(p)
  BY DEF CannotSelect
<1>3. Content(r) => key = CatalogKey(r.shown.subtitle)
  BY DEF Content
<1>4. key \subseteq Legacy => ~OwnKey(r)
  BY TracksAssumption DEF OwnKey, Subtitles
<1>5. ~(key \subseteq Runtime \cup Legacy) => ~OwnKey(r)
  BY DEF OwnKey
<1>6. Mends(r, r.correction) /\ (~OwnKey(r) => Mends(r, FromBaseline(r)) /\ Mends(r, moved))
  BY Mending
<1> HIDE DEF moved
<1>7. \A u : Mends(r, u) => u \in Updates
  BY DEF Mends
<1>8. CASE key = CatalogKey(r.shown.subtitle)
  BY <1>8 DEF ReconcileKey
<1>9. CASE key # CatalogKey(r.shown.subtitle) /\ key \subseteq Legacy
  <2>1. Mends(r, moved) /\ moved \in Updates /\ ~Content(r)
    BY <1>3, <1>4, <1>6, <1>7, <1>9
  <2>2. \/ Corrects(p, moved) /\ UNCHANGED <<player, held>>
        \/ Selects(p, RuntimeDefault, moved)
        \/ CannotSelect(p) /\ Leave(p)
    BY <1>9 DEF ReconcileKey, moved
  <2>3. Deals(p, RuntimeDefault, moved)
    BY <1>2, <2>2 DEF Deals
  <2>. QED
    BY <1>1, <2>1, <2>3
<1>10. CASE key # CatalogKey(r.shown.subtitle) /\ ~(key \subseteq Legacy)
  <2>1. ~Content(r)
    BY <1>3, <1>10
  <2>2. \/ Selects(p, key, r.correction)
        \/ CannotSelect(p) /\ Leave(p)
        \/ ~(key \subseteq Runtime \cup Legacy) /\ CannotSelect(p) /\ Corrects(p, FromBaseline(r))
    BY <1>10 DEF ReconcileKey
  <2>3. CASE Selects(p, key, r.correction) \/ (CannotSelect(p) /\ Leave(p))
    <3>1. Deals(p, key, r.correction)
      BY <2>3 DEF Deals
    <3>. QED
      BY <1>1, <1>6, <1>7, <2>1, <3>1
  <2>4. CASE ~(key \subseteq Runtime \cup Legacy) /\ CannotSelect(p) /\ Corrects(p, FromBaseline(r))
    <3>1. Deals(p, key, FromBaseline(r)) /\ Mends(r, FromBaseline(r))
      BY <1>5, <1>6, <2>4 DEF Deals
    <3>. QED
      BY <1>1, <1>7, <2>1, <3>1
  <2>. QED
    BY <2>2, <2>3, <2>4
<1>. QED
  BY <1>8, <1>9, <1>10

LEMMA SubtitleBranches ==
    ASSUME TrackTypeOK, NEW p \in 1..MaxPlays, ReconcileSubtitle(p)
    PROVE  /\ reconciler[p] \in Workers
           /\ \/ To(p, "correct") /\ UNCHANGED <<player, held>>
              \/ /\ ~Content(reconciler[p])
                 /\ \E key \in SUBSET Keys, u \in Updates :
                        Mends(reconciler[p], u) /\ Deals(p, key, u)
<1> DEFINE r == reconciler[p]
           wanted == r.preference
           preferred == IF Open(r) THEN RuntimeDefault ELSE {}
           off == [r.correction EXCEPT !.enabled = {FALSE}]
<1>1. r \in Workers
  BY NothingIsApart DEF ReconcileSubtitle, TrackTypeOK
<1>2. preferred \in SUBSET Keys /\ {} \in SUBSET Keys
  BY TracksAssumption DEF Keys, Subtitles
<1>3. Mends(r, r.correction) /\ (~OwnKey(r) => Mends(r, off))
  BY <1>1, Mending
<1>4. \A u : Mends(r, u) => u \in Updates
  BY DEF Mends
<1>5. UNCHANGED <<player, held>> => CannotSelect(p)
  BY DEF CannotSelect
<1> HIDE DEF off, preferred
<1>6. CASE wanted.enabled /\ wanted.subtitle # {}
  BY <1>1, <1>6, KeyBranches DEF ReconcileSubtitle
<1>7. CASE wanted.enabled /\ wanted.subtitle = {}
  <2>1. ~Content(r) /\ ~OwnKey(r)
    BY <1>7 DEF Content, OwnKey
  <2>2. \/ Corrects(p, off) /\ UNCHANGED <<player, held>>
        \/ To(p, "correct") /\ UNCHANGED <<player, held>>
        \/ Selects(p, preferred, r.correction)
        \/ CannotSelect(p) /\ Leave(p)
    BY <1>7 DEF ReconcileSubtitle, off, preferred
  <2>3. CASE Corrects(p, off) /\ UNCHANGED <<player, held>>
    <3>1. Deals(p, {}, off)
      BY <1>5, <2>3 DEF Deals
    <3>. QED
      BY <1>1, <1>2, <1>3, <1>4, <2>1, <3>1
  <2>4. CASE Selects(p, preferred, r.correction) \/ (CannotSelect(p) /\ Leave(p))
    <3>1. Deals(p, preferred, r.correction)
      BY <2>4 DEF Deals
    <3>. QED
      BY <1>1, <1>2, <1>3, <1>4, <2>1, <3>1
  <2>. QED
    BY <1>1, <2>2, <2>3, <2>4
<1>8. CASE ~wanted.enabled
  <2>1. CASE r.shown.subtitle = {}
    BY <1>1, <1>8, <2>1 DEF ReconcileSubtitle
  <2>2. CASE r.shown.subtitle # {}
    <3>1. ~Content(r)
      BY <1>8, <2>2 DEF Content
    <3>2. Selects(p, {}, r.correction) \/ (CannotSelect(p) /\ Leave(p))
      BY <1>8, <2>2 DEF ReconcileSubtitle
    <3>3. Deals(p, {}, r.correction)
      BY <3>2 DEF Deals
    <3>. QED
      BY <1>1, <1>2, <1>3, <1>4, <3>1, <3>3
  <2>. QED
    BY <2>1, <2>2
<1>. QED
  BY <1>6, <1>7, <1>8

LEMMA SubtitleStep ==
    ASSUME TrackTypeOK, NEW p \in 1..MaxPlays, ReconcileSubtitle(p)
    PROVE  /\ reconciler[p] \in Workers
           /\ GoesOn(p, reconciler'[p])
           /\ reconciler'[p] # NoWorker =>
                  /\ reconciler'[p] \in Workers
                  /\ reconciler'[p].step = "correct"
                  /\ reconciler'[p].correction.audio = reconciler[p].correction.audio
                  /\ OwnKey(reconciler[p]) =>
                        /\ reconciler'[p].correction.enabled = reconciler[p].correction.enabled
                        /\ reconciler'[p].correction.subtitle = reconciler[p].correction.subtitle
           /\ Touches(p, "subtitle")
           /\ Content(reconciler[p]) =>
                  UNCHANGED <<player, held>> /\ reconciler'[p].correction = reconciler[p].correction
<1> DEFINE r == reconciler[p]
<1>1. r \in Workers /\ r.step = "subtitle"
  BY SubtitleBranches DEF ReconcileSubtitle
<1>2. r.shown \in Players /\ r.correction \in Updates
  BY <1>1 DEF Workers
<1>3. ASSUME NEW u \in Updates, Corrects(p, u)
      PROVE  /\ reconciler'[p] \in Workers /\ GoesOn(p, reconciler'[p])
             /\ reconciler'[p].step = "correct" /\ reconciler'[p].correction = u
  <2>1. Reconcile(p, Resumed(r, "correct", r.shown, u))
    BY <1>1, <1>2, <1>3, SameFields DEF Corrects
  <2>. QED
    BY <1>1, <1>2, <2>1, GoingOn
<1>4. CASE To(p, "correct") /\ UNCHANGED <<player, held>>
  <2>1. Reconcile(p, Resumed(r, "correct", r.shown, r.correction))
    BY <1>1, <1>2, <1>4, SameFields DEF To
  <2>2. /\ reconciler'[p] \in Workers /\ GoesOn(p, reconciler'[p])
        /\ reconciler'[p].step = "correct" /\ reconciler'[p].correction = r.correction
    BY <1>1, <1>2, <2>1, GoingOn
  <2>. QED
    BY <1>1, <1>4, <2>2 DEF Touches
<1>5. ASSUME ~Content(r), NEW key \in SUBSET Keys, NEW u \in Updates,
             Mends(r, u), Deals(p, key, u)
      PROVE  /\ GoesOn(p, reconciler'[p]) /\ Touches(p, "subtitle")
             /\ reconciler'[p] # NoWorker =>
                   /\ reconciler'[p] \in Workers /\ reconciler'[p].step = "correct"
                   /\ reconciler'[p].correction = u
  <2>1. CannotSelect(p) => Touches(p, "subtitle")
    BY <1>1 DEF CannotSelect, Touches
  <2>2. CASE Selects(p, key, u)
    <3>1. Corrects(p, u) /\ Touches(p, "subtitle")
      BY <1>1, <2>2 DEF Selects, Corrects, Touches
    <3>. QED
      BY <1>3, <3>1
  <2>3. CASE CannotSelect(p) /\ Corrects(p, u)
    BY <1>3, <2>1, <2>3
  <2>4. CASE CannotSelect(p) /\ Leave(p)
    BY <2>1, <2>4, Leaving
  <2>. QED
    BY <1>5, <2>2, <2>3, <2>4 DEF Deals
<1>6. CASE /\ ~Content(r)
           /\ \E key \in SUBSET Keys, u \in Updates : Mends(r, u) /\ Deals(p, key, u)
  <2>1. PICK key \in SUBSET Keys, u \in Updates : Mends(r, u) /\ Deals(p, key, u)
    BY <1>6
  <2>. QED
    BY <1>1, <1>5, <1>6, <2>1 DEF Mends
<1>. QED
  BY <1>4, <1>6, SubtitleBranches

LEMMA CorrectStep ==
    ASSUME TrackTypeOK, NEW p \in 1..MaxPlays, ReconcileCorrect(p)
    PROVE  /\ reconciler[p] \in Workers
           /\ GoesOn(p, reconciler'[p])
           /\ \/ reconciler'[p] = NoWorker /\ UNCHANGED saved
              \/ /\ reconciler'[p] \in Workers /\ reconciler'[p].step = "commit"
                 /\ reconciler'[p].correction = reconciler[p].correction
                 /\ persistent /\ reconciler[p].generation = generation
                 /\ Save(generation, reconciler[p].media, reconciler[p].correction)
<1> DEFINE r == reconciler[p]
<1>1. r \in Workers
  BY NothingIsApart DEF ReconcileCorrect, TrackTypeOK
<1>2. r.shown \in Players /\ r.correction \in Updates
  BY <1>1 DEF Workers
<1>3. CASE /\ r.correction # NoUpdate /\ persistent /\ r.generation = generation
           /\ Save(generation, r.media, r.correction) /\ To(p, "commit")
  <2>1. Reconcile(p, Resumed(r, "commit", r.shown, r.correction))
    BY <1>1, <1>2, <1>3, SameFields DEF To
  <2>2. /\ reconciler'[p] \in Workers /\ GoesOn(p, reconciler'[p])
        /\ reconciler'[p].step = "commit" /\ reconciler'[p].correction = r.correction
    BY <1>1, <1>2, <2>1, GoingOn
  <2>. QED
    BY <1>1, <1>3, <2>2
<1>4. CASE Leave(p) /\ UNCHANGED saved
  BY <1>1, <1>4, Leaving
<1>. QED
  BY <1>3, <1>4 DEF ReconcileCorrect

LEMMA CommitStep ==
    ASSUME TrackTypeOK, NEW p \in 1..MaxPlays, ReconcileCommit(p)
    PROVE  /\ reconciler[p] \in Workers
           /\ reconciler'[p] = NoWorker /\ GoesOn(p, reconciler'[p])
           /\ CommitTo(reconciler[p].generation, reconciler[p].media, reconciler[p].correction)
<1>1. reconciler[p] \in Workers
  BY NothingIsApart DEF ReconcileCommit, TrackTypeOK
<1>. QED
  BY <1>1, Leaving DEF ReconcileCommit

\* Going on, the workers stay workers; touching the tracks, tracks stay tracks.
LEMMA GoesOnTyped ==
    ASSUME TrackTypeOK, NEW p \in 1..MaxPlays, GoesOn(p, reconciler'[p])
    PROVE  /\ reconciler' \in [1..MaxPlays -> Workers \cup {NoWorker}]
           /\ \A q \in 1..MaxPlays : q # p => reconciler'[q] = reconciler[q]
BY DEF GoesOn, TrackTypeOK

LEMMA TouchesTyped ==
    ASSUME TrackTypeOK, NEW p \in 1..MaxPlays, NEW axis \in {"audio", "subtitle"},
           Touches(p, axis)
    PROVE  /\ player' \in Players /\ held' \subseteq ExternalKeys
           /\ player'.play = player.play
           /\ axis = "audio" => player'.subtitle = player.subtitle /\ held' = held
           /\ axis = "subtitle" => player'.audio = player.audio
<1>1. CASE UNCHANGED <<player, held>>
  BY <1>1 DEF TrackTypeOK
<1>2. ASSUME NEW key \in SUBSET Keys, Obeys(axis, key)
      PROVE  /\ player' \in Players /\ held' \subseteq ExternalKeys
             /\ player'.play = player.play
             /\ axis = "audio" => player'.subtitle = player.subtitle /\ held' = held
             /\ axis = "subtitle" => player'.audio = player.audio
  <2>1. player' \in Players /\ held' \subseteq ExternalKeys
    BY <1>2, SelectionTyped
  <2>. QED
    BY <1>2, <2>1 DEF Obeys, TrackTypeOK, Players
<1>3. CASE Refuses(axis)
  <2>1. player' \in Players /\ held' \subseteq ExternalKeys
    BY <1>3, SelectionTyped
  <2>. QED
    BY <1>3, <2>1 DEF Refuses, TrackTypeOK, Players
<1>. QED
  BY <1>1, <1>2, <1>3 DEF Touches

LEMMA ReconcilerTyped ==
    ASSUME TrackTypeOK, NEW p \in 1..MaxPlays, Reconciler(p)
    PROVE  TrackTypeOK'
<1> USE DEF stateVars, openingVars, historyVars, loadHistory
<1>0. CASE ReconcileSource(p)
  BY <1>0, SourceStep, GoesOnTyped DEF ReconcileSource, TrackTypeOK
<1>1. CASE ReconcileCheck(p)
  BY <1>1, CheckStep, GoesOnTyped DEF ReconcileCheck, TrackTypeOK
<1>2. CASE ReconcileCatalog(p)
  <2>1. reconciler' \in [1..MaxPlays -> Workers \cup {NoWorker}]
    BY <1>2, CatalogStep, GoesOnTyped
  <2>. QED
    BY <1>2, <2>1 DEF ReconcileCatalog, TrackTypeOK
<1>3. CASE ReconcileAudio(p)
  <2>1. /\ reconciler' \in [1..MaxPlays -> Workers \cup {NoWorker}]
        /\ player' \in Players /\ held' \subseteq ExternalKeys
    BY <1>3, AudioStep, GoesOnTyped, TouchesTyped
  <2>. QED
    BY <1>3, <2>1 DEF ReconcileAudio, TrackTypeOK
<1>4. CASE ReconcileSubtitle(p)
  <2>1. /\ reconciler' \in [1..MaxPlays -> Workers \cup {NoWorker}]
        /\ player' \in Players /\ held' \subseteq ExternalKeys
    BY <1>4, SubtitleStep, GoesOnTyped, TouchesTyped
  <2>. QED
    BY <1>4, <2>1 DEF ReconcileSubtitle, TrackTypeOK
<1>5. CASE ReconcileCorrect(p)
  <2>1. reconciler' \in [1..MaxPlays -> Workers \cup {NoWorker}]
    BY <1>5, CorrectStep, GoesOnTyped
  <2>2. reconciler[p].media \in Media /\ reconciler[p].correction \in Updates
    BY <1>5, CorrectStep DEF Workers
  <2>3. saved' \in [Accounts -> [Media -> Preferences]]
    BY <1>5, <2>2, CorrectStep, SaveTyped DEF TrackTypeOK
  <2>. QED
    BY <1>5, <2>1, <2>3 DEF ReconcileCorrect, TrackTypeOK
<1>6. CASE ReconcileCommit(p)
  <2>1. reconciler' \in [1..MaxPlays -> Workers \cup {NoWorker}]
    BY <1>6, CommitStep, GoesOnTyped
  <2>2. /\ reconciler[p].generation \in Accounts /\ reconciler[p].media \in Media
        /\ reconciler[p].correction \in Updates
    BY <1>6, CommitStep DEF Workers
  <2>3. active' \in Active \cup {NoPlay}
    BY <1>6, <2>2, CommitStep, CommitTyped
  <2>. QED
    BY <1>6, <2>1, <2>3 DEF ReconcileCommit, TrackTypeOK
<1>. QED
  BY <1>0, <1>1, <1>2, <1>3, <1>4, <1>5, <1>6 DEF Reconciler

\* Whatever loads, selections, reconciliations and account changes do, the tracked
\* play, mpv, the server and the requests hold what their types allow.
THEOREM TrackTypes == TrackSpec => []TrackTypeOK
<1>1. TrackTypeOK /\ [TrackNext]_vars => TrackTypeOK'
  <2> SUFFICES ASSUME TrackTypeOK, [TrackNext]_vars PROVE TrackTypeOK'
    OBVIOUS
  <2>1. CASE UNCHANGED vars
    BY <2>1 DEF vars, stateVars, openingVars, historyVars, loadHistory, TrackTypeOK
  <2>2. CASE \E p \in 1..MaxPlays : Reconciler(p)
    BY <2>2, ReconcilerTyped
  <2>3. CASE \E m \in Media : BeginLoad(m) \/ BeginTracks(m)
    BY <2>3, LoadStepsTyped
  <2>4. CASE \E m \in Media, c \in Choices : BeginSelect(m, c)
    BY <2>4, SelectStepsTyped
  <2>5. CASE Request
    BY <2>5, LoadStepsTyped, SelectStepsTyped DEF Request
  <2>6. CASE \/ MpvOpens \/ FileLoaded \/ FirstFrame \/ EndOfFile
             \/ TerminalEvent \/ Release \/ ChangeAccount
    BY <2>6, PlayStepsTyped
  <2>. QED
    BY <2>1, <2>2, <2>3, <2>4, <2>5, <2>6 DEF TrackNext
<1>. QED
  BY <1>1, InitTyped, PTL DEF TrackSpec

-----------------------------------------------------------------------------
(***************************************************************************)
(* What an update does to a choice that is held.                           *)
(***************************************************************************)
\* The update has nothing of the choice's axis.
Spares(u, c) ==
    IF c.axis = "audio" THEN u.audio = {} ELSE u.enabled = {} /\ u.subtitle = {}

LEMMA HeldAfterwards ==
    ASSUME NEW p \in Preferences, NEW c \in Choices
    PROVE  Holds(Applied(p, UpdateOf(c)), c)
<1>1. UpdateOf(c) \in Updates /\ c.axis \in {"audio", "subtitle"}
  BY ChoiceTyped
<1> DEFINE s == Applied(p, UpdateOf(c))
<1>2. CASE c.axis = "audio"
  <2>1. UpdateOf(c).audio = c.key /\ c.key # {}
    BY <1>2, ChoiceTyped DEF UpdateOf, NoUpdate
  <2>2. s.audio = c.key
    BY <1>1, <2>1, AppliedTyped
  <2>. QED
    BY <1>2, <2>2 DEF Holds
<1>3. CASE c.axis = "subtitle"
  <2>1. UpdateOf(c).enabled = {c.key # {}} /\ UpdateOf(c).subtitle = c.key
    BY <1>3 DEF UpdateOf, NoUpdate
  <2>2. /\ s.enabled = (TRUE \in {c.key # {}})
        /\ c.key # {} => s.subtitle = c.key
    BY <1>1, <2>1, AppliedTyped
  <2>3. TRUE \in {c.key # {}} <=> c.key # {}
    <3>1. ASSUME TRUE \in {c.key # {}} PROVE c.key # {}
      BY <3>1, Zenon
    <3>2. ASSUME c.key # {} PROVE TRUE \in {c.key # {}}
      BY <3>2, Zenon
    <3>. QED
      BY <3>1, <3>2, Zenon
  <2> HIDE DEF s
  <2>4. s.enabled <=> c.key # {}
    BY <2>2, <2>3, Zenon
  <2>5. Holds(s, c)
    BY <1>3, <2>2, <2>4, Zenon DEF Holds
  <2>. QED
    BY <2>5 DEF s
<1>. QED
  BY <1>1, <1>2, <1>3

LEMMA HeldStill ==
    ASSUME NEW p \in Preferences, NEW u \in Updates, NEW c \in Choices,
           Holds(p, c), Spares(u, c)
    PROVE  Holds(Applied(p, u), c)
<1>1. CASE c.axis = "audio"
  BY <1>1, AppliedTyped DEF Holds, Spares
<1>2. CASE c.axis # "audio"
  <2>1. u.enabled = {} /\ u.subtitle = {}
    BY <1>2 DEF Spares
  <2>2. Applied(p, u).enabled = p.enabled /\ Applied(p, u).subtitle = p.subtitle
    <3>1. /\ Applied(p, u).enabled = IF u.enabled = {} THEN p.enabled ELSE TRUE \in u.enabled
          /\ Applied(p, u).subtitle = IF u.subtitle = {} THEN p.subtitle ELSE u.subtitle
      BY AppliedTyped, Zenon
    <3>. QED
      BY <2>1, <3>1, Zenon
  <2>. QED
    BY <1>2, <2>2, Zenon DEF Holds
<1>. QED
  BY <1>1, <1>2

\* An update applied twice is applied.
LEMMA AppliedTwice ==
    ASSUME NEW p \in Preferences, NEW u \in Updates
    PROVE  Applied(p, u) = Applied(Applied(p, u), u)
<1> DEFINE s == Applied(p, u)
           t == Applied(s, u)
<1>1. s \in Preferences /\ t \in Preferences
  BY AppliedTyped
<1>2. /\ s.configured = TRUE /\ t.configured = TRUE
      /\ s.subtitle = t.subtitle /\ s.audio = t.audio
  <2>1. s.configured = TRUE /\ t.configured = TRUE
    BY <1>1, AppliedTyped, Zenon
  <2>2. /\ s.subtitle = IF u.subtitle = {} THEN p.subtitle ELSE u.subtitle
        /\ t.subtitle = IF u.subtitle = {} THEN s.subtitle ELSE u.subtitle
        /\ s.audio = IF u.audio = {} THEN p.audio ELSE u.audio
        /\ t.audio = IF u.audio = {} THEN s.audio ELSE u.audio
    BY <1>1, AppliedTyped, Zenon
  <2>. QED
    BY <2>1, <2>2
<1>3. s.enabled = t.enabled
  <2>1. /\ s.enabled = IF u.enabled = {} THEN p.enabled ELSE TRUE \in u.enabled
        /\ t.enabled = IF u.enabled = {} THEN s.enabled ELSE TRUE \in u.enabled
    BY <1>1, AppliedTyped, Zenon
  <2>2. CASE u.enabled = {}
    BY <2>1, <2>2, Zenon
  <2>3. CASE u.enabled # {}
    BY <2>1, <2>3, Zenon
  <2>. QED
    BY <2>2, <2>3
<1> HIDE DEF s, t
<1>4. s = t
  BY <1>1, <1>2, <1>3 DEF Preferences
<1>. QED
  BY <1>4 DEF s, t

\* What a save leaves of the others, and makes of the one it is for.
LEMMA SaveKeeps ==
    ASSUME TrackTypeOK, NEW gen \in Accounts, NEW m \in Media, NEW u \in Updates,
           Save(gen, m, u), NEW a \in Accounts, NEW n \in Media
    PROVE  saved'[a][n] = IF a = gen /\ n = m THEN Applied(saved[gen][m], u) ELSE saved[a][n]
<1>1. saved[gen] \in [Media -> Preferences]
  BY DEF TrackTypeOK
<1> DEFINE row == [saved[gen] EXCEPT ![m] = Applied(saved[gen][m], u)]
<1>2. saved' = [saved EXCEPT ![gen] = row]
  BY DEF Save
<1>3. row[n] = IF n = m THEN Applied(saved[gen][m], u) ELSE saved[gen][n]
  BY <1>1
<1> HIDE DEF row
<1>4. saved'[a] = IF a = gen THEN row ELSE saved[a]
  BY <1>2 DEF TrackTypeOK
<1>. QED
  BY <1>3, <1>4

-----------------------------------------------------------------------------
(***************************************************************************)
(* The invariant holds at first, and no step breaks it.                    *)
(***************************************************************************)
\* The tracked play is the last one, and mpv has its file or none.
LEMMA TrackedPlay ==
    ASSUME TrackIInv, active # NoPlay
    PROVE  /\ active \in Active /\ active.play = plays /\ plays \in 1..MaxPlays
           /\ Own \in Workers \cup {NoWorker}
           /\ active.preference \in Preferences /\ active.media \in Media
           /\ generation \in Accounts /\ saved[generation][active.media] \in Preferences
           /\ player \in Players
BY DEF TrackIInv, TrackSafe, TrackTypeOK, PlaysFollow, Active, Own

LEMMA InitSafe == TrackInit => TrackSafe
<1> SUFFICES ASSUME TrackInit PROVE TrackSafe
  OBVIOUS
<1>1. /\ active = NoPlay /\ player = Idle /\ request = NoRequest /\ chosen = NoChoice
      /\ \A p \in 1..MaxPlays : reconciler[p] = NoWorker
  BY DEF TrackInit
<1>2. ~undone
  BY DEF TrackInit
<1>3. plays = 0 /\ queued = 0 /\ player.play = 0
  BY DEF TrackInit, Idle
<1>. QED
  BY <1>1, <1>2, <1>3, NothingIsApart DEF TrackSafe, PlaysFollow, CorrectsLate, SelectionIsAlone,
     RestoreIsCurrent, ChoiceStays, ChoiceIsSafe, RefusalIsSafe, FilesOutliveUse, Playing

\* The play's end and an account change leave nothing to be held.
LEMMA EndsAreSafe ==
    ASSUME TrackIInv, TerminalEvent \/ ChangeAccount
    PROVE  TrackSafe'
<1>1. /\ active' = NoPlay /\ chosen' = NoChoice
      /\ UNCHANGED <<reconciler, plays, player, queued>>
  BY DEF TerminalEvent, ChangeAccount, Forget, openingVars
<1>2. ~undone'
  BY DEF TerminalEvent, ChangeAccount, Forget
<1>3. PlaysFollow' /\ CorrectsLate'
  BY <1>1 DEF TrackIInv, TrackSafe, PlaysFollow, CorrectsLate
<1>. QED
  BY <1>1, <1>2, <1>3, NothingIsApart DEF TrackSafe, SelectionIsAlone,
     RestoreIsCurrent, ChoiceStays, ChoiceIsSafe, RefusalIsSafe, FilesOutliveUse, Playing

\* Without its file, or its tracks, no promise about the tracked play is left.
LEMMA OpeningIsSafe ==
    ASSUME TrackIInv, EndOfFile \/ MpvOpens
    PROVE  TrackSafe'
<1>1. UNCHANGED <<generation, active, held, saved, persistent, request, reconciler, plays,
                  chosen, undone, disputed>>
  BY DEF EndOfFile, MpvOpens, stateVars, historyVars
<1>2. ~Playing'
  BY DEF EndOfFile, MpvOpens, Playing
<1>0. player'.play <= plays' /\ queued' <= plays'
  BY <1>1 DEF EndOfFile, MpvOpens, Idle, TrackIInv, TrackSafe, TrackTypeOK, PlaysFollow
<1>3. PlaysFollow' /\ CorrectsLate' /\ RestoreIsCurrent'
  BY <1>0, <1>1, NothingIsApart DEF TrackIInv, TrackSafe, PlaysFollow, CorrectsLate,
     RestoreIsCurrent, Own
<1>4. SelectionIsAlone'
  BY <1>1, <1>2 DEF TrackIInv, TrackSafe, SelectionIsAlone, Underway, Outdated, Own
<1>5. ChoiceStays' /\ FilesOutliveUse'
  BY <1>2 DEF ChoiceStays, FilesOutliveUse
<1>6. ChoiceIsSafe'
  BY <1>1, <1>2 DEF TrackIInv, TrackSafe, ChoiceIsSafe
<1>7. RefusalIsSafe'
  BY <1>1, <1>2 DEF TrackIInv, TrackSafe, RefusalIsSafe
<1>. QED
  BY <1>3, <1>4, <1>5, <1>6, <1>7 DEF TrackSafe

\* Nothing that is told apart changes.
LEMMA NothingHappens ==
    ASSUME TrackIInv,
           UNCHANGED <<generation, active, held, queued, player, planned, saved, persistent,
                       request, reconciler, plays, chosen, undone, disputed, released>>
    PROVE  TrackSafe'
<1>1. PlaysFollow' /\ CorrectsLate' /\ RestoreIsCurrent' /\ FilesOutliveUse'
  BY DEF TrackIInv, TrackSafe, PlaysFollow, CorrectsLate, RestoreIsCurrent, FilesOutliveUse,
     Own, Playing
<1>2. SelectionIsAlone' /\ RefusalIsSafe'
  BY DEF TrackIInv, TrackSafe, SelectionIsAlone, RefusalIsSafe, Own, Playing, Underway,
     Outdated
<1>3. ChoiceStays' /\ ChoiceIsSafe'
  BY DEF TrackIInv, TrackSafe, ChoiceStays, ChoiceIsSafe, Own, Playing, Honoured
<1>. QED
  BY <1>1, <1>2, <1>3 DEF TrackSafe

\* The planned tracks are applied: the file of their subtitle is held, and who chose
\* before may complain of the load.
LEMMA FileLoadedIsSafe ==
    ASSUME TrackIInv, TrackTypeOK', FileLoaded
    PROVE  TrackSafe'
<1>1. UNCHANGED <<generation, active, held, queued, saved, persistent, request, reconciler,
                  plays, chosen, released>>
  BY DEF FileLoaded, stateVars, historyVars, loadHistory
<1>2. CASE pending = NoPlan
  <2>1. UNCHANGED <<player, planned, undone, disputed>>
    BY <1>2 DEF FileLoaded, historyVars
  <2>. QED
    BY <1>1, <2>1, NothingHappens
<1>3. CASE pending # NoPlan
  <2>1. player'.play = player.play /\ ~undone'
    BY <1>3 DEF FileLoaded, TrackIInv, TrackTypeOK, Players
  <2>2. chosen # NoChoice \/ request.kind = "select" => disputed'
    BY <1>3 DEF FileLoaded
  <2>3. PlaysFollow' /\ CorrectsLate' /\ RestoreIsCurrent'
    BY <1>1, <2>1 DEF TrackIInv, TrackSafe, PlaysFollow, CorrectsLate, RestoreIsCurrent, Own
  <2>4. SelectionIsAlone'
    BY <1>1, <2>2 DEF TrackIInv, TrackSafe, SelectionIsAlone
  <2>5. ChoiceStays' /\ ChoiceIsSafe'
    BY <1>1, <2>2 DEF TrackIInv, TrackSafe, ChoiceStays, ChoiceIsSafe
  <2>6. RefusalIsSafe'
    BY <2>1 DEF RefusalIsSafe
  <2>7. FilesOutliveUse'
    <3>1. Playing' => player'.subtitle \cap ExternalKeys \subseteq held
      <4>1. CASE player.play = 0
        BY <1>3, <4>1 DEF FileLoaded, Playing
      <4>2. CASE player.play # 0
        BY <1>3, <4>2 DEF FileLoaded, TrackIInv, TrackTypeOK, Players
      <4>. QED
        BY <4>1, <4>2
    <3>. QED
      BY <1>1, <3>1 DEF FilesOutliveUse
  <2>. QED
    BY <2>3, <2>4, <2>5, <2>6, <2>7 DEF TrackSafe
<1>. QED
  BY <1>2, <1>3

\* The user's stop excuses the file that it lets go.
LEMMA ReleaseIsSafe ==
    ASSUME TrackIInv, Release
    PROVE  TrackSafe'
<1>1. /\ UNCHANGED <<generation, active, queued, player, planned, saved, persistent, request,
                     reconciler, plays, chosen, undone, disputed>>
      /\ released'
  BY DEF Release, openingVars
<1>2. PlaysFollow' /\ CorrectsLate' /\ RestoreIsCurrent'
  BY <1>1 DEF TrackIInv, TrackSafe, PlaysFollow, CorrectsLate, RestoreIsCurrent, Own
<1>3. SelectionIsAlone' /\ RefusalIsSafe'
  BY <1>1 DEF TrackIInv, TrackSafe, SelectionIsAlone, RefusalIsSafe, Own, Playing, Underway,
     Outdated
<1>4. ChoiceStays' /\ ChoiceIsSafe'
  BY <1>1 DEF TrackIInv, TrackSafe, ChoiceStays, ChoiceIsSafe, Own, Playing, Honoured
<1>5. FilesOutliveUse'
  BY <1>1 DEF FilesOutliveUse
<1>. QED
  BY <1>2, <1>3, <1>4, <1>5 DEF TrackSafe

\* A request that is not a selection begins, or ends without effect.
LEMMA RequestsAreSafe ==
    ASSUME TrackIInv, TrackTypeOK',
           UNCHANGED <<generation, active, held, queued, player, planned, saved, persistent,
                       reconciler, plays, chosen, undone, disputed, released>>,
           request'.kind # "select", request.kind # "select",
           RestoreIsCurrent',
           Playing /\ chosen # NoChoice /\ Named(chosen) /\ ~disputed /\ request'.kind = "tracks"
               => chosen.axis = "audio"
    PROVE  TrackSafe'
<1>1. PlaysFollow' /\ CorrectsLate' /\ FilesOutliveUse'
  BY DEF TrackIInv, TrackSafe, PlaysFollow, CorrectsLate, FilesOutliveUse, Own, Playing
<1>2. SelectionIsAlone'
  BY DEF SelectionIsAlone
<1>3. ChoiceStays'
  BY DEF TrackIInv, TrackSafe, ChoiceStays, Playing, Honoured
<1>4. ChoiceIsSafe'
  BY DEF TrackIInv, TrackSafe, ChoiceIsSafe, Playing, Own, Wants
<1>5. RefusalIsSafe'
  BY DEF TrackIInv, TrackSafe, RefusalIsSafe, Playing, Outdated, Own, Underway
<1>. QED
  BY <1>1, <1>2, <1>3, <1>4, <1>5 DEF TrackSafe

LEMMA LoadsAreSafe ==
    ASSUME TrackIInv, TrackTypeOK',
           (\E m \in Media : BeginLoad(m)) \/ LoadIfCurrent \/ LoadFails
    PROVE  TrackSafe'
<1>1. CASE (\E m \in Media : BeginLoad(m)) \/ LoadFails
  <2>1. /\ UNCHANGED <<generation, active, held, queued, player, planned, saved, persistent,
                       reconciler, plays, chosen, undone, disputed, released>>
        /\ request'.kind \in {"load", "none"} /\ request.kind \in {"load", "none"}
    BY <1>1, NothingIsApart, RequestOfStep
       DEF BeginLoad, LoadFails, stateVars, openingVars, historyVars, loadHistory, TrackIInv
  <2>2. RestoreIsCurrent'
    BY <2>1 DEF RestoreIsCurrent
  <2>. QED
    BY <2>1, <2>2, RequestsAreSafe
<1>2. CASE LoadIfCurrent
  <2>1. request.kind = "load" /\ request' = NoRequest /\ request'.kind = "none"
    BY <1>2, NothingIsApart, RequestOfStep DEF LoadIfCurrent, TrackIInv
  <2>2. CASE request.generation # generation
    <3>1. UNCHANGED <<generation, active, held, queued, player, planned, saved, persistent,
                      reconciler, plays, chosen, undone, disputed, released>>
      BY <1>2, <2>2 DEF LoadIfCurrent, stateVars, openingVars, historyVars, loadHistory
    <3>2. RestoreIsCurrent'
      BY <2>1 DEF RestoreIsCurrent
    <3>. QED
      BY <2>1, <3>1, <3>2, RequestsAreSafe
  <2>3. CASE request.generation = generation
    <3>1. /\ plays' = plays + 1 /\ chosen' = NoChoice /\ queued' = plays + 1
          /\ active'.play = plays + 1 /\ active'.revision = 0
          /\ UNCHANGED <<generation, player, planned, reconciler>>
      BY <1>2, <2>3 DEF LoadIfCurrent, Forget
    <3>2. ~undone'
      BY <1>2, <2>3 DEF LoadIfCurrent, Forget
    <3>3. plays \in Nat /\ plays + 1 \in 1..MaxPlays /\ player.play \in Nat /\ player.play <= plays
      BY <1>2, BoundsAssumption DEF LoadIfCurrent, TrackIInv, TrackSafe, TrackTypeOK, Players,
         PlaysFollow
    <3>4. ~Playing'
      BY <3>1, <3>3 DEF Playing
    <3>5. PlaysFollow'
      <4>1. \A p \in 1..MaxPlays : reconciler[p] # NoWorker => p <= plays
        BY DEF TrackIInv, TrackSafe, PlaysFollow
      <4>2. Own' = NoWorker
        BY <3>1, <3>3, <4>1 DEF Own
      <4>. QED
        BY <3>1, <3>3, <4>1, <4>2 DEF PlaysFollow
    <3>6. CorrectsLate' /\ SelectionIsAlone' /\ RestoreIsCurrent'
      BY <2>1, <3>1 DEF TrackIInv, TrackSafe, CorrectsLate, SelectionIsAlone, RestoreIsCurrent
    <3>7. ChoiceStays' /\ ChoiceIsSafe' /\ RefusalIsSafe'
      BY <2>1, <3>1, <3>2 DEF ChoiceStays, ChoiceIsSafe, RefusalIsSafe
    <3>8. FilesOutliveUse'
      BY <3>4 DEF FilesOutliveUse
    <3>. QED
      BY <3>5, <3>6, <3>7, <3>8 DEF TrackSafe
  <2>. QED
    BY <2>2, <2>3
<1>. QED
  BY <1>1, <1>2

\* The panel restores a subtitle only where none is shown, so no subtitle was chosen.
LEMMA PanelIsSafe ==
    ASSUME TrackIInv, TrackTypeOK', NEW m \in Media, BeginTracks(m)
    PROVE  TrackSafe'
<1>1. /\ UNCHANGED <<generation, active, held, player, saved, persistent, reconciler, plays,
                     chosen, undone, disputed, queued, planned, released>>
      /\ request'.kind = "tracks" /\ request.kind = "none"
      /\ request'.generation = generation /\ request'.media = m
  BY NothingIsApart DEF BeginTracks, stateVars, openingVars, historyVars, loadHistory
<1>2. RestoreIsCurrent'
  BY <1>1 DEF BeginTracks, IsCurrent, RestoreIsCurrent, stateVars
<1>3. ASSUME Playing, chosen # NoChoice, Named(chosen), ~disputed, chosen.axis # "audio"
      PROVE  FALSE
  <2>1. chosen \in Choices /\ chosen.axis = "subtitle"
    BY <1>3, ChoiceTyped DEF TrackIInv, TrackTypeOK
  <2>2. player.subtitle = chosen.key /\ Holds(active.preference, chosen)
    BY <1>3, <2>1 DEF TrackIInv, TrackSafe, ChoiceStays, Honoured
  <2>3. active.preference.enabled <=> chosen.key # {}
    BY <2>1, <2>2 DEF Holds
  <2>4. active.preference.enabled /\ player.subtitle = {}
    BY DEF BeginTracks, Pending
  <2>. QED
    BY <2>2, <2>3, <2>4
<1>. QED
  BY <1>1, <1>2, <1>3, RequestsAreSafe

\* The reconciliation that begins at the first frame has the play's preference.
LEMMA FirstFrameIsSafe ==
    ASSUME TrackIInv, TrackTypeOK', FirstFrame
    PROVE  TrackSafe'
<1> DEFINE w == [step |-> "source", generation |-> generation, media |-> active.media,
                 preference |-> active.preference, revision |-> active.revision,
                 shown |-> Idle, correction |-> NoUpdate]
<1>1. /\ active # NoPlay /\ active \in Active /\ active.play = plays /\ plays \in 1..MaxPlays
      /\ ~active.reconciled
  BY TrackedPlay DEF FirstFrame, stateVars, openingVars, historyVars, loadHistory
<1>2. /\ reconciler' = [reconciler EXCEPT ![active.play] = w]
      /\ active' = [active EXCEPT !.reconciled = TRUE]
      /\ UNCHANGED <<generation, held, player, saved, persistent, request, plays, chosen,
                     queued, planned, released>>
  BY DEF FirstFrame, stateVars, openingVars, historyVars, loadHistory
<1>3. /\ ~undone'
      /\ ~disputed' => ~disputed /\ request.kind # "select"
  BY DEF FirstFrame, stateVars, openingVars, historyVars, loadHistory
<1>4. /\ w.step = "source" /\ w.generation = generation /\ w.media = active.media
      /\ w.preference = active.preference /\ w.revision = active.revision
      /\ w.correction = NoUpdate
  OBVIOUS
<1> HIDE DEF w
<1>5. /\ active'.play = active.play /\ active'.media = active.media
      /\ active'.preference = active.preference /\ active'.revision = active.revision
      /\ active'.reconciled = TRUE
  BY <1>1, <1>2 DEF Active
<1>6. /\ reconciler'[active.play] = w
      /\ \A p \in 1..MaxPlays : p # active.play => reconciler'[p] = reconciler[p]
      /\ Own' = w
  BY <1>1, <1>2, <1>5 DEF TrackIInv, TrackTypeOK, Own
<1>7. PlaysFollow'
  <2>1. \A p \in 1..MaxPlays : reconciler'[p] # NoWorker => p <= plays
    BY <1>1, <1>6 DEF TrackIInv, TrackSafe, PlaysFollow
  <2>2. player.play <= plays /\ queued <= plays
    BY DEF TrackIInv, TrackSafe, PlaysFollow
  <2>3. w.revision <= active'.revision
    BY <1>1, <1>4, <1>5 DEF Active
  <2>. QED
    BY <1>1, <1>2, <1>4, <1>5, <1>6, <2>1, <2>2, <2>3 DEF PlaysFollow
<1>8. CorrectsLate'
  BY <1>4, <1>6, NothingIsApart DEF TrackIInv, TrackSafe, CorrectsLate
<1>9. SelectionIsAlone' /\ RestoreIsCurrent'
  BY <1>1, <1>2, <1>3, <1>5 DEF TrackIInv, TrackSafe, SelectionIsAlone, RestoreIsCurrent
<1>10. Playing' => Playing
  BY <1>1, <1>2, <1>5 DEF Playing
<1>11. ChoiceStays'
  BY <1>2, <1>3, <1>5, <1>10 DEF TrackIInv, TrackSafe, ChoiceStays, Honoured
<1>12. ChoiceIsSafe'
  <2>1. ASSUME Playing', chosen # NoChoice, Named(chosen), ~disputed'
        PROVE  /\ Playing /\ ~disputed /\ Holds(active.preference, chosen)
               /\ request.kind = "tracks" => chosen.axis = "audio"
               /\ \A p \in 1..MaxPlays :
                      reconciler[p].step \notin Early =>
                          p = active.play /\ Wants(reconciler[p], chosen)
    BY <1>3, <1>10, <2>1
       DEF TrackIInv, TrackSafe, ChoiceStays, ChoiceIsSafe, Honoured
  <2>2. ASSUME Playing', chosen # NoChoice, Named(chosen), ~disputed',
               NEW p \in 1..MaxPlays, reconciler'[p].step \notin Early
        PROVE  p = active'.play /\ Wants(reconciler'[p], chosen)
    BY <1>4, <1>5, <1>6, <2>1, <2>2 DEF Early
  <2>. QED
    BY <1>2, <1>4, <1>5, <1>6, <2>1, <2>2 DEF TrackIInv, TrackSafe, ChoiceIsSafe
<1>13. RefusalIsSafe' /\ FilesOutliveUse'
  BY <1>2, <1>3, <1>10 DEF TrackIInv, TrackSafe, RefusalIsSafe, FilesOutliveUse
<1>. QED
  BY <1>7, <1>8, <1>9, <1>11, <1>12, <1>13 DEF TrackSafe

LEMMA BeginSelectIsSafe ==
    ASSUME TrackIInv, TrackTypeOK', NEW m \in Media, NEW c \in Choices, BeginSelect(m, c)
    PROVE  TrackSafe'
<1>1. /\ active # NoPlay /\ active.media = m
      /\ request' = [kind |-> "select", step |-> "persist", generation |-> generation,
                     media |-> m, choice |-> c, before |-> Shown(player)]
      /\ chosen' = NoChoice
      /\ UNCHANGED <<generation, active, held, player, saved, persistent, reconciler, plays,
                     queued, planned, released>>
  BY DEF BeginSelect, IsCurrent, stateVars, openingVars, historyVars, loadHistory
<1>2. ~undone'
  BY DEF BeginSelect, stateVars, openingVars, historyVars, loadHistory
<1>3. ~disputed' => ~Underway
  BY DEF BeginSelect, stateVars, openingVars, historyVars, loadHistory
<1>4. /\ request'.kind = "select" /\ request'.step = "persist" /\ request'.media = m
      /\ request'.generation = generation /\ request'.before = Shown(player)
  BY <1>1
<1>5. PlaysFollow' /\ CorrectsLate' /\ FilesOutliveUse'
  BY <1>1 DEF TrackIInv, TrackSafe, PlaysFollow, CorrectsLate, FilesOutliveUse, Own, Playing
<1>6. SelectionIsAlone'
  <2>1. Underway' => Underway
    BY <1>1 DEF Underway
  <2>. QED
    BY <1>1, <1>2, <1>3, <1>4, <2>1 DEF SelectionIsAlone
<1>7. RestoreIsCurrent' /\ ChoiceStays' /\ ChoiceIsSafe' /\ RefusalIsSafe'
  BY <1>1, <1>2, <1>4 DEF RestoreIsCurrent, ChoiceStays, ChoiceIsSafe, RefusalIsSafe
<1>. QED
  BY <1>5, <1>6, <1>7 DEF TrackSafe

\* A selection under way has not been answered, and only its rollback was refused.
LEMMA SelectionState ==
    ASSUME TrackIInv, request.step \in {"persist", "bump", "apply", "commit", "rollback"}
    PROVE  /\ request \in Selections /\ request.kind = "select"
           /\ request.choice \in Choices /\ request.before \in Updates
           /\ request.generation \in Accounts /\ request.media \in Media
           /\ chosen = NoChoice
           /\ undone => request.step = "rollback"
           /\ active # NoPlay =>
                  request.generation = generation /\ request.media = active.media
<1>1. request \in Selections /\ request.kind = "select"
  BY RequestOfStep DEF TrackIInv
<1>. QED
  BY <1>1 DEF Selections, TrackIInv, TrackSafe, ChoiceIsSafe, RefusalIsSafe, SelectionIsAlone

LEMMA Advancing ==
    ASSUME request \in Selections, NEW step \in {"bump", "apply", "commit", "rollback"},
           Advance(step)
    PROVE  /\ request'.kind = "select" /\ request'.step = step
           /\ request'.generation = request.generation /\ request'.media = request.media
           /\ request'.choice = request.choice /\ request'.before = request.before
BY DEF Advance, Selections

\* What holds of every step of a selection that leaves the reconciliations alone.
LEMMA SelectionSteps ==
    ASSUME TrackIInv, TrackTypeOK', request.kind = "select", chosen' = NoChoice,
           UNCHANGED <<generation, reconciler, plays, queued>>,
           active' = active \/ (active # NoPlay /\ active' # NoPlay
               /\ active'.play = active.play /\ active'.media = active.media
               /\ active'.reconciled = active.reconciled
               /\ active'.revision >= active.revision),
           player'.play = player.play,
           request'.kind \in {"select", "none"},
           SelectionIsAlone', RefusalIsSafe', FilesOutliveUse'
    PROVE  TrackSafe'
<1>1. PlaysFollow'
  <2>1. CASE active' = active
    BY <2>1 DEF TrackIInv, TrackSafe, PlaysFollow, Own
  <2>2. CASE /\ active # NoPlay /\ active' # NoPlay
             /\ active'.play = active.play /\ active'.media = active.media
             /\ active'.reconciled = active.reconciled
             /\ active'.revision >= active.revision
    <3>1. Own # NoWorker => Own.revision \in Int
      BY <2>2, TrackedPlay DEF Workers
    <3>2. active.revision \in Int /\ active'.revision \in Int
      BY <2>2 DEF TrackIInv, TrackTypeOK, Active
    <3>3. Own' = Own
      BY <2>2 DEF Own
    <3>. QED
      BY <2>2, <3>1, <3>2, <3>3 DEF TrackIInv, TrackSafe, PlaysFollow
  <2>. QED
    BY <2>1, <2>2
<1>2. CorrectsLate'
  BY DEF TrackIInv, TrackSafe, CorrectsLate
<1>3. RestoreIsCurrent' /\ ChoiceStays' /\ ChoiceIsSafe'
  BY DEF RestoreIsCurrent, ChoiceStays, ChoiceIsSafe
<1>. QED
  BY <1>1, <1>2, <1>3 DEF TrackSafe

LEMMA PersistIsSafe ==
    ASSUME TrackIInv, TrackTypeOK', SelectPersist
    PROVE  TrackSafe'
<1>1. /\ request \in Selections /\ request.kind = "select"
      /\ request.choice \in Choices /\ request.media \in Media
      /\ chosen = NoChoice
      /\ active # NoPlay =>
             request.generation = generation /\ request.media = active.media
  BY SelectionState DEF SelectPersist, stateVars, openingVars, historyVars, loadHistory
<1>2. ~undone
  BY SelectionState DEF SelectPersist, stateVars, openingVars, historyVars, loadHistory
<1>3. /\ request.step = "persist"
      /\ UNCHANGED <<generation, active, held, player, persistent, reconciler, plays, chosen,
                     disputed, queued, planned, released>>
      /\ undone' = undone
  BY DEF SelectPersist, stateVars, openingVars, historyVars, loadHistory
<1>4. FilesOutliveUse' /\ RefusalIsSafe'
  BY <1>2, <1>3 DEF TrackIInv, TrackSafe, FilesOutliveUse, RefusalIsSafe, Playing
<1>5. request'.kind \in {"select", "none"} /\ SelectionIsAlone'
  <2>1. CASE EndRequest
    BY <2>1, NothingIsApart DEF EndRequest, SelectionIsAlone
  <2>2. CASE /\ request.generation = generation
             /\ IF persistent THEN Save(generation, request.media, UpdateOf(request.choice))
                ELSE UNCHANGED saved
             /\ Advance("bump")
    <3>1. /\ request'.kind = "select" /\ request'.step = "bump"
          /\ request'.generation = request.generation /\ request'.media = request.media
          /\ request'.choice = request.choice /\ request'.before = request.before
      BY <1>1, <2>2, Advancing
    <3>2. ASSUME active # NoPlay, persistent
          PROVE  Holds(saved'[generation][active.media], request.choice)
      <4>1. generation \in Accounts /\ saved[generation][request.media] \in Preferences
        BY <1>1 DEF TrackIInv, TrackTypeOK
      <4>2. UpdateOf(request.choice) \in Updates
        BY <1>1, ChoiceTyped
      <4>3. saved'[generation][request.media]
                = Applied(saved[generation][request.media], UpdateOf(request.choice))
        BY <1>1, <2>2, <3>2, <4>1, <4>2, SaveKeeps DEF TrackIInv
      <4>. QED
        BY <1>1, <3>2, <4>1, <4>3, HeldAfterwards
    <3>3. ASSUME active # NoPlay, ~disputed
          PROVE  ~Underway /\ (Playing => request.before = Shown(player))
      BY <1>1, <1>3, <3>3 DEF TrackIInv, TrackSafe, SelectionIsAlone
    <3>4. (Underway' => Underway) /\ (Playing' => Playing)
      BY <1>3 DEF Underway, Playing
    <3>. QED
      BY <1>1, <1>3, <3>1, <3>2, <3>3, <3>4 DEF SelectionIsAlone
  <2>. QED
    BY <2>1, <2>2 DEF SelectPersist
<1>. QED
  BY <1>1, <1>3, <1>4, <1>5, SelectionSteps

LEMMA BumpIsSafe ==
    ASSUME TrackIInv, TrackTypeOK', SelectBump
    PROVE  TrackSafe'
<1>1. /\ request \in Selections /\ request.kind = "select" /\ chosen = NoChoice
      /\ active # NoPlay =>
             request.generation = generation /\ request.media = active.media
  BY SelectionState DEF SelectBump, stateVars, openingVars, historyVars, loadHistory
<1>2. ~undone
  BY SelectionState DEF SelectBump, stateVars, openingVars, historyVars, loadHistory
<1>3. /\ request.step = "bump"
      /\ UNCHANGED <<generation, held, player, saved, persistent, reconciler, plays, chosen,
                     disputed, queued, planned, released>>
      /\ undone' = undone
  BY DEF SelectBump, historyVars, loadHistory, stateVars, openingVars
<1>4. \/ EndRequest /\ active' = active
      \/ /\ Advance("apply")
         /\ active' = IF active = NoPlay THEN active
                      ELSE [active EXCEPT !.revision = active.revision + 1]
  BY DEF SelectBump, stateVars, openingVars, historyVars, loadHistory
<1>5. ASSUME active # NoPlay, active' # active
      PROVE  /\ active' # NoPlay /\ active'.play = active.play /\ active'.media = active.media
             /\ active'.reconciled = active.reconciled
             /\ active'.revision = active.revision + 1
  BY <1>4, <1>5, TrackedPlay, NothingIsApart DEF Active
<1>6. active.play = active'.play /\ (active = NoPlay <=> active' = NoPlay)
      /\ (active # NoPlay => active'.media = active.media)
  BY <1>4, <1>5
<1>7. FilesOutliveUse' /\ RefusalIsSafe'
  BY <1>2, <1>3, <1>6 DEF TrackIInv, TrackSafe, FilesOutliveUse, RefusalIsSafe, Playing
<1>8. request'.kind \in {"select", "none"} /\ SelectionIsAlone'
  <2>1. CASE EndRequest
    BY <2>1, NothingIsApart DEF EndRequest, SelectionIsAlone
  <2>2. CASE /\ Advance("apply")
             /\ active' = IF active = NoPlay THEN active
                          ELSE [active EXCEPT !.revision = active.revision + 1]
    <3>1. /\ request'.kind = "select" /\ request'.step = "apply"
          /\ request'.generation = request.generation /\ request'.media = request.media
          /\ request'.choice = request.choice /\ request'.before = request.before
      BY <1>1, <2>2, Advancing
    <3>2. ASSUME active # NoPlay PROVE Outdated'
      <4>1. active \in Active /\ active.revision \in Nat /\ Own \in Workers \cup {NoWorker}
        BY <3>2, TrackedPlay DEF Active
      <4>2. active'.revision = active.revision + 1
        BY <2>2, <3>2, <4>1 DEF Active
      <4>3. Own # NoWorker => Own.revision <= active.revision /\ Own.revision \in Nat
        BY <3>2, <4>1 DEF TrackIInv, TrackSafe, PlaysFollow, Workers
      <4>4. Own' = Own
        BY <1>3, <1>6 DEF Own
      <4>. QED
        BY <4>1, <4>2, <4>3, <4>4 DEF Outdated
    <3>3. ASSUME active # NoPlay, ~disputed
          PROVE  /\ ~Underway /\ (Playing => request.before = Shown(player))
                 /\ persistent => Holds(saved[generation][active.media], request.choice)
      BY <1>1, <1>3, <3>3 DEF TrackIInv, TrackSafe, SelectionIsAlone
    <3>4. (Underway' => Underway) /\ (Playing' => Playing)
      BY <1>3, <1>6 DEF Underway, Playing
    <3>. QED
      BY <1>1, <1>3, <1>6, <3>1, <3>2, <3>3, <3>4 DEF SelectionIsAlone
  <2>. QED
    BY <1>4, <2>1, <2>2
<1>9. \/ active' = active
      \/ /\ active # NoPlay /\ active' # NoPlay
         /\ active'.play = active.play /\ active'.media = active.media
         /\ active'.reconciled = active.reconciled /\ active'.revision >= active.revision
  BY <1>4, <1>5, TrackedPlay DEF Active
<1>. QED
  BY <1>1, <1>3, <1>7, <1>8, <1>9, SelectionSteps

\* What mpv shows after it obeyed or refused, and that a shown file is kept.
LEMMA TouchedFiles ==
    ASSUME TrackIInv, NEW axis \in {"audio", "subtitle"}, NEW key \in SUBSET Keys,
           Obeys(axis, key) \/ Refuses(axis) \/ UNCHANGED <<player, held>>,
           active'.play = active.play, active' = NoPlay <=> active = NoPlay,
           UNCHANGED <<planned, released>>
    PROVE  /\ player'.play = player.play
           /\ FilesOutliveUse'
           /\ axis = "subtitle" => player'.audio = player.audio
           /\ axis = "audio" => player'.subtitle = player.subtitle
           /\ Playing' => Playing
           /\ Playing /\ Obeys(axis, key) => player'[axis] = key
<1>1. player \in Players
  BY DEF TrackIInv, TrackTypeOK
<1>2. CASE Obeys(axis, key)
  <2>1. CASE axis = "audio"
    <3>1. held' = held /\ player'.subtitle = player.subtitle /\ player'.play = player.play
      BY <1>1, <1>2, <2>1 DEF Obeys, Players
    <3>2. (Playing' => Playing) /\ (Playing => active.play # 0)
      BY <3>1, TrackedPlay DEF Playing
    <3>3. FilesOutliveUse'
      BY <3>1, <3>2 DEF TrackIInv, TrackSafe, FilesOutliveUse
    <3>4. Playing => player'.audio = key
      BY <1>1, <1>2, <2>1, <3>2 DEF Obeys, Players, Playing
    <3>. QED
      BY <2>1, <3>1, <3>2, <3>3, <3>4
  <2>2. CASE axis = "subtitle"
    <3>1. /\ held' = key \cap ExternalKeys /\ player'.audio = player.audio
          /\ player'.play = player.play
          /\ player.play # 0 => player'.subtitle = key
      BY <1>1, <1>2, <2>2 DEF Obeys, Players
    <3>2. (Playing' => Playing) /\ (Playing => player.play # 0)
      BY <3>1, TrackedPlay DEF Playing
    <3>3. FilesOutliveUse'
      BY <3>1, <3>2 DEF FilesOutliveUse
    <3>. QED
      BY <2>2, <3>1, <3>2, <3>3
  <2>. QED
    BY <2>1, <2>2
<1>3. CASE UNCHANGED held /\ UNCHANGED player /\ ~Obeys(axis, key)
  <2>1. Playing' => Playing
    BY <1>3 DEF Playing
  <2>2. FilesOutliveUse'
    BY <1>3, <2>1 DEF TrackIInv, TrackSafe, FilesOutliveUse
  <2>. QED
    BY <1>3, <2>1, <2>2
<1>4. CASE /\ UNCHANGED held /\ ~Obeys(axis, key)
           /\ axis = "subtitle" /\ player' = [player EXCEPT !.subtitle = {}]
  <2>1. player'.play = player.play /\ player'.audio = player.audio /\ player'.subtitle = {}
    BY <1>1, <1>4 DEF Players
  <2>2. Playing' => Playing
    BY <2>1 DEF Playing
  <2>3. FilesOutliveUse'
    BY <2>1 DEF FilesOutliveUse
  <2>. QED
    BY <1>4, <2>1, <2>2, <2>3
<1>. QED
  BY <1>2, <1>3, <1>4 DEF Refuses

LEMMA ApplyIsSafe ==
    ASSUME TrackIInv, TrackTypeOK', SelectApply
    PROVE  TrackSafe'
<1> DEFINE c == request.choice
<1>1. /\ request \in Selections /\ request.kind = "select" /\ chosen = NoChoice
      /\ c \in Choices /\ c.axis \in {"audio", "subtitle"} /\ c.key \in SUBSET Keys
      /\ active # NoPlay =>
             request.generation = generation /\ request.media = active.media
  BY SelectionState, ChoiceTyped DEF SelectApply, stateVars, openingVars, historyVars, loadHistory
<1>2. ~undone /\ request.step = "apply"
  BY SelectionState DEF SelectApply, stateVars, openingVars, historyVars, loadHistory
<1>3. UNCHANGED <<generation, active, saved, persistent, reconciler, plays, chosen, disputed,
                  queued, planned, released>>
  BY DEF SelectApply, stateVars, openingVars, historyVars, loadHistory
<1>4. Obeys(c.axis, c.key) \/ Refuses(c.axis) \/ UNCHANGED <<player, held>>
  BY DEF SelectApply, stateVars, openingVars, historyVars, loadHistory
<1>5. /\ player'.play = player.play /\ FilesOutliveUse'
      /\ Playing' => Playing
      /\ Playing /\ Obeys(c.axis, c.key) => player'[c.axis] = c.key
  BY <1>1, <1>3, <1>4, TouchedFiles
<1>6. ASSUME active # NoPlay, ~disputed
      PROVE  /\ ~Underway /\ Outdated
             /\ Playing => request.before = Shown(player)
             /\ persistent => Holds(saved[generation][active.media], c)
  BY <1>1, <1>2, <1>6 DEF TrackIInv, TrackSafe, SelectionIsAlone
<1>7. (Underway' <=> Underway) /\ (Outdated' <=> Outdated)
  BY <1>3 DEF Underway, Outdated, Own
<1>8. CASE Obeys(c.axis, c.key) /\ Advance("commit") /\ UNCHANGED undone
  <2>1. /\ request'.kind = "select" /\ request'.step = "commit"
        /\ request'.generation = request.generation /\ request'.media = request.media
        /\ request'.choice = request.choice /\ request'.before = request.before
    BY <1>1, <1>8, Advancing
  <2>2. ~undone'
    BY <1>2, <1>8
  <2>3. RefusalIsSafe'
    BY <2>2 DEF RefusalIsSafe
  <2>4. SelectionIsAlone'
    BY <1>1, <1>3, <1>5, <1>6, <1>7, <1>8, <2>1, <2>2 DEF SelectionIsAlone
  <2>. QED
    BY <1>1, <1>3, <1>5, <2>1, <2>3, <2>4, SelectionSteps
<1>9. CASE Advance("rollback") /\ (undone' => player' = player)
  <2>1. /\ request'.kind = "select" /\ request'.step = "rollback"
        /\ request'.generation = request.generation /\ request'.media = request.media
        /\ request'.choice = request.choice /\ request'.before = request.before
    BY <1>1, <1>9, Advancing
  <2>2. RefusalIsSafe'
    <3>1. ASSUME Playing', ~disputed PROVE Outdated' /\ ~Underway'
      <4>1. active # NoPlay
        BY <1>5, <3>1 DEF Playing
      <4>. QED
        BY <1>6, <1>7, <3>1, <4>1
    <3>. QED
      BY <1>3, <2>1, <3>1 DEF RefusalIsSafe
  <2>3. SelectionIsAlone'
    BY <1>1, <1>3, <1>5, <1>6, <1>7, <1>9, <2>1 DEF SelectionIsAlone
  <2>. QED
    BY <1>1, <1>3, <1>5, <2>1, <2>2, <2>3, SelectionSteps
<1>. QED
  BY <1>2, <1>8, <1>9 DEF SelectApply, stateVars, openingVars, historyVars, loadHistory

\* A committed update touches the preference of the tracked play only.
LEMMA Committing ==
    ASSUME TrackIInv, NEW gen, NEW m, NEW u, CommitTo(gen, m, u)
    PROVE  /\ active' = NoPlay <=> active = NoPlay
           /\ active # NoPlay =>
                 /\ active'.play = active.play /\ active'.media = active.media
                 /\ active'.reconciled = active.reconciled
                 /\ active'.revision = active.revision
                 /\ active'.preference = IF IsCurrent(gen, m) THEN Applied(active.preference, u)
                                         ELSE active.preference
           /\ active'.play = active.play
<1>1. CASE IsCurrent(gen, m)
  <2>1. active # NoPlay /\ active \in Active
    BY <1>1, TrackedPlay DEF IsCurrent
  <2>2. active' = [active EXCEPT !.preference = Applied(active.preference, u)]
    BY <1>1 DEF CommitTo
  <2>3. /\ active'.play = active.play /\ active'.media = active.media
        /\ active'.reconciled = active.reconciled /\ active'.revision = active.revision
        /\ active'.preference = Applied(active.preference, u)
    BY <2>1, <2>2 DEF Active
  <2>4. active.play # 0
    BY <2>1, BoundsAssumption DEF Active
  <2>. QED
    BY <1>1, <2>1, <2>3, <2>4, NothingIsApart
<1>2. CASE ~IsCurrent(gen, m)
  BY <1>2 DEF CommitTo
<1>. QED
  BY <1>1, <1>2

LEMMA SelectCommitIsSafe ==
    ASSUME TrackIInv, TrackTypeOK', SelectCommit
    PROVE  TrackSafe'
<1> DEFINE c == request.choice
<1>1. /\ request \in Selections /\ request.kind = "select" /\ chosen = NoChoice
      /\ c \in Choices /\ c.axis \in {"audio", "subtitle"}
      /\ active # NoPlay =>
             request.generation = generation /\ request.media = active.media
  BY SelectionState, ChoiceTyped DEF SelectCommit, stateVars, openingVars, historyVars, loadHistory
<1>2. ~undone /\ request.step = "commit"
  BY SelectionState DEF SelectCommit, stateVars, openingVars, historyVars, loadHistory
<1>3. /\ request' = NoRequest /\ request'.kind = "none"
      /\ UNCHANGED <<generation, held, player, saved, persistent, reconciler, plays, queued,
                     planned, released>>
  BY NothingIsApart DEF SelectCommit, EndRequest, stateVars, openingVars, historyVars, loadHistory
<1>4. ~undone' /\ disputed' = disputed
  BY <1>2 DEF SelectCommit, stateVars, openingVars, historyVars, loadHistory
<1>5. /\ active' = NoPlay <=> active = NoPlay
      /\ active # NoPlay =>
            /\ active'.play = active.play /\ active'.media = active.media
            /\ active'.reconciled = active.reconciled /\ active'.revision = active.revision
            /\ active'.preference = Applied(active.preference, UpdateOf(c))
            /\ chosen' = c
      /\ active'.play = active.play
  <2>1. CommitTo(request.generation, request.media, UpdateOf(c))
    BY DEF SelectCommit
  <2>2. active # NoPlay => IsCurrent(request.generation, request.media)
    BY <1>1 DEF IsCurrent
  <2>. QED
    BY <2>1, <2>2, Committing DEF SelectCommit
<1>6. PlaysFollow' /\ CorrectsLate' /\ FilesOutliveUse'
  <2>1. Own' = Own
    BY <1>3, <1>5 DEF Own
  <2>. QED
    BY <1>3, <1>5, <2>1
       DEF TrackIInv, TrackSafe, PlaysFollow, CorrectsLate, FilesOutliveUse, Playing
<1>7. SelectionIsAlone' /\ RestoreIsCurrent' /\ RefusalIsSafe'
  BY <1>3, <1>4 DEF SelectionIsAlone, RestoreIsCurrent, RefusalIsSafe
<1>8. ASSUME Playing', ~disputed
      PROVE  /\ ~Underway /\ Outdated /\ player[c.axis] = c.key
             /\ persistent => Holds(saved[generation][active.media], c)
             /\ Holds(active'.preference, c) /\ chosen' = c
  <2>1. active # NoPlay /\ Playing
    BY <1>3, <1>5, <1>8 DEF Playing
  <2>2. active.preference \in Preferences
    BY <2>1, TrackedPlay
  <2>. QED
    BY <1>1, <1>2, <1>5, <1>8, <2>1, <2>2, HeldAfterwards
       DEF TrackIInv, TrackSafe, SelectionIsAlone
<1>9. ChoiceStays'
  BY <1>3, <1>4, <1>5, <1>8 DEF ChoiceStays, Honoured, Playing
<1>10. ChoiceIsSafe'
  <2>1. ASSUME Playing', ~disputed
        PROVE  /\ Own' # NoWorker => Own'.revision # active'.revision
               /\ \A p \in 1..MaxPlays : reconciler'[p].step \in Early
    <3>1. active # NoPlay /\ Own' = Own
      BY <1>3, <1>5, <2>1 DEF Playing, Own
    <3>2. Own # NoWorker => Own.revision < active.revision
      BY <1>8, <2>1 DEF Outdated
    <3>3. active.revision \in Nat /\ Own \in Workers \cup {NoWorker}
      BY <3>1, TrackedPlay DEF Active
    <3>4. Own # NoWorker => Own.revision # active.revision
      BY <3>2, <3>3 DEF Workers
    <3>5. \A p \in 1..MaxPlays : reconciler[p].step \in Early
      BY <1>8, <2>1 DEF Underway, TrackIInv, TrackTypeOK
    <3>. QED
      BY <1>3, <1>5, <3>1, <3>4, <3>5
  <2>. QED
    BY <1>3, <1>4, <2>1 DEF ChoiceIsSafe
<1>. QED
  BY <1>6, <1>7, <1>9, <1>10 DEF TrackSafe

LEMMA RollbackIsSafe ==
    ASSUME TrackIInv, TrackTypeOK', SelectRollback
    PROVE  TrackSafe'
<1>1. /\ request \in Selections /\ request.kind = "select" /\ chosen = NoChoice
      /\ request.before \in Updates
      /\ active # NoPlay =>
             request.generation = generation /\ request.media = active.media
  BY SelectionState DEF SelectRollback, stateVars, openingVars, historyVars, loadHistory
<1>2. /\ request' = NoRequest /\ request'.kind = "none"
      /\ UNCHANGED <<generation, active, held, player, persistent, reconciler, plays, chosen,
                     disputed, queued, planned, released>>
  BY NothingIsApart DEF SelectRollback, EndRequest, stateVars, openingVars, historyVars, loadHistory
<1>3. SelectionIsAlone'
  BY <1>2 DEF SelectionIsAlone
<1>4. FilesOutliveUse'
  BY <1>2 DEF TrackIInv, TrackSafe, FilesOutliveUse, Playing
<1>5. RefusalIsSafe'
  <2>1. CASE UNCHANGED saved /\ undone' = FALSE
    BY <2>1 DEF RefusalIsSafe
  <2>2. CASE /\ Save(generation, request.media, request.before)
             /\ UNCHANGED undone
    <3>1. (Outdated' <=> Outdated) /\ (Underway' <=> Underway) /\ (Playing' <=> Playing)
      BY <1>2 DEF Outdated, Own, Underway, Playing
    <3>2. ASSUME undone, Playing, ~disputed PROVE Outdated /\ ~Underway
      BY <3>2 DEF TrackIInv, TrackSafe, RefusalIsSafe
    <3>3. ASSUME undone, Playing, ~disputed
          PROVE  saved'[generation][active.media]
                     = Applied(saved'[generation][active.media], Shown(player))
      <4>1. active # NoPlay /\ request.before = Shown(player)
        BY <1>1, <3>3 DEF TrackIInv, TrackSafe, SelectionIsAlone, Playing
      <4>2. generation \in Accounts /\ active.media \in Media
            /\ saved[generation][active.media] \in Preferences
        BY <4>1, TrackedPlay
      <4>3. saved'[generation][active.media]
                = Applied(saved[generation][active.media], request.before)
        BY <1>1, <2>2, <4>1, <4>2, SaveKeeps DEF TrackIInv
      <4>. QED
        BY <1>1, <4>1, <4>2, <4>3, AppliedTwice
    <3>. QED
      BY <1>2, <2>2, <3>1, <3>2, <3>3 DEF RefusalIsSafe
  <2>. QED
    BY <2>1, <2>2 DEF SelectRollback
<1>. QED
  BY <1>1, <1>2, <1>3, <1>4, <1>5, SelectionSteps

LEMMA RestoreIsSafe ==
    ASSUME TrackIInv, TrackTypeOK', TracksRestore
    PROVE  TrackSafe'
<1>1. request \in Restores /\ request.kind = "tracks" /\ request.key \in SUBSET Keys
  BY RequestOfStep DEF TracksRestore, TrackIInv, Restores, openingVars,
     loadHistory
<1>2. /\ request' = NoRequest /\ request'.kind = "none"
      /\ UNCHANGED <<generation, active, saved, persistent, reconciler, plays, chosen, disputed,
                     queued, planned, released>>
  BY NothingIsApart DEF TracksRestore, EndRequest, stateVars, openingVars, historyVars, loadHistory
<1>3. \/ Obeys("subtitle", request.key) \/ Refuses("subtitle") \/ UNCHANGED <<player, held>>
  BY DEF TracksRestore, stateVars, openingVars, historyVars, loadHistory
<1>4. /\ player'.play = player.play /\ FilesOutliveUse' /\ player'.audio = player.audio
      /\ Playing' => Playing
  BY <1>1, <1>2, <1>3, TouchedFiles
<1>5. PlaysFollow' /\ CorrectsLate'
  BY <1>2, <1>4 DEF TrackIInv, TrackSafe, PlaysFollow, CorrectsLate, Own
<1>6. SelectionIsAlone' /\ RestoreIsCurrent'
  BY <1>2 DEF SelectionIsAlone, RestoreIsCurrent
<1>7. ASSUME Playing', chosen # NoChoice, Named(chosen), ~disputed
      PROVE  chosen.axis = "audio" /\ Honoured
  BY <1>1, <1>4, <1>7 DEF TrackIInv, TrackSafe, ChoiceStays, ChoiceIsSafe
<1>8. ChoiceStays'
  BY <1>2, <1>4, <1>7 DEF ChoiceStays, Honoured
<1>9. ChoiceIsSafe'
  BY <1>2, <1>4 DEF TrackIInv, TrackSafe, ChoiceIsSafe, Own
<1>10. RefusalIsSafe'
  <2>1. CASE undone' = FALSE
    BY <2>1 DEF RefusalIsSafe
  <2>2. CASE ~IsCurrent(request.generation, request.media)
    <3>1. active = NoPlay
      BY <1>1, <2>2 DEF TrackIInv, TrackSafe, RestoreIsCurrent, IsCurrent
    <3>. QED
      BY <1>2, <3>1 DEF RefusalIsSafe, Playing
  <2>. QED
    BY <2>1, <2>2 DEF TracksRestore
<1>. QED
  BY <1>4, <1>5, <1>6, <1>8, <1>9, <1>10 DEF TrackSafe

\* A worker that goes on leaves the order of the plays as it is.
LEMMA WorkerSteps ==
    ASSUME TrackIInv, NEW p \in 1..MaxPlays, reconciler[p] \in Workers,
           GoesOn(p, reconciler'[p]),
           UNCHANGED <<generation, request, plays, queued, planned>>,
           player'.play = player.play,
           active' = NoPlay <=> active = NoPlay, active'.play = active.play,
           active # NoPlay => /\ active'.media = active.media
                              /\ active'.reconciled = active.reconciled
                              /\ active'.revision = active.revision
    PROVE  /\ PlaysFollow' /\ RestoreIsCurrent' /\ (Playing' <=> Playing)
           /\ \A q \in 1..MaxPlays : q # p => reconciler'[q] = reconciler[q]
           /\ active # NoPlay => \/ Own' = NoWorker
                                 \/ /\ Own # NoWorker
                                    /\ Own'.generation = Own.generation
                                    /\ Own'.media = Own.media
                                    /\ Own'.preference = Own.preference
                                    /\ Own'.revision = Own.revision
           /\ active # NoPlay /\ Outdated => Outdated'
<1>1. \A q \in 1..MaxPlays : q # p => reconciler'[q] = reconciler[q]
  BY GoesOnTyped DEF TrackIInv
<1>2. /\ reconciler[p] # NoWorker
      /\ reconciler'[p] # NoWorker =>
             /\ reconciler'[p].generation = reconciler[p].generation
             /\ reconciler'[p].media = reconciler[p].media
             /\ reconciler'[p].preference = reconciler[p].preference
             /\ reconciler'[p].revision = reconciler[p].revision
  BY NothingIsApart DEF GoesOn
<1>3. ASSUME active # NoPlay
      PROVE  \/ Own' = NoWorker
             \/ /\ Own # NoWorker
                /\ Own'.generation = Own.generation /\ Own'.media = Own.media
                /\ Own'.preference = Own.preference /\ Own'.revision = Own.revision
  <2>1. active.play \in 1..MaxPlays
    BY <1>3, TrackedPlay
  <2>2. CASE p = active.play
    BY <1>2, <2>2 DEF Own
  <2>3. CASE p # active.play
    <3>1. Own' = Own
      BY <1>1, <2>1, <2>3 DEF Own
    <3>. QED
      BY <3>1
  <2>. QED
    BY <2>2, <2>3
<1>4. PlaysFollow'
  <2>1. \A q \in 1..MaxPlays : reconciler'[q] # NoWorker => reconciler[q] # NoWorker
    BY <1>1, <1>2
  <2>2. \A q \in 1..MaxPlays : reconciler'[q] # NoWorker => q <= plays
    BY <2>1 DEF TrackIInv, TrackSafe, PlaysFollow
  <2>. QED
    BY <1>3, <2>2 DEF TrackIInv, TrackSafe, PlaysFollow
<1>5. RestoreIsCurrent' /\ (Playing' <=> Playing)
  BY DEF TrackIInv, TrackSafe, RestoreIsCurrent, Playing
<1>6. active # NoPlay /\ Outdated => Outdated'
  BY <1>3 DEF Outdated
<1>. QED
  BY <1>1, <1>3, <1>4, <1>5, <1>6

\* A reconciliation past its check that goes on wanting the choice, and honours it.
LEMMA UnderwaySteps ==
    ASSUME TrackIInv, NEW p \in 1..MaxPlays, reconciler[p] \in Workers,
           reconciler[p].step \notin Early, GoesOn(p, reconciler'[p]),
           reconciler'[p] # NoWorker => reconciler'[p].step \notin Early,
           UNCHANGED <<generation, request, plays, chosen, undone, disputed, queued, planned,
                       released>>,
           player'.play = player.play,
           active' = NoPlay <=> active = NoPlay, active'.play = active.play,
           active # NoPlay => /\ active'.media = active.media
                              /\ active'.reconciled = active.reconciled
                              /\ active'.revision = active.revision,
           CorrectsLate', FilesOutliveUse',
           Playing /\ chosen \in Choices /\ Named(chosen) /\ Wants(reconciler[p], chosen)
               /\ Honoured
           => Honoured' /\ (reconciler'[p] # NoWorker => Wants(reconciler'[p], chosen))
    PROVE  TrackSafe'
<1>1. /\ PlaysFollow' /\ RestoreIsCurrent' /\ (Playing' <=> Playing)
      /\ \A q \in 1..MaxPlays : q # p => reconciler'[q] = reconciler[q]
  BY WorkerSteps
<1>2. Underway
  <2>1. reconciler[p].step \notin Early
    BY DEF Workers
  <2>. QED
    BY <2>1 DEF Underway, TrackIInv, TrackTypeOK
<1>3. active # NoPlay /\ request.kind = "select" => disputed
  BY <1>2 DEF TrackIInv, TrackSafe, SelectionIsAlone
<1>4. Playing /\ undone => disputed
  BY <1>2 DEF TrackIInv, TrackSafe, RefusalIsSafe
<1>5. SelectionIsAlone'
  <2>1. request.kind = "select" /\ active # NoPlay =>
            request.generation = generation /\ request.media = active.media
    BY DEF TrackIInv, TrackSafe, SelectionIsAlone
  <2>. QED
    BY <1>3, <2>1 DEF SelectionIsAlone
<1>6. RefusalIsSafe'
  BY <1>1, <1>4 DEF TrackIInv, TrackSafe, RefusalIsSafe
<1>7. ASSUME Playing, chosen # NoChoice, Named(chosen), ~disputed
      PROVE  /\ p = active.play /\ Honoured'
             /\ reconciler'[p] # NoWorker => Wants(reconciler'[p], chosen)
  <2>1. p = active.play /\ Wants(reconciler[p], chosen)
    <3>1. reconciler[p].step \notin Early
      BY DEF Workers
    <3>. QED
      BY <1>7, <3>1 DEF TrackIInv, TrackSafe, ChoiceIsSafe
  <2>2. Honoured /\ chosen \in Choices
    BY <1>7 DEF TrackIInv, TrackSafe, ChoiceStays, TrackTypeOK
  <2>. QED
    BY <1>7, <2>1, <2>2
<1>8. ChoiceStays'
  BY <1>1, <1>7 DEF ChoiceStays
<1>9. ChoiceIsSafe'
  <2>1. chosen # NoChoice => request.kind # "select"
    BY DEF TrackIInv, TrackSafe, ChoiceIsSafe
  <2>2. ASSUME Playing, chosen # NoChoice, Named(chosen), ~disputed
        PROVE  /\ request.kind = "tracks" => chosen.axis = "audio"
               /\ Own' = NoWorker \/ Own'.step \notin Early
               /\ \A q \in 1..MaxPlays :
                      reconciler'[q].step \notin Early =>
                          q = active.play /\ Wants(reconciler'[q], chosen)
    <3>1. /\ request.kind = "tracks" => chosen.axis = "audio"
          /\ \A q \in 1..MaxPlays :
                 reconciler[q].step \notin Early =>
                     q = active.play /\ Wants(reconciler[q], chosen)
      BY <2>2 DEF TrackIInv, TrackSafe, ChoiceIsSafe
    <3>2. Own' = NoWorker \/ Own'.step \notin Early
      BY <1>7, <2>2 DEF Own
    <3>3. ASSUME NEW q \in 1..MaxPlays, reconciler'[q].step \notin Early
          PROVE  q = active.play /\ Wants(reconciler'[q], chosen)
      <4>1. CASE q = p
        <5>1. reconciler'[p] # NoWorker
          BY <3>3, <4>1, NothingIsApart DEF Early
        <5>. QED
          BY <1>7, <2>2, <4>1, <5>1
      <4>2. CASE q # p
        BY <1>1, <3>1, <3>3, <4>2
      <4>. QED
        BY <4>1, <4>2
    <3>. QED
      BY <3>1, <3>2, <3>3
  <2>. QED
    BY <1>1, <2>1, <2>2 DEF ChoiceIsSafe
<1>. QED
  BY <1>1, <1>5, <1>6, <1>8, <1>9 DEF TrackSafe

LEMMA SourceIsSafe ==
    ASSUME TrackIInv, TrackTypeOK', NEW p \in 1..MaxPlays, ReconcileSource(p)
    PROVE  TrackSafe'
<1>1. /\ reconciler[p] \in Workers /\ reconciler[p].step = "source"
      /\ GoesOn(p, reconciler'[p])
      /\ reconciler'[p] # NoWorker =>
             /\ reconciler'[p].step = "check"
             /\ reconciler'[p].correction = reconciler[p].correction
  BY SourceStep DEF TrackIInv, ReconcileSource, stateVars, openingVars, historyVars, loadHistory
<1>2. UNCHANGED <<generation, active, held, player, saved, persistent, request, plays, chosen,
                  undone, disputed, queued, planned, released>>
  BY DEF ReconcileSource, stateVars, openingVars, historyVars, loadHistory
<1>3. /\ PlaysFollow' /\ RestoreIsCurrent' /\ (Playing' <=> Playing)
      /\ \A q \in 1..MaxPlays : q # p => reconciler'[q] = reconciler[q]
      /\ active # NoPlay => \/ Own' = NoWorker
                            \/ /\ Own # NoWorker
                               /\ Own'.preference = Own.preference
                               /\ Own'.revision = Own.revision
      /\ active # NoPlay /\ Outdated => Outdated'
  BY <1>1, <1>2, WorkerSteps
<1>4. reconciler[p] # NoWorker /\ reconciler[p].step \in Early /\ reconciler'[p].step \in Early
  BY <1>1, NothingIsApart DEF Early
<1>5. CorrectsLate'
  BY <1>1, <1>3, <1>4 DEF TrackIInv, TrackSafe, CorrectsLate
<1>6. FilesOutliveUse' /\ ChoiceStays'
  BY <1>2, <1>3 DEF TrackIInv, TrackSafe, FilesOutliveUse, ChoiceStays, Honoured
<1>7. Underway' => Underway
  BY <1>3, <1>4 DEF Underway, TrackIInv, TrackTypeOK
<1>8. SelectionIsAlone'
  BY <1>2, <1>3, <1>7 DEF TrackIInv, TrackSafe, SelectionIsAlone
<1>9. RefusalIsSafe'
  BY <1>2, <1>3, <1>7 DEF TrackIInv, TrackSafe, RefusalIsSafe, Playing
<1>10. ChoiceIsSafe'
  <2>1. ASSUME Playing
        PROVE  Own' # NoWorker /\ Own'.step \in Early => Own.step \in Early
    <3>1. active.play \in 1..MaxPlays
      BY <2>1, TrackedPlay DEF Playing
    <3>. QED
      BY <1>2, <1>3, <1>4, <3>1 DEF Own
  <2>2. \A q \in 1..MaxPlays :
            reconciler'[q].step \notin Early => reconciler'[q] = reconciler[q]
    BY <1>3, <1>4
  <2>3. Playing => active # NoPlay
    BY DEF Playing
  <2>. QED
    BY <1>2, <1>3, <2>1, <2>2, <2>3 DEF TrackIInv, TrackSafe, ChoiceIsSafe
<1>. QED
  BY <1>3, <1>5, <1>6, <1>8, <1>9, <1>10 DEF TrackSafe

LEMMA CheckIsSafe ==
    ASSUME TrackIInv, TrackTypeOK', NEW p \in 1..MaxPlays, ReconcileCheck(p)
    PROVE  TrackSafe'
<1>1. /\ reconciler[p] \in Workers /\ reconciler[p].step = "check"
      /\ GoesOn(p, reconciler'[p])
      /\ reconciler'[p] # NoWorker =>
             /\ reconciler'[p] \in Workers /\ reconciler'[p].step = "catalog"
             /\ reconciler'[p].correction = reconciler[p].correction
             /\ active.revision = reconciler[p].revision
             /\ ~disputed' => ~disputed /\ request.kind # "select" /\ p = active.play
      /\ disputed => disputed'
  BY CheckStep DEF TrackIInv, ReconcileCheck, stateVars, openingVars, historyVars, loadHistory
<1>2. UNCHANGED <<generation, active, held, player, saved, persistent, request, plays, chosen,
                  undone, queued, planned, released>>
  BY DEF ReconcileCheck, stateVars, openingVars, historyVars, loadHistory
<1>3. /\ PlaysFollow' /\ RestoreIsCurrent' /\ (Playing' <=> Playing)
      /\ \A q \in 1..MaxPlays : q # p => reconciler'[q] = reconciler[q]
      /\ active # NoPlay => \/ Own' = NoWorker
                            \/ /\ Own # NoWorker
                               /\ Own'.preference = Own.preference
                               /\ Own'.revision = Own.revision
      /\ active # NoPlay /\ Outdated => Outdated'
  BY <1>1, <1>2, WorkerSteps
<1>4. reconciler[p] # NoWorker
  BY <1>1, NothingIsApart
<1>5. CorrectsLate'
  BY <1>1, <1>3, <1>4 DEF TrackIInv, TrackSafe, CorrectsLate
<1>6. FilesOutliveUse' /\ ChoiceStays'
  BY <1>1, <1>2, <1>3 DEF TrackIInv, TrackSafe, FilesOutliveUse, ChoiceStays, Honoured
<1>7. reconciler'[p] = NoWorker => (Underway' => Underway)
  BY <1>3, NothingIsApart DEF Underway, TrackIInv, TrackTypeOK, Early
<1>8. SelectionIsAlone'
  <2>1. ASSUME request.kind = "select", active # NoPlay, ~disputed'
        PROVE  ~disputed /\ reconciler'[p] = NoWorker
    BY <1>1, <2>1
  <2>. QED
    BY <1>2, <1>3, <1>7, <2>1 DEF TrackIInv, TrackSafe, SelectionIsAlone
<1>9. RefusalIsSafe'
  <2>1. ASSUME undone, Playing, ~disputed'
        PROVE  ~disputed /\ reconciler'[p] = NoWorker /\ Outdated
    <3>1. ~disputed /\ Outdated /\ active # NoPlay
      BY <1>1, <2>1 DEF TrackIInv, TrackSafe, RefusalIsSafe, Playing
    <3>2. active.revision \in Nat
      BY <3>1, TrackedPlay DEF Active
    <3>3. p = active.play => reconciler[p].revision < active.revision
      BY <1>4, <3>1 DEF Outdated, Own
    <3>. QED
      BY <1>1, <2>1, <3>1, <3>2, <3>3 DEF Workers
  <2>2. Playing => active # NoPlay
    BY DEF Playing
  <2>. QED
    BY <1>2, <1>3, <1>7, <2>1, <2>2 DEF TrackIInv, TrackSafe, RefusalIsSafe
<1>10. ChoiceIsSafe'
  <2>1. chosen # NoChoice => request.kind # "select"
    BY DEF TrackIInv, TrackSafe, ChoiceIsSafe
  <2>2. ASSUME Playing, chosen # NoChoice, Named(chosen), ~disputed'
        PROVE  /\ request.kind = "tracks" => chosen.axis = "audio"
               /\ Own' # NoWorker /\ Own'.step \in Early /\ Own'.revision = active.revision =>
                      Holds(Own'.preference, chosen)
               /\ \A q \in 1..MaxPlays :
                      reconciler'[q].step \notin Early =>
                          q = active.play /\ Wants(reconciler'[q], chosen)
    <3>1. /\ request.kind = "tracks" => chosen.axis = "audio"
          /\ Own # NoWorker /\ Own.step \in Early /\ Own.revision = active.revision =>
                 Holds(Own.preference, chosen)
          /\ \A q \in 1..MaxPlays :
                 reconciler[q].step \notin Early =>
                     q = active.play /\ Wants(reconciler[q], chosen)
      BY <1>1, <2>2 DEF TrackIInv, TrackSafe, ChoiceIsSafe
    <3>2. active # NoPlay /\ active.play \in 1..MaxPlays
      BY <2>2, TrackedPlay DEF Playing
    <3>3. Own' # NoWorker /\ Own'.step \in Early => Own' = Own
      <4>1. CASE p = active.play
        BY <1>1, <1>2, <4>1 DEF Own, Early
      <4>2. CASE p # active.play
        BY <1>2, <1>3, <3>2, <4>2 DEF Own
      <4>. QED
        BY <4>1, <4>2
    <3>4. ASSUME reconciler'[p] # NoWorker
          PROVE  p = active.play /\ Wants(reconciler'[p], chosen)
      <4>1. p = active.play /\ Own = reconciler[p] /\ Own.revision = active.revision
        BY <1>1, <2>2, <3>4 DEF Own
      <4>2. Holds(reconciler[p].preference, chosen)
        BY <1>1, <1>4, <3>1, <4>1 DEF Early
      <4>3. reconciler'[p].preference = reconciler[p].preference
        BY <1>1, <3>4 DEF GoesOn
      <4>4. /\ reconciler[p].correction.enabled = {} /\ reconciler[p].correction.subtitle = {}
            /\ reconciler[p].correction.audio = {}
        BY <1>1, <1>4 DEF TrackIInv, TrackSafe, CorrectsLate
      <4>. QED
        BY <1>1, <3>4, <4>1, <4>2, <4>3, <4>4 DEF Wants
    <3>5. ASSUME NEW q \in 1..MaxPlays, reconciler'[q].step \notin Early
          PROVE  q = active.play /\ Wants(reconciler'[q], chosen)
      <4>1. CASE q = p
        BY <3>4, <3>5, <4>1, NothingIsApart DEF Early
      <4>2. CASE q # p
        BY <1>3, <3>1, <3>5, <4>2
      <4>. QED
        BY <4>1, <4>2
    <3>. QED
      BY <3>1, <3>3, <3>5
  <2>. QED
    BY <1>2, <1>3, <2>1, <2>2 DEF ChoiceIsSafe
<1>. QED
  BY <1>3, <1>5, <1>6, <1>8, <1>9, <1>10 DEF TrackSafe

LEMMA CatalogIsSafe ==
    ASSUME TrackIInv, TrackTypeOK', NEW p \in 1..MaxPlays, ReconcileCatalog(p)
    PROVE  TrackSafe'
<1>1. /\ reconciler[p] \in Workers /\ reconciler[p].step = "catalog"
      /\ GoesOn(p, reconciler'[p])
      /\ reconciler'[p] \in Workers /\ reconciler'[p].step = "audio"
      /\ reconciler'[p].shown = player
      /\ reconciler'[p].correction = reconciler[p].correction
  BY CatalogStep DEF TrackIInv, ReconcileCatalog, stateVars, openingVars, historyVars, loadHistory
<1>2. UNCHANGED <<generation, active, held, player, saved, persistent, request, plays, chosen,
                  undone, disputed, queued, planned, released>>
  BY DEF ReconcileCatalog, stateVars, openingVars, historyVars, loadHistory
<1>3. reconciler[p] # NoWorker /\ reconciler'[p] # NoWorker
  BY <1>1, NothingIsApart
<1>4. reconciler'[p].preference = reconciler[p].preference
  BY <1>1, <1>3 DEF GoesOn
<1>5. CorrectsLate'
  <2>1. \A q \in 1..MaxPlays : q # p => reconciler'[q] = reconciler[q]
    BY <1>1, GoesOnTyped DEF TrackIInv
  <2>. QED
    BY <1>1, <1>3, <2>1 DEF TrackIInv, TrackSafe, CorrectsLate
<1>6. FilesOutliveUse'
  BY <1>2 DEF TrackIInv, TrackSafe, FilesOutliveUse, Playing
<1>7. ASSUME Playing, chosen \in Choices, Wants(reconciler[p], chosen), Honoured
      PROVE  Honoured' /\ Wants(reconciler'[p], chosen)
  <2>1. Honoured'
    BY <1>2, <1>7 DEF Honoured
  <2>2. Open(reconciler'[p]) /\ player[chosen.axis] = chosen.key
    BY <1>1, <1>7, TrackedPlay DEF Open, Honoured, Playing
  <2>. QED
    BY <1>1, <1>4, <1>7, <2>1, <2>2 DEF Wants
<1>. QED
  BY <1>1, <1>2, <1>5, <1>6, <1>7, UnderwaySteps DEF Early

LEMMA AudioIsSafe ==
    ASSUME TrackIInv, TrackTypeOK', NEW p \in 1..MaxPlays, ReconcileAudio(p)
    PROVE  TrackSafe'
<1> DEFINE r == reconciler[p]
<1>1. /\ r \in Workers /\ r.step = "audio" /\ GoesOn(p, reconciler'[p])
      /\ reconciler'[p] \in Workers /\ reconciler'[p].step = "subtitle"
      /\ reconciler'[p].shown = r.shown
      /\ reconciler'[p].correction.enabled = r.correction.enabled
      /\ reconciler'[p].correction.subtitle = r.correction.subtitle
      /\ Touches(p, "audio")
  BY AudioStep DEF TrackIInv, ReconcileAudio, stateVars, openingVars, historyVars, loadHistory
<1>2. UNCHANGED <<generation, active, saved, persistent, request, plays, chosen, undone,
                  disputed, queued, planned, released>>
  BY DEF ReconcileAudio, historyVars, loadHistory, stateVars, openingVars
<1>3. r # NoWorker /\ reconciler'[p] # NoWorker
  BY <1>1, NothingIsApart
<1>4. reconciler'[p].preference = r.preference
  BY <1>1, <1>3 DEF GoesOn
<1>5. player'.play = player.play /\ held' = held /\ player'.subtitle = player.subtitle
  BY <1>1, TouchesTyped DEF TrackIInv
<1>6. CorrectsLate'
  <2>1. \A q \in 1..MaxPlays : q # p => reconciler'[q] = reconciler[q]
    BY <1>1, GoesOnTyped DEF TrackIInv
  <2>2. r.correction.enabled = {} /\ r.correction.subtitle = {}
    BY <1>1, <1>3 DEF TrackIInv, TrackSafe, CorrectsLate
  <2>. QED
    BY <1>1, <1>3, <2>1, <2>2 DEF TrackIInv, TrackSafe, CorrectsLate
<1>7. FilesOutliveUse'
  BY <1>2, <1>5 DEF TrackIInv, TrackSafe, FilesOutliveUse, Playing
<1>8. ASSUME chosen \in Choices, Wants(r, chosen), Honoured
      PROVE  Honoured' /\ Wants(reconciler'[p], chosen)
  <2>1. Holds(r.preference, chosen) /\ Open(r) /\ r.shown[chosen.axis] = chosen.key
    BY <1>1, <1>8 DEF Wants
  <2>2. Open(reconciler'[p])
    BY <1>1, <2>1 DEF Open
  <2>3. CASE chosen.axis = "audio"
    <3>1. chosen.key # {} /\ chosen.key \subseteq Audio
      BY <1>8, <2>3, ChoiceTyped
    <3>2. r.preference.audio = chosen.key /\ r.shown.audio = chosen.key
      BY <2>1, <2>3 DEF Holds
    <3>3. UNCHANGED <<player, held>> /\ reconciler'[p].correction = r.correction
      BY <2>1, <3>1, <3>2, AudioStep DEF TrackIInv
    <3>. QED
      BY <1>1, <1>2, <1>4, <1>8, <2>1, <2>2, <2>3, <3>3 DEF Honoured, Wants
  <2>4. CASE chosen.axis = "subtitle"
    <3>1. Honoured'
      BY <1>2, <1>5, <1>8, <2>4 DEF Honoured
    <3>. QED
      BY <1>1, <1>4, <1>8, <2>1, <2>2, <2>4, <3>1 DEF Wants
  <2>. QED
    BY <1>8, <2>3, <2>4, ChoiceTyped
<1>. QED
  BY <1>1, <1>2, <1>5, <1>6, <1>7, <1>8, UnderwaySteps DEF Early

LEMMA SubtitleIsSafe ==
    ASSUME TrackIInv, TrackTypeOK', NEW p \in 1..MaxPlays, ReconcileSubtitle(p)
    PROVE  TrackSafe'
<1> DEFINE r == reconciler[p]
<1>1. /\ r \in Workers /\ r.step = "subtitle" /\ GoesOn(p, reconciler'[p])
      /\ reconciler'[p] # NoWorker =>
             /\ reconciler'[p] \in Workers /\ reconciler'[p].step = "correct"
             /\ reconciler'[p].correction.audio = r.correction.audio
             /\ OwnKey(r) => /\ reconciler'[p].correction.enabled = r.correction.enabled
                             /\ reconciler'[p].correction.subtitle = r.correction.subtitle
      /\ Touches(p, "subtitle")
      /\ Content(r) => UNCHANGED <<player, held>> /\ reconciler'[p].correction = r.correction
  BY SubtitleStep DEF TrackIInv, ReconcileSubtitle, stateVars, openingVars, historyVars, loadHistory
<1>2. UNCHANGED <<generation, active, saved, persistent, request, plays, chosen, undone,
                  disputed, queued, planned, released>>
  BY DEF ReconcileSubtitle, historyVars, loadHistory, stateVars, openingVars
<1>3. r # NoWorker
  BY <1>1, NothingIsApart
<1>4. reconciler'[p] # NoWorker => reconciler'[p].preference = r.preference
  BY <1>1 DEF GoesOn
<1>5. player'.play = player.play /\ player'.audio = player.audio
  BY <1>1, TouchesTyped DEF TrackIInv
<1>6. CorrectsLate'
  <2>1. \A q \in 1..MaxPlays : q # p => reconciler'[q] = reconciler[q]
    BY <1>1, GoesOnTyped DEF TrackIInv
  <2>2. r.correction.enabled = {} /\ r.correction.subtitle = {}
    BY <1>1, <1>3 DEF TrackIInv, TrackSafe, CorrectsLate
  <2>3. reconciler'[p] # NoWorker /\ OwnKey(reconciler'[p]) => OwnKey(r)
    BY <1>4 DEF OwnKey
  <2>. QED
    BY <1>1, <2>1, <2>2, <2>3 DEF TrackIInv, TrackSafe, CorrectsLate
<1>7. FilesOutliveUse'
  <2>1. CASE UNCHANGED <<player, held>>
    BY <1>2, <2>1 DEF TrackIInv, TrackSafe, FilesOutliveUse, Playing
  <2>2. ASSUME NEW key \in SUBSET Keys, Obeys("subtitle", key) \/ Refuses("subtitle")
        PROVE  FilesOutliveUse'
    BY <1>2, <2>2, TouchedFiles
  <2>3. {} \in SUBSET Keys
    OBVIOUS
  <2>. QED
    BY <1>1, <2>1, <2>2, <2>3 DEF Touches
<1>8. ASSUME chosen \in Choices, Named(chosen), Wants(r, chosen), Honoured
      PROVE  Honoured' /\ (reconciler'[p] # NoWorker => Wants(reconciler'[p], chosen))
  <2>1. Holds(r.preference, chosen) /\ r.shown[chosen.axis] = chosen.key
    BY <1>1, <1>8 DEF Wants
  <2>2. CASE chosen.axis = "audio"
    <3>1. Honoured'
      BY <1>2, <1>5, <1>8, <2>2 DEF Honoured
    <3>. QED
      BY <1>1, <1>4, <1>8, <2>2, <3>1 DEF Wants
  <2>3. CASE chosen.axis = "subtitle"
    <3>1. /\ r.preference.enabled <=> chosen.key # {}
          /\ chosen.key # {} => r.preference.subtitle = chosen.key
          /\ r.shown.subtitle = chosen.key /\ CatalogKey(chosen.key) = chosen.key
      BY <1>8, <2>1, <2>3 DEF Holds, Named
    <3>2. Content(r)
      BY <3>1 DEF Content
    <3>3. UNCHANGED <<player, held>> /\ reconciler'[p].correction = r.correction
      BY <1>1, <3>2
    <3>4. Honoured'
      BY <1>2, <1>8, <3>3 DEF Honoured
    <3>. QED
      BY <1>1, <1>4, <1>8, <3>3, <3>4 DEF Wants
  <2>. QED
    BY <1>8, <2>2, <2>3, ChoiceTyped
<1>. QED
  BY <1>1, <1>2, <1>5, <1>6, <1>7, <1>8, UnderwaySteps DEF Early

LEMMA CorrectIsSafe ==
    ASSUME TrackIInv, TrackTypeOK', NEW p \in 1..MaxPlays, ReconcileCorrect(p)
    PROVE  TrackSafe'
<1> DEFINE r == reconciler[p]
<1>1. /\ r \in Workers /\ r.step = "correct" /\ GoesOn(p, reconciler'[p])
      /\ \/ reconciler'[p] = NoWorker /\ UNCHANGED saved
         \/ /\ reconciler'[p] \in Workers /\ reconciler'[p].step = "commit"
            /\ reconciler'[p].correction = r.correction
            /\ Save(generation, r.media, r.correction)
  BY CorrectStep DEF TrackIInv, ReconcileCorrect, stateVars, openingVars, historyVars, loadHistory
<1>2. UNCHANGED <<generation, active, held, player, persistent, request, plays, chosen, undone,
                  disputed, queued, planned, released>>
  BY DEF ReconcileCorrect, stateVars, openingVars, historyVars, loadHistory
<1>3. r # NoWorker /\ r.media \in Media /\ r.correction \in Updates
  BY <1>1, NothingIsApart DEF Workers
<1>4. reconciler'[p] # NoWorker => reconciler'[p].preference = r.preference
  BY <1>1 DEF GoesOn
<1>5. CorrectsLate'
  <2>1. \A q \in 1..MaxPlays : q # p => reconciler'[q] = reconciler[q]
    BY <1>1, GoesOnTyped DEF TrackIInv
  <2>2. reconciler'[p] # NoWorker /\ OwnKey(reconciler'[p]) => OwnKey(r)
    BY <1>4 DEF OwnKey
  <2>. QED
    BY <1>1, <1>3, <2>1, <2>2 DEF TrackIInv, TrackSafe, CorrectsLate
<1>6. FilesOutliveUse'
  BY <1>2 DEF TrackIInv, TrackSafe, FilesOutliveUse, Playing
<1>7. ASSUME Playing, chosen \in Choices, Wants(r, chosen), Honoured
      PROVE  Honoured' /\ (reconciler'[p] # NoWorker => Wants(reconciler'[p], chosen))
  <2>1. Spares(r.correction, chosen)
    BY <1>7 DEF Wants, Spares
  <2>2. /\ generation \in Accounts /\ active.media \in Media
        /\ saved[generation][active.media] \in Preferences
    BY <1>7, TrackedPlay DEF Playing
  <2>3. persistent => Holds(saved'[generation][active.media], chosen)
    <3>1. CASE UNCHANGED saved
      BY <1>7, <3>1 DEF Honoured
    <3>2. CASE Save(generation, r.media, r.correction)
      <4>1. saved'[generation][active.media] \in
                {saved[generation][active.media],
                 Applied(saved[generation][active.media], r.correction)}
        BY <1>3, <2>2, <3>2, SaveKeeps DEF TrackIInv
      <4>. QED
        BY <1>3, <1>7, <2>1, <2>2, <4>1, HeldStill DEF Honoured
    <3>. QED
      BY <1>1, <3>1, <3>2
  <2>4. Honoured'
    BY <1>2, <1>7, <2>3 DEF Honoured
  <2>. QED
    BY <1>1, <1>4, <1>7, <2>4 DEF Wants
<1>8. reconciler'[p] # NoWorker => reconciler'[p].step \notin Early
  BY <1>1 DEF Early
<1>. QED
  BY <1>1, <1>2, <1>5, <1>6, <1>7, <1>8, UnderwaySteps DEF Early

LEMMA ReconcileCommitIsSafe ==
    ASSUME TrackIInv, TrackTypeOK', NEW p \in 1..MaxPlays, ReconcileCommit(p)
    PROVE  TrackSafe'
<1> DEFINE r == reconciler[p]
<1>1. /\ r \in Workers /\ r.step = "commit" /\ GoesOn(p, reconciler'[p])
      /\ reconciler'[p] = NoWorker
      /\ CommitTo(r.generation, r.media, r.correction)
  BY CommitStep DEF TrackIInv, ReconcileCommit, stateVars, openingVars, historyVars, loadHistory
<1>2. UNCHANGED <<generation, held, player, saved, persistent, request, plays, chosen, undone,
                  disputed, queued, planned, released>>
  BY DEF ReconcileCommit, historyVars, loadHistory, stateVars, openingVars
<1>3. r.correction \in Updates
  BY <1>1 DEF Workers
<1>4. /\ active' = NoPlay <=> active = NoPlay
      /\ active'.play = active.play
      /\ active # NoPlay =>
            /\ active'.media = active.media /\ active'.reconciled = active.reconciled
            /\ active'.revision = active.revision
            /\ active'.preference \in {active.preference,
                                       Applied(active.preference, r.correction)}
  BY <1>1, Committing
<1>5. CorrectsLate'
  <2>1. \A q \in 1..MaxPlays : q # p => reconciler'[q] = reconciler[q]
    BY <1>1, GoesOnTyped DEF TrackIInv
  <2>. QED
    BY <1>1, <2>1 DEF TrackIInv, TrackSafe, CorrectsLate
<1>6. FilesOutliveUse'
  BY <1>2, <1>4 DEF TrackIInv, TrackSafe, FilesOutliveUse, Playing
<1>7. ASSUME Playing, chosen \in Choices, Wants(r, chosen), Honoured PROVE Honoured'
  <2>1. Spares(r.correction, chosen)
    BY <1>7 DEF Wants, Spares
  <2>2. active # NoPlay /\ active.preference \in Preferences
    BY <1>7, TrackedPlay DEF Playing
  <2>3. Holds(active'.preference, chosen)
    BY <1>3, <1>4, <1>7, <2>1, <2>2, HeldStill DEF Honoured
  <2>. QED
    BY <1>2, <1>4, <1>7, <2>2, <2>3 DEF Honoured
<1>. QED
  BY <1>1, <1>2, <1>4, <1>5, <1>6, <1>7, UnderwaySteps DEF Early

LEMMA TrackInductive == TrackIInv /\ [TrackNext]_vars => TrackIInv'
<1> SUFFICES ASSUME TrackIInv, [TrackNext]_vars PROVE TrackIInv'
  OBVIOUS
<1>1. CASE UNCHANGED vars
  <2>1. UNCHANGED <<stateVars, openingVars, player, saved, persistent, request, reconciler,
                    plays, selections, historyVars>>
    BY <1>1 DEF vars
  <2>2. TrackTypeOK'
    BY <2>1 DEF TrackIInv, TrackTypeOK, stateVars, openingVars, historyVars, loadHistory
  <2>3. TrackSafe'
    BY <2>1, NothingHappens DEF stateVars, openingVars, historyVars, loadHistory
  <2>. QED
    BY <2>2, <2>3 DEF TrackIInv
<1>2. CASE \E p \in 1..MaxPlays : Reconciler(p)
  <2>1. PICK p \in 1..MaxPlays : Reconciler(p)
    BY <1>2
  <2>2. TrackTypeOK'
    BY <2>1, ReconcilerTyped DEF TrackIInv
  <2>. QED
    BY <2>1, <2>2, SourceIsSafe, CheckIsSafe, CatalogIsSafe, AudioIsSafe, SubtitleIsSafe,
       CorrectIsSafe, ReconcileCommitIsSafe DEF Reconciler, TrackIInv
<1>3. CASE \/ \E m \in Media : BeginLoad(m) \/ BeginTracks(m)
           \/ LoadIfCurrent \/ LoadFails
  <2>1. TrackTypeOK'
    BY <1>3, LoadStepsTyped DEF TrackIInv
  <2>. QED
    BY <1>3, <2>1, LoadsAreSafe, PanelIsSafe DEF TrackIInv
<1>4. CASE \/ \E m \in Media, c \in Choices : BeginSelect(m, c)
           \/ SelectPersist \/ SelectBump \/ SelectApply \/ SelectCommit \/ SelectRollback
           \/ TracksRestore
  <2>1. TrackTypeOK'
    BY <1>4, SelectStepsTyped DEF TrackIInv
  <2>. QED
    BY <1>4, <2>1, BeginSelectIsSafe, PersistIsSafe, BumpIsSafe, ApplyIsSafe,
       SelectCommitIsSafe, RollbackIsSafe, RestoreIsSafe DEF TrackIInv
<1>5. CASE \/ MpvOpens \/ FileLoaded \/ FirstFrame \/ EndOfFile
           \/ TerminalEvent \/ Release \/ ChangeAccount
  <2>1. TrackTypeOK'
    BY <1>5, PlayStepsTyped DEF TrackIInv
  <2>. QED
    BY <1>5, <2>1, FileLoadedIsSafe, FirstFrameIsSafe, OpeningIsSafe, EndsAreSafe,
       ReleaseIsSafe DEF TrackIInv
<1>. QED
  BY <1>1, <1>2, <1>3, <1>4, <1>5 DEF TrackNext, Request

LEMMA TrackInvariant == TrackSpec => []TrackIInv
<1>1. TrackInit => TrackIInv
  BY InitTyped, InitSafe DEF TrackIInv
<1>. QED
  BY <1>1, TrackInductive, PTL DEF TrackSpec

-----------------------------------------------------------------------------
(***************************************************************************)
(* The theorems.                                                           *)
(***************************************************************************)
\* A track the user chose is shown, tracked and saved once mpv has the play's file and
\* its planned tracks, until the play ends or the user chooses again, for every load,
\* reconciliation, panel request and account change that comes between, but for the
\* excuses ChoiceStays names.
THEOREM ChoicesStay == TrackSpec => []ChoiceStays
<1>1. TrackIInv => ChoiceStays
  BY DEF TrackIInv, TrackSafe
<1>. QED
  BY <1>1, TrackInvariant, PTL

\* After a selection that mpv refused and the server took back, the saved preference
\* agrees with what mpv shows.
THEOREM RollbacksAgree == TrackSpec => []RollbackAgrees
<1>1. TrackIInv => RollbackAgrees
  BY NothingIsApart DEF TrackIInv, TrackSafe, RefusalIsSafe, RollbackAgrees
<1>. QED
  BY <1>1, TrackInvariant, PTL

\* No external subtitle's file is removed while the play that shows it lasts and the
\* user has not stopped it, whatever was selected while its file was opened.
THEOREM FilesAreKept == TrackSpec => []FilesOutliveUse
<1>1. TrackIInv => FilesOutliveUse
  BY DEF TrackIInv, TrackSafe
<1>. QED
  BY <1>1, TrackInvariant, PTL

\* Who moves a worker from its correction to its commit.
LEMMA CorrectionIsItsOwn ==
    ASSUME TrackTypeOK, [TrackNext]_vars, NEW p \in 1..MaxPlays,
           reconciler[p].step = "correct", reconciler'[p].step = "commit"
    PROVE  ReconcileCorrect(p)
<1>1. reconciler'[p] # reconciler[p]
  OBVIOUS
<1>2. PICK q \in 1..MaxPlays : Reconciler(q) \/ (FirstFrame /\ q = active.play)
  <2>1. (\E q \in 1..MaxPlays : Reconciler(q)) \/ FirstFrame
    BY <1>1 DEF TrackNext, Request, BeginLoad, BeginTracks, BeginSelect, LoadIfCurrent,
       LoadFails, SelectPersist, SelectBump, SelectApply, SelectCommit, SelectRollback,
       TracksRestore, MpvOpens, FileLoaded, EndOfFile, TerminalEvent, Release,
       ChangeAccount, vars
  <2>2. FirstFrame => active.play \in 1..MaxPlays
    BY DEF FirstFrame, TrackTypeOK, Active
  <2>. QED
    BY <2>1, <2>2
<1>3. CASE FirstFrame
  <2>1. reconciler'[p].step = "source" \/ reconciler'[p] = reconciler[p]
    BY <1>3 DEF FirstFrame, TrackTypeOK
  <2>. QED
    BY <1>1, <2>1
<1>4. CASE Reconciler(q)
  <2>1. GoesOn(q, reconciler'[q])
    BY <1>4, SourceStep, CheckStep, CatalogStep, AudioStep, SubtitleStep, CorrectStep, CommitStep
       DEF Reconciler
  <2>2. q = p
    BY <1>1, <2>1, GoesOnTyped
  <2>. QED
    BY <1>4, <2>2 DEF Reconciler, ReconcileSource, ReconcileCheck, ReconcileCatalog, ReconcileAudio,
       ReconcileSubtitle, ReconcileCommit
<1>. QED
  BY <1>2, <1>3, <1>4

\* A reconciliation of a play whose preference names a subtitle of mpv's own corrects
\* the audio at most: the subtitle saved for the play's media stays.
THEOREM RuntimeKeysKept == TrackSpec => RuntimeKeysAreKept
<1>1. ASSUME TrackIInv, [TrackNext]_vars, NEW p \in 1..MaxPlays,
             reconciler[p].step = "correct", reconciler'[p].step = "commit",
             reconciler[p].preference.enabled, reconciler[p].preference.subtitle # {},
             reconciler[p].preference.subtitle \subseteq Runtime
      PROVE  LET r == reconciler[p] IN
             /\ saved'[r.generation][r.media].subtitle = saved[r.generation][r.media].subtitle
             /\ saved'[r.generation][r.media].enabled = saved[r.generation][r.media].enabled
  <2> DEFINE r == reconciler[p]
  <2>1. ReconcileCorrect(p)
    BY <1>1, CorrectionIsItsOwn DEF TrackIInv
  <2>2. r \in Workers /\ r # NoWorker
    BY <1>1, <2>1, CorrectStep, NothingIsApart DEF TrackIInv
  <2>3. r.correction.enabled = {} /\ r.correction.subtitle = {}
    BY <1>1, <2>2 DEF TrackIInv, TrackSafe, CorrectsLate, OwnKey
  <2>4. /\ r.generation \in Accounts /\ r.media \in Media /\ r.correction \in Updates
        /\ saved[r.generation][r.media] \in Preferences
    BY <1>1, <2>2 DEF Workers, TrackIInv, TrackTypeOK
  <2>5. CASE UNCHANGED saved
    BY <2>5
  <2>6. CASE r.generation = generation /\ Save(generation, r.media, r.correction)
    <3>1. saved'[r.generation][r.media]
              = Applied(saved[r.generation][r.media], r.correction)
      BY <1>1, <2>4, <2>6, SaveKeeps DEF TrackIInv
    <3>2. /\ Applied(saved[r.generation][r.media], r.correction).enabled
                 = saved[r.generation][r.media].enabled
          /\ Applied(saved[r.generation][r.media], r.correction).subtitle
                 = saved[r.generation][r.media].subtitle
      <4>1. \A q \in Preferences, u \in Updates :
                /\ Applied(q, u).enabled = IF u.enabled = {} THEN q.enabled ELSE TRUE \in u.enabled
                /\ Applied(q, u).subtitle = IF u.subtitle = {} THEN q.subtitle ELSE u.subtitle
        BY AppliedTyped, Zenon
      <4>. QED
        BY <2>3, <2>4, <4>1
    <3>. QED
      BY <3>1, <3>2
  <2>. QED
    BY <1>1, <2>1, <2>5, <2>6, CorrectStep DEF TrackIInv
<1>2. TrackIInv /\ [TrackNext]_vars =>
        [\A p \in 1..MaxPlays :
           LET r == reconciler[p] IN
           /\ r.step = "correct" /\ reconciler'[p].step = "commit"
           /\ r.preference.enabled
           /\ r.preference.subtitle # {} /\ r.preference.subtitle \subseteq Runtime
           => /\ saved'[r.generation][r.media].subtitle = saved[r.generation][r.media].subtitle
              /\ saved'[r.generation][r.media].enabled = saved[r.generation][r.media].enabled]_vars
  BY <1>1
<1>. QED
  BY <1>2, TrackInvariant, PTL DEF TrackSpec, RuntimeKeysAreKept

=============================================================================
