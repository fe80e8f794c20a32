-------------------------- MODULE AccountStoreProofs --------------------------
(***************************************************************************)
(* Proofs about the settings store and the account store above it.  Of the *)
(* snapshots handed to the save worker the newest is the one written last, *)
(* for any threads, values and number of changes.  For any accounts,       *)
(* servers and number of operations, failures and crashes, the session is  *)
(* what the next start restores, signed out stays signed out, and a        *)
(* failure leaves no trace.                                                *)
(*                                                                         *)
(* The latter rest on two invariants.  StoreInv: what the operation that   *)
(* holds the lock found when it took it, and what it has made of the       *)
(* credentials so far.  FileInv: unless saves crossed, what the settings'  *)
(* file holds, or will hold when the saves under way have ended, is what   *)
(* the settings in memory say.                                             *)
(***************************************************************************)
EXTENDS AccountStore, SequenceTheorems, TLAPS

-----------------------------------------------------------------------------
(***************************************************************************)
(* The settings store.                                                     *)
(***************************************************************************)
Threads == [Savers -> [at : Places, snap : Values \cup {NoData}]]

\* A thread about to save or to hand over carries a snapshot.
SnapshotsAreTaken ==
    /\ \A t \in Savers : saver[t].at \in {"saving", "handing"} => saver[t].snap # NoData
    /\ worker = "writing" => writing # NoData

\* Where the newest snapshot is: in the slot, at the worker, or written.
NewestIsSomewhere ==
    /\ pending # NoData => pending = handed
    /\ pending = NoData => handed = IF worker = "writing" THEN writing ELSE wrote

\* The worker rests on an empty slot only, and is gone only after a stop.
RestsWhenDone ==
    /\ worker \in {"none", "asleep", "gone"} => pending = NoData
    /\ worker = "gone" => stop

SettingsInv ==
    SettingsTypeOK /\ SnapshotsAreTaken /\ NewestIsSomewhere /\ RestsWhenDone

-----------------------------------------------------------------------------
LEMMA InitEstablishes == SettingsInit => SettingsInv
<1> SUFFICES ASSUME SettingsInit PROVE SettingsInv
  OBVIOUS
<1>1. Idle \in [at : Places, snap : Values \cup {NoData}]
      /\ Idle.at \notin {"saving", "handing"}
  BY DEF Idle, Places
<1>2. SettingsTypeOK
  BY <1>1 DEF SettingsInit, SettingsTypeOK
<1>3. SnapshotsAreTaken
  BY <1>1 DEF SettingsInit, SnapshotsAreTaken
<1>4. NewestIsSomewhere /\ RestsWhenDone
  BY DEF SettingsInit, NewestIsSomewhere, RestsWhenDone
<1> QED
  BY <1>2, <1>3, <1>4 DEF SettingsInv

-----------------------------------------------------------------------------
(***************************************************************************)
(* The steps of the threads.                                               *)
(***************************************************************************)
\* The threads' places and the worker's state are apart.
LEMMA OwnPlace ==
    ASSUME SettingsInv, data' \in Values, disk' \in Values, changes' \in Nat,
           saver' \in Threads,
           \A t \in Savers :
               saver'[t].at \in {"saving", "handing"} => saver'[t].snap # NoData,
           UNCHANGED <<pending, stop, worker, writing, handed, wrote>>
    PROVE  SettingsInv'
<1>1. SettingsTypeOK'
  BY DEF SettingsInv, SettingsTypeOK, Threads
<1>2. SnapshotsAreTaken'
  BY DEF SettingsInv, SnapshotsAreTaken
<1>3. NewestIsSomewhere' /\ RestsWhenDone'
  BY DEF SettingsInv, NewestIsSomewhere, RestsWhenDone
<1> QED
  BY <1>1, <1>2, <1>3 DEF SettingsInv

LEMMA ChangeKeeps ==
    ASSUME SettingsInv, NEW t \in Savers, NEW v \in Values, Change(t, v), changes' \in Nat
    PROVE  SettingsInv'
<1>1. saver' \in Threads
  BY DEF Change, SettingsInv, SettingsTypeOK, Threads, Places
<1>2. \A u \in Savers :
          saver'[u].at \in {"saving", "handing"} => saver'[u].snap # NoData
  BY DEF Change, SettingsInv, SettingsTypeOK, SnapshotsAreTaken
<1> QED
  BY <1>1, <1>2, OwnPlace DEF Change, SettingsInv, SettingsTypeOK

LEMMA SnapshotKeeps ==
    ASSUME SettingsInv, NEW t \in Savers, NEW how \in {"saving", "handing"},
           Snapshot(t, how), changes' \in Nat
    PROVE  SettingsInv'
<1>1. [at |-> how, snap |-> data] \in [at : Places, snap : Values \cup {NoData}]
      /\ data # NoData
  BY SettingsAssumption DEF SettingsInv, SettingsTypeOK, Places
<1>2. saver' \in Threads
  BY <1>1 DEF Snapshot, SettingsInv, SettingsTypeOK, Threads
<1>3. \A u \in Savers :
          saver'[u].at \in {"saving", "handing"} => saver'[u].snap # NoData
  BY <1>1 DEF Snapshot, SettingsInv, SettingsTypeOK, SnapshotsAreTaken
<1> QED
  BY <1>2, <1>3, OwnPlace DEF Snapshot, SettingsInv, SettingsTypeOK

\* What is written to the file is a snapshot that was taken.
LEMMA SaveKeeps ==
    ASSUME SettingsInv, NEW t \in Savers, NEW ok \in BOOLEAN, Save(t, ok), changes' \in Nat
    PROVE  SettingsInv'
<1>1. saver[t].snap \in Values
  BY DEF Save, SettingsInv, SettingsTypeOK, SnapshotsAreTaken
<1>2. disk' \in Values
  BY <1>1 DEF Save, WriteFile, SettingsInv, SettingsTypeOK
<1>3. Idle \in [at : Places, snap : Values \cup {NoData}]
      /\ Idle.at \notin {"saving", "handing"}
  BY DEF Idle, Places
<1>4. saver' \in Threads
  BY <1>3 DEF Save, SettingsInv, SettingsTypeOK, Threads
<1>5. \A u \in Savers :
          saver'[u].at \in {"saving", "handing"} => saver'[u].snap # NoData
  BY <1>3 DEF Save, SettingsInv, SettingsTypeOK, SnapshotsAreTaken
<1> QED
  BY <1>2, <1>4, <1>5, OwnPlace DEF Save, SettingsInv, SettingsTypeOK

\* The snapshot handed over takes the slot and is the newest from then on.
LEMMA HandOverKeeps ==
    ASSUME SettingsInv, NEW t \in Savers, HandOver(t), changes' \in Nat
    PROVE  SettingsInv'
<1>1. saver[t].snap \in Values /\ saver[t].snap # NoData
  BY DEF HandOver, SettingsInv, SettingsTypeOK, SnapshotsAreTaken
<1>2. Idle \in [at : Places, snap : Values \cup {NoData}]
      /\ Idle.at \notin {"saving", "handing"}
  BY DEF Idle, Places
<1>3. saver' \in Threads
  BY <1>2 DEF HandOver, SettingsInv, SettingsTypeOK, Threads
<1>4. \A u \in Savers :
          saver'[u].at \in {"saving", "handing"} => saver'[u].snap # NoData
  BY <1>2 DEF HandOver, SettingsInv, SettingsTypeOK, SnapshotsAreTaken
<1>5. CASE stop
  BY <1>3, <1>4, <1>5, OwnPlace DEF HandOver, SettingsInv, SettingsTypeOK
<1>6. CASE ~stop
  <2>1. /\ pending' = saver[t].snap /\ handed' = saver[t].snap
        /\ worker' \in {"awake", "writing"} /\ (worker' = "writing" => worker = "writing")
    BY <1>6 DEF HandOver, SettingsInv, SettingsTypeOK, RestsWhenDone
  <2>2. UNCHANGED <<data, disk, stop, writing, wrote>>
    BY DEF HandOver
  <2>3. SettingsTypeOK'
    BY <1>1, <1>3, <2>1, <2>2 DEF SettingsInv, SettingsTypeOK, Threads
  <2>4. SnapshotsAreTaken'
    BY <1>4, <2>1, <2>2 DEF SettingsInv, SnapshotsAreTaken
  <2>5. NewestIsSomewhere' /\ RestsWhenDone'
    BY <1>1, <2>1 DEF NewestIsSomewhere, RestsWhenDone
  <2> QED
    BY <2>3, <2>4, <2>5 DEF SettingsInv
<1> QED
  BY <1>5, <1>6

-----------------------------------------------------------------------------
(***************************************************************************)
(* The steps of the worker and of the shutdown.                            *)
(***************************************************************************)
LEMMA LookKeeps ==
    ASSUME SettingsInv, Look, changes' \in Nat
    PROVE  SettingsInv'
<1>1. SettingsTypeOK'
  BY DEF Look, SettingsInv, SettingsTypeOK
<1>2. SnapshotsAreTaken'
  BY DEF Look, SettingsInv, SnapshotsAreTaken
<1>3. NewestIsSomewhere'
  BY DEF Look, SettingsInv, NewestIsSomewhere
<1>4. RestsWhenDone'
  BY DEF Look, SettingsInv, RestsWhenDone
<1> QED
  BY <1>1, <1>2, <1>3, <1>4 DEF SettingsInv

LEMMA WorkerWritesKeeps ==
    ASSUME SettingsInv, NEW ok \in BOOLEAN, WorkerWrites(ok), changes' \in Nat
    PROVE  SettingsInv'
<1>1. writing \in Values
  BY DEF WorkerWrites, SettingsInv, SettingsTypeOK, SnapshotsAreTaken
<1>2. disk' \in Values
  BY <1>1 DEF WorkerWrites, WriteFile, SettingsInv, SettingsTypeOK
<1>3. SettingsTypeOK'
  BY <1>1, <1>2 DEF WorkerWrites, SettingsInv, SettingsTypeOK
<1>4. SnapshotsAreTaken'
  BY DEF WorkerWrites, SettingsInv, SnapshotsAreTaken
<1>5. NewestIsSomewhere' /\ RestsWhenDone'
  BY DEF WorkerWrites, SettingsInv, NewestIsSomewhere, RestsWhenDone
<1> QED
  BY <1>3, <1>4, <1>5 DEF SettingsInv

\* Beginning, skipping or ending the shutdown moves the exiting thread.
LEMMA ShutdownKeeps ==
    ASSUME SettingsInv, ShutdownUnneeded \/ BeginShutdown \/ Join, changes' \in Nat
    PROVE  SettingsInv'
<1>1. Exiter \in Savers
  BY SettingsAssumption
<1>2. PICK to \in {"joining", "done"} : saver' = [saver EXCEPT ![Exiter].at = to]
  BY DEF ShutdownUnneeded, BeginShutdown, Join
<1>3. UNCHANGED <<data, disk, pending, writing, handed, wrote>>
  BY DEF ShutdownUnneeded, BeginShutdown, Join
<1>4. /\ worker' = worker \/ (worker = "asleep" /\ worker' = "awake")
      /\ stop' = stop \/ stop' = TRUE
  BY DEF ShutdownUnneeded, BeginShutdown, Join
<1>5. SettingsTypeOK'
  BY <1>1, <1>2, <1>3, <1>4 DEF SettingsInv, SettingsTypeOK, Places
<1>6. SnapshotsAreTaken'
  BY <1>1, <1>2, <1>3, <1>4 DEF SettingsInv, SettingsTypeOK, SnapshotsAreTaken
<1>7. NewestIsSomewhere' /\ RestsWhenDone'
  BY <1>3, <1>4 DEF SettingsInv, NewestIsSomewhere, RestsWhenDone
<1> QED
  BY <1>5, <1>6, <1>7 DEF SettingsInv

-----------------------------------------------------------------------------
LEMMA StepKeeps == SettingsInv /\ [SettingsNext]_settingsVars => SettingsInv'
<1> SUFFICES ASSUME SettingsInv, [SettingsNext]_settingsVars PROVE SettingsInv'
  OBVIOUS
<1>1. changes \in Nat /\ changes + 1 \in Nat
  BY DEF SettingsInv, SettingsTypeOK
<1>2. CASE UNCHANGED settingsVars
  BY <1>2 DEF settingsVars, saveVars, SettingsInv, SettingsTypeOK, SnapshotsAreTaken,
              NewestIsSomewhere, RestsWhenDone
<1>3. CASE /\ changes' = changes + 1
           /\ \E t \in Savers, v \in Values : Change(t, v)
  BY <1>1, <1>3, ChangeKeeps
<1>4. ASSUME NEW t \in Savers, Progress(t), changes' = changes
      PROVE  SettingsInv'
  <2>1. CASE Snapshot(t, "saving")
    BY <1>1, <1>4, <2>1, SnapshotKeeps
  <2>2. CASE Snapshot(t, "handing")
    BY <1>1, <1>4, <2>2, SnapshotKeeps
  <2>3. CASE \E ok \in BOOLEAN : Save(t, ok)
    BY <1>1, <1>4, <2>3, SaveKeeps
  <2>4. CASE HandOver(t)
    BY <1>1, <1>4, <2>4, HandOverKeeps
  <2> QED
    BY <1>4, <2>1, <2>2, <2>3, <2>4 DEF Progress
<1>5. CASE Worker /\ changes' = changes
  BY <1>1, <1>5, LookKeeps, WorkerWritesKeeps DEF Worker, Writes
<1>6. CASE (ShutdownUnneeded \/ BeginShutdown \/ Join) /\ changes' = changes
  BY <1>1, <1>6, ShutdownKeeps
<1> QED
  BY <1>2, <1>3, <1>4, <1>5, <1>6 DEF SettingsNext

\* The store and its worker are well typed in every reachable state.
THEOREM SettingsTypes == SettingsSpec => []SettingsTypeOK
<1>1. SettingsInv => SettingsTypeOK
  BY DEF SettingsInv
<1> QED
  BY <1>1, InitEstablishes, StepKeeps, PTL DEF SettingsSpec

\* The promise of settings_save_async, "only the most recent snapshot is written":
\* whenever the worker rests, nothing is left to write and what it wrote last is
\* the snapshot handed over last.
THEOREM NewestIsWritten == SettingsSpec => []NewestSurvives
<1>1. SettingsInv => NewestSurvives
  BY DEF SettingsInv, NewestIsSomewhere, RestsWhenDone, NewestSurvives
<1> QED
  BY <1>1, InitEstablishes, StepKeeps, PTL DEF SettingsSpec

-----------------------------------------------------------------------------
(***************************************************************************)
(* The account store.                                                      *)
(***************************************************************************)
LockedSteps == {"url", "account", "active", "commit", "undo", "restore"}
FreeSteps   == {"idle", "network", "lock", "settings"}

\* What rollback_active_session_persistence may have to give back.
Undos == {<<>>, <<"url">>, <<"account">>, <<"account", "url">>, <<"active">>,
          <<"active", "url">>, <<"active", "account">>, <<"active", "account", "url">>}
Left(undo) == {undo[i] : i \in DOMAIN undo}

Tokens == [Accounts -> 0..MaxTokens]
Before == [url : Values \cup {NoData}, account : Tokens, active : Stored \cup {NoStored}]

Ops == [kind : Kinds, step : LockedSteps \cup FreeSteps, stored : Stored \cup {NoStored},
        gen : Nat, was : Before, undo : Undos, failed : BOOLEAN, recent : BOOLEAN]

-----------------------------------------------------------------------------
(***************************************************************************)
(* The invariant: control.                                                 *)
(***************************************************************************)
\* The steps of each operation, and whether it knows what is to be stored.
Fits(kind, step, stored) ==
    \/ kind = "none" /\ step = "idle"
    \/ kind = "login" /\ step = "network"
    \/ /\ kind \in Persists /\ stored \in Stored
       /\ step \in {"network", "lock", "url", "account", "active", "commit", "undo"}
    \/ /\ kind \in {"update", "delete"} /\ stored \in Stored
       /\ step \in {"network", "lock", "account", "active", "commit", "restore"}
    \/ kind = "logout" /\ step \in {"lock", "active", "account", "commit", "restore"}
    \/ kind = "proxy" /\ step \in {"settings", "lock", "commit"}

OpsInv ==
    /\ op \in [Workers -> Ops]
    /\ \A t \in Workers : Fits(op[t].kind, op[t].step, op[t].stored)
    /\ op[AuthWorker].kind \in {"none", "login", "update"}

TypesInv ==
    /\ session \in Stored \cup {NoStored} /\ active \in Stored \cup {NoStored}
    /\ account \in Tokens
    /\ generation \in Nat /\ tokens \in Nat
    /\ lock \in Workers \cup {Nobody}
    /\ phase \in {"starting", "restoring", "up"}
    /\ broken \in BOOLEAN /\ out \in BOOLEAN

LockInv == \A t \in Workers : lock = t <=> op[t].step \in LockedSteps

\* A worker saves the settings at three steps only, the UI thread also between
\* the operations.
SaverInv ==
    \A t \in Workers :
        saver[t].at # "idle" => \/ t = UiThread /\ op[t].kind = "none"
                               \/ op[t].step \in {"url", "undo", "settings"}

PhaseInv ==
    /\ phase # "up" => session = NoStored /\ \A t \in Workers : op[t].kind = "none"
    /\ phase = "restoring" => /\ active # NoStored
                              /\ account[active.who] = active.token
                              /\ data = ServerOf[active.who]

\* An operation begun before the last sign-out is a sign-in that will be late.
RecentInv ==
    \A t \in Workers :
        /\ op[t].gen <= generation
        /\ ~op[t].recent => /\ t = AuthWorker /\ lock # t
                            /\ op[t].kind # "none" => op[t].gen < generation

ControlInv == OpsInv /\ TypesInv /\ LockInv /\ SaverInv /\ PhaseInv /\ RecentInv

-----------------------------------------------------------------------------
(***************************************************************************)
(* The invariant: what is stored.                                          *)
(***************************************************************************)
\* A session is persisted by these credentials.
Persisted(credential, accounts) ==
    session # NoStored => credential = session /\ accounts[session.who] = session.token
SignedOut(credential) == out => credential = NoStored /\ session = NoStored

FreeInv ==
    lock = Nobody /\ ~broken => Persisted(active, account) /\ SignedOut(active)

WasHeld(t) ==
    ~broken => /\ Persisted(op[t].was.active, op[t].was.account)
               /\ SignedOut(op[t].was.active)

Server(t) == ServerOf[op[t].stored.who]

\* A sign-in saves, and takes back, only another server than the selected one.
UrlHeld(t) ==
    /\ op[t].was.url \in Values
    /\ op[t].kind \in Persists =>
           /\ op[t].step = "url" /\ saver[t].at # "idle" => op[t].was.url # Server(t)
           /\ op[t].step = "undo" =>
                  /\ saver[t].at # "idle" => op[t].undo = <<"url">>
                  /\ "url" \in Left(op[t].undo) => op[t].was.url # Server(t)

\* The account credentials after the first call succeeded.
Put(t) == [op[t].was.account EXCEPT ![op[t].stored.who] =
               IF op[t].kind = "delete" THEN 0 ELSE op[t].stored.token]

AccountHeld(t) ==
    /\ op[t].kind \in Persists =>
           /\ op[t].step \in {"url", "account"} => account = op[t].was.account
           /\ op[t].step \in {"active", "commit"} => account = Put(t)
           /\ op[t].step = "undo" =>
                  /\ \A a \in Accounts : a # op[t].stored.who =>
                         account[a] = op[t].was.account[a]
                  /\ ~op[t].failed /\ "account" \notin Left(op[t].undo) =>
                         account = op[t].was.account
    /\ op[t].kind \in {"update", "delete"} =>
           account = IF op[t].step = "account" THEN op[t].was.account ELSE Put(t)
    /\ op[t].kind = "logout" /\ op[t].step # "commit" => account = op[t].was.account
    /\ op[t].kind = "proxy" => account = op[t].was.account

ActiveHeld(t) ==
    /\ op[t].kind \in Persists =>
           /\ op[t].step \in {"url", "account", "active"} => active = op[t].was.active
           /\ op[t].step = "commit" => active = op[t].stored
           /\ op[t].step = "undo" /\ ~op[t].failed /\ "active" \notin Left(op[t].undo) =>
                  active = op[t].was.active
    /\ op[t].kind \in {"update", "delete"} =>
           /\ active = IF op[t].step = "commit" /\ IsActive(op[t].stored.who)
                       THEN IF op[t].kind = "update" THEN op[t].stored ELSE NoStored
                       ELSE op[t].was.active
           /\ op[t].step = "active" => IsActive(op[t].stored.who)
    /\ op[t].kind = "logout" =>
           active = IF op[t].step = "active" THEN op[t].was.active ELSE NoStored
    /\ op[t].kind = "proxy" => active = op[t].was.active

HeldInv ==
    \A t \in Workers :
        lock = t => WasHeld(t) /\ UrlHeld(t) /\ AccountHeld(t) /\ ActiveHeld(t)

StoreInv == SettingsInv /\ ControlInv /\ FreeInv /\ HeldInv

-----------------------------------------------------------------------------
(***************************************************************************)
(* Facts about operations.                                                 *)
(***************************************************************************)
\* Thread t goes on with another operation or step, the other does not.
Moved(t) ==
    /\ op' \in [Workers -> Ops]
    /\ Fits(op'[t].kind, op'[t].step, op'[t].stored)
    /\ t = AuthWorker => op'[t].kind \in {"none", "login", "update"}
    /\ \A u \in Workers : u # t => op'[u] = op[u]

\* It is the same operation.
SameOp(t) ==
    /\ op'[t].kind = op[t].kind /\ op'[t].stored = op[t].stored
    /\ op'[t].gen = op[t].gen /\ op'[t].was = op[t].was /\ op'[t].recent = op[t].recent

LEMMA WorkersApart ==
    /\ Workers \subseteq Savers /\ Nobody \notin Workers
    /\ UiThread \in Workers /\ AuthWorker \in Workers
    /\ NoStored \notin Stored
  BY AccountAssumption DEF Workers, NoStored, Stored

LEMMA NoOpIsOp == NoOp \in Ops /\ NoOp.kind = "none" /\ NoOp.step = "idle" /\ NoOp.gen = 0
                  /\ NoOp.recent = TRUE
<1>1. 0 \in 0..MaxTokens
  BY AccountAssumption
<1>2. [url |-> NoData, account |-> [a \in Accounts |-> 0], active |-> NoStored] \in Before
  BY <1>1 DEF Before, Tokens
<1> QED
  BY <1>2 DEF NoOp, Ops, Kinds, FreeSteps, Undos

LEMMA GotoMoves ==
    ASSUME OpsInv, NEW t \in Workers, NEW step, Goto(t, step),
           step \in LockedSteps \cup FreeSteps, Fits(op[t].kind, step, op[t].stored)
    PROVE  /\ Moved(t) /\ SameOp(t) /\ op'[t].step = step
           /\ op'[t].undo = op[t].undo /\ op'[t].failed = op[t].failed
<1>1. op[t] \in Ops /\ op'[t] = [op[t] EXCEPT !.step = step]
  BY DEF OpsInv, Goto
<1>2. /\ op'[t] \in Ops /\ op'[t].step = step /\ SameOp(t)
      /\ op'[t].undo = op[t].undo /\ op'[t].failed = op[t].failed
  BY <1>1 DEF Ops, SameOp
<1>3. op' \in [Workers -> Ops] /\ \A u \in Workers : u # t => op'[u] = op[u]
  BY <1>2 DEF OpsInv, Goto
<1> QED
  BY <1>2, <1>3 DEF Moved, SameOp, OpsInv

LEMMA EndMoves ==
    ASSUME OpsInv, NEW t \in Workers, op' = [op EXCEPT ![t] = NoOp]
    PROVE  Moved(t) /\ op'[t] = NoOp
<1>1. op'[t] = NoOp /\ op' \in [Workers -> Ops] /\ \A u \in Workers : u # t => op'[u] = op[u]
  BY NoOpIsOp DEF OpsInv
<1> QED
  BY <1>1, NoOpIsOp DEF Moved, Fits

\* The undo steps left after one of them.
LEMMA LeftOf ==
    /\ Left(<<>>) = {}
    /\ \A a : Left(<<a>>) = {a}
    /\ \A a, b : Left(<<a, b>>) = {a, b}
    /\ \A a, b, c : Left(<<a, b, c>>) = {a, b, c}
<1>1. Left(<<>>) = {}
  BY DEF Left
<1>2. ASSUME NEW a PROVE Left(<<a>>) = {a}
  BY DEF Left
<1>3. ASSUME NEW a, NEW b PROVE Left(<<a, b>>) = {a, b}
  BY DEF Left
<1>4. ASSUME NEW a, NEW b, NEW c PROVE Left(<<a, b, c>>) = {a, b, c}
  <2>1. DOMAIN <<a, b, c>> = {1, 2, 3}
    OBVIOUS
  <2>2. <<a, b, c>>[1] = a /\ <<a, b, c>>[2] = b /\ <<a, b, c>>[3] = c
    OBVIOUS
  <2> QED
    BY <2>1, <2>2, Zenon DEF Left
<1> QED
  BY <1>1, <1>2, <1>3, <1>4

LEMMA TailOf ==
    /\ \A a : Tail(<<a>>) = <<>>
    /\ \A a, b : Tail(<<a, b>>) = <<b>>
    /\ \A a, b, c : Tail(<<a, b, c>>) = <<b, c>>
  OBVIOUS

LEMMA UndoShrinks ==
    ASSUME NEW undo \in Undos, undo # <<>>
    PROVE  /\ Head(undo) \in {"active", "account", "url"} /\ Tail(undo) \in Undos
           /\ Left(undo) = {Head(undo)} \cup Left(Tail(undo))
           /\ Head(undo) = "url" => undo = <<"url">>
<1>1. ASSUME NEW a, undo = <<a>>
      PROVE  Head(undo) = a /\ Tail(undo) = <<>> /\ Left(undo) = {a} \cup Left(<<>>)
  BY <1>1, LeftOf
<1>2. ASSUME NEW a, NEW b, undo = <<a, b>>
      PROVE  Head(undo) = a /\ Tail(undo) = <<b>> /\ Left(undo) = {a} \cup Left(<<b>>)
  <2>1. Left(undo) = {a, b} /\ Left(<<b>>) = {b}
    BY <1>2, LeftOf
  <2> QED
    BY <1>2, <2>1, TailOf
<1>3. ASSUME NEW a, NEW b, NEW c, undo = <<a, b, c>>
      PROVE  Head(undo) = a /\ Tail(undo) = <<b, c>> /\ Left(undo) = {a} \cup Left(<<b, c>>)
  <2>1. Left(undo) = {a, b, c} /\ Left(<<b, c>>) = {b, c}
    BY <1>3, LeftOf
  <2> QED
    BY <1>3, <2>1, TailOf
<1>4. ASSUME NEW a \in {"url", "account", "active"}, undo = <<a>>
      PROVE  /\ Head(undo) \in {"active", "account", "url"} /\ Tail(undo) \in Undos
             /\ Left(undo) = {Head(undo)} \cup Left(Tail(undo))
             /\ Head(undo) = "url" => undo = <<"url">>
  BY <1>1, <1>4 DEF Undos
<1>5. ASSUME NEW a \in {"account", "active"}, NEW b \in {"account", "url"}, undo = <<a, b>>
      PROVE  /\ Head(undo) \in {"active", "account", "url"} /\ Tail(undo) \in Undos
             /\ Left(undo) = {Head(undo)} \cup Left(Tail(undo))
             /\ Head(undo) = "url" => undo = <<"url">>
  <2>1. Head(undo) = a /\ Tail(undo) = <<b>> /\ Left(undo) = {a} \cup Left(<<b>>)
    BY <1>2, <1>5
  <2>2. <<b>> \in Undos
    BY DEF Undos
  <2> QED
    BY <2>1, <2>2
<1>6. ASSUME undo = <<"active", "account", "url">>
      PROVE  /\ Head(undo) \in {"active", "account", "url"} /\ Tail(undo) \in Undos
             /\ Left(undo) = {Head(undo)} \cup Left(Tail(undo))
             /\ Head(undo) = "url" => undo = <<"url">>
  <2>1. /\ Head(undo) = "active" /\ Tail(undo) = <<"account", "url">>
        /\ Left(undo) = {"active"} \cup Left(<<"account", "url">>)
    BY <1>3, <1>6
  <2>2. <<"account", "url">> \in Undos
    BY DEF Undos
  <2> QED
    BY <2>1, <2>2
<1> QED
  BY <1>4, <1>5, <1>6 DEF Undos

-----------------------------------------------------------------------------
(***************************************************************************)
(* The three kinds of steps: without the lock, with it, and giving it up.  *)
(***************************************************************************)
OtherSavers(t) == \A u \in Workers : u # t => saver'[u] = saver[u]

\* Whoever does not hold the lock changes nothing of what is stored.
LEMMA FreeStepKeeps ==
    ASSUME StoreInv, NEW t \in Workers, SettingsInv', Moved(t), OtherSavers(t),
           lock # t, op'[t].step \in FreeSteps,
           UNCHANGED <<sessionVars, lock, storeVars, phase, broken, out>>,
           tokens' \in Nat,
           phase = "up",
           saver'[t].at # "idle" => \/ t = UiThread /\ op'[t].kind = "none"
                                   \/ op'[t].step = "settings",
           op'[t].gen <= generation,
           ~op'[t].recent => t = AuthWorker /\ (op'[t].kind # "none" => op'[t].gen < generation)
    PROVE  StoreInv'
<1> USE DEF sessionVars, storeVars
<1>1. OpsInv'
  BY WorkersApart DEF StoreInv, ControlInv, OpsInv, Moved
<1>2. TypesInv'
  BY DEF StoreInv, ControlInv, TypesInv
<1>3. LockInv'
  BY DEF StoreInv, ControlInv, LockInv, Moved, LockedSteps, FreeSteps
<1>4. SaverInv'
  BY DEF StoreInv, ControlInv, SaverInv, Moved, OtherSavers
<1>5. PhaseInv'
  BY DEF StoreInv, ControlInv, PhaseInv, Moved
<1>6. RecentInv'
  BY DEF StoreInv, ControlInv, RecentInv, Moved
<1>7. FreeInv'
  BY DEF StoreInv, FreeInv, Persisted, SignedOut
<1>8. HeldInv'
  <2> SUFFICES ASSUME NEW u \in Workers, lock = u
               PROVE  (WasHeld(u) /\ UrlHeld(u) /\ AccountHeld(u) /\ ActiveHeld(u))'
    BY DEF HeldInv
  <2>1. op'[u] = op[u] /\ saver'[u] = saver[u]
    BY DEF Moved, OtherSavers
  <2>2. WasHeld(u) /\ UrlHeld(u) /\ AccountHeld(u) /\ ActiveHeld(u)
    BY DEF StoreInv, HeldInv
  <2> QED
    BY <2>1, <2>2
    DEF WasHeld, UrlHeld, AccountHeld, ActiveHeld, Persisted, SignedOut, Server, Put, IsActive
<1> QED
  BY <1>1, <1>2, <1>3, <1>4, <1>5, <1>6, <1>7, <1>8 DEF StoreInv, ControlInv

\* Whoever holds the lock accounts for what it changes.
LEMMA HeldStepKeeps ==
    ASSUME StoreInv, NEW t \in Workers, SettingsInv', Moved(t), SameOp(t), OtherSavers(t),
           lock = t, op'[t].step \in LockedSteps,
           UNCHANGED <<sessionVars, lock, phase, tokens, broken, out>>,
           account' \in Tokens, active' \in Stored \cup {NoStored},
           saver'[t].at # "idle" => op'[t].step \in {"url", "undo"},
           UrlHeld(t)', AccountHeld(t)', ActiveHeld(t)'
    PROVE  StoreInv'
<1> USE DEF sessionVars
<1>0. t # Nobody
  BY WorkersApart
<1>1. OpsInv'
  BY WorkersApart DEF StoreInv, ControlInv, OpsInv, Moved
<1>2. TypesInv'
  BY DEF StoreInv, ControlInv, TypesInv
<1>3. LockInv'
  BY DEF StoreInv, ControlInv, LockInv, Moved, LockedSteps, FreeSteps
<1>4. SaverInv'
  BY DEF StoreInv, ControlInv, SaverInv, Moved, OtherSavers
<1>5. phase = "up"
  <2>1. op[t].kind # "none"
    BY DEF StoreInv, ControlInv, OpsInv, LockInv, LockedSteps, Fits, Persists
  <2> QED
    BY <2>1 DEF StoreInv, ControlInv, PhaseInv
<1>6. PhaseInv'
  BY <1>5 DEF PhaseInv
<1>7. RecentInv'
  BY DEF StoreInv, ControlInv, RecentInv, Moved, SameOp
<1>8. FreeInv'
  BY <1>0 DEF FreeInv
<1>9. WasHeld(t)'
  BY DEF StoreInv, HeldInv, WasHeld, SameOp, Persisted, SignedOut
<1>10. HeldInv'
  BY <1>9 DEF HeldInv
<1> QED
  BY <1>1, <1>2, <1>3, <1>4, <1>6, <1>7, <1>8, <1>10 DEF StoreInv, ControlInv

\* Whoever gives the lock up leaves what it found, or a failed rollback.
LEMMA EndKeeps ==
    ASSUME StoreInv, NEW t \in Workers, SettingsInv', op' = [op EXCEPT ![t] = NoOp],
           OtherSavers(t), lock = t, lock' = Nobody,
           UNCHANGED <<sessionVars, phase, tokens, out>>,
           saver'[t].at = "idle",
           account' \in Tokens, active' \in Stored \cup {NoStored}, broken' \in BOOLEAN,
           ~broken' => /\ ~broken /\ account' = op[t].was.account
                       /\ active' = op[t].was.active
    PROVE  StoreInv'
<1> USE DEF sessionVars
<1>0. Moved(t) /\ op'[t] = NoOp
  BY EndMoves DEF StoreInv, ControlInv
<1>1. OpsInv'
  BY <1>0, WorkersApart DEF StoreInv, ControlInv, OpsInv, Moved
<1>2. TypesInv'
  BY DEF StoreInv, ControlInv, TypesInv
<1>3. LockInv'
  BY <1>0, NoOpIsOp, WorkersApart DEF StoreInv, ControlInv, LockInv, Moved, LockedSteps
<1>4. SaverInv'
  BY <1>0, NoOpIsOp DEF StoreInv, ControlInv, SaverInv, Moved, OtherSavers
<1>5. phase = "up"
  <2>1. op[t].kind # "none"
    BY DEF StoreInv, ControlInv, OpsInv, LockInv, LockedSteps, Fits, Persists
  <2> QED
    BY <2>1 DEF StoreInv, ControlInv, PhaseInv
<1>6. PhaseInv'
  BY <1>5 DEF PhaseInv
<1>7. RecentInv'
  BY <1>0, NoOpIsOp, WorkersApart DEF StoreInv, ControlInv, TypesInv, RecentInv, Moved
<1>8. FreeInv'
  BY DEF StoreInv, HeldInv, WasHeld, FreeInv, Persisted, SignedOut
<1>9. HeldInv'
  BY WorkersApart DEF HeldInv
<1> QED
  BY <1>1, <1>2, <1>3, <1>4, <1>6, <1>7, <1>8, <1>9 DEF StoreInv, ControlInv

-----------------------------------------------------------------------------
(***************************************************************************)
(* The steps without the lock.                                             *)
(***************************************************************************)
LEMMA SettingsStay ==
    ASSUME SettingsInv, UNCHANGED settingsVars
    PROVE  SettingsInv' /\ UNCHANGED <<data, saver>>
  BY StepKeeps DEF settingsVars, saveVars

LEMMA SettingsFacts ==
    ASSUME SettingsInv
    PROVE  /\ saver \in [Savers -> [at : Places, snap : Values \cup {NoData}]]
           /\ data \in Values /\ disk \in Values /\ changes \in Nat
  BY DEF SettingsInv, SettingsTypeOK

LEMMA BeginMoves ==
    ASSUME StoreInv, NEW t \in Workers, NEW kind \in Kinds, NEW step \in FreeSteps,
           NEW stored \in Stored \cup {NoStored}, Begin(t, kind, stored, step),
           kind # "none", Fits(kind, step, stored),
           t = AuthWorker => kind \in {"login", "update"}
    PROVE  StoreInv'
<1>1. SettingsInv' /\ UNCHANGED <<data, saver>>
  BY SettingsStay DEF StoreInv, Begin
<1>2. op' = [op EXCEPT ![t] = [NoOp EXCEPT !.kind = kind, !.stored = stored, !.step = step,
                                           !.gen = generation]]
  BY DEF Begin
<1>3. [NoOp EXCEPT !.kind = kind, !.stored = stored, !.step = step, !.gen = generation] \in Ops
  BY NoOpIsOp DEF Ops, StoreInv, ControlInv, TypesInv
<1>4. /\ op' \in [Workers -> Ops] /\ \A u \in Workers : u # t => op'[u] = op[u]
      /\ op'[t].kind = kind /\ op'[t].step = step /\ op'[t].stored = stored
      /\ op'[t].gen = generation /\ op'[t].recent = TRUE
  BY <1>2, <1>3, NoOpIsOp DEF StoreInv, ControlInv, OpsInv, Ops
<1>5. Moved(t)
  BY <1>4 DEF Moved
<1>6. lock # t
  BY DEF Begin, StoreInv, ControlInv, OpsInv, LockInv, LockedSteps, Fits, Persists
<1>7. saver[t].at = "idle" /\ phase = "up"
  BY DEF Begin, Up
<1>8. UNCHANGED <<sessionVars, lock, storeVars, phase, tokens, broken, out>>
  BY DEF Begin, historyVars
<1>9. tokens' \in Nat /\ generation <= generation
  BY <1>8 DEF StoreInv, ControlInv, TypesInv
<1> QED
  BY <1>1, <1>4, <1>5, <1>6, <1>7, <1>8, <1>9, FreeStepKeeps DEF OtherSavers

LEMMA BeginKeeps ==
    ASSUME StoreInv,
           \/ \E a \in Accounts : BeginSwitch(a) \/ BeginDelete(a) \/ BeginUpdate(a)
           \/ BeginLogin \/ BeginLogout \/ BeginProxy
    PROVE  StoreInv'
<1> USE WorkersApart DEF Kinds, FreeSteps, Persists, Fits
<1>1. ASSUME NEW a \in Accounts, account[a] # 0
      PROVE  [who |-> a, token |-> account[a]] \in Stored
  BY <1>1, AccountAssumption DEF StoreInv, ControlInv, TypesInv, Tokens, Stored
<1>2. UiThread # AuthWorker
  BY AccountAssumption
<1>3. ASSUME NEW a \in Accounts, BeginSwitch(a) PROVE StoreInv'
  BY <1>1, <1>2, <1>3, BeginMoves DEF BeginSwitch
<1>4. ASSUME NEW a \in Accounts, BeginDelete(a) PROVE StoreInv'
  BY <1>1, <1>2, <1>4, BeginMoves DEF BeginDelete
<1>5. ASSUME NEW a \in Accounts, BeginUpdate(a) PROVE StoreInv'
  BY <1>1, <1>5, BeginMoves DEF BeginUpdate
<1>6. CASE BeginLogin
  BY <1>6, BeginMoves DEF BeginLogin
<1>7. CASE BeginLogout
  BY <1>2, <1>7, BeginMoves DEF BeginLogout
<1>8. CASE BeginProxy
  BY <1>2, <1>8, BeginMoves DEF BeginProxy
<1> QED
  BY <1>3, <1>4, <1>5, <1>6, <1>7, <1>8

\* What an operation without the lock knows of itself.
LEMMA Waiting ==
    ASSUME StoreInv, NEW t \in Workers, op[t].step \in {"network", "lock", "settings"}
    PROVE  /\ lock # t /\ phase = "up" /\ op[t].kind # "none"
           /\ op[t].step # "settings" => saver[t].at = "idle"
           /\ op[t].gen <= generation
           /\ ~op[t].recent => t = AuthWorker /\ op[t].gen < generation
<1>1. lock # t /\ op[t].kind # "none"
  BY DEF StoreInv, ControlInv, OpsInv, LockInv, LockedSteps, Fits, Persists
<1> QED
  BY <1>1 DEF StoreInv, ControlInv, PhaseInv, SaverInv, RecentInv

LEMMA AnswerKeeps ==
    ASSUME StoreInv, NEW t \in Workers, Answer(t)
    PROVE  StoreInv'
<1>1. SettingsInv' /\ UNCHANGED <<data, saver>>
  BY SettingsStay DEF StoreInv, Answer
<1>2. PICK a \in Accounts :
          op' = [op EXCEPT ![t].step = "lock", ![t].stored = [who |-> a, token |-> tokens + 1]]
  BY DEF Answer
<1>3. [who |-> a, token |-> tokens + 1] \in Stored
  BY AccountAssumption DEF Answer, StoreInv, ControlInv, TypesInv, Stored
<1>4. op[t] \in Ops /\ op[t].kind \in {"login", "update"} /\ op[t].step = "network"
  BY DEF Answer, StoreInv, ControlInv, OpsInv
<1>5. op'[t] = [op[t] EXCEPT !.step = "lock", !.stored = [who |-> a, token |-> tokens + 1]]
  BY <1>2, <1>4 DEF StoreInv, ControlInv, OpsInv, Ops
<1>6. op'[t] \in Ops /\ op'[t].kind = op[t].kind /\ op'[t].step = "lock"
      /\ op'[t].stored \in Stored /\ op'[t].gen = op[t].gen /\ op'[t].recent = op[t].recent
  BY <1>3, <1>4, <1>5 DEF Ops, FreeSteps
<1>7. op' \in [Workers -> Ops] /\ \A u \in Workers : u # t => op'[u] = op[u]
  BY <1>2, <1>5, <1>6 DEF StoreInv, ControlInv, OpsInv
<1>8. Moved(t)
  BY <1>4, <1>6, <1>7 DEF Moved, Fits, Persists
<1>9. UNCHANGED <<sessionVars, lock, storeVars, phase, broken, out>>
  BY DEF Answer, historyVars
<1>10. tokens' \in Nat
  BY DEF Answer, StoreInv, ControlInv, TypesInv
<1> QED
  BY <1>1, <1>4, <1>6, <1>8, <1>9, <1>10, Waiting, FreeStepKeeps DEF OtherSavers, FreeSteps

LEMMA DiscoverKeeps ==
    ASSUME StoreInv, NEW t \in Workers, Discover(t)
    PROVE  StoreInv'
<1>1. SettingsInv' /\ UNCHANGED <<data, saver>>
  BY SettingsStay DEF StoreInv, Discover
<1>2. Fits(op[t].kind, "lock", op[t].stored) /\ op[t].step = "network"
  BY DEF Discover, At, StoreInv, ControlInv, OpsInv, Fits, Persists
<1>3. Moved(t) /\ SameOp(t) /\ op'[t].step = "lock"
  BY <1>2, GotoMoves DEF Discover, StoreInv, ControlInv, FreeSteps
<1>4. UNCHANGED <<sessionVars, lock, storeVars, phase, tokens, broken, out>>
  BY DEF Discover, boundVars, historyVars
<1>5. tokens' \in Nat
  BY <1>4 DEF StoreInv, ControlInv, TypesInv
<1> QED
  BY <1>1, <1>2, <1>3, <1>4, <1>5, Waiting, FreeStepKeeps DEF OtherSavers, FreeSteps, SameOp

\* An operation that ends without the lock.
LEMMA FreeEndKeeps ==
    ASSUME StoreInv, NEW t \in Workers, SettingsInv', OtherSavers(t),
           op[t].step \in {"network", "lock", "settings"}, op' = [op EXCEPT ![t] = NoOp],
           saver'[t].at = "idle",
           UNCHANGED <<sessionVars, lock, storeVars, phase, tokens, broken, out>>
    PROVE  StoreInv'
<1>1. Moved(t) /\ op'[t] = NoOp
  BY EndMoves DEF StoreInv, ControlInv
<1>2. tokens' \in Nat /\ 0 <= generation
  BY DEF StoreInv, ControlInv, TypesInv
<1> QED
  BY <1>1, <1>2, NoOpIsOp, Waiting, FreeStepKeeps DEF FreeSteps

LEMMA GivesUpKeeps ==
    ASSUME StoreInv, NEW t \in Workers, GivesUp(t)
    PROVE  StoreInv'
<1>1. SettingsInv' /\ UNCHANGED <<data, saver>>
  BY SettingsStay DEF StoreInv, GivesUp
<1>2. op[t].step \in {"network", "lock", "settings"} /\ op' = [op EXCEPT ![t] = NoOp]
  BY DEF GivesUp, Fail, EndsWith
<1>3. UNCHANGED <<sessionVars, lock, storeVars, phase, tokens, broken, out>>
  BY <1>2, Waiting DEF GivesUp, Fail, EndsWith, boundVars
<1>4. saver[t].at = "idle"
  BY Waiting DEF GivesUp
<1> QED
  BY <1>1, <1>2, <1>3, <1>4, FreeEndKeeps DEF OtherSavers

LEMMA SaveProxyKeeps ==
    ASSUME StoreInv, NEW t \in Workers, SaveProxy(t)
    PROVE  StoreInv'
<1>1. /\ op[t].kind = "proxy" /\ op[t].step = "settings" /\ t \in Savers
      /\ UNCHANGED <<sessionVars, storeVars, phase, tokens, broken, out, changes>>
  BY WorkersApart DEF SaveProxy, At, boundVars
<1>2. tokens' \in Nat /\ changes' \in Nat /\ data \in Values
  BY <1>1, SettingsFacts DEF StoreInv, ControlInv, TypesInv
<1>3. SettingsInv
  BY DEF StoreInv
<1>4. CASE /\ Change(t, data) \/ Snapshot(t, "saving")
           /\ UNCHANGED <<op, lock>>
  <2>1. SettingsInv'
    BY <1>1, <1>2, <1>3, <1>4, ChangeKeeps, SnapshotKeeps
  <2>2. UNCHANGED data /\ OtherSavers(t)
    BY <1>1, <1>3, <1>4, WorkersApart, SettingsFacts DEF Change, Snapshot, OtherSavers
  <2>3. Moved(t)
    BY <1>1, <1>4 DEF StoreInv, ControlInv, OpsInv, Moved
  <2> QED
    BY <1>1, <1>2, <1>4, <2>1, <2>2, <2>3, Waiting, FreeStepKeeps DEF FreeSteps
<1>5. CASE Save(t, TRUE) /\ Goto(t, "lock") /\ UNCHANGED lock
  <2>1. SettingsInv'
    BY <1>1, <1>2, <1>3, <1>5, SaveKeeps
  <2>2. UNCHANGED data /\ OtherSavers(t) /\ saver'[t].at = "idle"
    BY <1>1, <1>3, <1>5, WorkersApart, SettingsFacts DEF Save, OtherSavers, Idle
  <2>3. Fits(op[t].kind, "lock", op[t].stored)
    BY <1>1 DEF Fits
  <2>4. Moved(t) /\ SameOp(t) /\ op'[t].step = "lock"
    BY <1>5, <2>3, GotoMoves DEF StoreInv, ControlInv, FreeSteps
  <2> QED
    BY <1>1, <1>2, <1>5, <2>1, <2>2, <2>4, Waiting, FreeStepKeeps DEF FreeSteps, SameOp
<1>6. CASE Save(t, FALSE) /\ Fail(t)
  <2>1. SettingsInv'
    BY <1>1, <1>2, <1>3, <1>6, SaveKeeps
  <2>2. OtherSavers(t) /\ saver'[t].at = "idle"
    BY <1>1, <1>3, <1>6, WorkersApart, SettingsFacts DEF Save, OtherSavers, Idle
  <2>3. op' = [op EXCEPT ![t] = NoOp] /\ UNCHANGED lock
    BY <1>1, <1>6, Waiting DEF Fail, EndsWith
  <2> QED
    BY <1>1, <2>1, <2>2, <2>3, FreeEndKeeps
<1> QED
  BY <1>4, <1>5, <1>6 DEF SaveProxy, ChangeByHand

\* Nothing of the accounts' state changes.
LEMMA QuietKeeps ==
    ASSUME StoreInv, SettingsInv', UNCHANGED <<data, saver, op, tokens>>,
           UNCHANGED <<sessionVars, lock, storeVars, phase, broken, out>>
    PROVE  StoreInv'
<1> USE DEF sessionVars, storeVars
<1>1. OpsInv' /\ TypesInv' /\ LockInv' /\ SaverInv' /\ PhaseInv' /\ RecentInv'
  BY DEF StoreInv, ControlInv, OpsInv, TypesInv, LockInv, SaverInv, PhaseInv, RecentInv
<1>2. FreeInv'
  BY DEF StoreInv, FreeInv, Persisted, SignedOut
<1>3. HeldInv'
  BY DEF StoreInv, HeldInv, WasHeld, UrlHeld, AccountHeld, ActiveHeld, Persisted, SignedOut,
         Server, Put, IsActive
<1> QED
  BY <1>1, <1>2, <1>3 DEF StoreInv, ControlInv

LEMMA SettingsWorkerKeeps ==
    ASSUME StoreInv, SettingsWorker
    PROVE  StoreInv'
<1>1. changes' \in Nat /\ SettingsInv
  BY SettingsFacts DEF SettingsWorker, StoreInv
<1>2. SettingsInv'
  BY <1>1, LookKeeps, WorkerWritesKeeps DEF SettingsWorker
<1>3. UNCHANGED <<data, saver>>
  BY Zenon DEF SettingsWorker, Look, WorkerWrites
<1>4. UNCHANGED <<op, tokens, sessionVars, lock, storeVars, phase, broken, out>>
  BY DEF SettingsWorker, OnlyOthers, boundVars
<1> QED
  BY <1>2, <1>3, <1>4, QuietKeeps

LEMMA OtherSettingsKeeps ==
    ASSUME StoreInv, OtherSettings
    PROVE  StoreInv'
<1> DEFINE t == UiThread
<1>1. /\ t \in Workers /\ t \in Savers /\ SettingsInv /\ data \in Values
      /\ changes' \in Nat /\ op[t].kind = "none"
  BY WorkersApart, SettingsFacts DEF OtherSettings, StoreInv
<1>2. UNCHANGED <<op, tokens, sessionVars, lock, storeVars, phase, broken, out>> /\ Up
  BY DEF OtherSettings, OnlyOthers, boundVars
<1>3. \/ \E v \in Values : Change(t, v)
      \/ Snapshot(t, "handing") \/ HandOver(t)
  BY DEF OtherSettings, ChangeByHand
<1>4. SettingsInv' /\ OtherSavers(t)
  <2>1. SettingsInv'
    BY <1>1, <1>3, ChangeKeeps, SnapshotKeeps, HandOverKeeps
  <2>2. OtherSavers(t)
    BY <1>1, <1>3, WorkersApart, SettingsFacts DEF Change, Snapshot, HandOver, OtherSavers
  <2> QED
    BY <2>1, <2>2
<1>5. Moved(t) /\ op'[t].step \in FreeSteps
  BY <1>1, <1>2 DEF StoreInv, ControlInv, OpsInv, Moved, FreeSteps, Fits, Persists
<1>6. lock # t
  BY <1>1 DEF StoreInv, ControlInv, OpsInv, LockInv, LockedSteps, Fits, Persists
<1>7. op'[t].gen <= generation /\ (op'[t].recent \/ t = AuthWorker)
  BY <1>1, <1>2 DEF StoreInv, ControlInv, RecentInv
<1>8. tokens' \in Nat /\ t # AuthWorker
  BY <1>2, AccountAssumption DEF StoreInv, ControlInv, TypesInv
<1> QED
  BY <1>1, <1>2, <1>4, <1>5, <1>6, <1>7, <1>8, FreeStepKeeps DEF Up

LEMMA LockKeeps ==
    ASSUME StoreInv, NEW t \in Workers, Lock(t)
    PROVE  StoreInv'
<1>1. SettingsInv' /\ UNCHANGED <<data, saver>>
  BY SettingsStay DEF StoreInv, Lock
<1>2. /\ op[t].step = "lock" /\ lock = Nobody
      /\ UNCHANGED <<sessionVars, storeVars, phase, tokens, broken, out>>
  BY DEF Lock, boundVars
<1>3. CASE ~Accepted(t)
  <2>1. op' = [op EXCEPT ![t] = NoOp] /\ UNCHANGED lock
    BY <1>2, <1>3 DEF Lock, Fail, EndsWith
  <2> QED
    BY <1>1, <1>2, <2>1, Waiting, FreeEndKeeps DEF OtherSavers
<1>4. CASE Accepted(t)
  <2> DEFINE found == [url |-> data, account |-> account, active |-> active]
             first == FirstStep[op[t].kind]
  <2>1. lock' = t /\ op' = [op EXCEPT ![t].step = first, ![t].was = found]
    BY <1>4 DEF Lock
  <2>2. /\ op[t] \in Ops /\ found \in Before /\ Fits(op[t].kind, "lock", op[t].stored)
        /\ saver[t].at = "idle" /\ phase = "up"
    BY <1>2, SettingsFacts, Waiting
    DEF StoreInv, ControlInv, OpsInv, TypesInv, Before
  <2>3. /\ op[t].kind \in Persists => first = "url" /\ op[t].stored \in Stored
        /\ op[t].kind \in {"update", "delete"} => first = "account" /\ op[t].stored \in Stored
        /\ op[t].kind = "logout" => first = "active"
        /\ op[t].kind = "proxy" => first = "commit"
        /\ op[t].kind \in Persists \cup {"update", "delete", "logout", "proxy"}
    BY <2>2 DEF Fits, FirstStep, Persists
  <2>4. first \in LockedSteps /\ Fits(op[t].kind, first, op[t].stored)
    BY <2>3 DEF LockedSteps, Fits, Persists
  <2> HIDE DEF first
  <2>5. op'[t] = [op[t] EXCEPT !.step = first, !.was = found]
    BY <2>1, <2>2 DEF StoreInv, ControlInv, OpsInv
  <2>6. /\ op'[t] \in Ops /\ op'[t].step = first /\ op'[t].was = found
        /\ op'[t].kind = op[t].kind /\ op'[t].stored = op[t].stored
        /\ op'[t].gen = op[t].gen /\ op'[t].recent = op[t].recent
    BY <2>2, <2>4, <2>5 DEF Ops
  <2>7. op' \in [Workers -> Ops] /\ \A u \in Workers : u # t => op'[u] = op[u]
    BY <2>1, <2>5, <2>6 DEF StoreInv, ControlInv, OpsInv
  <2> HIDE DEF found
  <2>8. OpsInv'
    BY <2>4, <2>6, <2>7, WorkersApart DEF StoreInv, ControlInv, OpsInv
  <2>9. TypesInv' /\ LockInv' /\ SaverInv' /\ PhaseInv'
    <3>1. TypesInv'
      BY <1>2, <2>1 DEF StoreInv, ControlInv, TypesInv, sessionVars, storeVars
    <3>2. LockInv'
      BY <1>2, <2>1, <2>4, <2>6, <2>7, WorkersApart DEF StoreInv, ControlInv, LockInv
    <3>3. SaverInv' /\ PhaseInv'
      BY <1>1, <1>2, <2>2, <2>6, <2>7 DEF StoreInv, ControlInv, SaverInv, PhaseInv
    <3> QED
      BY <3>1, <3>2, <3>3
  <2>10. op[t].recent
    <3>1. ~op[t].recent => op[t].kind \in {"login", "update"} /\ op[t].gen < generation
      BY <1>2, <2>2, Waiting DEF StoreInv, ControlInv, OpsInv, Fits, Persists
    <3>2. op[t].kind \in {"login", "update"} => op[t].gen = generation
      BY <1>4 DEF Accepted
    <3>3. op[t].gen \in Nat /\ generation \in Nat
      BY <2>2 DEF StoreInv, ControlInv, TypesInv, Ops
    <3> QED
      BY <3>1, <3>2, <3>3
  <2>11. RecentInv'
    BY <1>2, <2>1, <2>6, <2>7, <2>10
    DEF StoreInv, ControlInv, RecentInv, sessionVars
  <2>12. FreeInv'
    BY <2>1, WorkersApart DEF FreeInv
  <2>13. WasHeld(t)'
    BY <1>2, <2>6
    DEF found, StoreInv, FreeInv, WasHeld, Persisted, SignedOut, sessionVars, storeVars
  <2>14. UrlHeld(t)'
    BY <1>1, <2>2, <2>3, <2>6, SettingsFacts DEF found, StoreInv, UrlHeld, Persists
  <2>15. AccountHeld(t)' /\ ActiveHeld(t)'
    BY <1>2, <2>3, <2>6 DEF found, AccountHeld, ActiveHeld, storeVars, Persists
  <2>16. HeldInv'
    BY <2>1, <2>13, <2>14, <2>15 DEF HeldInv
  <2> QED
    BY <1>1, <2>8, <2>9, <2>11, <2>12, <2>16 DEF StoreInv, ControlInv
<1> QED
  BY <1>3, <1>4

-----------------------------------------------------------------------------
(***************************************************************************)
(* The steps with the lock: persist_active_session and its way back.       *)
(***************************************************************************)
\* What an operation with the lock knows.
LEMMA Holding ==
    ASSUME StoreInv, NEW t \in Workers, op[t].step \in LockedSteps
    PROVE  /\ lock = t /\ lock # Nobody /\ t \in Savers
           /\ WasHeld(t) /\ UrlHeld(t) /\ AccountHeld(t) /\ ActiveHeld(t)
           /\ op[t] \in Ops /\ Fits(op[t].kind, op[t].step, op[t].stored)
           /\ op[t].kind # "none" /\ op[t].recent
           /\ op[t].step \notin {"url", "undo"} => saver[t].at = "idle"
           /\ account \in Tokens /\ active \in Stored \cup {NoStored}
<1>1. lock = t
  BY DEF StoreInv, ControlInv, LockInv
<1>2. op[t].kind # "none"
  BY DEF StoreInv, ControlInv, OpsInv, LockedSteps, Fits, Persists
<1>3. op[t].recent
  BY <1>1 DEF StoreInv, ControlInv, OpsInv, RecentInv, Ops
<1>4. op[t].step \notin {"url", "undo"} => saver[t].at = "idle"
  BY <1>2 DEF StoreInv, ControlInv, SaverInv, LockedSteps
<1> QED
  BY <1>1, <1>2, <1>3, <1>4, WorkersApart
  DEF StoreInv, ControlInv, OpsInv, TypesInv, HeldInv

LEMMA SelectServerKeeps ==
    ASSUME StoreInv, NEW t \in Workers, SelectServer(t)
    PROVE  StoreInv'
<1>1. /\ op[t].kind \in Persists /\ op[t].step = "url" /\ saver[t].at = "idle"
      /\ UNCHANGED <<sessionVars, lock, account, active, phase, tokens, broken, out>>
  BY DEF SelectServer, At, storeVars, boundVars
<1>2. /\ lock = t /\ t \in Savers /\ UrlHeld(t) /\ AccountHeld(t) /\ ActiveHeld(t)
      /\ account \in Tokens /\ active \in Stored \cup {NoStored}
      /\ op[t].stored \in Stored /\ Server(t) \in Values
  BY <1>1, Holding, AccountAssumption DEF LockedSteps, Fits, Persists, Server, Stored
<1>3. SettingsInv /\ changes \in Nat
  BY SettingsFacts DEF StoreInv
<1>4. CASE Goto(t, "account") /\ UNCHANGED settingsVars
  <2>1. SettingsInv' /\ UNCHANGED <<data, saver>>
    BY <1>3, <1>4, SettingsStay
  <2>2. Fits(op[t].kind, "account", op[t].stored)
    BY <1>1, <1>2 DEF Fits
  <2>3. Moved(t) /\ SameOp(t) /\ op'[t].step = "account"
    BY <1>4, <2>2, GotoMoves DEF StoreInv, ControlInv, LockedSteps
  <2>4. UrlHeld(t)' /\ AccountHeld(t)' /\ ActiveHeld(t)'
    BY <1>1, <1>2, <1>4, <2>1, <2>3
    DEF SameOp, UrlHeld, AccountHeld, ActiveHeld, Server, Persists
  <2> QED
    BY <1>1, <1>2, <2>1, <2>3, <2>4, HeldStepKeeps DEF OtherSavers, LockedSteps
<1>5. CASE Change(t, Server(t)) /\ UNCHANGED <<op, changes>> /\ op[t].was.url # Server(t)
  <2>1. SettingsInv'
    BY <1>2, <1>3, <1>5, ChangeKeeps
  <2>2. OtherSavers(t) /\ saver'[t].at # "idle"
    BY <1>2, <1>3, <1>5, WorkersApart, SettingsFacts DEF Change, OtherSavers
  <2>3. Moved(t) /\ SameOp(t)
    BY <1>5 DEF StoreInv, ControlInv, OpsInv, Moved, SameOp
  <2>4. UrlHeld(t)' /\ AccountHeld(t)' /\ ActiveHeld(t)'
    BY <1>1, <1>2, <1>5, <2>2
    DEF UrlHeld, AccountHeld, ActiveHeld, Server, Persists
  <2> QED
    BY <1>1, <1>2, <1>5, <2>1, <2>2, <2>3, <2>4, HeldStepKeeps DEF LockedSteps
<1> QED
  BY <1>4, <1>5 DEF SelectServer, Server

LEMMA SaveServerKeeps ==
    ASSUME StoreInv, NEW t \in Workers, SaveServer(t)
    PROVE  StoreInv'
<1>1. /\ op[t].kind \in Persists /\ op[t].step = "url"
      /\ UNCHANGED <<sessionVars, account, active, phase, tokens, broken, out, changes>>
  BY DEF SaveServer, At, storeVars, boundVars
<1>2. /\ lock = t /\ t \in Savers /\ UrlHeld(t) /\ AccountHeld(t) /\ ActiveHeld(t)
      /\ account \in Tokens /\ active \in Stored \cup {NoStored}
      /\ op[t].stored \in Stored
  BY <1>1, Holding DEF LockedSteps, Fits, Persists
<1>3. SettingsInv /\ changes' \in Nat
  BY <1>1, SettingsFacts DEF StoreInv
<1>4. CASE Snapshot(t, "saving") /\ UNCHANGED <<op, lock>>
  <2>1. SettingsInv'
    BY <1>2, <1>3, <1>4, SnapshotKeeps
  <2>2. UNCHANGED data /\ OtherSavers(t) /\ saver[t].at # "idle" /\ saver'[t].at # "idle"
    BY <1>2, <1>3, <1>4, WorkersApart, SettingsFacts DEF Snapshot, OtherSavers
  <2>3. Moved(t) /\ SameOp(t)
    BY <1>4 DEF StoreInv, ControlInv, OpsInv, Moved, SameOp
  <2>4. UrlHeld(t)' /\ AccountHeld(t)' /\ ActiveHeld(t)'
    BY <1>1, <1>2, <1>4, <2>2
    DEF UrlHeld, AccountHeld, ActiveHeld, Server, Persists
  <2> QED
    BY <1>1, <1>2, <1>4, <2>1, <2>2, <2>3, <2>4, HeldStepKeeps DEF LockedSteps
<1>5. CASE Save(t, TRUE) /\ Goto(t, "account") /\ UNCHANGED lock
  <2>1. SettingsInv'
    BY <1>2, <1>3, <1>5, SaveKeeps
  <2>2. UNCHANGED data /\ OtherSavers(t) /\ saver[t].at # "idle" /\ saver'[t].at = "idle"
    BY <1>2, <1>3, <1>5, WorkersApart, SettingsFacts DEF Save, OtherSavers, Idle
  <2>3. Fits(op[t].kind, "account", op[t].stored)
    BY <1>1, <1>2 DEF Fits
  <2>4. Moved(t) /\ SameOp(t) /\ op'[t].step = "account"
    BY <1>5, <2>3, GotoMoves DEF StoreInv, ControlInv, LockedSteps
  <2>5. UrlHeld(t)' /\ AccountHeld(t)' /\ ActiveHeld(t)'
    BY <1>1, <1>2, <1>5, <2>2, <2>4
    DEF SameOp, UrlHeld, AccountHeld, ActiveHeld, Server, Persists
  <2> QED
    BY <1>1, <1>2, <1>5, <2>1, <2>2, <2>4, <2>5, HeldStepKeeps DEF LockedSteps
<1>6. CASE /\ data' = op[t].was.url
           /\ saver' = [saver EXCEPT ![t] = Idle]
           /\ Fail(t)
           /\ UNCHANGED <<disk, pending, stop, worker, writing, handed, wrote>>
  <2>1. saver' \in Threads /\ \A u \in Savers :
            saver'[u].at \in {"saving", "handing"} => saver'[u].snap # NoData
    BY <1>3, <1>6 DEF SettingsInv, SettingsTypeOK, SnapshotsAreTaken, Threads, Idle, Places
  <2>2. data' \in Values /\ disk' \in Values
    BY <1>2, <1>3, <1>6, SettingsFacts DEF UrlHeld
  <2>3. SettingsInv'
    BY <1>3, <1>6, <2>1, <2>2, OwnPlace
  <2>4. /\ OtherSavers(t) /\ saver'[t].at = "idle"
        /\ op' = [op EXCEPT ![t] = NoOp] /\ lock' = Nobody
    BY <1>2, <1>3, <1>6, WorkersApart, SettingsFacts DEF OtherSavers, Fail, EndsWith, Idle
  <2>5. account' = op[t].was.account /\ active' = op[t].was.active
    BY <1>1, <1>2 DEF AccountHeld, ActiveHeld
  <2>6. broken \in BOOLEAN
    BY DEF StoreInv, ControlInv, TypesInv
  <2> QED
    BY <1>1, <1>2, <1>6, <2>3, <2>4, <2>5, <2>6, EndKeeps
<1> QED
  BY <1>4, <1>5, <1>6 DEF SaveServer

UndoSteps == {"active", "account", "url"}

LEMMA Concatenations ==
    /\ <<>> \o <<>> = <<>>
    /\ \A a \in UndoSteps : <<>> \o <<a>> = <<a>> /\ <<a>> \o <<>> = <<a>>
    /\ \A a, b \in UndoSteps : <<a>> \o <<b>> = <<a, b>> /\ <<a, b>> \o <<>> = <<a, b>>
    /\ \A a, b, c \in UndoSteps : <<a, b>> \o <<c>> = <<a, b, c>>
<1>1. <<>> \o <<>> = <<>>
  <2>1. <<>> \in Seq(UndoSteps)
    OBVIOUS
  <2> QED
    BY <2>1, ConcatEmptySeq
<1>2. ASSUME NEW a \in UndoSteps PROVE <<>> \o <<a>> = <<a>> /\ <<a>> \o <<>> = <<a>>
  <2>1. <<a>> \in Seq(UndoSteps)
    OBVIOUS
  <2> QED
    BY <2>1, ConcatEmptySeq
<1>3. ASSUME NEW a \in UndoSteps, NEW b \in UndoSteps
      PROVE  <<a>> \o <<b>> = <<a, b>> /\ <<a, b>> \o <<>> = <<a, b>>
  <2>1. <<a>> \in Seq(UndoSteps) /\ <<b>> \in Seq(UndoSteps) /\ <<a, b>> \in Seq(UndoSteps)
    OBVIOUS
  <2>2. /\ <<a>> \o <<b>> \in Seq(UndoSteps) /\ Len(<<a>> \o <<b>>) = 2
        /\ \A i \in 1..2 : (<<a>> \o <<b>>)[i] = IF i <= 1 THEN <<a>>[i] ELSE <<b>>[i - 1]
    BY <2>1, ConcatProperties
  <2>3. \A i \in 1..2 : (<<a>> \o <<b>>)[i] = <<a, b>>[i]
    BY <2>2
  <2> QED
    BY <2>1, <2>2, <2>3, SeqEqual, ConcatEmptySeq
<1>4. ASSUME NEW a \in UndoSteps, NEW b \in UndoSteps, NEW c \in UndoSteps
      PROVE  <<a, b>> \o <<c>> = <<a, b, c>>
  <2>1. <<a, b>> \in Seq(UndoSteps) /\ <<c>> \in Seq(UndoSteps)
        /\ <<a, b, c>> \in Seq(UndoSteps)
    OBVIOUS
  <2>2. /\ <<a, b>> \o <<c>> \in Seq(UndoSteps) /\ Len(<<a, b>> \o <<c>>) = 3
        /\ \A i \in 1..3 :
               (<<a, b>> \o <<c>>)[i] = IF i <= 2 THEN <<a, b>>[i] ELSE <<c>>[i - 2]
    BY <2>1, ConcatProperties
  <2>3. \A i \in 1..3 : (<<a, b>> \o <<c>>)[i] = <<a, b, c>>[i]
    BY <2>2
  <2> QED
    BY <2>1, <2>2, <2>3, SeqEqual
<1> QED
  BY <1>1, <1>2, <1>3, <1>4

\* The way back is one of eight, and gives back what was changed.
LEMMA UndoIsKnown ==
    ASSUME NEW t, NEW active_too \in BOOLEAN
    PROVE  LET undo == Undo(t, active_too) IN
           /\ undo \in Undos
           /\ "url" \in Left(undo) <=> op[t].was.url # Server(t)
           /\ "account" \notin Left(undo) =>
                  op[t].was.account[op[t].stored.who] = op[t].stored.token
           /\ "active" \notin Left(undo) => ~active_too
<1> DEFINE a == IF active_too THEN <<"active">> ELSE <<>>
           changed == op[t].was.account[op[t].stored.who] # op[t].stored.token
           b == IF changed THEN <<"account">> ELSE <<>>
           elsewhere == op[t].was.url # Server(t)
           c == IF elsewhere THEN <<"url">> ELSE <<>>
           undo == Undo(t, active_too)
<1>1. undo = a \o b \o c
  BY DEF Undo, Server
<1> HIDE DEF changed, elsewhere, undo
<1>2. "active" \in UndoSteps /\ "account" \in UndoSteps /\ "url" \in UndoSteps
  BY DEF UndoSteps
<1>3. CASE active_too /\ changed
  <2>1. a \o b = <<"active", "account">>
    BY <1>2, <1>3, Concatenations
  <2>2. CASE elsewhere
    <3>1. undo = <<"active", "account", "url">>
      <4>1. <<"active", "account">> \o <<"url">> = <<"active", "account", "url">>
        BY <1>2, Concatenations
      <4>2. c = <<"url">>
        BY <2>2
      <4> HIDE DEF a, b, c
      <4> QED
        BY <1>1, <2>1, <4>1, <4>2
    <3>2. undo \in Undos /\ Left(undo) = {"active", "account", "url"}
      BY <3>1, LeftOf DEF Undos
    <3> QED
      BY <1>3, <2>2, <3>2 DEF undo, elsewhere
  <2>3. CASE ~elsewhere
    <3>1. undo = <<"active", "account">>
      BY <1>1, <1>2, <2>1, <2>3, Concatenations
    <3>2. undo \in Undos /\ Left(undo) = {"active", "account"}
      BY <3>1, LeftOf DEF Undos
    <3> QED
      BY <1>3, <2>3, <3>2 DEF undo, elsewhere
  <2> QED
    BY <2>2, <2>3
<1>4. CASE active_too /\ ~changed
  <2>1. a \o b = <<"active">>
    BY <1>2, <1>4, Concatenations
  <2>2. CASE elsewhere
    <3>1. undo = <<"active", "url">>
      <4>1. <<"active">> \o <<"url">> = <<"active", "url">>
        BY <1>2, Concatenations
      <4>2. c = <<"url">>
        BY <2>2
      <4> HIDE DEF a, b, c
      <4> QED
        BY <1>1, <2>1, <4>1, <4>2
    <3>2. undo \in Undos /\ Left(undo) = {"active", "url"}
      BY <3>1, LeftOf DEF Undos
    <3> QED
      BY <1>4, <2>2, <3>2 DEF undo, elsewhere, changed
  <2>3. CASE ~elsewhere
    <3>1. undo = <<"active">>
      BY <1>1, <1>2, <2>1, <2>3, Concatenations
    <3>2. undo \in Undos /\ Left(undo) = {"active"}
      BY <3>1, LeftOf DEF Undos
    <3> QED
      BY <1>4, <2>3, <3>2 DEF undo, elsewhere, changed
  <2> QED
    BY <2>2, <2>3
<1>5. CASE ~active_too /\ changed
  <2>1. a \o b = <<"account">>
    BY <1>2, <1>5, Concatenations
  <2>2. CASE elsewhere
    <3>1. undo = <<"account", "url">>
      <4>1. <<"account">> \o <<"url">> = <<"account", "url">>
        BY <1>2, Concatenations
      <4>2. c = <<"url">>
        BY <2>2
      <4> HIDE DEF a, b, c
      <4> QED
        BY <1>1, <2>1, <4>1, <4>2
    <3>2. undo \in Undos /\ Left(undo) = {"account", "url"}
      BY <3>1, LeftOf DEF Undos
    <3> QED
      BY <1>5, <2>2, <3>2 DEF undo, elsewhere
  <2>3. CASE ~elsewhere
    <3>1. undo = <<"account">>
      BY <1>1, <1>2, <2>1, <2>3, Concatenations
    <3>2. undo \in Undos /\ Left(undo) = {"account"}
      BY <3>1, LeftOf DEF Undos
    <3> QED
      BY <1>5, <2>3, <3>2 DEF undo, elsewhere
  <2> QED
    BY <2>2, <2>3
<1>6. CASE ~active_too /\ ~changed
  <2>1. a \o b = <<>>
    BY <1>2, <1>6, Concatenations
  <2>2. CASE elsewhere
    <3>1. undo = <<"url">>
      BY <1>1, <1>2, <2>1, <2>2, Concatenations
    <3>2. undo \in Undos /\ Left(undo) = {"url"}
      BY <3>1, LeftOf DEF Undos
    <3> QED
      BY <1>6, <2>2, <3>2 DEF undo, elsewhere, changed
  <2>3. CASE ~elsewhere
    <3>1. undo = <<>>
      BY <1>1, <1>2, <2>1, <2>3, Concatenations
    <3>2. undo \in Undos /\ Left(undo) = {}
      BY <3>1, LeftOf DEF Undos
    <3> QED
      BY <1>6, <2>3, <3>2 DEF undo, elsewhere, changed
  <2> QED
    BY <2>2, <2>3
<1> QED
  BY <1>3, <1>4, <1>5, <1>6

LEMMA RollBackMoves ==
    ASSUME OpsInv, NEW t \in Workers, NEW active_too \in BOOLEAN, RollBack(t, active_too),
           op[t].kind \in Persists, op[t].stored \in Stored
    PROVE  /\ Moved(t) /\ SameOp(t) /\ op'[t].step = "undo"
           /\ op'[t].undo = Undo(t, active_too)
<1>1. op[t] \in Ops /\ Undo(t, active_too) \in Undos
  BY UndoIsKnown DEF OpsInv
<1>2. op'[t] = [op[t] EXCEPT !.step = "undo", !.undo = Undo(t, active_too)]
  BY <1>1 DEF RollBack, OpsInv
<1>3. /\ op'[t] \in Ops /\ SameOp(t) /\ op'[t].step = "undo"
      /\ op'[t].undo = Undo(t, active_too)
  BY <1>1, <1>2 DEF Ops, SameOp, LockedSteps
<1>4. op' \in [Workers -> Ops] /\ \A u \in Workers : u # t => op'[u] = op[u]
  BY <1>2, <1>3 DEF RollBack, OpsInv
<1> QED
  BY <1>3, <1>4 DEF Moved, SameOp, OpsInv, Fits, Persists

\* Writing back what was there before makes the credentials what they were.
LEMMA WrittenBack ==
    ASSUME NEW f \in Tokens, NEW g \in Tokens, NEW who \in Accounts,
           \A a \in Accounts : a # who => f[a] = g[a]
    PROVE  [f EXCEPT ![who] = g[who]] = g
  BY DEF Tokens

LEMMA PersistAccountKeeps ==
    ASSUME StoreInv, NEW t \in Workers, PersistAccount(t)
    PROVE  StoreInv'
<1>1. /\ op[t].kind \in Persists /\ op[t].step = "account"
      /\ UNCHANGED <<sessionVars, lock, active, phase, tokens, broken, out>>
  BY DEF PersistAccount, At, boundVars, historyVars
<1>2. SettingsInv' /\ UNCHANGED <<data, saver>>
  BY SettingsStay DEF PersistAccount, StoreInv
<1>3. /\ lock = t /\ UrlHeld(t) /\ AccountHeld(t) /\ ActiveHeld(t) /\ saver[t].at = "idle"
      /\ account \in Tokens /\ active \in Stored \cup {NoStored}
      /\ op[t].stored \in Stored /\ op[t] \in Ops
  BY <1>1, Holding DEF LockedSteps, Fits, Persists
<1>4. account = op[t].was.account /\ active = op[t].was.active
  BY <1>1, <1>3 DEF AccountHeld, ActiveHeld
<1>5. CASE Goto(t, "active") /\ account' = [account EXCEPT ![op[t].stored.who] = op[t].stored.token]
  <2>1. Fits(op[t].kind, "active", op[t].stored)
    BY <1>1, <1>3 DEF Fits
  <2>2. Moved(t) /\ SameOp(t) /\ op'[t].step = "active"
    BY <1>5, <2>1, GotoMoves DEF StoreInv, ControlInv, LockedSteps
  <2>3. account' = Put(t) /\ Put(t)' = Put(t) /\ account' \in Tokens
    BY <1>1, <1>3, <1>4, <1>5, <2>2 DEF Put, SameOp, Tokens, Stored, Persists
  <2>4. UrlHeld(t)' /\ AccountHeld(t)' /\ ActiveHeld(t)'
    BY <1>1, <1>2, <1>3, <1>4, <2>2, <2>3
    DEF SameOp, UrlHeld, AccountHeld, ActiveHeld, Server, Persists
  <2> QED
    BY <1>1, <1>2, <1>3, <2>2, <2>3, <2>4, HeldStepKeeps DEF OtherSavers, LockedSteps
<1>6. CASE RollBack(t, FALSE) /\ account' = account
  <2>1. /\ Moved(t) /\ SameOp(t) /\ op'[t].step = "undo" /\ op'[t].undo = Undo(t, FALSE)
    BY <1>1, <1>3, <1>6, RollBackMoves DEF StoreInv, ControlInv
  <2>2. "url" \in Left(op'[t].undo) => op[t].was.url # Server(t)
    BY <2>1, UndoIsKnown
  <2>3. UrlHeld(t)' /\ AccountHeld(t)' /\ ActiveHeld(t)'
    BY <1>1, <1>2, <1>3, <1>4, <1>6, <2>1, <2>2
    DEF SameOp, UrlHeld, AccountHeld, ActiveHeld, Server, Persists
  <2> QED
    BY <1>1, <1>2, <1>3, <1>6, <2>1, <2>3, HeldStepKeeps DEF OtherSavers, LockedSteps
<1> QED
  BY <1>5, <1>6 DEF PersistAccount

LEMMA PersistActiveKeeps ==
    ASSUME StoreInv, NEW t \in Workers, PersistActive(t)
    PROVE  StoreInv'
<1>1. /\ op[t].kind \in Persists /\ op[t].step = "active"
      /\ UNCHANGED <<sessionVars, lock, account, phase, tokens, broken, out>>
  BY DEF PersistActive, At, boundVars, historyVars
<1>2. SettingsInv' /\ UNCHANGED <<data, saver>>
  BY SettingsStay DEF PersistActive, StoreInv
<1>3. /\ lock = t /\ UrlHeld(t) /\ AccountHeld(t) /\ ActiveHeld(t) /\ saver[t].at = "idle"
      /\ account \in Tokens /\ active \in Stored \cup {NoStored}
      /\ op[t].stored \in Stored /\ op[t] \in Ops
  BY <1>1, Holding DEF LockedSteps, Fits, Persists
<1>4. account = Put(t) /\ active = op[t].was.active
  BY <1>1, <1>3 DEF AccountHeld, ActiveHeld
<1>5. CASE Goto(t, "commit") /\ active' = op[t].stored
  <2>1. Fits(op[t].kind, "commit", op[t].stored)
    BY <1>1, <1>3 DEF Fits
  <2>2. Moved(t) /\ SameOp(t) /\ op'[t].step = "commit"
    BY <1>5, <2>1, GotoMoves DEF StoreInv, ControlInv, LockedSteps
  <2>3. account' = Put(t) /\ Put(t)' = Put(t)
    BY <1>1, <1>4, <2>2 DEF Put, SameOp
  <2>4. UrlHeld(t)' /\ AccountHeld(t)' /\ ActiveHeld(t)'
    BY <1>1, <1>2, <1>3, <1>4, <1>5, <2>2, <2>3
    DEF SameOp, UrlHeld, AccountHeld, ActiveHeld, Server, Persists
  <2> QED
    BY <1>1, <1>2, <1>3, <1>5, <2>2, <2>4, HeldStepKeeps DEF OtherSavers, LockedSteps
<1>6. CASE RollBack(t, TRUE) /\ active' = active
  <2>1. /\ Moved(t) /\ SameOp(t) /\ op'[t].step = "undo" /\ op'[t].undo = Undo(t, TRUE)
    BY <1>1, <1>3, <1>6, RollBackMoves DEF StoreInv, ControlInv
  <2>2. "url" \in Left(op'[t].undo) => op[t].was.url # Server(t)
    BY <2>1, UndoIsKnown
  <2>3. op[t].was.account \in Tokens /\ op[t].stored.who \in Accounts
    BY <1>3 DEF Ops, Before, Stored
  <2>4. \A a \in Accounts : a # op[t].stored.who => account[a] = op[t].was.account[a]
    BY <1>4, <2>3 DEF Put, Tokens
  <2>5. "account" \notin Left(op'[t].undo) => account = op[t].was.account
    <3>1. ASSUME "account" \notin Left(op'[t].undo)
          PROVE  op[t].was.account[op[t].stored.who] = op[t].stored.token
      BY <2>1, <3>1, UndoIsKnown
    <3> QED
      BY <1>1, <1>4, <2>3, <3>1, WrittenBack DEF Put, Persists
  <2>6. /\ op'[t].step = "undo" /\ op'[t].kind \in Persists /\ op'[t].was = op[t].was
        /\ op'[t].stored = op[t].stored /\ op'[t].kind \notin {"update", "delete", "logout", "proxy"}
    BY <1>1, <2>1 DEF SameOp, Persists
  <2>7. UrlHeld(t)'
    <3>1. op[t].was.url \in Values
      BY <1>1, <1>3 DEF UrlHeld
    <3> QED
      BY <1>1, <1>2, <1>3, <2>2, <2>6, <3>1 DEF UrlHeld, Server
  <2>8. AccountHeld(t)'
    BY <1>1, <2>4, <2>5, <2>6 DEF AccountHeld
  <2>9. ActiveHeld(t)'
    BY <1>1, <1>4, <1>6, <2>6 DEF ActiveHeld
  <2> QED
    BY <1>1, <1>2, <1>3, <1>6, <2>1, <2>7, <2>8, <2>9, HeldStepKeeps DEF OtherSavers, LockedSteps
<1> QED
  BY <1>5, <1>6 DEF PersistActive

\* What a rollback knows.
LEMMA Undoing ==
    ASSUME StoreInv, NEW t \in Workers, op[t].step = "undo"
    PROVE  /\ lock = t /\ t \in Savers /\ SettingsInv /\ OpsInv
           /\ op[t] \in Ops /\ op[t].kind \in Persists /\ op[t].stored \in Stored
           /\ UrlHeld(t) /\ AccountHeld(t) /\ ActiveHeld(t)
           /\ account \in Tokens /\ active \in Stored \cup {NoStored}
           /\ op[t].was \in Before /\ op[t].was.url \in Values
           /\ op[t].stored.who \in Accounts /\ op[t].undo \in Undos /\ changes \in Nat
<1>1. op[t].step \in LockedSteps
  BY DEF LockedSteps
<1>2. op[t].kind \in Persists /\ op[t].stored \in Stored /\ op[t] \in Ops
  BY <1>1, Holding DEF Fits
<1>3. UrlHeld(t)
  BY <1>1, Holding
<1>4. op[t].was.url \in Values
  BY <1>3 DEF UrlHeld
<1> QED
  BY <1>1, <1>2, <1>4, Holding, SettingsFacts DEF StoreInv, ControlInv, Ops, Stored

LEMMA UndoOneKeeps ==
    ASSUME StoreInv, NEW t \in Workers, UndoOne(t)
    PROVE  StoreInv'
<1> DEFINE what == Head(op[t].undo)
<1>1. /\ op[t].step = "undo" /\ op[t].undo # <<>> /\ saver[t].at = "idle"
      /\ UNCHANGED <<sessionVars, lock, phase, tokens, broken, out>>
  BY DEF UndoOne, boundVars, historyVars
<1>2. /\ lock = t /\ t \in Savers /\ SettingsInv /\ OpsInv
      /\ op[t] \in Ops /\ op[t].kind \in Persists /\ op[t].stored \in Stored
      /\ UrlHeld(t) /\ AccountHeld(t) /\ ActiveHeld(t)
      /\ account \in Tokens /\ active \in Stored \cup {NoStored}
      /\ op[t].was \in Before /\ op[t].was.url \in Values
      /\ op[t].stored.who \in Accounts /\ op[t].undo \in Undos /\ changes \in Nat
  BY <1>1, Undoing
<1>3. /\ what \in {"active", "account", "url"} /\ Tail(op[t].undo) \in Undos
      /\ Left(op[t].undo) = {what} \cup Left(Tail(op[t].undo))
      /\ what = "url" => op[t].undo = <<"url">>
  BY <1>1, <1>2, UndoShrinks
<1> HIDE DEF what
<1>4. CASE /\ what = "url" /\ Change(t, op[t].was.url)
           /\ UNCHANGED <<changes, storeVars, op>>
  <2>1. SettingsInv'
    BY <1>2, <1>4, ChangeKeeps
  <2>2. data' = op[t].was.url /\ OtherSavers(t)
    BY <1>2, <1>4, WorkersApart, SettingsFacts DEF Change, OtherSavers
  <2>3. Moved(t) /\ SameOp(t)
    BY <1>2, <1>4 DEF OpsInv, Moved, SameOp
  <2>4. UrlHeld(t)' /\ AccountHeld(t)' /\ ActiveHeld(t)'
    BY <1>1, <1>2, <1>3, <1>4, <2>2
    DEF UrlHeld, AccountHeld, ActiveHeld, Server, Persists, storeVars
  <2> QED
    BY <1>1, <1>2, <1>4, <2>1, <2>2, <2>3, <2>4, HeldStepKeeps DEF LockedSteps, storeVars
<1>5. ASSUME what # "url", NEW ok \in BOOLEAN,
             account' = IF ok /\ what = "account"
                        THEN [account EXCEPT ![op[t].stored.who] =
                                                 op[t].was.account[op[t].stored.who]]
                        ELSE account,
             active' = IF ok /\ what = "active" THEN op[t].was.active ELSE active,
             op' = [op EXCEPT ![t].undo = Tail(@), ![t].failed = @ \/ ~ok],
             UNCHANGED settingsVars
      PROVE  StoreInv'
  <2>1. SettingsInv' /\ UNCHANGED <<data, saver>>
    BY <1>2, <1>5, SettingsStay
  <2>2. op'[t] = [op[t] EXCEPT !.undo = Tail(op[t].undo), !.failed = op[t].failed \/ ~ok]
    BY <1>2, <1>5 DEF OpsInv, Ops
  <2>3. /\ op'[t] \in Ops /\ SameOp(t) /\ op'[t].step = "undo"
        /\ op'[t].undo = Tail(op[t].undo)
    BY <1>1, <1>2, <1>3, <2>2 DEF Ops, SameOp
  <2>4. ~op'[t].failed => ok /\ ~op[t].failed
    BY <1>2, <2>2 DEF Ops
  <2>5. op' \in [Workers -> Ops] /\ \A u \in Workers : u # t => op'[u] = op[u]
    BY <1>2, <1>5, <2>2, <2>3 DEF OpsInv
  <2>6. Moved(t)
    BY <1>1, <1>2, <2>3, <2>5 DEF Moved, SameOp, OpsInv
  <2>7. op[t].was.account \in Tokens /\ op[t].was.active \in Stored \cup {NoStored}
    BY <1>2 DEF Before
  <2>8. account' \in Tokens /\ active' \in Stored \cup {NoStored}
    BY <1>2, <1>5, <2>7 DEF Tokens
  <2>9. UrlHeld(t)'
    BY <1>1, <1>2, <1>3, <1>5, <2>1, <2>3 DEF SameOp, UrlHeld, Server, Persists
  <2>10. \A a \in Accounts : a # op[t].stored.who => account[a] = op[t].was.account[a]
    BY <1>1, <1>2 DEF AccountHeld
  <2>11. ok /\ what = "account" => account' = op[t].was.account
    <3> DEFINE who == op[t].stored.who
               was == op[t].was.account
    <3>1. who \in Accounts /\ account \in Tokens /\ was \in Tokens
      BY <1>2, <2>7
    <3>2. \A a \in Accounts : a # who => account[a] = was[a]
      BY <2>10
    <3>3. ok /\ what = "account" => account' = [account EXCEPT ![who] = was[who]]
      BY <1>5
    <3> HIDE DEF who, was
    <3>4. [account EXCEPT ![who] = was[who]] = was
      BY <3>1, <3>2, WrittenBack
    <3> QED
      BY <3>3, <3>4 DEF was
  <2>12. AccountHeld(t)'
    <3>1. CASE ok /\ what = "account"
      BY <1>2, <2>3, <2>11, <3>1 DEF SameOp, AccountHeld, Persists
    <3>2. CASE ~(ok /\ what = "account")
      <4>1. account' = account
        BY <1>5, <3>2
      <4>2. ~op'[t].failed /\ "account" \notin Left(op'[t].undo) => account = op[t].was.account
        BY <1>1, <1>2, <1>3, <2>3, <2>4, <3>2 DEF AccountHeld
      <4> QED
        BY <1>2, <2>3, <2>10, <4>1, <4>2 DEF SameOp, AccountHeld, Persists
    <3> QED
      BY <3>1, <3>2
  <2>13. ActiveHeld(t)'
    <3>1. ~op'[t].failed /\ "active" \notin Left(op'[t].undo) => active' = op[t].was.active
      BY <1>1, <1>2, <1>3, <1>5, <2>3, <2>4 DEF ActiveHeld
    <3> QED
      BY <1>2, <2>3, <3>1 DEF SameOp, ActiveHeld, Persists
  <2> QED
    BY <1>1, <1>2, <2>1, <2>3, <2>6, <2>8, <2>9, <2>12, <2>13, HeldStepKeeps
    DEF OtherSavers, LockedSteps
<1> QED
  BY <1>4, <1>5 DEF UndoOne, what

LEMMA UndoServerKeeps ==
    ASSUME StoreInv, NEW t \in Workers, UndoServer(t)
    PROVE  StoreInv'
<1>1. /\ op[t].step = "undo"
      /\ UNCHANGED <<sessionVars, lock, account, active, phase, tokens, broken, out, changes>>
  BY DEF UndoServer, OnlySettings, boundVars, storeVars
<1>2. /\ lock = t /\ t \in Savers /\ SettingsInv /\ OpsInv
      /\ op[t] \in Ops /\ op[t].kind \in Persists /\ op[t].stored \in Stored
      /\ UrlHeld(t) /\ AccountHeld(t) /\ ActiveHeld(t)
      /\ account \in Tokens /\ active \in Stored \cup {NoStored}
      /\ op[t].was \in Before /\ op[t].was.url \in Values
      /\ op[t].stored.who \in Accounts /\ op[t].undo \in Undos /\ changes \in Nat
  BY <1>1, Undoing
<1>3. CASE Snapshot(t, "saving") /\ UNCHANGED op
  <2>1. SettingsInv'
    BY <1>1, <1>2, <1>3, SnapshotKeeps
  <2>2. UNCHANGED data /\ OtherSavers(t) /\ saver[t].at # "idle"
    BY <1>2, <1>3, WorkersApart, SettingsFacts DEF Snapshot, OtherSavers
  <2>3. Moved(t) /\ SameOp(t)
    BY <1>2, <1>3 DEF OpsInv, Moved, SameOp
  <2>4. UrlHeld(t)' /\ AccountHeld(t)' /\ ActiveHeld(t)'
    BY <1>1, <1>2, <1>3, <2>2
    DEF UrlHeld, AccountHeld, ActiveHeld, Server, Persists
  <2> QED
    BY <1>1, <1>2, <1>3, <2>1, <2>2, <2>3, <2>4, HeldStepKeeps DEF LockedSteps
<1>4. ASSUME NEW ok \in BOOLEAN, Save(t, ok),
             op' = [op EXCEPT ![t].undo = <<>>, ![t].failed = @ \/ ~ok]
      PROVE  StoreInv'
  <2>1. SettingsInv'
    BY <1>1, <1>2, <1>4, SaveKeeps
  <2>2. UNCHANGED data /\ OtherSavers(t) /\ saver[t].at # "idle" /\ saver'[t].at = "idle"
    BY <1>2, <1>4, WorkersApart, SettingsFacts DEF Save, OtherSavers, Idle
  <2>3. op[t].undo = <<"url">>
    BY <1>1, <1>2, <2>2 DEF UrlHeld
  <2>4. "account" \notin Left(op[t].undo) /\ "active" \notin Left(op[t].undo)
    BY <2>3, LeftOf
  <2>5. op'[t] = [op[t] EXCEPT !.undo = <<>>, !.failed = op[t].failed \/ ~ok]
    BY <1>2, <1>4 DEF OpsInv, Ops
  <2>6. <<>> \in Undos
    BY DEF Undos
  <2>7. /\ op'[t] \in Ops /\ SameOp(t) /\ op'[t].step = "undo" /\ op'[t].undo = <<>>
    BY <1>1, <1>2, <2>5, <2>6 DEF Ops, SameOp
  <2>8. ~op'[t].failed => ~op[t].failed
    BY <1>2, <2>5 DEF Ops
  <2>9. op' \in [Workers -> Ops] /\ \A u \in Workers : u # t => op'[u] = op[u]
    BY <1>2, <1>4, <2>5, <2>7 DEF OpsInv
  <2>10. Moved(t)
    BY <1>1, <1>2, <2>7, <2>9 DEF Moved, SameOp, OpsInv
  <2>11. UrlHeld(t)'
    BY <1>2, <2>2, <2>7, LeftOf DEF SameOp, UrlHeld, Persists
  <2>12. AccountHeld(t)' /\ ActiveHeld(t)'
    BY <1>1, <1>2, <2>4, <2>7, <2>8 DEF SameOp, AccountHeld, ActiveHeld, Persists
  <2> QED
    BY <1>1, <1>2, <2>1, <2>2, <2>7, <2>10, <2>11, <2>12, HeldStepKeeps DEF LockedSteps
<1> QED
  BY <1>3, <1>4 DEF UndoServer

LEMMA EndUndoKeeps ==
    ASSUME StoreInv, NEW t \in Workers, EndUndo(t)
    PROVE  StoreInv'
<1>1. /\ op[t].step = "undo" /\ op[t].undo = <<>>
      /\ broken' = (broken \/ op[t].failed)
      /\ UNCHANGED <<sessionVars, account, active, phase, tokens, out>>
  BY DEF EndUndo, boundVars, storeVars
<1>2. /\ lock = t /\ op[t] \in Ops /\ op[t].kind \in Persists
      /\ UrlHeld(t) /\ AccountHeld(t) /\ ActiveHeld(t)
      /\ account \in Tokens /\ active \in Stored \cup {NoStored}
  BY <1>1, Undoing
<1>3. SettingsInv' /\ UNCHANGED <<data, saver>>
  BY SettingsStay DEF EndUndo, StoreInv
<1>4. op' = [op EXCEPT ![t] = NoOp] /\ lock' = Nobody
  BY <1>2 DEF EndUndo, EndsWith
<1>5. broken' \in BOOLEAN /\ (~broken' => ~broken /\ ~op[t].failed)
  BY <1>1, <1>2 DEF StoreInv, ControlInv, TypesInv, Ops
<1>6. Left(op[t].undo) = {}
  BY <1>1, LeftOf
<1>7. ~op[t].failed => account = op[t].was.account /\ active = op[t].was.active
  BY <1>1, <1>2, <1>6 DEF AccountHeld, ActiveHeld
<1>8. saver[t].at = "idle"
  BY DEF EndUndo
<1> QED
  BY <1>1, <1>2, <1>3, <1>4, <1>5, <1>7, <1>8, EndKeeps DEF OtherSavers

-----------------------------------------------------------------------------
(***************************************************************************)
(* The steps with the lock: updates, deletions, logouts.                   *)
(***************************************************************************)
\* An operation that is neither a login nor a switch, and what it knows.
LEMMA Calling ==
    ASSUME StoreInv, NEW t \in Workers, op[t].step \in LockedSteps, op[t].kind \notin Persists
    PROVE  /\ lock = t /\ OpsInv /\ op[t] \in Ops /\ saver[t].at = "idle"
           /\ op[t].was.url \in Values
           /\ op[t].was.account \in Tokens /\ op[t].was.active \in Stored \cup {NoStored}
           /\ AccountHeld(t) /\ ActiveHeld(t)
           /\ account \in Tokens /\ active \in Stored \cup {NoStored}
           /\ op[t].kind \in {"update", "delete"} => op[t].stored \in Stored
<1>1. /\ lock = t /\ op[t] \in Ops /\ Fits(op[t].kind, op[t].step, op[t].stored)
      /\ UrlHeld(t) /\ AccountHeld(t) /\ ActiveHeld(t)
      /\ op[t].step \notin {"url", "undo"} => saver[t].at = "idle"
      /\ account \in Tokens /\ active \in Stored \cup {NoStored}
  BY Holding
<1>2. op[t].was.url \in Values
  BY <1>1 DEF UrlHeld
<1>3. op[t].was.account \in Tokens /\ op[t].was.active \in Stored \cup {NoStored}
  BY <1>1 DEF Ops, Before
<1>4. op[t].step \notin {"url", "undo"}
  BY <1>1 DEF Fits, LockedSteps
<1>5. op[t].kind \in {"update", "delete"} => op[t].stored \in Stored
  BY <1>1 DEF Fits, Persists
<1> QED
  BY <1>1, <1>2, <1>3, <1>4, <1>5 DEF StoreInv, ControlInv

LEMMA SetToken ==
    ASSUME NEW f \in Tokens
    PROVE  /\ \A who, token : token \in 0..MaxTokens => [f EXCEPT ![who] = token] \in Tokens
           /\ \A who : [f EXCEPT ![who] = 0] \in Tokens
<1>1. 0 \in 0..MaxTokens
  BY AccountAssumption
<1>2. ASSUME NEW who, NEW token \in 0..MaxTokens
      PROVE  [f EXCEPT ![who] = token] \in Tokens
  BY DEF Tokens
<1> QED
  BY <1>1, <1>2

\* It goes on to another step, or ends, with the settings unchanged.
LEMMA CallGoesOn ==
    ASSUME StoreInv, NEW t \in Workers, op[t].step \in LockedSteps, op[t].kind \notin Persists,
           NEW step \in {"account", "active", "commit", "restore"}, Goto(t, step),
           Fits(op[t].kind, step, op[t].stored),
           UNCHANGED settingsVars,
           UNCHANGED <<sessionVars, lock, phase, tokens, broken, out>>,
           account' \in Tokens, active' \in Stored \cup {NoStored},
           AccountHeld(t)', ActiveHeld(t)'
    PROVE  StoreInv'
<1>1. lock = t /\ OpsInv /\ saver[t].at = "idle" /\ op[t].was.url \in Values
  BY Calling
<1>2. SettingsInv' /\ UNCHANGED <<data, saver>>
  BY SettingsStay DEF StoreInv
<1>3. Moved(t) /\ SameOp(t) /\ op'[t].step = step
  BY <1>1, GotoMoves DEF LockedSteps
<1>4. UrlHeld(t)'
  BY <1>1, <1>2, <1>3 DEF SameOp, UrlHeld
<1>5. step \in LockedSteps
  BY DEF LockedSteps
<1> QED
  BY <1>1, <1>2, <1>3, <1>4, <1>5, HeldStepKeeps DEF OtherSavers

\* It goes on with the same request.
LEMMA CallIsSame ==
    ASSUME StoreInv, NEW t \in Workers, op[t].step \in LockedSteps,
           NEW step \in {"account", "active", "commit", "restore"}, Goto(t, step)
    PROVE  SameOp(t) /\ op'[t].step = step
<1>1. op[t] \in Ops /\ op'[t] = [op[t] EXCEPT !.step = step]
  BY DEF StoreInv, ControlInv, OpsInv, Goto
<1> QED
  BY <1>1 DEF Ops, SameOp

LEMMA CallEnds ==
    ASSUME StoreInv, NEW t \in Workers, op[t].step \in LockedSteps, op[t].kind \notin Persists,
           op' = [op EXCEPT ![t] = NoOp], lock' = Nobody,
           UNCHANGED settingsVars,
           UNCHANGED <<sessionVars, phase, tokens, out>>,
           account' \in Tokens, active' \in Stored \cup {NoStored}, broken' \in BOOLEAN,
           ~broken' => /\ ~broken /\ account' = op[t].was.account
                       /\ active' = op[t].was.active
    PROVE  StoreInv'
<1>1. lock = t /\ saver[t].at = "idle"
  BY Calling
<1>2. SettingsInv' /\ UNCHANGED <<data, saver>>
  BY SettingsStay DEF StoreInv
<1> QED
  BY <1>1, <1>2, EndKeeps DEF OtherSavers

LEMMA FirstAccountKeeps ==
    ASSUME StoreInv, NEW t \in Workers, UpdateAccount(t) \/ DeleteAccount(t)
    PROVE  StoreInv'
<1>1. /\ op[t].kind \in {"update", "delete"} /\ op[t].step = "account"
      /\ op[t].step \in LockedSteps /\ op[t].kind \notin Persists
  BY DEF UpdateAccount, DeleteAccount, At, LockedSteps, Persists
<1>2. /\ lock = t /\ op[t] \in Ops /\ AccountHeld(t) /\ ActiveHeld(t) /\ op[t].stored \in Stored
      /\ account \in Tokens /\ active \in Stored \cup {NoStored}
  BY <1>1, Calling
<1>3. account = op[t].was.account /\ active = op[t].was.active
  BY <1>1, <1>2 DEF AccountHeld, ActiveHeld
<1>4. PICK ok \in BOOLEAN :
          /\ Call(t, ok, ThenActive(t)) /\ active' = active
          /\ account' = IF ok THEN Put(t) ELSE account
  BY <1>3 DEF UpdateAccount, DeleteAccount, At, Put
<1>5. UNCHANGED settingsVars /\ UNCHANGED <<sessionVars, phase, tokens, broken, out>>
  BY <1>4 DEF Call, boundVars
<1>6. CASE ok
  <2> DEFINE step == ThenActive(t)
  <2>1. step = IF IsActive(op[t].stored.who) THEN "active" ELSE "commit"
    BY DEF ThenActive
  <2> HIDE DEF step
  <2>2. Goto(t, step) /\ lock' = lock
    BY <1>4, <1>6 DEF Call, step
  <2>3. Fits(op[t].kind, step, op[t].stored)
    BY <1>1, <1>2, <2>1 DEF Fits
  <2>4. SameOp(t) /\ op'[t].step = step
    BY <1>1, <2>1, <2>2, CallIsSame
  <2>5. account' = Put(t) /\ Put(t)' = Put(t)
    BY <1>4, <1>6, <2>4 DEF Put, SameOp
  <2>6. account' \in Tokens
    <3>1. op[t].stored.token \in 0..MaxTokens /\ 0 \in 0..MaxTokens
      BY <1>2, AccountAssumption DEF Stored
    <3>2. (IF op[t].kind = "delete" THEN 0 ELSE op[t].stored.token) \in 0..MaxTokens
      BY <3>1
    <3>3. op[t].was.account \in Tokens
      BY <1>2, <1>3
    <3> QED
      BY <2>5, <3>2, <3>3, SetToken DEF Put
  <2>7. AccountHeld(t)'
    BY <1>1, <2>1, <2>4, <2>5 DEF SameOp, AccountHeld, Persists
  <2>8. ActiveHeld(t)'
    BY <1>1, <1>3, <1>4, <1>5, <2>1, <2>4
    DEF SameOp, ActiveHeld, Persists, IsActive, sessionVars
  <2> QED
    BY <1>1, <1>2, <1>4, <1>5, <2>1, <2>2, <2>3, <2>6, <2>7, <2>8, CallGoesOn
<1>7. CASE ~ok
  <2>1. op' = [op EXCEPT ![t] = NoOp] /\ lock' = Nobody
    BY <1>2, <1>4, <1>7 DEF Call, Fail, EndsWith
  <2>2. broken' \in BOOLEAN
    BY <1>5 DEF StoreInv, ControlInv, TypesInv
  <2> QED
    BY <1>1, <1>2, <1>3, <1>4, <1>5, <1>7, <2>1, <2>2, CallEnds
<1> QED
  BY <1>6, <1>7

LEMMA LogoutActiveKeeps ==
    ASSUME StoreInv, NEW t \in Workers, LogoutActive(t)
    PROVE  StoreInv'
<1>1. /\ op[t].kind = "logout" /\ op[t].step = "active"
      /\ op[t].step \in LockedSteps /\ op[t].kind \notin Persists
  BY DEF LogoutActive, At, LockedSteps, Persists
<1>2. /\ lock = t /\ op[t] \in Ops /\ AccountHeld(t) /\ ActiveHeld(t)
      /\ account \in Tokens /\ active \in Stored \cup {NoStored}
  BY <1>1, Calling
<1>3. account = op[t].was.account /\ active = op[t].was.active
  BY <1>1, <1>2 DEF AccountHeld, ActiveHeld
<1>4. PICK ok \in BOOLEAN :
          /\ Call(t, ok, IF session = NoStored THEN "commit" ELSE "account")
          /\ account' = account /\ active' = IF ok THEN NoStored ELSE active
  BY DEF LogoutActive
<1>5. UNCHANGED settingsVars /\ UNCHANGED <<sessionVars, phase, tokens, broken, out>>
  BY <1>4 DEF Call, boundVars
<1>6. CASE ok
  <2>1. PICK step \in {"commit", "account"} : Goto(t, step)
    BY <1>4, <1>6 DEF Call
  <2>2. lock' = lock
    BY <1>4, <1>6 DEF Call
  <2>3. Fits(op[t].kind, step, op[t].stored)
    BY <1>1 DEF Fits
  <2>4. SameOp(t) /\ op'[t].step = step
    BY <1>1, <2>1, CallIsSame
  <2>5. AccountHeld(t)' /\ ActiveHeld(t)'
    BY <1>1, <1>3, <1>4, <1>6, <2>4 DEF SameOp, AccountHeld, ActiveHeld, Persists
  <2> QED
    BY <1>1, <1>2, <1>4, <1>5, <1>6, <2>1, <2>2, <2>3, <2>5, CallGoesOn
<1>7. CASE ~ok
  <2>1. op' = [op EXCEPT ![t] = NoOp] /\ lock' = Nobody
    BY <1>2, <1>4, <1>7 DEF Call, Fail, EndsWith
  <2>2. broken' \in BOOLEAN
    BY <1>5 DEF StoreInv, ControlInv, TypesInv
  <2> QED
    BY <1>1, <1>2, <1>3, <1>4, <1>5, <1>7, <2>1, <2>2, CallEnds
<1> QED
  BY <1>6, <1>7

LEMMA SecondActiveKeeps ==
    ASSUME StoreInv, NEW t \in Workers, SecondActive(t)
    PROVE  StoreInv'
<1>1. /\ op[t].kind \in {"update", "delete"} /\ op[t].step = "active"
      /\ op[t].step \in LockedSteps /\ op[t].kind \notin Persists
  BY DEF SecondActive, At, LockedSteps, Persists
<1>2. /\ lock = t /\ op[t] \in Ops /\ AccountHeld(t) /\ ActiveHeld(t) /\ op[t].stored \in Stored
      /\ account \in Tokens /\ active \in Stored \cup {NoStored}
  BY <1>1, Calling
<1>3. account = Put(t) /\ active = op[t].was.active /\ IsActive(op[t].stored.who)
  BY <1>1, <1>2 DEF AccountHeld, ActiveHeld
<1>4. PICK ok \in BOOLEAN :
          /\ SecondCall(t, ok) /\ account' = account
          /\ active' = IF ~ok THEN active
                       ELSE IF op[t].kind = "update" THEN op[t].stored ELSE NoStored
  BY DEF SecondActive
<1>5. /\ UNCHANGED settingsVars /\ UNCHANGED <<sessionVars, lock, phase, tokens, broken, out>>
  BY <1>4 DEF SecondCall, boundVars, historyVars
<1>6. PICK step \in {"commit", "restore"} : Goto(t, step) /\ step = IF ok THEN "commit" ELSE "restore"
  BY <1>4 DEF SecondCall
<1>7. Fits(op[t].kind, step, op[t].stored)
  BY <1>1, <1>2 DEF Fits
<1>8. SameOp(t) /\ op'[t].step = step
  BY <1>1, <1>6, CallIsSame
<1>9. Put(t)' = Put(t) /\ IsActive(op[t].stored.who)'
  BY <1>3, <1>5, <1>8 DEF Put, SameOp, IsActive, sessionVars
<1>10. AccountHeld(t)'
  BY <1>1, <1>3, <1>4, <1>6, <1>8, <1>9 DEF SameOp, AccountHeld, Persists
<1>11. ActiveHeld(t)'
  BY <1>1, <1>3, <1>4, <1>6, <1>8, <1>9 DEF SameOp, ActiveHeld, Persists
<1> QED
  BY <1>1, <1>2, <1>4, <1>5, <1>6, <1>7, <1>10, <1>11, CallGoesOn

LEMMA SecondAccountKeeps ==
    ASSUME StoreInv, NEW t \in Workers, SecondAccount(t)
    PROVE  StoreInv'
<1>1. /\ op[t].kind = "logout" /\ op[t].step = "account"
      /\ op[t].step \in LockedSteps /\ op[t].kind \notin Persists
  BY DEF SecondAccount, At, LockedSteps, Persists
<1>2. /\ lock = t /\ op[t] \in Ops /\ AccountHeld(t) /\ ActiveHeld(t)
      /\ account \in Tokens /\ active \in Stored \cup {NoStored}
  BY <1>1, Calling
<1>3. account = op[t].was.account /\ active = NoStored
  BY <1>1, <1>2 DEF AccountHeld, ActiveHeld
<1>4. PICK ok \in BOOLEAN :
          /\ SecondCall(t, ok) /\ active' = active
          /\ account' = IF ok THEN [account EXCEPT ![session.who] = 0] ELSE account
  BY DEF SecondAccount
<1>5. /\ UNCHANGED settingsVars /\ UNCHANGED <<sessionVars, lock, phase, tokens, broken, out>>
  BY <1>4 DEF SecondCall, boundVars, historyVars
<1>6. PICK step \in {"commit", "restore"} : Goto(t, step) /\ step = IF ok THEN "commit" ELSE "restore"
  BY <1>4 DEF SecondCall
<1>7. Fits(op[t].kind, step, op[t].stored)
  BY <1>1 DEF Fits
<1>8. SameOp(t) /\ op'[t].step = step
  BY <1>1, <1>6, CallIsSame
<1>9. account' \in Tokens
  BY <1>2, <1>4, SetToken
<1>10. AccountHeld(t)' /\ ActiveHeld(t)'
  BY <1>1, <1>3, <1>4, <1>6, <1>8 DEF SameOp, AccountHeld, ActiveHeld, Persists
<1> QED
  BY <1>1, <1>2, <1>4, <1>5, <1>6, <1>7, <1>9, <1>10, CallGoesOn

LEMMA RestoreFirstKeeps ==
    ASSUME StoreInv, NEW t \in Workers, RestoreFirst(t)
    PROVE  StoreInv'
<1>1. /\ op[t].step = "restore" /\ op[t].step \in LockedSteps
      /\ UNCHANGED settingsVars /\ UNCHANGED <<sessionVars, phase, tokens, out>>
  BY DEF RestoreFirst, LockedSteps, boundVars
<1>2. op[t].kind \in {"update", "delete", "logout"} /\ op[t].kind \notin Persists
  BY <1>1, Holding DEF Fits, Persists
<1>3. /\ lock = t /\ op[t] \in Ops /\ AccountHeld(t) /\ ActiveHeld(t)
      /\ account \in Tokens /\ active \in Stored \cup {NoStored}
      /\ op[t].was.account \in Tokens /\ op[t].was.active \in Stored \cup {NoStored}
      /\ op[t].kind \in {"update", "delete"} => op[t].stored \in Stored
      /\ broken \in BOOLEAN
  BY <1>1, <1>2, Calling DEF StoreInv, ControlInv, TypesInv
<1>4. op' = [op EXCEPT ![t] = NoOp] /\ lock' = Nobody
  BY <1>3 DEF RestoreFirst, EndsWith
<1>5. CASE op[t].kind = "logout"
  <2>1. account' = account /\ account = op[t].was.account
    BY <1>1, <1>3, <1>5 DEF RestoreFirst, AccountHeld
  <2>2. PICK ok \in BOOLEAN : /\ active' = IF ok THEN op[t].was.active ELSE active
                              /\ broken' = (broken \/ ~ok)
    BY <1>5 DEF RestoreFirst
  <2> QED
    BY <1>1, <1>2, <1>3, <1>4, <2>1, <2>2, CallEnds
<1>6. CASE op[t].kind # "logout"
  <2>1. active' = active /\ active = op[t].was.active
    BY <1>1, <1>2, <1>3, <1>6 DEF RestoreFirst, ActiveHeld
  <2>2. PICK ok \in BOOLEAN :
            account' = IF ok THEN [account EXCEPT ![op[t].stored.who] = First(t)] ELSE account
    BY <1>6 DEF RestoreFirst
  <2>3. broken' = (broken \/ account' # op[t].was.account)
    BY <1>6 DEF RestoreFirst
  <2>4. First(t) \in 0..MaxTokens
    BY <1>2, <1>3, <1>6, AccountAssumption DEF First, Stored, Tokens
  <2>5. account' \in Tokens
    BY <1>3, <2>2, <2>4 DEF Tokens
  <2> QED
    BY <1>1, <1>2, <1>3, <1>4, <2>1, <2>3, <2>5, CallEnds
<1> QED
  BY <1>5, <1>6

-----------------------------------------------------------------------------
(***************************************************************************)
(* The commit, the crash and the start.                                    *)
(***************************************************************************)
LEMMA CommitControl ==
    ASSUME StoreInv, NEW t \in Workers, Commit(t)
    PROVE  ControlInv'
<1>1. /\ op[t].step = "commit" /\ op[t].step \in LockedSteps /\ lock' = Nobody
      /\ UNCHANGED <<settingsVars, storeVars, phase, tokens, broken>>
  BY DEF Commit, LockedSteps, boundVars
<1>2. /\ lock = t /\ op[t] \in Ops /\ op[t].kind # "none"
      /\ Fits(op[t].kind, op[t].step, op[t].stored)
      /\ account \in Tokens /\ active \in Stored \cup {NoStored}
  BY <1>1, Holding
<1>3. UNCHANGED <<data, saver>>
  BY <1>1 DEF settingsVars, saveVars
<1>4. /\ op \in [Workers -> Ops]
      /\ op'[t] = NoOp
      /\ \A u \in Workers :
             u # t => op'[u] = IF SignsOut(t) THEN [op[u] EXCEPT !.recent = FALSE] ELSE op[u]
      /\ op' = [u \in Workers |-> op'[u]]
  BY DEF Commit, StoreInv, ControlInv, OpsInv
<1>5. ASSUME NEW u \in Workers, u # t
      PROVE  /\ op'[u] \in Ops /\ op'[u].kind = op[u].kind /\ op'[u].step = op[u].step
             /\ op'[u].stored = op[u].stored /\ op'[u].gen = op[u].gen
             /\ ~op'[u].recent => SignsOut(t) \/ ~op[u].recent
  <2>1. op[u] \in Ops
    BY <1>4
  <2> QED
    BY <1>4, <1>5, <2>1 DEF Ops
<1>6. op' \in [Workers -> Ops]
  BY <1>4, <1>5, NoOpIsOp
<1>7. OpsInv'
  BY <1>4, <1>5, <1>6, NoOpIsOp, WorkersApart DEF StoreInv, ControlInv, OpsInv, Fits
<1>8. SignsIn(t) => op[t].stored \in Stored
  BY <1>1, <1>2 DEF SignsIn, Fits, Persists
<1>9. generation \in Nat /\ generation' \in {generation, generation + 1}
  <2>1. generation \in Nat
    BY DEF StoreInv, ControlInv, TypesInv
  <2>2. generation' = generation + 1 \/ generation' = generation
    BY Zenon DEF Commit
  <2> QED
    BY <2>1, <2>2
<1>10. TypesInv'
  <2>1. session' \in Stored \cup {NoStored}
    BY <1>8 DEF Commit, StoreInv, ControlInv, TypesInv
  <2>2. out' \in BOOLEAN
    BY DEF Commit, StoreInv, ControlInv, TypesInv
  <2> QED
    BY <1>1, <1>9, <2>1, <2>2 DEF StoreInv, ControlInv, TypesInv, storeVars
<1>11. LockInv'
  BY <1>1, <1>2, <1>4, <1>5, NoOpIsOp, WorkersApart
  DEF StoreInv, ControlInv, LockInv, LockedSteps
<1>12. SaverInv'
  <2>1. saver[t].at = "idle"
    BY <1>1, Holding
  <2> QED
    BY <1>3, <1>4, <1>5, <2>1, NoOpIsOp DEF StoreInv, ControlInv, SaverInv
<1>13. PhaseInv'
  BY <1>1, <1>2 DEF StoreInv, ControlInv, PhaseInv
<1>14. RecentInv'
  <2> SUFFICES ASSUME NEW u \in Workers
               PROVE  /\ op'[u].gen <= generation'
                      /\ ~op'[u].recent => u = AuthWorker /\ lock' # u
                             /\ (op'[u].kind # "none" => op'[u].gen < generation')
    BY DEF RecentInv
  <2>1. CASE u = t
    BY <1>4, <1>9, <2>1, NoOpIsOp
  <2>2. CASE u # t
    <3>1. /\ op[u].gen \in Nat /\ op[u].gen <= generation
          /\ ~op[u].recent => u = AuthWorker /\ (op[u].kind # "none" => op[u].gen < generation)
      BY <1>4 DEF StoreInv, ControlInv, RecentInv, Ops
    <3>2. lock' # u
      BY <1>1, WorkersApart
    <3>3. SignsOut(t) => u = AuthWorker /\ generation' = generation + 1
      <4>1. SignsOut(t) => op[t].kind \in {"logout", "delete"}
        BY DEF SignsOut
      <4>2. SignsOut(t) => t # AuthWorker
        BY <4>1 DEF StoreInv, ControlInv, OpsInv
      <4> QED
        BY <2>2, <4>2 DEF Workers, Commit
    <3> QED
      BY <1>5, <1>9, <2>2, <3>1, <3>2, <3>3
  <2> QED
    BY <2>1, <2>2
<1> QED
  BY <1>7, <1>10, <1>11, <1>12, <1>13, <1>14 DEF ControlInv

LEMMA CommitKeeps ==
    ASSUME StoreInv, NEW t \in Workers, Commit(t)
    PROVE  StoreInv'
<1>1. /\ op[t].step = "commit" /\ op[t].step \in LockedSteps /\ lock' = Nobody
      /\ UNCHANGED <<settingsVars, account, active, phase, tokens, broken>>
  BY DEF Commit, LockedSteps, boundVars, storeVars
<1>2. SettingsInv' /\ UNCHANGED <<data, saver>>
  BY <1>1, SettingsStay DEF StoreInv
<1>3. /\ lock = t /\ op[t] \in Ops /\ op[t].recent
      /\ Fits(op[t].kind, op[t].step, op[t].stored)
      /\ WasHeld(t) /\ AccountHeld(t) /\ ActiveHeld(t)
      /\ account \in Tokens /\ active \in Stored \cup {NoStored}
  BY <1>1, Holding
<1>4. /\ session' = IF SignsIn(t) THEN op[t].stored
                    ELSE IF SignsOut(t) THEN NoStored ELSE session
      /\ out' = IF SignsOut(t) THEN TRUE ELSE IF SignsIn(t) THEN FALSE ELSE out
  BY <1>3 DEF Commit
<1>5. op[t].was.account \in Tokens /\ session \in Stored \cup {NoStored}
  BY <1>3 DEF Ops, Before, StoreInv, ControlInv, TypesInv
<1>6. FreeInv'
  <2> SUFFICES ASSUME ~broken
               PROVE  /\ session' # NoStored => /\ active = session'
                                                /\ account[session'.who] = session'.token
                      /\ out' => active = NoStored /\ session' = NoStored
    BY <1>1, <1>2 DEF FreeInv, Persisted, SignedOut
  <2>1. /\ session # NoStored =>
               /\ op[t].was.active = session
               /\ op[t].was.account[session.who] = session.token
        /\ out => op[t].was.active = NoStored /\ session = NoStored
    BY <1>3 DEF WasHeld, Persisted, SignedOut
  <2>2. CASE op[t].kind \in Persists
    <3>1. SignsIn(t) /\ ~SignsOut(t) /\ op[t].stored \in Stored
      BY <1>1, <1>3, <2>2 DEF SignsIn, SignsOut, Persists, Fits
    <3>2. active = op[t].stored /\ account = Put(t)
      BY <1>1, <1>3, <2>2 DEF ActiveHeld, AccountHeld, UrlHeld
    <3>3. account[op[t].stored.who] = op[t].stored.token
      BY <1>5, <2>2, <3>1, <3>2 DEF Put, Tokens, Stored, Persists
    <3> QED
      BY <1>4, <3>1, <3>2, <3>3
  <2>3. CASE op[t].kind \in {"update", "delete"} /\ IsActive(op[t].stored.who)
    <3>1. /\ op[t].stored \in Stored /\ session # NoStored /\ session.who = op[t].stored.who
          /\ account = Put(t)
          /\ active = IF op[t].kind = "update" THEN op[t].stored ELSE NoStored
      BY <1>1, <1>3, <2>3
      DEF IsActive, Fits, Persists, AccountHeld, ActiveHeld
    <3>2. CASE op[t].kind = "update"
      <4>1. SignsIn(t) /\ ~SignsOut(t)
        BY <2>3, <3>2 DEF SignsIn, SignsOut
      <4>2. account[op[t].stored.who] = op[t].stored.token
        BY <1>5, <3>1, <3>2 DEF Put, Tokens, Stored
      <4> QED
        BY <1>4, <2>1, <3>1, <3>2, <4>1, <4>2
    <3>3. CASE op[t].kind = "delete"
      <4>1. ~SignsIn(t) /\ SignsOut(t)
        BY <2>3, <3>3 DEF SignsIn, SignsOut, Persists
      <4> QED
        BY <1>4, <3>1, <3>3, <4>1
    <3> QED
      BY <2>3, <3>2, <3>3
  <2>4. CASE op[t].kind \in {"update", "delete"} /\ ~IsActive(op[t].stored.who)
    <3>1. ~SignsIn(t) /\ ~SignsOut(t)
      BY <2>4 DEF SignsIn, SignsOut, Persists
    <3>2. /\ account = Put(t) /\ active = op[t].was.active
          /\ session # NoStored => session.who # op[t].stored.who
      BY <1>1, <1>3, <2>4 DEF IsActive, Persists, AccountHeld, ActiveHeld
    <3>3. session # NoStored => session.who \in Accounts
      BY <1>5 DEF Stored
    <3>4. session # NoStored => account[session.who] = op[t].was.account[session.who]
      BY <1>5, <3>2, <3>3 DEF Put, Tokens
    <3> QED
      BY <1>4, <2>1, <3>1, <3>2, <3>4
  <2>5. CASE op[t].kind = "logout"
    <3>1. ~SignsIn(t) /\ SignsOut(t)
      BY <2>5 DEF SignsIn, SignsOut, Persists
    <3>2. active = NoStored
      BY <1>1, <1>3, <2>5 DEF ActiveHeld
    <3> QED
      BY <1>4, <3>1, <3>2
  <2>6. CASE op[t].kind = "proxy"
    <3>1. ~SignsIn(t) /\ ~SignsOut(t)
      BY <2>6 DEF SignsIn, SignsOut, Persists
    <3>2. account = op[t].was.account /\ active = op[t].was.active
      BY <1>3, <2>6 DEF AccountHeld, ActiveHeld, Persists
    <3> QED
      BY <1>4, <2>1, <3>1, <3>2
  <2> QED
    BY <1>1, <1>3, <2>2, <2>3, <2>4, <2>5, <2>6 DEF Fits
<1>7. HeldInv'
  BY <1>1, WorkersApart DEF HeldInv
<1> QED
  BY <1>2, <1>6, <1>7, CommitControl DEF StoreInv

\* Outside the running phase nothing is under way.
LEMMA StartingIsQuiet ==
    ASSUME StoreInv, phase # "up"
    PROVE  /\ session = NoStored /\ lock = Nobody
           /\ \A t \in Workers : op[t].kind = "none" /\ op[t].step \notin LockedSteps
<1>1. session = NoStored /\ \A t \in Workers : op[t].kind = "none"
  BY DEF StoreInv, ControlInv, PhaseInv
<1>2. \A t \in Workers : op[t].step \notin LockedSteps
  BY <1>1 DEF StoreInv, ControlInv, OpsInv, Fits, Persists, LockedSteps
<1> QED
  BY <1>1, <1>2 DEF StoreInv, ControlInv, LockInv, TypesInv

LEMMA CrashKeeps ==
    ASSUME StoreInv, Crash
    PROVE  StoreInv'
<1>1. SettingsInv'
  BY DEF Crash, StoreInv, SettingsInv, SettingsTypeOK, SnapshotsAreTaken, NewestIsSomewhere,
         RestsWhenDone, Idle, Places
<1>2. /\ op' = [t \in Workers |-> NoOp] /\ lock' = Nobody /\ session' = NoStored
      /\ generation' = 0 /\ phase' = "starting" /\ out' = (out /\ lock = Nobody)
      /\ UNCHANGED <<account, active, tokens, broken>>
  BY DEF Crash, storeVars
<1>3. OpsInv' /\ LockInv' /\ SaverInv' /\ PhaseInv' /\ RecentInv'
  <2>1. \A t \in Workers : saver'[t].at = "idle"
    BY WorkersApart DEF Crash, Idle
  <2> QED
    BY <1>2, <2>1, NoOpIsOp, WorkersApart
    DEF OpsInv, LockInv, SaverInv, PhaseInv, RecentInv, Fits, LockedSteps
<1>4. TypesInv'
  BY <1>2 DEF StoreInv, ControlInv, TypesInv
<1>5. FreeInv'
  BY <1>2 DEF StoreInv, FreeInv, Persisted, SignedOut
<1>6. HeldInv'
  BY <1>2, WorkersApart DEF HeldInv
<1> QED
  BY <1>1, <1>3, <1>4, <1>5, <1>6 DEF StoreInv, ControlInv

LEMMA StartKeeps ==
    ASSUME StoreInv, Start
    PROVE  StoreInv'
<1>1. phase # "up" /\ UNCHANGED <<settingsVars, lock, active, op, tokens, broken, out>>
  BY DEF Start, StartSignedOut, RestoreAccount, RestoreSession, OnlyStart, boundVars, historyVars
<1>2. SettingsInv' /\ UNCHANGED <<data, saver>>
  BY <1>1, SettingsStay DEF StoreInv
<1>3. /\ session = NoStored /\ lock = Nobody
      /\ \A t \in Workers : op[t].kind = "none" /\ op[t].step \notin LockedSteps
      /\ account \in Tokens /\ active \in Stored \cup {NoStored} /\ generation \in Nat
  BY <1>1, StartingIsQuiet DEF StoreInv, ControlInv, TypesInv
<1>4. /\ phase' \in {"restoring", "up"} /\ account' \in Tokens
      /\ session' \in {NoStored, active} /\ generation' \in {generation, generation + 1}
      /\ phase' = "restoring" => /\ session' = NoStored /\ active # NoStored
                                 /\ account'[active.who] = active.token
                                 /\ data = ServerOf[active.who]
      /\ session' # NoStored => /\ active # NoStored /\ account'[active.who] = active.token
                                /\ data = ServerOf[active.who]
  <2>1. CASE StartSignedOut
    BY <1>3, <2>1 DEF StartSignedOut, sessionVars
  <2>2. CASE RestoreAccount
    <3>1. active \in Stored
      BY <1>3, <2>2 DEF RestoreAccount
    <3>2. account' \in Tokens
      <4>1. active.who \in Accounts /\ active.token \in 0..MaxTokens
        BY <3>1, AccountAssumption DEF Stored
      <4> QED
        BY <1>3, <2>2, <4>1 DEF RestoreAccount, Tokens
    <3>3. account'[active.who] = active.token
      BY <1>3, <2>2, <3>1 DEF RestoreAccount, Stored, Tokens
    <3> QED
      BY <1>3, <2>2, <3>2, <3>3 DEF RestoreAccount, sessionVars
  <2>3. CASE \E ok \in BOOLEAN : RestoreSession(ok)
    BY <1>3, <2>3 DEF RestoreSession, StoreInv, ControlInv, PhaseInv
  <2> QED
    BY <2>1, <2>2, <2>3 DEF Start
<1>5. OpsInv' /\ LockInv' /\ SaverInv'
  BY <1>1, <1>2 DEF StoreInv, ControlInv, OpsInv, LockInv, SaverInv
<1>6. TypesInv'
  BY <1>1, <1>3, <1>4 DEF StoreInv, ControlInv, TypesInv
<1>7. PhaseInv'
  BY <1>1, <1>2, <1>3, <1>4 DEF PhaseInv
<1>8. RecentInv'
  <2>1. \A t \in Workers : op[t].gen \in Nat
    BY DEF StoreInv, ControlInv, OpsInv, Ops
  <2> QED
    BY <1>1, <1>3, <1>4, <2>1 DEF StoreInv, ControlInv, RecentInv
<1>9. FreeInv'
  BY <1>1, <1>2, <1>3, <1>4 DEF StoreInv, FreeInv, Persisted, SignedOut
<1>10. HeldInv'
  BY <1>1, <1>3, WorkersApart DEF HeldInv
<1> QED
  BY <1>2, <1>5, <1>6, <1>7, <1>8, <1>9, <1>10 DEF StoreInv, ControlInv

-----------------------------------------------------------------------------
(***************************************************************************)
(* The invariant holds.                                                    *)
(***************************************************************************)
LEMMA AccountInitEstablishes ==
    ASSUME AccountInit
    PROVE  StoreInv
<1>1. SettingsInv
  BY InitEstablishes DEF AccountInit
<1>2. /\ session = NoStored /\ active = NoStored /\ lock = Nobody /\ generation = 0
      /\ account = [a \in Accounts |-> 0] /\ op = [t \in Workers |-> NoOp]
      /\ phase = "starting" /\ tokens = 0 /\ broken = FALSE /\ out = FALSE
  BY DEF AccountInit
<1>3. account \in Tokens
  <2>1. 0 \in 0..MaxTokens
    BY AccountAssumption
  <2> QED
    BY <1>2, <2>1 DEF Tokens
<1>4. OpsInv
  BY <1>2, NoOpIsOp, WorkersApart DEF OpsInv, Fits
<1>5. TypesInv
  BY <1>2, <1>3 DEF TypesInv
<1>6. LockInv /\ SaverInv /\ PhaseInv /\ RecentInv
  <2>1. \A t \in Workers : saver[t].at = "idle"
    BY WorkersApart DEF AccountInit, SettingsInit, Idle
  <2> QED
    BY <1>2, <2>1, NoOpIsOp, WorkersApart
    DEF LockInv, SaverInv, PhaseInv, RecentInv, LockedSteps
<1>7. FreeInv /\ HeldInv
  BY <1>2, WorkersApart DEF FreeInv, HeldInv, Persisted, SignedOut
<1> QED
  BY <1>1, <1>4, <1>5, <1>6, <1>7 DEF StoreInv, ControlInv

LEMMA OperateKeeps ==
    ASSUME StoreInv, NEW t \in Workers, Operate(t)
    PROVE  StoreInv'
<1>1. CASE Answer(t)
  BY <1>1, AnswerKeeps
<1>2. CASE Discover(t)
  BY <1>2, DiscoverKeeps
<1>3. CASE GivesUp(t)
  BY <1>3, GivesUpKeeps
<1>4. CASE Lock(t)
  BY <1>4, LockKeeps
<1>5. CASE PersistSteps(t)
  <2>1. CASE SelectServer(t)
    BY <2>1, SelectServerKeeps
  <2>2. CASE SaveServer(t)
    BY <2>2, SaveServerKeeps
  <2>3. CASE PersistAccount(t)
    BY <2>3, PersistAccountKeeps
  <2>4. CASE PersistActive(t)
    BY <2>4, PersistActiveKeeps
  <2>5. CASE UndoOne(t)
    BY <2>5, UndoOneKeeps
  <2>6. CASE UndoServer(t)
    BY <2>6, UndoServerKeeps
  <2>7. CASE EndUndo(t)
    BY <2>7, EndUndoKeeps
  <2> QED
    BY <1>5, <2>1, <2>2, <2>3, <2>4, <2>5, <2>6, <2>7 DEF PersistSteps
<1>6. CASE CredentialSteps(t)
  <2>1. CASE UpdateAccount(t) \/ DeleteAccount(t)
    BY <2>1, FirstAccountKeeps
  <2>2. CASE LogoutActive(t)
    BY <2>2, LogoutActiveKeeps
  <2>3. CASE SecondActive(t)
    BY <2>3, SecondActiveKeeps
  <2>4. CASE SecondAccount(t)
    BY <2>4, SecondAccountKeeps
  <2>5. CASE RestoreFirst(t)
    BY <2>5, RestoreFirstKeeps
  <2>6. CASE SaveProxy(t)
    BY <2>6, SaveProxyKeeps
  <2> QED
    BY <1>6, <2>1, <2>2, <2>3, <2>4, <2>5, <2>6 DEF CredentialSteps
<1>7. CASE Commit(t)
  BY <1>7, CommitKeeps
<1> QED
  BY <1>1, <1>2, <1>3, <1>4, <1>5, <1>6, <1>7 DEF Operate

LEMMA StoreStepKeeps == StoreInv /\ [AccountNext]_accountVars => StoreInv'
<1> SUFFICES ASSUME StoreInv, [AccountNext]_accountVars PROVE StoreInv'
  OBVIOUS
<1>1. CASE \/ \E a \in Accounts : BeginSwitch(a) \/ BeginDelete(a) \/ BeginUpdate(a)
           \/ BeginLogin \/ BeginLogout \/ BeginProxy
  BY <1>1, BeginKeeps
<1>2. CASE \E t \in Workers : Operate(t)
  BY <1>2, OperateKeeps
<1>3. CASE Start
  BY <1>3, StartKeeps
<1>4. CASE Crash
  BY <1>4, CrashKeeps
<1>5. CASE OtherSettings
  BY <1>5, OtherSettingsKeeps
<1>6. CASE SettingsWorker
  BY <1>6, SettingsWorkerKeeps
<1>7. CASE UNCHANGED accountVars
  <2>1. /\ UNCHANGED settingsVars
        /\ UNCHANGED <<op, tokens, sessionVars, lock, storeVars, phase, broken, out>>
    BY <1>7 DEF accountVars, boundVars, historyVars
  <2>2. SettingsInv' /\ UNCHANGED <<data, saver>>
    BY <2>1, SettingsStay DEF StoreInv
  <2> QED
    BY <2>1, <2>2, QuietKeeps
<1> QED
  BY <1>1, <1>2, <1>3, <1>4, <1>5, <1>6, <1>7 DEF AccountNext

-----------------------------------------------------------------------------
(***************************************************************************)
(* The invariant: the selected server, in memory and in the file.          *)
(***************************************************************************)
\* What the file holds once the worker has nothing left to write.
Filed == IF pending # NoData THEN pending ELSE IF writing # NoData THEN writing ELSE disk

\* Whoever carries a snapshot carries what is in memory.
CarriedInv ==
    \A t \in Workers : saver[t].at \in {"saving", "handing"} => saver[t].snap = data

\* When nobody is about to save something else, the file will hold what is in
\* memory, unless the server could not be saved on the way back.
FiledInv ==
    (\A t \in Workers : /\ saver[t].at = "idle" \/ op[t].kind = "proxy"
                        /\ op[t].step = "undo" => ~op[t].failed) => Filed = data

\* Nobody else is saving.
Alone(t) == /\ \A u \in Workers \ {t} : saver[u].at = "idle"
            /\ pending = NoData /\ writing = NoData

\* A sign-in that has selected another server saves alone, and knows which of
\* the two servers is in memory and which in the file.
SelectedHeld(t) ==
    /\ op[t].was.url # Server(t) /\ ~(op[t].step = "url" /\ saver[t].at = "idle") => Alone(t)
    /\ op[t].step = "url" =>
           IF saver[t].at = "idle" THEN data = op[t].was.url
           ELSE data = Server(t) /\ disk = op[t].was.url
    /\ op[t].step \in {"account", "active", "commit"} => data = Server(t)
    /\ op[t].step = "undo" /\ (saver[t].at # "idle" \/ "url" \notin Left(op[t].undo)) =>
           data = op[t].was.url

SigningIn(t) == lock = t /\ op[t].kind \in Persists

\* The server of the session is the selected one, or was when the sign-in under
\* way took the lock.
ServerKept ==
    ~moved /\ session # NoStored =>
        /\ \A t \in Workers : SigningIn(t) => op[t].was.url = ServerOf[session.who]
        /\ (\A t \in Workers : ~SigningIn(t)) => data = ServerOf[session.who]

UncrossedInv ==
    /\ CarriedInv /\ FiledInv /\ ServerKept
    /\ \A t \in Workers : SigningIn(t) => SelectedHeld(t)

FileInv ==
    /\ stop = FALSE /\ (worker # "writing" => writing = NoData)
    /\ moved \in BOOLEAN /\ crossed \in BOOLEAN
    /\ ~crossed /\ ~broken => UncrossedInv

\* The other thread's operation, but for when it began.
SameOther(t) ==
    \A u \in Workers : u # t =>
        /\ op'[u].kind = op[u].kind /\ op'[u].step = op[u].step
        /\ op'[u].stored = op[u].stored /\ op'[u].was = op[u].was
        /\ op'[u].undo = op[u].undo /\ op'[u].failed = op[u].failed

LEMMA FilesInit ==
    ASSUME AccountInit
    PROVE  FileInv
<1>1. /\ disk = data /\ saver = [t \in Savers |-> Idle] /\ stop = FALSE
      /\ pending = NoData /\ writing = NoData /\ lock = Nobody /\ session = NoStored
      /\ moved = FALSE /\ crossed = FALSE
  BY DEF AccountInit, SettingsInit
<1>2. \A t \in Workers : saver[t].at = "idle" /\ ~SigningIn(t)
  BY <1>1, WorkersApart DEF Idle, SigningIn
<1>3. UncrossedInv
  BY <1>1, <1>2 DEF UncrossedInv, CarriedInv, FiledInv, Filed, ServerKept
<1> QED
  BY <1>1, <1>3 DEF FileInv

\* Whoever saves outside a sign-in is seen by it.
LEMMA NotAlone ==
    ASSUME StoreInv, UncrossedInv, NEW u \in Workers, SigningIn(u), ~Alone(u)
    PROVE  /\ ~(op[u].step = "url" /\ saver[u].at # "idle")
           /\ op[u].step = "url" \/ op[u].was.url = Server(u)
<1>1. SelectedHeld(u) /\ UrlHeld(u)
  BY DEF UncrossedInv, SigningIn, StoreInv, HeldInv
<1> QED
  BY <1>1 DEF SelectedHeld, UrlHeld, SigningIn

\* A step of thread t that leaves the settings and their saves alone.
LEMMA FilesStay ==
    ASSUME StoreInv, FileInv, NEW t \in Workers, UNCHANGED settingsVars, UNCHANGED crossed,
           moved' \in BOOLEAN, SameOther(t), saver[t].at = "idle",
           lock' \in {lock, t, Nobody}, ~broken' => ~broken,
           ~crossed /\ ~broken' =>
               /\ op[t].step = "undo" /\ op[t].failed =>
                      op'[t].step = "undo" /\ op'[t].failed
               /\ SigningIn(t)' => SelectedHeld(t)'
               /\ ServerKept'
    PROVE  FileInv'
<1>1. UNCHANGED <<data, disk, saver, pending, stop, worker, writing>>
  BY DEF settingsVars, saveVars
<1>2. ASSUME ~crossed', ~broken' PROVE UncrossedInv'
  <2>1. UncrossedInv
    BY <1>2 DEF FileInv
  <2>2. CarriedInv'
    BY <1>1, <2>1 DEF UncrossedInv, CarriedInv
  <2>3. FiledInv'
    <3> SUFFICES ASSUME \A u \in Workers : /\ saver'[u].at = "idle" \/ op'[u].kind = "proxy"
                                           /\ op'[u].step = "undo" => ~op'[u].failed
                 PROVE  Filed' = data'
      BY DEF FiledInv
    <3>1. \A u \in Workers : /\ saver[u].at = "idle" \/ op[u].kind = "proxy"
                             /\ op[u].step = "undo" => ~op[u].failed
      BY <1>1, <1>2 DEF SameOther
    <3>2. Filed = data
      BY <2>1, <3>1 DEF UncrossedInv, FiledInv
    <3> QED
      BY <1>1, <3>2 DEF Filed
  <2>4. ASSUME NEW u \in Workers, SigningIn(u)' PROVE SelectedHeld(u)'
    <3>1. CASE u = t
      BY <1>2, <2>4, <3>1
    <3>2. CASE u # t
      <4>1. SigningIn(u)
        BY <2>4, <3>2, WorkersApart DEF SigningIn, SameOther
      <4>2. SelectedHeld(u)
        BY <2>1, <4>1 DEF UncrossedInv
      <4>3. /\ op'[u].step = op[u].step /\ op'[u].stored = op[u].stored
            /\ op'[u].was = op[u].was /\ op'[u].undo = op[u].undo
        BY <3>2 DEF SameOther
      <4> QED
        BY <1>1, <4>2, <4>3 DEF SelectedHeld, Alone, Server
    <3> QED
      BY <3>1, <3>2
  <2>5. ServerKept'
    BY <1>2
  <2> QED
    BY <2>2, <2>3, <2>4, <2>5 DEF UncrossedInv
<1> QED
  BY <1>1, <1>2 DEF FileInv

\* Such a step outside a sign-in that holds the lock.
LEMMA FilesApart ==
    ASSUME StoreInv, FileInv, NEW t \in Workers, UNCHANGED settingsVars,
           UNCHANGED <<session, fileHistory>>, SameOther(t), saver[t].at = "idle",
           lock' = lock \/ {lock, lock'} \subseteq {t, Nobody}, ~broken' => ~broken,
           ~SigningIn(t), ~SigningIn(t)', op[t].step # "undo"
    PROVE  FileInv'
<1>1. UNCHANGED <<moved, crossed>> /\ UNCHANGED data /\ moved \in BOOLEAN
  BY DEF fileHistory, settingsVars, saveVars, FileInv
<1>2. \A u \in Workers : SigningIn(u)' <=> SigningIn(u)
  BY WorkersApart DEF SigningIn, SameOther
<1>3. ASSUME ~crossed, ~broken' PROVE ServerKept'
  <2>1. ServerKept
    BY <1>3 DEF FileInv, UncrossedInv
  <2>2. \A u \in Workers : SigningIn(u) => op'[u].was = op[u].was
    BY DEF SameOther
  <2> QED
    BY <1>1, <1>2, <2>1, <2>2 DEF ServerKept
<1>4. lock' \in {lock, t, Nobody}
  OBVIOUS
<1> QED
  BY <1>1, <1>3, <1>4, FilesStay

-----------------------------------------------------------------------------
(***************************************************************************)
(* The file and the steps that do not save.                                *)
(***************************************************************************)
LEMMA BeginFiles ==
    ASSUME StoreInv, FileInv,
           \/ \E a \in Accounts : BeginSwitch(a) \/ BeginDelete(a) \/ BeginUpdate(a)
           \/ BeginLogin \/ BeginLogout \/ BeginProxy
    PROVE  FileInv'
<1>1. PICK t \in Workers : \E kind, stored, step : Begin(t, kind, stored, step)
  BY WorkersApart
  DEF BeginSwitch, BeginDelete, BeginUpdate, BeginLogin, BeginLogout, BeginProxy
<1>2. /\ op[t].kind = "none" /\ saver[t].at = "idle"
      /\ UNCHANGED settingsVars /\ UNCHANGED <<session, fileHistory, lock, broken>>
  BY <1>1 DEF Begin, sessionVars, historyVars
<1>3. SameOther(t)
  BY <1>1 DEF Begin, StoreInv, ControlInv, OpsInv, SameOther
<1>4. op[t].step = "idle"
  BY <1>2 DEF StoreInv, ControlInv, OpsInv, Fits, Persists
<1>5. lock # t
  BY <1>4 DEF StoreInv, ControlInv, LockInv, LockedSteps
<1> QED
  BY <1>2, <1>3, <1>4, <1>5, FilesApart DEF SigningIn

LEMMA WaitingFiles ==
    ASSUME StoreInv, FileInv, NEW t \in Workers, Answer(t) \/ Discover(t) \/ GivesUp(t)
    PROVE  FileInv'
<1>1. /\ op[t].step \in {"network", "lock"}
      /\ UNCHANGED settingsVars /\ UNCHANGED <<session, fileHistory, broken>>
  BY DEF Answer, Discover, GivesUp, At, Fail, EndsWith, sessionVars, historyVars
<1>2. lock # t /\ saver[t].at = "idle"
  BY <1>1, Waiting
<1>3. lock' = lock
  BY <1>2 DEF Answer, Discover, GivesUp, Fail, EndsWith
<1>4. SameOther(t)
  BY DEF Answer, Discover, GivesUp, Goto, Fail, EndsWith, StoreInv, ControlInv, OpsInv, SameOther
<1> QED
  BY <1>1, <1>2, <1>3, <1>4, FilesApart DEF SigningIn

LEMMA LockFiles ==
    ASSUME StoreInv, FileInv, NEW t \in Workers, Lock(t)
    PROVE  FileInv'
<1>1. /\ op[t].step = "lock" /\ lock = Nobody /\ t # Nobody
      /\ UNCHANGED settingsVars /\ UNCHANGED <<session, fileHistory, broken>>
  BY WorkersApart DEF Lock, sessionVars
<1>2. saver[t].at = "idle" /\ op[t].kind # "none"
  BY <1>1, Waiting
<1>3. CASE ~Accepted(t)
  <2>1. lock' = lock /\ SameOther(t)
    BY <1>1, <1>3 DEF Lock, Fail, EndsWith, StoreInv, ControlInv, OpsInv, SameOther
  <2> QED
    BY <1>1, <1>2, <2>1, FilesApart DEF SigningIn
<1>4. CASE Accepted(t)
  <2> DEFINE found == [url |-> data, account |-> account, active |-> active]
             first == FirstStep[op[t].kind]
  <2>1. lock' = t /\ op' = [op EXCEPT ![t].step = first, ![t].was = found]
    BY <1>4 DEF Lock
  <2>2. SameOther(t)
    BY <2>1 DEF StoreInv, ControlInv, OpsInv, SameOther
  <2>3. op[t] \in Ops
    BY DEF StoreInv, ControlInv, OpsInv
  <2>4. op[t].kind \in Persists => first = "url"
    BY DEF FirstStep, Persists
  <2> HIDE DEF first
  <2>5. op'[t].step = first /\ op'[t].was.url = data /\ op'[t].kind = op[t].kind
    BY <2>1, <2>3 DEF StoreInv, ControlInv, OpsInv, Ops
  <2>6. UNCHANGED <<data, saver, moved, crossed>> /\ moved \in BOOLEAN
    BY <1>1 DEF settingsVars, saveVars, fileHistory, FileInv
  <2>7. SigningIn(t)' => SelectedHeld(t)'
    BY <1>2, <2>4, <2>5, <2>6 DEF SigningIn, SelectedHeld
  <2>8. ASSUME ~crossed, ~broken' PROVE ServerKept'
    <3>1. ServerKept /\ \A u \in Workers : ~SigningIn(u)
      BY <1>1, <2>8, WorkersApart DEF FileInv, UncrossedInv, SigningIn
    <3>2. \A u \in Workers : SigningIn(u)' => op'[u].was.url = data
      BY <2>1, <2>5 DEF SigningIn
    <3> QED
      BY <1>1, <2>6, <3>1, <3>2 DEF ServerKept
  <2> QED
    BY <1>1, <1>2, <2>1, <2>2, <2>6, <2>7, <2>8, FilesStay
<1> QED
  BY <1>3, <1>4

LEMMA CredentialFiles ==
    ASSUME StoreInv, FileInv, NEW t \in Workers,
           \/ UpdateAccount(t) \/ DeleteAccount(t) \/ LogoutActive(t)
           \/ SecondActive(t) \/ SecondAccount(t) \/ RestoreFirst(t)
    PROVE  FileInv'
<1>1. /\ op[t].step \in {"account", "active", "restore"} /\ op[t].kind \notin Persists
      /\ op[t].step \in LockedSteps
  <2>1. CASE RestoreFirst(t)
    <3>1. op[t].step = "restore" /\ op[t].step \in LockedSteps
      BY <2>1 DEF RestoreFirst, LockedSteps
    <3> QED
      BY <3>1, Holding DEF Fits, Persists
  <2>2. CASE ~RestoreFirst(t)
    BY <2>2 DEF UpdateAccount, DeleteAccount, LogoutActive, SecondActive, SecondAccount, At,
                LockedSteps, Persists
  <2> QED
    BY <2>1, <2>2
<1>2. lock = t /\ saver[t].at = "idle"
  BY <1>1, Calling
<1>3. UNCHANGED settingsVars /\ UNCHANGED <<session, fileHistory>> /\ (~broken' => ~broken)
  <2>1. CASE UpdateAccount(t) \/ DeleteAccount(t) \/ LogoutActive(t)
    <3>1. PICK ok \in BOOLEAN : \E then : Call(t, ok, then)
      BY <2>1 DEF UpdateAccount, DeleteAccount, LogoutActive
    <3> QED
      BY <3>1 DEF Call, sessionVars
  <2>2. CASE SecondActive(t) \/ SecondAccount(t)
    <3>1. PICK ok \in BOOLEAN : SecondCall(t, ok)
      BY <2>2 DEF SecondActive, SecondAccount
    <3> QED
      BY <3>1 DEF SecondCall, sessionVars, historyVars
  <2>3. CASE RestoreFirst(t)
    <3>1. UNCHANGED settingsVars /\ UNCHANGED <<session, fileHistory>>
      BY <2>3 DEF RestoreFirst, sessionVars
    <3>2. ~broken' => ~broken
      BY <2>3, Zenon DEF RestoreFirst
    <3> QED
      BY <3>1, <3>2
  <2> QED
    BY <2>1, <2>2, <2>3
<1>4. lock' \in {t, Nobody}
  BY <1>2 DEF UpdateAccount, DeleteAccount, LogoutActive, SecondActive, SecondAccount,
              RestoreFirst, Call, SecondCall, Fail, EndsWith
<1>5. \/ op' = [op EXCEPT ![t] = NoOp]
      \/ \E step : Goto(t, step)
  BY DEF UpdateAccount, DeleteAccount, LogoutActive, SecondActive, SecondAccount,
         RestoreFirst, Call, SecondCall, Fail, EndsWith
<1>6. SameOther(t) /\ op'[t].kind \notin Persists
  <2>1. op[t] \in Ops /\ op \in [Workers -> Ops]
    BY DEF StoreInv, ControlInv, OpsInv
  <2>2. NoOp.kind \notin Persists
    BY NoOpIsOp DEF Persists
  <2>3. SameOther(t)
    BY <1>5, <2>1 DEF SameOther, Goto
  <2>4. op'[t].kind \in {op[t].kind, NoOp.kind}
    BY <1>5, <2>1 DEF Ops, Goto
  <2> QED
    BY <1>1, <2>2, <2>3, <2>4
<1> QED
  BY <1>1, <1>2, <1>3, <1>4, <1>6, FilesApart DEF SigningIn

LEMMA CommitFiles ==
    ASSUME StoreInv, FileInv, NEW t \in Workers, Commit(t)
    PROVE  FileInv'
<1>1. /\ op[t].step = "commit" /\ op[t].step \in LockedSteps /\ lock' = Nobody
      /\ UNCHANGED settingsVars /\ UNCHANGED <<broken, crossed>>
  BY DEF Commit, LockedSteps
<1>2. /\ lock = t /\ saver[t].at = "idle" /\ Fits(op[t].kind, op[t].step, op[t].stored)
      /\ op[t].step \notin {"url", "undo"}
  BY <1>1, Holding
<1>3. SameOther(t)
  <2>1. op \in [Workers -> Ops]
    BY DEF StoreInv, ControlInv, OpsInv
  <2>2. \A u \in Workers :
            u # t => op'[u] = IF SignsOut(t) THEN [op[u] EXCEPT !.recent = FALSE] ELSE op[u]
    BY <2>1 DEF Commit
  <2>3. ASSUME NEW u \in Workers, u # t
        PROVE  /\ op'[u].kind = op[u].kind /\ op'[u].step = op[u].step
               /\ op'[u].stored = op[u].stored /\ op'[u].was = op[u].was
               /\ op'[u].undo = op[u].undo /\ op'[u].failed = op[u].failed
    <3>1. op[u] \in Ops
      BY <2>1
    <3>2. op'[u] = op[u] \/ op'[u] = [op[u] EXCEPT !.recent = FALSE]
      BY <2>2, <2>3
    <3> QED
      BY <3>1, <3>2 DEF Ops
  <2> QED
    BY <2>3 DEF SameOther
<1>4. moved' = (IF op[t].kind \in Persists THEN data # Server(t) ELSE moved)
      /\ moved \in BOOLEAN /\ UNCHANGED data
  BY <1>1 DEF Commit, FileInv, Server, settingsVars, saveVars
<1>5. \A u \in Workers : ~SigningIn(u)'
  BY <1>1, WorkersApart DEF SigningIn
<1>6. ASSUME ~crossed, ~broken' PROVE ServerKept'
  <2>1. UncrossedInv
    BY <1>1, <1>6 DEF FileInv
  <2>2. CASE op[t].kind \in Persists
    <3>1. SignsIn(t) /\ ~moved' => data = Server(t) /\ session' = op[t].stored
      BY <1>4, <2>2 DEF Commit
    <3>2. SignsIn(t)
      BY <2>2 DEF SignsIn
    <3> QED
      BY <1>4, <1>5, <3>1, <3>2 DEF ServerKept, Server
  <2>3. CASE op[t].kind \notin Persists
    <3>1. \A u \in Workers : ~SigningIn(u)
      BY <1>2, <2>3 DEF SigningIn
    <3>2. session' # NoStored => session # NoStored /\ session'.who = session.who
      BY <2>3 DEF Commit, SignsIn, IsActive
    <3> QED
      BY <1>4, <1>5, <2>1, <2>3, <3>1, <3>2 DEF UncrossedInv, ServerKept
  <2> QED
    BY <2>2, <2>3
<1>7. moved' \in BOOLEAN
  BY <1>4
<1> QED
  BY <1>1, <1>2, <1>3, <1>5, <1>6, <1>7, FilesStay

LEMMA StartFiles ==
    ASSUME StoreInv, FileInv, Start
    PROVE  FileInv'
<1>1. phase # "up" /\ UNCHANGED settingsVars /\ UNCHANGED <<lock, op, active, broken, fileHistory>>
  BY DEF Start, StartSignedOut, RestoreAccount, RestoreSession, OnlyStart, historyVars
<1>2. /\ session = NoStored /\ lock = Nobody
      /\ \A t \in Workers : op[t].kind = "none" /\ op[t].step \notin LockedSteps
  BY <1>1, StartingIsQuiet
<1>3. session' # NoStored => data = ServerOf[session'.who]
  BY <1>2 DEF Start, StartSignedOut, RestoreAccount, RestoreSession, StoreInv, ControlInv,
              PhaseInv, sessionVars
<1>4. \A u \in Workers : ~SigningIn(u)'
  BY <1>1, <1>2, WorkersApart DEF SigningIn
<1>5. UNCHANGED <<data, moved, crossed>>
  BY <1>1 DEF settingsVars, saveVars, fileHistory
<1>6. ServerKept'
  BY <1>3, <1>4, <1>5 DEF ServerKept
<1>8. ASSUME ~crossed', ~broken' PROVE UncrossedInv'
  <2>1. UncrossedInv
    BY <1>1, <1>5, <1>8 DEF FileInv
  <2>2. CarriedInv' /\ FiledInv'
    BY <1>1, <2>1 DEF UncrossedInv, CarriedInv, FiledInv, Filed, settingsVars, saveVars
  <2> QED
    BY <1>4, <1>6, <2>2 DEF UncrossedInv
<1> QED
  BY <1>1, <1>5, <1>8 DEF FileInv, settingsVars, saveVars

LEMMA CrashFiles ==
    ASSUME StoreInv, Crash
    PROVE  FileInv'
<1>1. /\ data' = disk' /\ saver' = [t \in Savers |-> Idle] /\ stop' = FALSE
      /\ pending' = NoData /\ writing' = NoData /\ lock' = Nobody /\ session' = NoStored
      /\ moved' = FALSE /\ crossed' = FALSE
  BY DEF Crash
<1>2. \A t \in Workers : saver'[t].at = "idle" /\ ~SigningIn(t)'
  BY <1>1, WorkersApart DEF Idle, SigningIn
<1>3. UncrossedInv'
  BY <1>1, <1>2 DEF UncrossedInv, CarriedInv, FiledInv, Filed, ServerKept
<1> QED
  BY <1>1, <1>3 DEF FileInv

-----------------------------------------------------------------------------
(***************************************************************************)
(* The file and the saves of a sign-in.                                    *)
(***************************************************************************)
\* A step of the sign-in that holds the lock.
LEMMA SignInFiles ==
    ASSUME StoreInv, FileInv, NEW t \in Workers, SigningIn(t),
           UNCHANGED <<session, moved, pending, stop, worker, writing>>,
           ~broken' => ~broken, ~crossed' => ~crossed, crossed' \in BOOLEAN,
           \/ lock' = t /\ op'[t].was = op[t].was /\ op'[t].kind = op[t].kind
           \/ lock' = Nobody /\ (~crossed' /\ ~broken' => data' = op[t].was.url),
           ~crossed' /\ ~broken' =>
               CarriedInv' /\ FiledInv' /\ (SigningIn(t)' => SelectedHeld(t)')
    PROVE  FileInv'
<1>1. \A u \in Workers : SigningIn(u)' => u = t /\ lock' = t
  BY WorkersApart DEF SigningIn
<1>2. ASSUME ~crossed', ~broken' PROVE ServerKept'
  <2>1. ServerKept
    BY <1>2 DEF FileInv, UncrossedInv
  <2>2. CASE lock' = t /\ op'[t].was = op[t].was /\ op'[t].kind = op[t].kind
    <3>1. SigningIn(t)'
      BY <2>2 DEF SigningIn
    <3> QED
      BY <1>1, <2>1, <2>2, <3>1 DEF ServerKept
  <2>3. CASE lock' = Nobody /\ data' = op[t].was.url
    BY <1>1, <2>1, <2>3, WorkersApart DEF ServerKept
  <2> QED
    BY <1>2, <2>2, <2>3
<1>3. ~crossed' /\ ~broken' => UncrossedInv'
  BY <1>1, <1>2 DEF UncrossedInv
<1> QED
  BY <1>3 DEF FileInv

\* A sign-in's change of the selected server: nobody else saves, or it is told.
LEMMA SignInSaves ==
    ASSUME StoreInv, FileInv, NEW t \in Workers, SigningIn(t), ~crossed, ~broken
    PROVE  /\ UncrossedInv /\ SelectedHeld(t) /\ t \in Savers
           /\ \A u \in Workers : u # t => op[u].step # "undo"
           /\ op[t].kind # "proxy"
<1>1. UncrossedInv /\ SelectedHeld(t)
  BY DEF FileInv, UncrossedInv
<1>2. \A u \in Workers : u # t => op[u].step # "undo"
  BY DEF SigningIn, StoreInv, ControlInv, LockInv, LockedSteps
<1> QED
  BY <1>1, <1>2, WorkersApart DEF SigningIn, Persists

LEMMA SelectServerFiles ==
    ASSUME StoreInv, FileInv, NEW t \in Workers, SelectServer(t)
    PROVE  FileInv'
<1>1. /\ op[t].kind \in Persists /\ op[t].step = "url" /\ saver[t].at = "idle"
      /\ UNCHANGED <<session, lock, broken, moved>>
  BY DEF SelectServer, At, sessionVars
<1>2. /\ lock = t /\ t \in Savers /\ SigningIn(t) /\ op[t].stored \in Stored
      /\ op[t] \in Ops
  BY <1>1, Holding DEF LockedSteps, Fits, Persists, SigningIn
<1>3. CASE op[t].was.url = Server(t)
  <2>1. Goto(t, "account") /\ UNCHANGED settingsVars /\ UNCHANGED crossed
    BY <1>3 DEF SelectServer, Server
  <2>2. Fits(op[t].kind, "account", op[t].stored)
    BY <1>1, <1>2 DEF Fits
  <2>3. SameOp(t) /\ op'[t].step = "account"
    BY <2>1, <2>2, GotoMoves DEF StoreInv, ControlInv, LockedSteps
  <2>4. SameOther(t)
    BY <2>1 DEF Goto, StoreInv, ControlInv, OpsInv, SameOther
  <2>5. UNCHANGED <<data, saver>> /\ moved' \in BOOLEAN
    BY <1>1, <2>1 DEF settingsVars, saveVars, FileInv
  <2>6. ASSUME ~crossed, ~broken' PROVE SelectedHeld(t)' /\ ServerKept'
    <3>1. SelectedHeld(t) /\ ServerKept
      BY <1>1, <1>2, <2>6 DEF FileInv, UncrossedInv
    <3>2. SelectedHeld(t)'
      BY <1>1, <1>3, <2>3, <2>5, <3>1 DEF SelectedHeld, SameOp, Server
    <3>3. \A u \in Workers : (SigningIn(u)' <=> u = t) /\ (SigningIn(u) <=> u = t)
      BY <1>1, <1>2, <2>3 DEF SigningIn, SameOp
    <3>4. ServerKept'
      BY <1>1, <2>3, <2>5, <3>1, <3>3 DEF ServerKept, SameOp
    <3> QED
      BY <3>2, <3>4
  <2> QED
    BY <1>1, <1>2, <2>1, <2>4, <2>5, <2>6, FilesStay
<1>4. CASE op[t].was.url # Server(t)
  <2>1. /\ Change(t, Server(t)) /\ UNCHANGED op /\ crossed' = (crossed \/ ~Quiet)
    BY <1>4 DEF SelectServer, Server
  <2>2. /\ data' = Server(t) /\ saver'[t].at = "changed"
        /\ \A u \in Workers : u # t => saver'[u] = saver[u]
        /\ UNCHANGED <<disk, pending, stop, worker, writing>>
    BY <1>2, <2>1, WorkersApart, SettingsFacts DEF Change, StoreInv
  <2>3. crossed \in BOOLEAN
    BY DEF FileInv
  <2>4. crossed' \in BOOLEAN /\ (~crossed' => ~crossed /\ Quiet)
    BY <2>1, <2>3
  <2>5. ASSUME ~crossed', ~broken' PROVE CarriedInv' /\ FiledInv' /\ SelectedHeld(t)'
    <3>1. /\ UncrossedInv /\ SelectedHeld(t) /\ op[t].kind # "proxy"
          /\ \A u \in Workers : u # t => op[u].step # "undo"
      BY <1>1, <1>2, <2>4, <2>5, SignInSaves
    <3>2. /\ \A u \in Workers : saver[u].at = "idle"
          /\ pending = NoData /\ writing = NoData
      BY <2>4, <2>5, WorkersApart DEF Quiet
    <3>3. Filed = data
      BY <1>1, <3>1, <3>2 DEF UncrossedInv, FiledInv
    <3>4. disk = op[t].was.url
      BY <1>1, <3>1, <3>2, <3>3 DEF Filed, SelectedHeld
    <3>5. CarriedInv'
      BY <2>2, <3>2 DEF CarriedInv
    <3>6. FiledInv'
      BY <2>1, <2>2, <3>1 DEF FiledInv
    <3>7. SelectedHeld(t)'
      BY <1>1, <2>1, <2>2, <3>2, <3>4 DEF SelectedHeld, Alone, Server
    <3> QED
      BY <3>5, <3>6, <3>7
  <2> QED
    BY <1>1, <1>2, <2>1, <2>2, <2>4, <2>5, SignInFiles
<1> QED
  BY <1>3, <1>4

LEMMA SaveServerFiles ==
    ASSUME StoreInv, FileInv, NEW t \in Workers, SaveServer(t)
    PROVE  FileInv'
<1>1. /\ op[t].kind \in Persists /\ op[t].step = "url" /\ UNCHANGED broken
      /\ UNCHANGED <<session, moved, crossed>> /\ crossed \in BOOLEAN
  BY DEF SaveServer, At, sessionVars, fileHistory, FileInv
<1>2. /\ lock = t /\ t \in Savers /\ SigningIn(t) /\ UrlHeld(t) /\ op[t].stored \in Stored
  BY <1>1, Holding DEF LockedSteps, Fits, Persists, SigningIn
<1>3. saver[t].at # "idle"
  BY DEF SaveServer, Snapshot, Save
<1>4. op[t].was.url # Server(t)
  BY <1>1, <1>2, <1>3 DEF UrlHeld
<1>5. ~crossed /\ ~broken =>
          /\ CarriedInv /\ Alone(t) /\ data = Server(t) /\ disk = op[t].was.url
          /\ op[t].kind # "proxy" /\ \A u \in Workers : u # t => op[u].step # "undo"
  BY <1>1, <1>2, <1>3, <1>4, SignInSaves DEF SelectedHeld, UncrossedInv
<1>6. CASE Snapshot(t, "saving") /\ UNCHANGED <<op, lock>>
  <2>1. /\ saver'[t].at = "saving" /\ saver'[t].snap = data
        /\ \A u \in Workers : u # t => saver'[u] = saver[u]
        /\ UNCHANGED <<data, disk, pending, stop, worker, writing>>
    BY <1>2, <1>6, WorkersApart, SettingsFacts DEF Snapshot, StoreInv
  <2>2. ASSUME ~crossed, ~broken PROVE CarriedInv' /\ FiledInv' /\ SelectedHeld(t)'
    <3>1. CarriedInv'
      BY <1>5, <2>1, <2>2 DEF CarriedInv
    <3>2. FiledInv'
      BY <1>5, <1>6, <2>1, <2>2 DEF FiledInv
    <3>3. SelectedHeld(t)'
      BY <1>1, <1>5, <1>6, <2>1, <2>2 DEF SelectedHeld, Alone, Server
    <3> QED
      BY <3>1, <3>2, <3>3
  <2> QED
    BY <1>1, <1>2, <1>6, <2>1, <2>2, SignInFiles
<1>7. CASE Save(t, TRUE) /\ Goto(t, "account") /\ UNCHANGED lock
  <2>1. /\ saver[t].at = "saving" /\ saver'[t].at = "idle" /\ disk' = saver[t].snap
        /\ \A u \in Workers : u # t => saver'[u] = saver[u]
        /\ UNCHANGED <<data, pending, stop, worker, writing>>
    BY <1>2, <1>7, WorkersApart, SettingsFacts DEF Save, WriteFile, Idle, StoreInv
  <2>2. Fits(op[t].kind, "account", op[t].stored)
    BY <1>1, <1>2 DEF Fits
  <2>3. Moved(t) /\ SameOp(t) /\ op'[t].step = "account"
    BY <1>7, <2>2, GotoMoves DEF StoreInv, ControlInv, LockedSteps
  <2>4. ASSUME ~crossed, ~broken PROVE CarriedInv' /\ FiledInv' /\ SelectedHeld(t)'
    <3>1. CarriedInv'
      BY <1>5, <2>1, <2>4 DEF CarriedInv
    <3>2. disk' = data'
      BY <1>5, <2>1, <2>4 DEF CarriedInv
    <3>3. FiledInv'
      BY <1>5, <2>1, <2>4, <3>2 DEF FiledInv, Filed, Alone
    <3>4. SelectedHeld(t)'
      BY <1>1, <1>5, <2>1, <2>3, <2>4 DEF SelectedHeld, Alone, Server, SameOp
    <3> QED
      BY <3>1, <3>3, <3>4
  <2> QED
    BY <1>1, <1>2, <1>7, <2>1, <2>3, <2>4, SignInFiles DEF SameOp
<1>8. CASE /\ data' = op[t].was.url
           /\ saver' = [saver EXCEPT ![t] = Idle]
           /\ Fail(t)
           /\ UNCHANGED <<disk, pending, stop, worker, writing, handed, wrote>>
  <2>1. /\ saver'[t].at = "idle" /\ lock' = Nobody
        /\ \A u \in Workers : u # t => saver'[u] = saver[u]
    BY <1>2, <1>8, WorkersApart, SettingsFacts DEF Idle, Fail, EndsWith, StoreInv
  <2>2. ASSUME ~crossed, ~broken PROVE CarriedInv' /\ FiledInv'
    <3>1. \A u \in Workers : saver'[u].at = "idle"
      BY <1>5, <2>1, <2>2 DEF Alone
    <3>2. CarriedInv'
      BY <3>1 DEF CarriedInv
    <3>3. FiledInv'
      BY <1>5, <1>8, <2>2 DEF FiledInv, Filed, Alone
    <3> QED
      BY <3>2, <3>3
  <2>3. ~SigningIn(t)'
    BY <2>1, WorkersApart DEF SigningIn
  <2> QED
    BY <1>1, <1>2, <1>8, <2>1, <2>2, <2>3, SignInFiles
<1> QED
  BY <1>6, <1>7, <1>8 DEF SaveServer

LEMMA PersistCredentialFiles ==
    ASSUME StoreInv, FileInv, NEW t \in Workers, PersistAccount(t) \/ PersistActive(t)
    PROVE  FileInv'
<1>1. /\ op[t].kind \in Persists /\ op[t].step \in {"account", "active"}
      /\ UNCHANGED <<session, lock, broken, moved, crossed>> /\ moved \in BOOLEAN
  BY DEF PersistAccount, PersistActive, At, sessionVars, historyVars, fileHistory, FileInv
<1>2. UNCHANGED settingsVars
  BY DEF PersistAccount, PersistActive
<1>3. /\ lock = t /\ SigningIn(t) /\ saver[t].at = "idle" /\ op[t].stored \in Stored
  BY <1>1, Holding DEF LockedSteps, Fits, Persists, SigningIn
<1>4. UNCHANGED <<data, saver, pending, writing>>
  BY <1>2 DEF settingsVars, saveVars
<1>5. PICK ok, undo_active \in BOOLEAN, next \in {"active", "commit"} :
          IF ok THEN Goto(t, next) ELSE RollBack(t, undo_active)
  <2>1. ASSUME PersistAccount(t)
        PROVE  \E ok \in BOOLEAN : IF ok THEN Goto(t, "active") ELSE RollBack(t, FALSE)
    BY <2>1 DEF PersistAccount
  <2>2. ASSUME PersistActive(t)
        PROVE  \E ok \in BOOLEAN : IF ok THEN Goto(t, "commit") ELSE RollBack(t, TRUE)
    BY <2>2 DEF PersistActive
  <2> QED
    BY <2>1, <2>2
<1>6. SameOther(t)
  BY <1>5 DEF Goto, RollBack, StoreInv, ControlInv, OpsInv, SameOther
<1>7. /\ SameOp(t)
      /\ \/ op'[t].step \in {"active", "commit"}
         \/ /\ op'[t].step = "undo"
            /\ "url" \in Left(op'[t].undo) <=> op[t].was.url # Server(t)
  <2>1. CASE Goto(t, next)
    <3>1. Fits(op[t].kind, next, op[t].stored) /\ next \in LockedSteps
      BY <1>1, <1>3 DEF Fits, LockedSteps
    <3> QED
      BY <2>1, <3>1, GotoMoves DEF StoreInv, ControlInv
  <2>2. CASE RollBack(t, undo_active)
    <3>1. SameOp(t) /\ op'[t].step = "undo" /\ op'[t].undo = Undo(t, undo_active)
      BY <1>1, <1>3, <2>2, RollBackMoves DEF StoreInv, ControlInv
    <3>2. "url" \in Left(Undo(t, undo_active)) <=> op[t].was.url # Server(t)
      BY UndoIsKnown
    <3> QED
      BY <3>1, <3>2
  <2> QED
    BY <1>5, <2>1, <2>2
<1>8. ASSUME ~crossed, ~broken' PROVE SelectedHeld(t)' /\ ServerKept'
  <2>1. SelectedHeld(t) /\ ServerKept
    BY <1>1, <1>3, <1>8 DEF FileInv, UncrossedInv
  <2>2. data = Server(t) /\ Server(t)' = Server(t)
    BY <1>1, <1>7, <2>1 DEF SelectedHeld, SameOp, Server
  <2>3. op[t].was.url # Server(t) => Alone(t)'
    BY <1>1, <1>4, <2>1 DEF SelectedHeld, Alone
  <2>4. SelectedHeld(t)'
    BY <1>3, <1>4, <1>7, <2>2, <2>3 DEF SelectedHeld, SameOp
  <2>5. \A u \in Workers : (SigningIn(u)' <=> u = t) /\ (SigningIn(u) <=> u = t)
    BY <1>1, <1>3, <1>7 DEF SigningIn, SameOp
  <2>6. ServerKept'
    BY <1>1, <1>7, <2>1, <2>5 DEF ServerKept, SameOp
  <2> QED
    BY <2>4, <2>6
<1> QED
  BY <1>1, <1>2, <1>3, <1>6, <1>8, FilesStay

LEMMA UndoOneFiles ==
    ASSUME StoreInv, FileInv, NEW t \in Workers, UndoOne(t)
    PROVE  FileInv'
<1> DEFINE what == Head(op[t].undo)
<1>1. /\ op[t].step = "undo" /\ op[t].undo # <<>> /\ saver[t].at = "idle"
      /\ UNCHANGED <<session, lock, broken, moved, crossed>>
      /\ moved \in BOOLEAN /\ crossed \in BOOLEAN
  BY DEF UndoOne, sessionVars, historyVars, fileHistory, FileInv
<1>2. /\ lock = t /\ t \in Savers /\ op[t] \in Ops /\ op[t].kind \in Persists
      /\ op[t].undo \in Undos /\ UrlHeld(t) /\ SigningIn(t)
  BY <1>1, Undoing DEF SigningIn
<1>3. /\ what \in {"active", "account", "url"} /\ Tail(op[t].undo) \in Undos
      /\ Left(op[t].undo) = {what} \cup Left(Tail(op[t].undo))
      /\ what = "url" => op[t].undo = <<"url">>
  BY <1>1, <1>2, UndoShrinks
<1> HIDE DEF what
<1>4. CASE what = "url" /\ Change(t, op[t].was.url) /\ UNCHANGED op
  <2>1. /\ data' = op[t].was.url /\ saver'[t].at = "changed"
        /\ \A u \in Workers : u # t => saver'[u] = saver[u]
        /\ UNCHANGED <<disk, pending, stop, worker, writing>>
    BY <1>2, <1>4, WorkersApart, SettingsFacts DEF Change, StoreInv
  <2>2. op[t].was.url # Server(t)
    BY <1>1, <1>2, <1>3, <1>4 DEF UrlHeld
  <2>3. ASSUME ~crossed, ~broken PROVE CarriedInv' /\ FiledInv' /\ SelectedHeld(t)'
    <3>1. Alone(t) /\ op[t].kind # "proxy"
      BY <1>1, <1>2, <2>2, <2>3, SignInSaves DEF SelectedHeld
    <3>2. CarriedInv'
      BY <2>1, <3>1 DEF CarriedInv, Alone
    <3>3. FiledInv'
      BY <1>4, <2>1, <3>1 DEF FiledInv
    <3>4. SelectedHeld(t)'
      BY <1>1, <1>4, <2>1, <3>1 DEF SelectedHeld, Alone, Server
    <3> QED
      BY <3>2, <3>3, <3>4
  <2> QED
    BY <1>1, <1>2, <1>4, <2>1, <2>3, SignInFiles
<1>5. CASE /\ what # "url" /\ UNCHANGED settingsVars
           /\ \E ok \in BOOLEAN :
                  op' = [op EXCEPT ![t].undo = Tail(@), ![t].failed = @ \/ ~ok]
  <2>1. PICK ok \in BOOLEAN : op' = [op EXCEPT ![t].undo = Tail(@), ![t].failed = @ \/ ~ok]
    BY <1>5
  <2>2. op'[t] = [op[t] EXCEPT !.undo = Tail(@), !.failed = @ \/ ~ok]
    BY <2>1 DEF StoreInv, ControlInv, OpsInv
  <2>3. /\ op'[t].step = "undo" /\ op'[t].undo = Tail(op[t].undo)
        /\ op'[t].was = op[t].was /\ op'[t].stored = op[t].stored /\ op'[t].kind = op[t].kind
        /\ op'[t].failed = (op[t].failed \/ ~ok)
    BY <1>1, <1>2, <2>2 DEF Ops
  <2>4. op[t].failed => op'[t].failed
    BY <2>3
  <2>5. SameOther(t)
    BY <2>1 DEF StoreInv, ControlInv, OpsInv, SameOther
  <2>6. UNCHANGED <<data, saver, pending, writing>>
    BY <1>5 DEF settingsVars, saveVars
  <2>7. "url" \in Left(op'[t].undo) <=> "url" \in Left(op[t].undo)
    BY <1>3, <1>5, <2>3
  <2>8. ASSUME ~crossed, ~broken' PROVE SelectedHeld(t)' /\ ServerKept'
    <3>1. SelectedHeld(t) /\ ServerKept
      BY <1>1, <1>2, <2>8 DEF FileInv, UncrossedInv
    <3>2. Server(t)' = Server(t)
      BY <2>3 DEF Server
    <3>3. op[t].was.url # Server(t) => Alone(t)'
      BY <1>1, <2>6, <3>1 DEF SelectedHeld, Alone
    <3>4. SelectedHeld(t)'
      BY <1>1, <2>3, <2>6, <2>7, <3>1, <3>2, <3>3 DEF SelectedHeld
    <3>5. \A u \in Workers : (SigningIn(u)' <=> u = t) /\ (SigningIn(u) <=> u = t)
      BY <1>1, <1>2, <2>3 DEF SigningIn
    <3>6. ServerKept'
      BY <1>1, <2>3, <3>1, <3>5 DEF ServerKept
    <3> QED
      BY <3>4, <3>6
  <2> QED
    BY <1>1, <1>2, <1>5, <2>3, <2>4, <2>5, <2>8, FilesStay
<1> QED
  BY <1>4, <1>5 DEF UndoOne, what

LEMMA UndoServerFiles ==
    ASSUME StoreInv, FileInv, NEW t \in Workers, UndoServer(t)
    PROVE  FileInv'
<1>1. /\ op[t].step = "undo" /\ UNCHANGED <<session, lock, broken, moved, crossed>>
      /\ crossed \in BOOLEAN
  BY DEF UndoServer, OnlySettings, sessionVars, fileHistory, FileInv
<1>2. /\ lock = t /\ t \in Savers /\ op[t] \in Ops /\ op[t].kind \in Persists
      /\ UrlHeld(t) /\ SigningIn(t)
  BY <1>1, Undoing DEF SigningIn
<1>3. saver[t].at # "idle"
  BY DEF UndoServer, Snapshot, Save
<1>4. op[t].was.url # Server(t)
  <2>1. op[t].undo = <<"url">> => "url" \in Left(op[t].undo)
    BY LeftOf, Zenon
  <2> QED
    BY <1>1, <1>2, <1>3, <2>1 DEF UrlHeld
<1>5. ~crossed /\ ~broken =>
          /\ CarriedInv /\ Alone(t) /\ data = op[t].was.url
          /\ op[t].kind # "proxy" /\ \A u \in Workers : u # t => op[u].step # "undo"
  BY <1>1, <1>2, <1>3, <1>4, SignInSaves DEF SelectedHeld, UncrossedInv
<1>6. CASE Snapshot(t, "saving") /\ UNCHANGED op
  <2>1. /\ saver'[t].at = "saving" /\ saver'[t].snap = data
        /\ \A u \in Workers : u # t => saver'[u] = saver[u]
        /\ UNCHANGED <<data, disk, pending, stop, worker, writing>>
    BY <1>2, <1>6, WorkersApart, SettingsFacts DEF Snapshot, StoreInv
  <2>2. ASSUME ~crossed, ~broken PROVE CarriedInv' /\ FiledInv' /\ SelectedHeld(t)'
    <3>1. CarriedInv'
      BY <1>5, <2>1, <2>2 DEF CarriedInv
    <3>2. FiledInv'
      BY <1>5, <1>6, <2>1, <2>2 DEF FiledInv
    <3>3. SelectedHeld(t)'
      BY <1>1, <1>5, <1>6, <2>1, <2>2 DEF SelectedHeld, Alone, Server
    <3> QED
      BY <3>1, <3>2, <3>3
  <2> QED
    BY <1>1, <1>2, <1>6, <2>1, <2>2, SignInFiles
<1>7. ASSUME NEW ok \in BOOLEAN, Save(t, ok),
             op' = [op EXCEPT ![t].undo = <<>>, ![t].failed = @ \/ ~ok]
      PROVE  FileInv'
  <2>1. /\ saver[t].at = "saving" /\ saver'[t].at = "idle"
        /\ disk' = (IF ok THEN saver[t].snap ELSE disk)
        /\ \A u \in Workers : u # t => saver'[u] = saver[u]
        /\ UNCHANGED <<data, pending, stop, worker, writing>>
    BY <1>2, <1>7, WorkersApart, SettingsFacts DEF Save, WriteFile, Idle, StoreInv
  <2>2. op'[t] = [op[t] EXCEPT !.undo = <<>>, !.failed = @ \/ ~ok]
    BY <1>7 DEF StoreInv, ControlInv, OpsInv
  <2>3. /\ op'[t].step = "undo" /\ op'[t].was = op[t].was /\ op'[t].stored = op[t].stored
        /\ op'[t].kind = op[t].kind /\ op'[t].failed = (op[t].failed \/ ~ok)
    BY <1>1, <1>2, <2>2 DEF Ops
  <2>4. ~op'[t].failed => ok
    BY <2>3
  <2>5. ASSUME ~crossed, ~broken PROVE CarriedInv' /\ FiledInv' /\ SelectedHeld(t)'
    <3>1. CarriedInv'
      BY <1>5, <2>1, <2>5 DEF CarriedInv
    <3>2. ok => disk' = data'
      BY <1>5, <2>1, <2>5 DEF CarriedInv
    <3>3. FiledInv'
      BY <1>5, <2>1, <2>3, <2>4, <2>5, <3>2 DEF FiledInv, Filed, Alone
    <3>4. SelectedHeld(t)'
      BY <1>1, <1>5, <2>1, <2>3, <2>5 DEF SelectedHeld, Alone, Server
    <3> QED
      BY <3>1, <3>3, <3>4
  <2> QED
    BY <1>1, <1>2, <2>1, <2>3, <2>5, SignInFiles
<1> QED
  BY <1>6, <1>7 DEF UndoServer

LEMMA EndUndoFiles ==
    ASSUME StoreInv, FileInv, NEW t \in Workers, EndUndo(t)
    PROVE  FileInv'
<1>1. /\ op[t].step = "undo" /\ op[t].undo = <<>> /\ saver[t].at = "idle"
      /\ op' = [op EXCEPT ![t] = NoOp] /\ UNCHANGED settingsVars
      /\ UNCHANGED <<session, moved, crossed>> /\ crossed \in BOOLEAN
  BY DEF EndUndo, EndsWith, sessionVars, fileHistory, FileInv
<1>2. ~broken' => ~broken /\ ~op[t].failed
  BY Zenon DEF EndUndo
<1>3. lock = t /\ SigningIn(t)
  BY <1>1, Undoing DEF SigningIn
<1>4. lock' = Nobody
  BY <1>3 DEF EndUndo, EndsWith
<1>5. UNCHANGED <<data, disk, saver, pending, stop, worker, writing>>
  BY <1>1 DEF settingsVars, saveVars
<1>6. ASSUME ~crossed, ~broken'
      PROVE  CarriedInv' /\ FiledInv' /\ data' = op[t].was.url
  <2>1. /\ UncrossedInv /\ SelectedHeld(t) /\ op[t].kind # "proxy"
        /\ \A u \in Workers : u # t => op[u].step # "undo"
    BY <1>2, <1>3, <1>6, SignInSaves
  <2>2. data' = op[t].was.url
    BY <1>1, <1>5, <2>1, LeftOf DEF SelectedHeld
  <2>3. CarriedInv'
    BY <1>5, <2>1 DEF UncrossedInv, CarriedInv
  <2>4. \A u \in Workers : u # t => op'[u] = op[u]
    BY <1>1 DEF StoreInv, ControlInv, OpsInv
  <2>5. FiledInv'
    BY <1>1, <1>2, <1>5, <1>6, <2>1, <2>4 DEF UncrossedInv, FiledInv, Filed
  <2> QED
    BY <2>2, <2>3, <2>5
<1>7. ~SigningIn(t)'
  BY <1>4, WorkersApart DEF SigningIn
<1> QED
  BY <1>1, <1>2, <1>3, <1>4, <1>5, <1>6, <1>7, SignInFiles

-----------------------------------------------------------------------------
(***************************************************************************)
(* The file and the saves of others.                                       *)
(***************************************************************************)
\* A save without the lock: a sign-in that saves alone is not under way, or
\* nothing that it counts on changes.
LEMMA OthersFiles ==
    ASSUME StoreInv, FileInv,
           UNCHANGED <<data, session, lock, broken, moved, stop>>,
           worker' # "writing" => writing' = NoData,
           ~crossed' => ~crossed, crossed' \in BOOLEAN,
           \A u \in Workers : SigningIn(u)' => SigningIn(u),
           \A u \in Workers : SigningIn(u) => op'[u] = op[u] /\ saver'[u] = saver[u],
           ~crossed' /\ ~broken =>
               /\ CarriedInv' /\ FiledInv'
               /\ \A u \in Workers : SigningIn(u) => \/ ~Alone(u)
                                                     \/ Alone(u)' /\ disk' = disk
    PROVE  FileInv'
<1>1. ASSUME ~crossed', ~broken PROVE UncrossedInv'
  <2>1. UncrossedInv
    BY <1>1 DEF FileInv
  <2>2. \A u \in Workers : SigningIn(u)' <=> SigningIn(u)
    BY DEF SigningIn
  <2>3. ServerKept'
    BY <2>1, <2>2 DEF UncrossedInv, ServerKept
  <2>4. ASSUME NEW u \in Workers, SigningIn(u)' PROVE SelectedHeld(u)'
    <3>1. /\ SigningIn(u) /\ SelectedHeld(u) /\ op'[u] = op[u] /\ saver'[u] = saver[u]
      BY <2>1, <2>2, <2>4 DEF UncrossedInv
    <3>2. CASE ~Alone(u)
      <4>1. /\ ~(op[u].step = "url" /\ saver[u].at # "idle")
            /\ op[u].step = "url" \/ op[u].was.url = Server(u)
        BY <2>1, <3>1, <3>2, NotAlone
      <4> QED
        BY <3>1, <4>1 DEF SelectedHeld, Server
    <3>3. CASE Alone(u)' /\ disk' = disk
      BY <3>1, <3>3 DEF SelectedHeld, Server
    <3> QED
      BY <1>1, <3>1, <3>2, <3>3
  <2> QED
    BY <1>1, <2>3, <2>4 DEF UncrossedInv
<1> QED
  BY <1>1 DEF FileInv

\* Nobody else saves while the authentication worker has no sign-in of its own.
LEMMA OnlySignInsSave ==
    ASSUME StoreInv, NEW u \in Workers, u # UiThread, saver[u].at # "idle"
    PROVE  SigningIn(u)
<1>1. u = AuthWorker /\ op[u].step \in {"url", "undo", "settings"}
  BY DEF StoreInv, ControlInv, SaverInv, Workers
<1>2. op[u].kind \in Persists /\ op[u].step \in LockedSteps
  BY <1>1 DEF StoreInv, ControlInv, OpsInv, Fits, Persists, LockedSteps
<1> QED
  BY <1>2 DEF StoreInv, ControlInv, LockInv, SigningIn

\* The UI thread saves on its own, in an operation on the proxy or without one.
LEMMA ChangeByHandFiles ==
    ASSUME StoreInv, FileInv, NEW v, ChangeByHand(UiThread, v), UNCHANGED op,
           op[UiThread].kind = "none" \/ v = data,
           op[UiThread].kind \notin Persists, op[UiThread].step # "undo",
           UNCHANGED <<session, lock, broken>>
    PROVE  FileInv'
<1>1. /\ data' = v /\ saver'[UiThread].at = "changed" /\ saver[UiThread].at = "idle"
      /\ \A u \in Workers : u # UiThread => saver'[u] = saver[u]
      /\ UNCHANGED <<disk, pending, stop, worker, writing>>
      /\ moved' = (moved \/ v # data)
      /\ crossed' = (crossed \/ \E u \in Workers : SigningIn(u))
  BY WorkersApart, SettingsFacts DEF ChangeByHand, Change, SigningIn, StoreInv
<1>2. moved \in BOOLEAN /\ crossed \in BOOLEAN
  BY DEF FileInv
<1>3. moved' \in BOOLEAN /\ crossed' \in BOOLEAN
  BY <1>1, <1>2
<1>4. \A u \in Workers : SigningIn(u)' <=> SigningIn(u)
  BY DEF SigningIn
<1>5. ASSUME ~crossed', ~broken PROVE UncrossedInv'
  <2>1. ~crossed /\ \A u \in Workers : ~SigningIn(u)
    BY <1>1, <1>2, <1>5
  <2>2. UncrossedInv
    BY <1>5, <2>1 DEF FileInv
  <2>3. \A u \in Workers : saver[u].at = "idle"
    BY <1>1, <2>1, OnlySignInsSave
  <2>4. CarriedInv'
    BY <1>1, <2>3 DEF CarriedInv
  <2>5. FiledInv'
    <3>1. CASE op[UiThread].kind # "proxy"
      BY <1>1, <3>1, WorkersApart DEF FiledInv
    <3>2. CASE data' = data
      BY <1>1, <2>2, <2>3, <3>2 DEF UncrossedInv, FiledInv, Filed
    <3> QED
      BY <1>1, <3>1, <3>2
  <2>6. ServerKept'
    <3>1. ~moved' => ~moved /\ data' = data
      BY <1>1, <1>2
    <3> QED
      BY <1>4, <2>1, <2>2, <3>1 DEF UncrossedInv, ServerKept
  <2> QED
    BY <1>4, <2>1, <2>4, <2>5, <2>6 DEF UncrossedInv
<1> QED
  BY <1>1, <1>3, <1>5 DEF FileInv

\* The snapshot of a thread that signs nobody in.
LEMMA SnapshotFiles ==
    ASSUME StoreInv, FileInv, NEW t \in Workers, NEW how \in {"saving", "handing"},
           Snapshot(t, how), UNCHANGED op, ~SigningIn(t), op[t].kind \in {"none", "proxy"},
           UNCHANGED <<session, lock, broken, moved, crossed>>
    PROVE  FileInv'
<1>1. /\ saver[t].at = "changed" /\ saver'[t].at = how /\ saver'[t].snap = data
      /\ \A u \in Workers : u # t => saver'[u] = saver[u]
      /\ UNCHANGED <<data, disk, pending, stop, worker, writing>>
  BY WorkersApart, SettingsFacts DEF Snapshot, StoreInv
<1>2. \A u \in Workers : SigningIn(u) => u # t /\ ~Alone(u)
  BY <1>1 DEF Alone
<1>3. \A u \in Workers : SigningIn(u)' <=> SigningIn(u)
  BY DEF SigningIn
<1>4. ASSUME ~crossed, ~broken PROVE CarriedInv' /\ FiledInv'
  <2>1. UncrossedInv
    BY <1>4 DEF FileInv
  <2>2. CarriedInv'
    BY <1>1, <2>1 DEF UncrossedInv, CarriedInv
  <2>3. FiledInv'
    BY <1>1, <2>1 DEF UncrossedInv, FiledInv, Filed
  <2> QED
    BY <2>2, <2>3
<1>5. crossed \in BOOLEAN /\ (worker' # "writing" => writing' = NoData)
  BY <1>1 DEF FileInv
<1> QED
  BY <1>1, <1>2, <1>3, <1>4, <1>5, OthersFiles

LEMMA SaveProxyFiles ==
    ASSUME StoreInv, FileInv, NEW t \in Workers, SaveProxy(t)
    PROVE  FileInv'
<1>1. /\ op[t].kind = "proxy" /\ op[t].step = "settings" /\ UNCHANGED <<session, broken>>
      /\ t = UiThread
  BY DEF SaveProxy, At, sessionVars, StoreInv, ControlInv, OpsInv, Workers
<1>2. lock # t /\ ~SigningIn(t) /\ op[t].kind \notin Persists
  BY <1>1, Waiting DEF SigningIn, Persists
<1>3. moved \in BOOLEAN /\ crossed \in BOOLEAN /\ (worker # "writing" => writing = NoData)
  BY DEF FileInv
<1>4. CASE ChangeByHand(t, data) /\ UNCHANGED <<op, lock>>
  BY <1>1, <1>2, <1>4, ChangeByHandFiles
<1>5. CASE Snapshot(t, "saving") /\ UNCHANGED <<op, lock, fileHistory>>
  BY <1>1, <1>2, <1>5, SnapshotFiles DEF fileHistory
<1>6. ASSUME NEW ok \in BOOLEAN, Save(t, ok), UNCHANGED lock, UNCHANGED fileHistory,
             IF ok THEN Goto(t, "lock") ELSE op' = [op EXCEPT ![t] = NoOp]
      PROVE  FileInv'
  <2>1. /\ saver[t].at = "saving" /\ saver'[t].at = "idle"
        /\ disk' = (IF ok THEN saver[t].snap ELSE disk)
        /\ \A u \in Workers : u # t => saver'[u] = saver[u]
        /\ UNCHANGED <<data, pending, stop, worker, writing>>
    BY <1>6, WorkersApart, SettingsFacts DEF Save, WriteFile, Idle, StoreInv
  <2>2. /\ \A u \in Workers : u # t => op'[u] = op[u]
        /\ op'[t].step \in {"lock", "idle"}
    BY <1>1, <1>6, NoOpIsOp DEF Goto, StoreInv, ControlInv, OpsInv, Ops
  <2>3. \A u \in Workers : SigningIn(u) => u # t /\ ~Alone(u)
    BY <1>2, <2>1 DEF Alone
  <2>4. \A u \in Workers : SigningIn(u)' => SigningIn(u)
    BY <1>2, <1>6, <2>2 DEF SigningIn
  <2>5. ASSUME ~crossed, ~broken PROVE CarriedInv' /\ FiledInv'
    <3>1. UncrossedInv
      BY <2>5 DEF FileInv
    <3>2. CarriedInv'
      BY <2>1, <3>1 DEF UncrossedInv, CarriedInv
    <3>3. ASSUME \A u \in Workers : /\ saver'[u].at = "idle" \/ op'[u].kind = "proxy"
                                    /\ op'[u].step = "undo" => ~op'[u].failed
          PROVE  Filed' = data'
      <4>1. \A u \in Workers : /\ saver[u].at = "idle" \/ op[u].kind = "proxy"
                               /\ op[u].step = "undo" => ~op[u].failed
        BY <1>1, <2>1, <2>2, <3>3
      <4>2. Filed = data
        BY <3>1, <4>1 DEF UncrossedInv, FiledInv
      <4>3. saver[t].snap = data
        BY <2>1, <3>1 DEF UncrossedInv, CarriedInv
      <4> QED
        BY <2>1, <4>2, <4>3 DEF Filed
    <3> QED
      BY <3>2, <3>3 DEF FiledInv
  <2> QED
    BY <1>1, <1>3, <1>6, <2>1, <2>2, <2>3, <2>4, <2>5, OthersFiles DEF fileHistory
<1>7. Fail(t) => op' = [op EXCEPT ![t] = NoOp] /\ UNCHANGED lock
  BY <1>2 DEF Fail, EndsWith
<1> QED
  BY <1>4, <1>5, <1>6, <1>7 DEF SaveProxy

LEMMA OtherSettingsFiles ==
    ASSUME StoreInv, FileInv, OtherSettings
    PROVE  FileInv'
<1>1. /\ op[UiThread].kind = "none" /\ UNCHANGED <<session, lock, broken, op>>
      /\ UiThread \in Workers
  BY WorkersApart DEF OtherSettings, OnlyOthers, sessionVars
<1>2. op[UiThread].step = "idle" /\ op[UiThread].kind \notin Persists /\ ~SigningIn(UiThread)
  BY <1>1 DEF StoreInv, ControlInv, OpsInv, Fits, Persists, SigningIn
<1>3. CASE \E v \in Values : ChangeByHand(UiThread, v)
  BY <1>1, <1>2, <1>3, ChangeByHandFiles
<1>4. CASE Snapshot(UiThread, "handing") /\ UNCHANGED fileHistory
  BY <1>1, <1>2, <1>4, SnapshotFiles DEF fileHistory
<1>5. CASE HandOver(UiThread) /\ UNCHANGED fileHistory
  <2>1. /\ saver[UiThread].at = "handing" /\ saver'[UiThread].at = "idle"
        /\ \A u \in Workers : u # UiThread => saver'[u] = saver[u]
        /\ UNCHANGED <<data, disk, stop, writing>>
    BY <1>1, <1>5, WorkersApart, SettingsFacts DEF HandOver, Idle, StoreInv
  <2>2. /\ stop = FALSE
        /\ worker # "writing" => writing = NoData
        /\ crossed \in BOOLEAN /\ UNCHANGED <<moved, crossed>>
    BY <1>5 DEF FileInv, fileHistory
  <2>3. pending' = saver[UiThread].snap /\ (worker' # "writing" => worker # "writing")
    BY <1>5, <2>2 DEF HandOver
  <2>4. \A u \in Workers : SigningIn(u) => u # UiThread /\ ~Alone(u)
    BY <1>1, <1>2, <2>1 DEF Alone
  <2>5. \A u \in Workers : SigningIn(u)' <=> SigningIn(u)
    BY <1>1 DEF SigningIn
  <2>6. ASSUME ~crossed, ~broken PROVE CarriedInv' /\ FiledInv'
    <3>1. UncrossedInv
      BY <2>6 DEF FileInv
    <3>2. CarriedInv'
      BY <2>1, <3>1 DEF UncrossedInv, CarriedInv
    <3>3. pending' = data' /\ data \in Values
      BY <1>1, <2>1, <2>3, <3>1, SettingsFacts DEF UncrossedInv, CarriedInv, StoreInv
    <3>4. pending' # NoData
      BY <2>1, <3>3, SettingsAssumption
    <3>5. FiledInv'
      BY <3>3, <3>4 DEF FiledInv, Filed
    <3> QED
      BY <3>2, <3>5
  <2> QED
    BY <1>1, <2>1, <2>2, <2>3, <2>4, <2>5, <2>6, OthersFiles
<1> QED
  BY <1>3, <1>4, <1>5 DEF OtherSettings

LEMMA SettingsWorkerFiles ==
    ASSUME StoreInv, FileInv, SettingsWorker
    PROVE  FileInv'
<1>1. UNCHANGED <<session, lock, broken, op, moved>>
  BY DEF SettingsWorker, OnlyOthers, sessionVars
<1>2. \A u \in Workers : SigningIn(u)' <=> SigningIn(u)
  BY <1>1 DEF SigningIn
<1>3. crossed \in BOOLEAN /\ (worker # "writing" => writing = NoData)
  BY DEF FileInv
<1>4. CASE Look /\ UNCHANGED crossed
  <2>1. /\ worker = "awake" /\ writing = NoData /\ pending' = NoData /\ writing' = pending
        /\ UNCHANGED <<data, disk, saver, stop>>
        /\ worker' = (IF pending # NoData THEN "writing" ELSE IF stop THEN "gone" ELSE "asleep")
    BY <1>3, <1>4 DEF Look
  <2>2. worker' # "writing" => writing' = NoData
    BY <2>1
  <2>3. Filed' = Filed
    BY <2>1 DEF Filed
  <2>4. \A u \in Workers : Alone(u) => Alone(u)'
    BY <2>1 DEF Alone
  <2>5. ASSUME ~crossed, ~broken PROVE CarriedInv' /\ FiledInv'
    <3>1. UncrossedInv
      BY <2>5 DEF FileInv
    <3> QED
      BY <1>1, <2>1, <2>3, <3>1 DEF UncrossedInv, CarriedInv, FiledInv
  <2> QED
    BY <1>1, <1>2, <1>3, <1>4, <2>1, <2>2, <2>4, <2>5, OthersFiles
<1>5. ASSUME NEW ok \in BOOLEAN, WorkerWrites(ok), crossed' = (crossed \/ ~ok)
      PROVE  FileInv'
  <2>1. /\ worker = "writing" /\ worker' = "awake" /\ writing' = NoData
        /\ disk' = (IF ok THEN writing ELSE disk)
        /\ UNCHANGED <<data, saver, pending, stop>>
    BY <1>5 DEF WorkerWrites, WriteFile
  <2>2. writing # NoData
    BY <2>1 DEF StoreInv, SettingsInv, SnapshotsAreTaken
  <2>3. crossed' \in BOOLEAN /\ (~crossed' => ~crossed /\ ok)
    BY <1>3, <1>5
  <2>4. ok => Filed' = Filed
    BY <2>1, <2>2 DEF Filed
  <2>5. \A u \in Workers : ~Alone(u)
    BY <2>2 DEF Alone
  <2>6. ASSUME ~crossed', ~broken PROVE CarriedInv' /\ FiledInv'
    <3>1. UncrossedInv /\ ok
      BY <2>3, <2>6 DEF FileInv
    <3> QED
      BY <1>1, <2>1, <2>4, <3>1 DEF UncrossedInv, CarriedInv, FiledInv
  <2> QED
    BY <1>1, <1>2, <2>1, <2>3, <2>5, <2>6, OthersFiles
<1> QED
  BY <1>4, <1>5 DEF SettingsWorker

\* Every step keeps what is known of the file.
LEMMA FileStepKeeps == StoreInv /\ FileInv /\ [AccountNext]_accountVars => FileInv'
<1> SUFFICES ASSUME StoreInv, FileInv, [AccountNext]_accountVars PROVE FileInv'
  OBVIOUS
<1>1. CASE \/ \E a \in Accounts : BeginSwitch(a) \/ BeginDelete(a) \/ BeginUpdate(a)
           \/ BeginLogin \/ BeginLogout \/ BeginProxy
  BY <1>1, BeginFiles
<1>2. CASE \E t \in Workers : Operate(t)
  <2>1. PICK t \in Workers : Operate(t)
    BY <1>2
  <2>2. CASE PersistSteps(t)
    BY <2>2, SelectServerFiles, SaveServerFiles, PersistCredentialFiles, UndoOneFiles,
       UndoServerFiles, EndUndoFiles DEF PersistSteps
  <2>3. CASE CredentialSteps(t)
    BY <2>3, CredentialFiles, SaveProxyFiles DEF CredentialSteps
  <2> QED
    BY <2>1, <2>2, <2>3, WaitingFiles, LockFiles, CommitFiles DEF Operate
<1>3. CASE Start
  BY <1>3, StartFiles
<1>4. CASE Crash
  BY <1>4, CrashFiles
<1>5. CASE OtherSettings
  BY <1>5, OtherSettingsFiles
<1>6. CASE SettingsWorker
  BY <1>6, SettingsWorkerFiles
<1>7. CASE UNCHANGED accountVars
  <2>1. UNCHANGED <<data, disk, saver, pending, stop, worker, writing, session, lock, op,
                    broken, moved, crossed>>
    BY <1>7 DEF accountVars, settingsVars, saveVars, sessionVars, historyVars, fileHistory
  <2>2. Filed' = Filed
    BY <2>1 DEF Filed
  <2> QED
    BY <2>1, <2>2 DEF FileInv, UncrossedInv, CarriedInv, FiledInv, ServerKept, SigningIn,
                      SelectedHeld, Alone, Server
<1> QED
  BY <1>1, <1>2, <1>3, <1>4, <1>5, <1>6, <1>7 DEF AccountNext

\* What is stored, who is signed in and what the threads do have their types
\* throughout every operation, its rollback, a crash and the next start.
THEOREM AccountTypes == AccountSpec => []AccountTypeOK
<1>1. StoreInv /\ FileInv => AccountTypeOK
  BY DEF StoreInv, ControlInv, TypesInv, OpsInv, Ops, AccountTypeOK, Tokens, FileInv
<1> QED
  BY <1>1, AccountInitEstablishes, StoreStepKeeps, FilesInit, FileStepKeeps, PTL
  DEF AccountSpec

\* Once nobody holds the lock and nobody saves, the file holds what is in memory.
LEMMA FileIsMemory ==
    ASSUME StoreInv, FileInv, lock = Nobody, ~broken, ~crossed, Quiet
    PROVE  UncrossedInv /\ disk = data /\ \A t \in Workers : ~SigningIn(t)
<1>1. UncrossedInv
  BY DEF FileInv
<1>2. \A t \in Workers : lock # t
  BY WorkersApart
<1>3. \A t \in Workers : op[t].step # "undo"
  BY <1>2 DEF StoreInv, ControlInv, LockInv, LockedSteps
<1>4. \A t \in Workers : saver[t].at = "idle"
  BY WorkersApart DEF Quiet
<1>5. Filed = data
  BY <1>1, <1>3, <1>4 DEF UncrossedInv, FiledInv
<1>6. disk = data
  BY <1>5 DEF Filed, Quiet
<1> QED
  BY <1>1, <1>2, <1>6 DEF SigningIn

\* Whenever no operation holds the lock, who is signed in is what the next start
\* of the program would restore: both credentials (persist_active_session and its
\* rollback) and, when the saves have ended and none crossed another, the server
\* in the settings' file, which is the one restore_persisted_session compares.
THEOREM SessionsArePersisted == AccountSpec => []SessionIsPersisted
<1>1. StoreInv /\ FileInv => SessionIsPersisted
  <2> SUFFICES ASSUME StoreInv, FileInv, lock = Nobody, ~broken, session # NoStored
               PROVE  /\ active = session
                      /\ account[session.who] = session.token
                      /\ ~moved /\ ~crossed /\ Quiet => disk = ServerOf[session.who]
    BY DEF SessionIsPersisted
  <2>1. active = session /\ account[session.who] = session.token
    BY DEF StoreInv, FreeInv, Persisted
  <2>2. ASSUME ~moved, ~crossed, Quiet PROVE disk = ServerOf[session.who]
    <3>1. UncrossedInv /\ disk = data /\ \A t \in Workers : ~SigningIn(t)
      BY <2>2, FileIsMemory
    <3> QED
      BY <2>2, <3>1 DEF UncrossedInv, ServerKept
  <2> QED
    BY <2>1, <2>2
<1> QED
  BY <1>1, AccountInitEstablishes, StoreStepKeeps, FilesInit, FileStepKeeps, PTL
  DEF AccountSpec

\* Signed out stays signed out, across restarts and late answers, until an
\* operation begun later signs in (logout_persisted_session, the generation).
THEOREM LogoutsAreFinal == AccountSpec => []LogoutIsFinal
<1>1. StoreInv => LogoutIsFinal
  BY DEF StoreInv, FreeInv, SignedOut, LogoutIsFinal
<1> QED
  BY <1>1, AccountInitEstablishes, StoreStepKeeps, PTL DEF AccountSpec

-----------------------------------------------------------------------------
(***************************************************************************)
(* What an operation that ends with an error leaves.                       *)
(***************************************************************************)
Traceless(t) == ~broken' => account' = op[t].was.account /\ active' = op[t].was.active

ServerBack(t) ==
    op[t].kind \in Persists /\ ~broken' /\ ~crossed' =>
        data' = op[t].was.url /\ (Quiet' => disk' = op[t].was.url)

\* Only its holder gives the lock up.
LEMMA HoldersGiveUp ==
    ASSUME StoreInv, NEW t \in Workers, Operate(t)
    PROVE  lock' = lock \/ lock = t \/ lock = Nobody
<1>1. CASE op[t].step = "commit"
  <2>1. op[t].step \in LockedSteps
    BY <1>1 DEF LockedSteps
  <2> QED
    BY <2>1, Holding
<1>2. CASE op[t].step # "commit"
  <2>1. Answer(t) \/ Discover(t) \/ GivesUp(t) \/ Lock(t) => lock' = lock \/ lock \in {t, Nobody}
    BY DEF Answer, Discover, GivesUp, Lock, Fail, EndsWith
  <2>2. PersistSteps(t) => lock' = lock \/ lock = t
    <3>1. SelectServer(t) \/ SaveServer(t) => lock' = lock \/ lock = t
      BY DEF SelectServer, SaveServer, Fail, EndsWith
    <3>2. PersistAccount(t) \/ PersistActive(t) => lock' = lock
      BY DEF PersistAccount, PersistActive
    <3>3. UndoOne(t) \/ UndoServer(t) \/ EndUndo(t) => lock' = lock \/ lock = t
      BY DEF UndoOne, UndoServer, EndUndo, OnlySettings, EndsWith
    <3> QED
      BY <3>1, <3>2, <3>3 DEF PersistSteps
  <2>3. CredentialSteps(t) => lock' = lock \/ lock = t
    <3>1. UpdateAccount(t) \/ DeleteAccount(t) \/ LogoutActive(t) => lock' = lock \/ lock = t
      BY DEF UpdateAccount, DeleteAccount, LogoutActive, Call, Fail, EndsWith
    <3>2. SecondActive(t) \/ SecondAccount(t) => lock' = lock
      BY DEF SecondActive, SecondAccount, SecondCall
    <3>3. RestoreFirst(t) \/ SaveProxy(t) => lock' = lock \/ lock = t
      BY DEF RestoreFirst, SaveProxy, Fail, EndsWith
    <3> QED
      BY <3>1, <3>2, <3>3 DEF CredentialSteps
  <2> QED
    BY <1>2, <2>1, <2>2, <2>3 DEF Operate, Commit
<1> QED
  BY <1>1, <1>2

LEMMA PersistErrors ==
    ASSUME StoreInv, NEW t \in Workers, PersistSteps(t), lock = t, lock' = Nobody
    PROVE  Traceless(t)
<1>1. t # Nobody
  BY WorkersApart
<1>2. CASE SaveServer(t)
  <2>1. /\ op[t].kind \in Persists /\ op[t].step = "url" /\ op[t].step \in LockedSteps
        /\ UNCHANGED <<account, active>>
    BY <1>2 DEF SaveServer, At, storeVars, LockedSteps
  <2>2. account = op[t].was.account /\ active = op[t].was.active
    BY <2>1, Holding DEF AccountHeld, ActiveHeld
  <2> QED
    BY <2>1, <2>2 DEF Traceless
<1>3. CASE EndUndo(t)
  <2>1. /\ op[t].step = "undo" /\ op[t].undo = <<>> /\ broken' = (broken \/ op[t].failed)
        /\ UNCHANGED <<account, active>>
    BY <1>3 DEF EndUndo, storeVars
  <2>2. op[t].kind \in Persists /\ AccountHeld(t) /\ ActiveHeld(t)
    BY <2>1, Undoing
  <2>3. Left(op[t].undo) = {}
    BY <2>1, LeftOf
  <2>4. ~op[t].failed => account = op[t].was.account /\ active = op[t].was.active
    BY <2>1, <2>2, <2>3 DEF AccountHeld, ActiveHeld
  <2> QED
    BY <2>1, <2>4 DEF Traceless
<1>4. ~(SelectServer(t) \/ PersistAccount(t) \/ PersistActive(t) \/ UndoOne(t) \/ UndoServer(t))
  BY <1>1 DEF SelectServer, PersistAccount, PersistActive, UndoOne, UndoServer, OnlySettings
<1> QED
  BY <1>2, <1>3, <1>4 DEF PersistSteps

\* A sign-in that gives the lock up with an error has given the server back.
LEMMA ServerIsBack ==
    ASSUME StoreInv, FileInv, StoreInv', FileInv', NEW t \in Workers, PersistSteps(t),
           lock = t, lock' = Nobody
    PROVE  ServerBack(t)
<1> SUFFICES ASSUME op[t].kind \in Persists, ~broken', ~crossed'
             PROVE  data' = op[t].was.url /\ (Quiet' => disk' = op[t].was.url)
  BY DEF ServerBack
<1>1. t # Nobody
  BY WorkersApart
<1>2. SaveServer(t) \/ EndUndo(t)
  BY <1>1 DEF PersistSteps, SelectServer, PersistAccount, PersistActive, UndoOne, UndoServer,
              OnlySettings
<1>3. data' = op[t].was.url
  <2>1. CASE SaveServer(t)
    BY <1>1, <2>1 DEF SaveServer
  <2>2. CASE EndUndo(t)
    <3>1. /\ op[t].step = "undo" /\ op[t].undo = <<>> /\ saver[t].at = "idle"
          /\ UNCHANGED settingsVars /\ UNCHANGED crossed
      BY <2>2 DEF EndUndo, fileHistory
    <3>2. ~broken
      BY <2>2, Zenon DEF EndUndo
    <3>3. SelectedHeld(t)
      BY <3>1, <3>2 DEF FileInv, UncrossedInv, SigningIn
    <3>4. data = op[t].was.url
      BY <3>1, <3>3, LeftOf DEF SelectedHeld
    <3> QED
      BY <3>1, <3>4 DEF settingsVars, saveVars
  <2> QED
    BY <1>2, <2>1, <2>2
<1>4. ASSUME Quiet' PROVE disk' = data'
  <2>1. UncrossedInv'
    BY DEF FileInv
  <2>2. \A u \in Workers : lock' # u
    BY WorkersApart
  <2>3. \A u \in Workers : op'[u].step # "undo"
    BY <2>2 DEF StoreInv, ControlInv, LockInv, LockedSteps
  <2>4. \A u \in Workers : saver'[u].at = "idle"
    BY <1>4, WorkersApart DEF Quiet
  <2>5. Filed' = data'
    BY <2>1, <2>3, <2>4 DEF UncrossedInv, FiledInv
  <2> QED
    BY <1>4, <2>5 DEF Filed, Quiet
<1> QED
  BY <1>3, <1>4

LEMMA CredentialErrors ==
    ASSUME StoreInv, NEW t \in Workers, CredentialSteps(t), lock = t, lock' = Nobody
    PROVE  Traceless(t) /\ ServerBack(t)
<1>1. t # Nobody
  BY WorkersApart
<1>2. CASE UpdateAccount(t) \/ DeleteAccount(t)
  <2>1. /\ op[t].kind \in {"update", "delete"} /\ op[t].step = "account"
        /\ op[t].step \in LockedSteps /\ op[t].kind \notin Persists
    BY <1>2 DEF UpdateAccount, DeleteAccount, At, LockedSteps, Persists
  <2>2. UNCHANGED <<account, active>>
    BY <1>1, <1>2 DEF UpdateAccount, DeleteAccount, Call
  <2>3. account = op[t].was.account /\ active = op[t].was.active
    BY <2>1, Calling DEF AccountHeld, ActiveHeld
  <2> QED
    BY <2>1, <2>2, <2>3 DEF Traceless, ServerBack
<1>3. CASE LogoutActive(t)
  <2>1. /\ op[t].kind = "logout" /\ op[t].step = "active"
        /\ op[t].step \in LockedSteps /\ op[t].kind \notin Persists
    BY <1>3 DEF LogoutActive, At, LockedSteps, Persists
  <2>2. UNCHANGED <<account, active>>
    BY <1>1, <1>3 DEF LogoutActive, Call
  <2>3. account = op[t].was.account /\ active = op[t].was.active
    BY <2>1, Calling DEF AccountHeld, ActiveHeld
  <2> QED
    BY <2>1, <2>2, <2>3 DEF Traceless, ServerBack
<1>4. CASE RestoreFirst(t)
  <2>1. /\ op[t].step = "restore" /\ op[t].step \in LockedSteps
    BY <1>4 DEF RestoreFirst, LockedSteps
  <2>2. op[t].kind \in {"update", "delete", "logout"} /\ op[t].kind \notin Persists
    BY <2>1, Holding DEF Fits, Persists
  <2>3. AccountHeld(t) /\ ActiveHeld(t)
    BY <2>1, <2>2, Calling
  <2>4. CASE op[t].kind = "logout"
    <3>1. account' = account /\ account = op[t].was.account
      BY <1>4, <2>1, <2>3, <2>4 DEF RestoreFirst, AccountHeld
    <3>2. ~broken' => active' = op[t].was.active
      BY <1>4, <2>4 DEF RestoreFirst
    <3> QED
      BY <2>2, <3>1, <3>2 DEF Traceless, ServerBack
  <2>5. CASE op[t].kind # "logout"
    <3>1. active' = active /\ active = op[t].was.active
      BY <1>4, <2>1, <2>2, <2>3, <2>5 DEF RestoreFirst, ActiveHeld
    <3>2. ~broken' => account' = op[t].was.account
      BY <1>4, <2>5 DEF RestoreFirst
    <3> QED
      BY <2>2, <3>1, <3>2 DEF Traceless, ServerBack
  <2> QED
    BY <2>4, <2>5
<1>5. ~(SecondActive(t) \/ SecondAccount(t))
  BY <1>1 DEF SecondActive, SecondAccount, SecondCall
<1>6. ~SaveProxy(t)
  <2>1. op[t].step = "settings" => lock # t
    BY Waiting
  <2> QED
    BY <2>1 DEF SaveProxy, At
<1> QED
  BY <1>2, <1>3, <1>4, <1>5, <1>6 DEF CredentialSteps

LEMMA ErrorsLeaveNoTrace ==
    ASSUME StoreInv, FileInv, NEW t \in Workers, [AccountNext]_accountVars,
           lock = t, lock' = Nobody, phase' = "up", outcome' = "error"
    PROVE  Traceless(t) /\ ServerBack(t)
<1>1. t # Nobody
  BY WorkersApart
<1>2. lock' # lock
  BY <1>1
<1>3. PICK u \in Workers : Operate(u)
  <2>1. ~Crash
    BY DEF Crash
  <2>2. ~Start
    <3>1. StartSignedOut \/ RestoreAccount => OnlyStart
      BY DEF StartSignedOut, RestoreAccount
    <3>2. (\E ok \in BOOLEAN : RestoreSession(ok)) => OnlyStart
      BY DEF RestoreSession
    <3> QED
      BY <1>2, <3>1, <3>2 DEF Start, OnlyStart
  <2>3. ~(OtherSettings \/ SettingsWorker)
    BY <1>2 DEF OtherSettings, SettingsWorker, OnlyOthers
  <2>4. ~(\/ \E a \in Accounts : BeginSwitch(a) \/ BeginDelete(a) \/ BeginUpdate(a)
          \/ BeginLogin \/ BeginLogout \/ BeginProxy)
    <3>1. \A u, kind, stored, step : ~Begin(u, kind, stored, step)
      BY <1>2 DEF Begin
    <3> QED
      BY <3>1 DEF BeginSwitch, BeginDelete, BeginUpdate, BeginLogin, BeginLogout, BeginProxy
  <2>5. ~UNCHANGED accountVars
    BY <1>2 DEF accountVars
  <2> QED
    BY <2>1, <2>2, <2>3, <2>4, <2>5 DEF AccountNext
<1>4. u = t
  BY <1>1, <1>2, <1>3, HoldersGiveUp
<1>5. ~(Answer(t) \/ Discover(t) \/ GivesUp(t) \/ Lock(t))
  <2>1. op[t].step \notin {"network", "lock"}
    BY Waiting
  <2> QED
    BY <2>1 DEF Answer, Discover, GivesUp, Lock, At
<1>6. ~Commit(t)
  BY DEF Commit
<1>7. StoreInv' /\ FileInv'
  BY StoreStepKeeps, FileStepKeeps
<1> QED
  BY <1>3, <1>4, <1>5, <1>6, <1>7, PersistErrors, ServerIsBack, CredentialErrors DEF Operate

\* An operation that ends with an error, and whose rollback did not fail, leaves
\* the credentials as it found them under the lock
\* (rollback_active_session_persistence and the restores of the others), and a
\* sign-in the selected server too, in memory and, once all saves have ended, in
\* the settings' file.
THEOREM ErrorsAreUndone == AccountSpec => FailureLeavesNoTrace
<1>1. StoreInv /\ FileInv /\ [AccountNext]_accountVars =>
          [\A t \in Workers :
               lock = t /\ lock' = Nobody /\ phase' = "up" /\ outcome' = "error"
               /\ ~broken' =>
                   /\ account' = op[t].was.account
                   /\ active' = op[t].was.active
                   /\ op[t].kind \in Persists /\ ~crossed' =>
                          data' = op[t].was.url
                          /\ (Quiet' => disk' = op[t].was.url)]_accountVars
  BY ErrorsLeaveNoTrace DEF Traceless, ServerBack
<1> QED
  BY <1>1, AccountInitEstablishes, StoreStepKeeps, FilesInit, FileStepKeeps, PTL
  DEF AccountSpec, FailureLeavesNoTrace
=============================================================================
