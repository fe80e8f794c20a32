----------------------------- MODULE AccountStore -----------------------------
(***************************************************************************)
(* Account sessions: the operations of MediaStationRuntime that sign in,   *)
(* switch, update, delete and sign out (src/jfn_cef/src/                   *)
(* mediastation_runtime.rs) over the Credential Manager                    *)
(* (mediastation_credentials.rs) and the selected server of the settings   *)
(* (SettingsStore), with crashes and the restore at startup.               *)
(*                                                                         *)
(* Every credential call is a step of its own that may fail and before     *)
(* which the process may crash; calls under the state's lock exclude only  *)
(* those under it too.  UiThread runs the synchronous operations, Worker   *)
(* the one authentication that may be under way.  Reading a credential may *)
(* fail too: the operation then ends where it stands.  A token is a        *)
(* number, a later sign-in gets a larger one.                              *)
(***************************************************************************)
EXTENDS SettingsStore, Sequences

CONSTANTS
    Accounts,   \* (server, user) pairs, what an account credential is kept by
    ServerOf,   \* the server of each account
    UiThread,   \* CEF's UI thread
    AuthWorker, \* the authentication worker
    Nobody,     \* no thread, no account
    MaxTokens,  \* bound on the sign-ins
    MaxOps,     \* bound on the operations
    MaxFaults,  \* bound on the calls that fail
    MaxCrashes  \* bound on the crashes

ASSUME AccountAssumption ==
    /\ ServerOf \in [Accounts -> Values]
    /\ {UiThread, AuthWorker} \subseteq Savers /\ UiThread # AuthWorker
    /\ Nobody \notin Savers \cup Accounts
    /\ MaxTokens \in Nat

VARIABLES
    session,    \* RuntimeState::session with session_profile, or NoStored
    generation, \* RuntimeState::generation
    lock,       \* the thread that holds the state's lock, or Nobody
    account,    \* the account credentials: a token, or 0
    active,     \* the active credential, or NoStored
    op,         \* what each thread does
    phase,      \* of the process: starting, restoring or up
    tokens,     \* number of tokens the servers have issued
    ops,        \* number of operations begun
    faults,     \* number of calls that failed
    crashes,    \* number of crashes
    outcome,    \* history: how the last operation ended
    broken,     \* history: a rollback failed, or a deletion's wrote a stale credential
    out,        \* history: signed out, by a logout or the account's deletion
    kept,       \* history: the token each account was last left with, or 0
    moved,      \* history: another server was selected by hand since the sign-in
    crossed     \* history: saves of the settings crossed, or one was lost

sessionVars == <<session, generation>>
storeVars   == <<account, active>>
boundVars   == <<tokens, ops, crashes>>
fileHistory == <<moved, crossed>>
historyVars == <<outcome, broken, out, kept, fileHistory>>
accountVars == <<settingsVars, sessionVars, lock, storeVars, op, phase, boundVars,
                 faults, historyVars>>

Workers  == {UiThread, AuthWorker}
Stored   == [who : Accounts, token : 1..MaxTokens]
NoStored == [who |-> Nobody, token |-> 0]

Kinds == {"none", "login", "update", "switch", "logout", "delete", "proxy"}

\* what is to be stored; the generation of the request; what was there when the
\* lock was taken; the undo steps left, and whether one of them failed; begun
\* since the last sign-out.
NoOp == [kind |-> "none", step |-> "idle", stored |-> NoStored, gen |-> 0,
         was |-> [url |-> NoData, account |-> [a \in Accounts |-> 0], active |-> NoStored],
         undo |-> <<>>, failed |-> FALSE, recent |-> TRUE]

At(t, kinds, step) == op[t].kind \in kinds /\ op[t].step = step
Goto(t, step)      == op' = [op EXCEPT ![t].step = step]
May(ok)            == (ok \/ faults < MaxFaults) /\ faults' = faults + (IF ok THEN 0 ELSE 1)

Up == phase = "up"

-----------------------------------------------------------------------------
(***************************************************************************)
(* Beginning and ending.                                                   *)
(***************************************************************************)
Begin(t, kind, stored, step) ==
    /\ Up /\ op[t].kind = "none" /\ saver[t].at = "idle" /\ ops < MaxOps
    /\ ops' = ops + 1
    /\ op' = [op EXCEPT ![t] = [NoOp EXCEPT !.kind = kind, !.stored = stored,
                                            !.step = step, !.gen = generation]]
    /\ UNCHANGED <<settingsVars, sessionVars, lock, storeVars, phase, tokens,
                   crashes, faults, historyVars>>

\* The stored session of a switch and of a deletion is read before the lock.
BeginSwitch(a) ==
    account[a] # 0 /\ Begin(UiThread, "switch", [who |-> a, token |-> account[a]], "network")
BeginDelete(a) ==
    account[a] # 0 /\ Begin(UiThread, "delete", [who |-> a, token |-> account[a]], "lock")
BeginUpdate(a) ==
    account[a] # 0 /\ Begin(AuthWorker, "update", [who |-> a, token |-> account[a]], "network")
BeginLogin  == Begin(AuthWorker, "login", NoStored, "network")
BeginLogout == Begin(UiThread, "logout", NoStored, "lock")
BeginProxy  == Begin(UiThread, "proxy", NoStored, "settings")

\* The operation returns, here with an error; it holds the lock or does not.
EndsWith(t, how) ==
    /\ op' = [op EXCEPT ![t] = NoOp]
    /\ lock' = IF lock = t THEN Nobody ELSE lock
    /\ outcome' = how

Fail(t) == EndsWith(t, "error")

\* The server answers: a login for some account, an update for its own.
Answer(t) ==
    /\ op[t].kind \in {"login", "update"} /\ op[t].step = "network"
    /\ tokens < MaxTokens /\ tokens' = tokens + 1
    /\ \E a \in Accounts :
           /\ op[t].kind = "update" => a = op[t].stored.who
           /\ op' = [op EXCEPT ![t].step = "lock",
                               ![t].stored = [who |-> a, token |-> tokens + 1]]
    /\ UNCHANGED <<settingsVars, sessionVars, lock, storeVars, phase, ops, crashes,
                   faults, historyVars>>

Discover(t) ==
    /\ At(t, {"switch"}, "network")
    /\ Goto(t, "lock")
    /\ UNCHANGED <<settingsVars, sessionVars, lock, storeVars, phase, boundVars,
                   faults, historyVars>>

\* The server does not answer, or a credential cannot be read.
GivesUp(t) ==
    /\ op[t].step \in {"network", "lock"} /\ op[t].kind # "proxy" /\ May(FALSE)
    /\ Fail(t)
    /\ UNCHANGED <<settingsVars, sessionVars, storeVars, phase, boundVars, broken, out, kept,
                   fileHistory>>

IsActive(who) == session # NoStored /\ session.who = who
Mismatch      == session # NoStored /\ active # NoStored /\ active.who # session.who

-----------------------------------------------------------------------------
(***************************************************************************)
(* Taking the state's lock, with the checks made at once under it.  A      *)
(* switch is not checked against the generation.                           *)
(***************************************************************************)
FirstStep == [login |-> "url", switch |-> "url", update |-> "account",
              logout |-> "active", delete |-> "account", proxy |-> "commit"]

\* Fault of the mutation runs: a late answer of a sign-in is not refused.
AcceptLate(t) ==
    CASE op[t].kind = "update" -> account[op[t].stored.who] # 0
                                  /\ ~(IsActive(op[t].stored.who) /\ Mismatch)
      [] op[t].kind = "delete" -> ~(IsActive(op[t].stored.who) /\ Mismatch)
      [] op[t].kind = "logout" -> ~Mismatch
      [] OTHER                 -> TRUE

Accepted(t) ==
    CASE op[t].kind = "login"  -> op[t].gen = generation
      [] op[t].kind = "update" -> /\ op[t].gen = generation
                                  /\ account[op[t].stored.who] # 0
                                  /\ ~(IsActive(op[t].stored.who) /\ Mismatch)
      [] op[t].kind = "delete" -> ~(IsActive(op[t].stored.who) /\ Mismatch)
      [] op[t].kind = "logout" -> ~Mismatch
      [] OTHER                 -> TRUE

Lock(t) ==
    /\ op[t].step = "lock" /\ lock = Nobody
    /\ IF Accepted(t)
       THEN /\ lock' = t
            /\ op' = [op EXCEPT ![t].step = FirstStep[op[t].kind],
                                ![t].was = [url |-> data, account |-> account,
                                            active |-> active]]
            /\ UNCHANGED outcome
       ELSE Fail(t)
    /\ UNCHANGED <<settingsVars, sessionVars, storeVars, phase, boundVars, faults,
                   broken, out, kept, fileHistory>>

-----------------------------------------------------------------------------
(***************************************************************************)
(* persist_active_session: the server's URL, the account credential, the   *)
(* active credential, and on a failure the way back.                       *)
(***************************************************************************)
Persists == {"login", "switch"}

\* No save of the settings is under way.
Quiet == /\ \A t \in Savers : saver[t].at = "idle"
         /\ pending = NoData /\ writing = NoData

\* A setter's caller outside the lock, on the UI thread; it may find a sign-in
\* that has read the selected server.
ChangeByHand(t, v) ==
    /\ Change(t, v)
    /\ moved' = (moved \/ v # data)
    /\ crossed' = (crossed \/ \E u \in Workers : lock = u /\ op[u].kind \in Persists)

OnlySettings == UNCHANGED <<sessionVars, lock, storeVars, phase, boundVars, outcome,
                            broken, out, kept, fileHistory, changes>>

\* set_server_url, then settings_save takes its snapshot; nothing to do when
\* the server is the one that was read as the selected one.
SelectServer(t) ==
    /\ At(t, Persists, "url") /\ saver[t].at = "idle"
    /\ IF op[t].was.url = ServerOf[op[t].stored.who]
       THEN Goto(t, "account") /\ UNCHANGED <<settingsVars, crossed>>
       ELSE /\ Change(t, ServerOf[op[t].stored.who]) /\ UNCHANGED <<op, changes>>
            /\ crossed' = (crossed \/ ~Quiet)
    /\ UNCHANGED <<sessionVars, lock, storeVars, phase, boundVars, faults, outcome, broken,
                   out, kept, moved>>

\* Fault of the mutation runs: a save of the server that fails goes unnoticed.
SaveServerUnheeded(t) ==
    /\ At(t, Persists, "url")
    /\ \/ Snapshot(t, "saving") /\ UNCHANGED <<op, faults>>
       \/ \E ok \in BOOLEAN : Save(t, ok) /\ May(ok) /\ Goto(t, "account")
    /\ OnlySettings

SaveServer(t) ==
    /\ At(t, Persists, "url")
    /\ \/ Snapshot(t, "saving") /\ UNCHANGED <<op, lock, outcome, faults>>
       \/ Save(t, TRUE) /\ Goto(t, "account") /\ UNCHANGED <<lock, outcome, faults>>
       \/ /\ saver[t].at = "saving" /\ May(FALSE)
          /\ data' = op[t].was.url
          /\ saver' = [saver EXCEPT ![t] = Idle]
          /\ Fail(t)
          /\ UNCHANGED <<disk, pending, stop, worker, writing, handed, wrote>>
    /\ UNCHANGED <<sessionVars, storeVars, phase, boundVars, broken, out, kept, fileHistory,
                   changes>>

\* Fault of the mutation runs: a new account's credential stays behind.
UndoActiveOnly(t, active_too) ==
    LET was == op[t].was
    IN  (IF active_too THEN <<"active">> ELSE <<"account">>)
        \o (IF was.url # ServerOf[op[t].stored.who] THEN <<"url">> ELSE <<>>)

\* What rollback_active_session_persistence gives back, in its order.
Undo(t, active_too) ==
    LET was == op[t].was
        changed == was.account[op[t].stored.who] # op[t].stored.token
    IN  (IF active_too THEN <<"active">> ELSE <<>>)
        \o (IF changed THEN <<"account">> ELSE <<>>)
        \o (IF was.url # ServerOf[op[t].stored.who] THEN <<"url">> ELSE <<>>)

RollBack(t, active_too) ==
    op' = [op EXCEPT ![t].step = "undo", ![t].undo = Undo(t, active_too)]

PersistAccount(t) ==
    /\ At(t, Persists, "account")
    /\ \E ok \in BOOLEAN :
           /\ May(ok)
           /\ ~ok => account[op[t].stored.who] # op[t].stored.token
           /\ account' = IF ok THEN [account EXCEPT ![op[t].stored.who] = op[t].stored.token]
                         ELSE account
           /\ IF ok THEN Goto(t, "active") ELSE RollBack(t, FALSE)
    /\ UNCHANGED <<settingsVars, sessionVars, lock, active, phase, boundVars, historyVars>>

PersistActive(t) ==
    /\ At(t, Persists, "active")
    /\ \E ok \in BOOLEAN :
           /\ May(ok)
           /\ ~ok => active # op[t].stored
           /\ active' = IF ok THEN op[t].stored ELSE active
           /\ IF ok THEN Goto(t, "commit") ELSE RollBack(t, TRUE)
    /\ UNCHANGED <<settingsVars, sessionVars, lock, account, phase, boundVars, historyVars>>

\* One step back; a failure is remembered and the others are still tried.
UndoOne(t) ==
    LET what == Head(op[t].undo) IN
    /\ op[t].step = "undo" /\ op[t].undo # <<>> /\ saver[t].at = "idle"
    /\ \/ /\ what = "url"
          /\ Change(t, op[t].was.url)
          /\ UNCHANGED <<changes, storeVars, op, faults>>
       \/ /\ what # "url"
          /\ \E ok \in BOOLEAN :
                 /\ May(ok)
                 /\ account' = IF ok /\ what = "account"
                               THEN [account EXCEPT ![op[t].stored.who] =
                                                        op[t].was.account[op[t].stored.who]]
                               ELSE account
                 /\ active' = IF ok /\ what = "active" THEN op[t].was.active ELSE active
                 /\ op' = [op EXCEPT ![t].undo = Tail(@), ![t].failed = @ \/ ~ok]
          /\ UNCHANGED settingsVars
    /\ UNCHANGED <<sessionVars, lock, phase, boundVars, historyVars>>

UndoServer(t) ==
    /\ op[t].step = "undo"
    /\ \/ Snapshot(t, "saving") /\ UNCHANGED <<op, faults>>
       \/ \E ok \in BOOLEAN :
              /\ Save(t, ok) /\ May(ok)
              /\ op' = [op EXCEPT ![t].undo = <<>>, ![t].failed = @ \/ ~ok]
    /\ OnlySettings

EndUndo(t) ==
    /\ op[t].step = "undo" /\ op[t].undo = <<>> /\ saver[t].at = "idle"
    /\ EndsWith(t, IF op[t].failed THEN "rollback_failed" ELSE "error")
    /\ broken' = (broken \/ op[t].failed)
    /\ UNCHANGED <<settingsVars, sessionVars, storeVars, phase, boundVars, faults, out, kept,
                   fileHistory>>

PersistSteps(t) ==
    \/ SelectServer(t) \/ SaveServer(t) \/ PersistAccount(t) \/ PersistActive(t)
    \/ UndoOne(t) \/ UndoServer(t) \/ EndUndo(t)

-----------------------------------------------------------------------------
(***************************************************************************)
(* update_saved_account, delete_saved_account, logout_persisted_session:   *)
(* two credentials, the second for the configured account only, and the    *)
(* first restored when the second fails.                                   *)
(***************************************************************************)
\* A credential call of thread t: what it leaves, and where the operation goes.
Call(t, ok, then) ==
    /\ May(ok)
    /\ IF ok THEN Goto(t, then) /\ UNCHANGED <<lock, outcome>> ELSE Fail(t)
    /\ UNCHANGED <<settingsVars, sessionVars, phase, boundVars, broken, out, kept,
                   fileHistory>>

ThenActive(t) == IF IsActive(op[t].stored.who) THEN "active" ELSE "commit"

UpdateAccount(t) ==
    /\ At(t, {"update"}, "account")
    /\ \E ok \in BOOLEAN :
           /\ Call(t, ok, ThenActive(t))
           /\ account' = IF ok THEN [account EXCEPT ![op[t].stored.who] = op[t].stored.token]
                         ELSE account
    /\ UNCHANGED active

\* An account that is gone by now was not found.
DeleteAccount(t) ==
    /\ At(t, {"delete"}, "account")
    /\ \E ok \in BOOLEAN :
           /\ account[op[t].stored.who] = 0 => ~ok
           /\ Call(t, ok, ThenActive(t))
           /\ account' = IF ok THEN [account EXCEPT ![op[t].stored.who] = 0] ELSE account
    /\ UNCHANGED active

LogoutActive(t) ==
    /\ At(t, {"logout"}, "active")
    /\ \E ok \in BOOLEAN :
           /\ Call(t, ok, IF session = NoStored THEN "commit" ELSE "account")
           /\ active' = IF ok THEN NoStored ELSE active
    /\ UNCHANGED account

\* The second credential of each; when it fails the first is to be restored.
SecondCall(t, ok) ==
    /\ May(ok)
    /\ Goto(t, IF ok THEN "commit" ELSE "restore")
    /\ UNCHANGED <<settingsVars, sessionVars, lock, phase, boundVars, historyVars>>

SecondActive(t) ==
    /\ At(t, {"update", "delete"}, "active")
    /\ \E ok \in BOOLEAN :
           /\ SecondCall(t, ok)
           /\ active' = IF ~ok THEN active
                        ELSE IF op[t].kind = "update" THEN op[t].stored ELSE NoStored
    /\ UNCHANGED account

SecondAccount(t) ==
    /\ At(t, {"logout"}, "account")
    /\ \E ok \in BOOLEAN :
           /\ SecondCall(t, ok)
           /\ account' = IF ok THEN [account EXCEPT ![session.who] = 0] ELSE account
    /\ UNCHANGED active

\* Fault of the mutation runs: the first credential stays as it was left.
SkipRestore(t) ==
    /\ op[t].step = "restore"
    /\ Fail(t)
    /\ UNCHANGED <<settingsVars, sessionVars, storeVars, phase, boundVars, faults,
                   broken, out, kept, fileHistory>>

\* What the first credential was, as the operation knows it: a deletion read it
\* before it had the lock.
First(t) == IF op[t].kind = "delete" THEN op[t].stored.token
            ELSE op[t].was.account[op[t].stored.who]

RestoreFirst(t) ==
    /\ op[t].step = "restore"
    /\ \E ok \in BOOLEAN :
           /\ May(ok)
           /\ op[t].kind = "logout" /\ op[t].was.active = NoStored => ok
           /\ EndsWith(t, IF ok THEN "error" ELSE "rollback_failed")
           /\ IF op[t].kind = "logout"
              THEN /\ active' = IF ok THEN op[t].was.active ELSE active
                   /\ broken' = (broken \/ ~ok)
                   /\ UNCHANGED account
              ELSE /\ account' = IF ok THEN [account EXCEPT ![op[t].stored.who] = First(t)]
                                 ELSE account
                   /\ broken' = (broken \/ account' # op[t].was.account)
                   /\ UNCHANGED active
    /\ UNCHANGED <<settingsVars, sessionVars, phase, boundVars, out, kept, fileHistory>>

\* set_global_proxy_mode saves the settings first, without the lock.
SaveProxy(t) ==
    /\ At(t, {"proxy"}, "settings")
    /\ \/ ChangeByHand(t, data) /\ UNCHANGED <<op, lock, outcome, faults>>
       \/ Snapshot(t, "saving") /\ UNCHANGED <<op, lock, outcome, faults, fileHistory>>
       \/ /\ Save(t, TRUE) /\ Goto(t, "lock")
          /\ UNCHANGED <<lock, outcome, faults, fileHistory>>
       \/ Save(t, FALSE) /\ May(FALSE) /\ Fail(t) /\ UNCHANGED fileHistory
    /\ UNCHANGED <<sessionVars, storeVars, phase, boundVars, broken, out, kept, changes>>

CredentialSteps(t) ==
    \/ UpdateAccount(t) \/ DeleteAccount(t) \/ LogoutActive(t)
    \/ SecondActive(t) \/ SecondAccount(t) \/ RestoreFirst(t)
    \/ SaveProxy(t)

-----------------------------------------------------------------------------
(***************************************************************************)
(* The commit: session and generation change together, under the lock.     *)
(***************************************************************************)
SignsOut(t) == \/ op[t].kind = "logout"
               \/ op[t].kind = "delete" /\ IsActive(op[t].stored.who)
SignsIn(t)  == \/ op[t].kind \in Persists
               \/ op[t].kind = "update" /\ IsActive(op[t].stored.who)

Commit(t) ==
    /\ op[t].step = "commit"
    /\ session' = IF SignsIn(t) THEN op[t].stored
                  ELSE IF SignsOut(t) THEN NoStored ELSE session
    /\ generation' = IF \/ SignsIn(t) \/ SignsOut(t)
                        \/ op[t].kind = "proxy" /\ session # NoStored
                     THEN generation + 1 ELSE generation
    /\ lock' = Nobody /\ outcome' = "done"
    /\ op' = [u \in DOMAIN op |->
                 IF u = t THEN NoOp
                 ELSE IF SignsOut(t) THEN [op[u] EXCEPT !.recent = FALSE] ELSE op[u]]
    /\ out' = IF SignsOut(t) THEN TRUE
              ELSE IF SignsIn(t) /\ op[t].recent THEN FALSE ELSE out
    /\ kept' = CASE op[t].kind \in {"login", "update"} ->
                       [kept EXCEPT ![op[t].stored.who] = op[t].stored.token]
                 [] op[t].kind = "delete" -> [kept EXCEPT ![op[t].stored.who] = 0]
                 [] op[t].kind = "logout" ->
                       [a \in Accounts |-> IF IsActive(a) THEN 0 ELSE kept[a]]
                 [] OTHER -> kept
    /\ moved' = IF op[t].kind \in Persists THEN data # ServerOf[op[t].stored.who] ELSE moved
    /\ UNCHANGED <<settingsVars, storeVars, phase, boundVars, faults, broken, crossed>>

-----------------------------------------------------------------------------
(***************************************************************************)
(* Crash, start, and the restore of the persisted session.                 *)
(***************************************************************************)
Crash ==
    /\ phase # "starting" /\ crashes < MaxCrashes /\ crashes' = crashes + 1
    /\ phase' = "starting"
    /\ data' = disk
    /\ saver' = [t \in Savers |-> Idle]
    /\ pending' = NoData /\ stop' = FALSE /\ worker' = "none" /\ writing' = NoData
    /\ handed' = NoData /\ wrote' = NoData
    /\ session' = NoStored /\ generation' = 0
    /\ lock' = Nobody
    /\ op' = [t \in Workers |-> NoOp]
    /\ out' = (out /\ lock = Nobody)
    /\ kept' = IF lock = Nobody THEN kept ELSE account
    /\ moved' = FALSE /\ crossed' = FALSE
    /\ UNCHANGED <<disk, changes, storeVars, tokens, ops, faults, outcome, broken>>

OnlyStart == UNCHANGED <<settingsVars, lock, active, op, boundVars, historyVars>>

\* No active credential, one of another server, or one that cannot be read.
StartSignedOut ==
    /\ phase = "starting" /\ phase' = "up"
    /\ \/ /\ active = NoStored \/ (active # NoStored /\ ServerOf[active.who] # data)
          /\ UNCHANGED faults
       \/ May(FALSE)
    /\ UNCHANGED <<sessionVars, account>>
    /\ OnlyStart

\* The account credential is created or refreshed from the active one.
RestoreAccount ==
    /\ phase = "starting" /\ phase' = "restoring"
    /\ active # NoStored /\ ServerOf[active.who] = data
    /\ account' = [account EXCEPT ![active.who] = active.token]
    /\ UNCHANGED <<sessionVars, faults>>
    /\ OnlyStart

\* The server's extensions are asked for; without an answer nobody is signed in.
RestoreSession(ok) ==
    /\ phase = "restoring" /\ phase' = "up"
    /\ May(ok)
    /\ session' = IF ok THEN active ELSE session
    /\ generation' = IF ok THEN generation + 1 ELSE generation
    /\ UNCHANGED account
    /\ OnlyStart

Start == StartSignedOut \/ RestoreAccount \/ \E ok \in BOOLEAN : RestoreSession(ok)

-----------------------------------------------------------------------------
(***************************************************************************)
(* The settings the UI thread changes without the lock, the selected       *)
(* server (saveServerUrl) among them, and saves in the background.         *)
(***************************************************************************)
OnlyOthers == UNCHANGED <<sessionVars, lock, storeVars, op, phase, boundVars, outcome,
                          broken, out, kept>>

OtherSettings ==
    /\ Up /\ op[UiThread].kind = "none"
    /\ \/ /\ changes < MaxChanges /\ changes' = changes + 1
          /\ \E v \in Values : ChangeByHand(UiThread, v)
       \/ Snapshot(UiThread, "handing") /\ UNCHANGED <<changes, fileHistory>>
       \/ HandOver(UiThread) /\ UNCHANGED <<changes, fileHistory>>
    /\ OnlyOthers /\ UNCHANGED faults

\* Nobody learns of a write of the worker that fails.
SettingsWorker ==
    /\ \/ Look /\ UNCHANGED <<crossed, faults>>
       \/ \E ok \in BOOLEAN : /\ WorkerWrites(ok) /\ May(ok)
                             /\ crossed' = (crossed \/ ~ok)
    /\ OnlyOthers /\ UNCHANGED <<changes, moved>>

-----------------------------------------------------------------------------
\* A first start, nobody signed in, some server selected.
AccountInit ==
    /\ SettingsInit
    /\ session = NoStored /\ generation = 0
    /\ lock = Nobody
    /\ account = [a \in Accounts |-> 0] /\ active = NoStored
    /\ op = [t \in Workers |-> NoOp]
    /\ phase = "starting"
    /\ tokens = 0 /\ ops = 0 /\ faults = 0 /\ crashes = 0
    /\ outcome = "done" /\ broken = FALSE /\ out = FALSE
    /\ kept = [a \in Accounts |-> 0]
    /\ moved = FALSE /\ crossed = FALSE

Operate(t) ==
    \/ Answer(t) \/ Discover(t) \/ GivesUp(t) \/ Lock(t)
    \/ PersistSteps(t) \/ CredentialSteps(t) \/ Commit(t)

AccountNext ==
    \/ \E a \in Accounts : BeginSwitch(a) \/ BeginDelete(a) \/ BeginUpdate(a)
    \/ BeginLogin \/ BeginLogout \/ BeginProxy
    \/ \E t \in Workers : Operate(t)
    \/ Start \/ Crash
    \/ OtherSettings \/ SettingsWorker

AccountSpec == AccountInit /\ [][AccountNext]_accountVars

-----------------------------------------------------------------------------
(***************************************************************************)
(* Properties.                                                             *)
(***************************************************************************)
\* Type correctness of sessions, credentials and operations.
AccountTypeOK ==
    /\ {session, active} \subseteq Stored \cup {NoStored}
    /\ account \in [Accounts -> 0..MaxTokens]
    /\ generation \in Nat
    /\ lock \in Workers \cup {Nobody}
    /\ \A t \in Workers :
           /\ op[t].kind \in Kinds
           /\ op[t].stored \in Stored \cup {NoStored}
    /\ phase \in {"starting", "restoring", "up"}
    /\ {broken, out, moved, crossed} \subseteq BOOLEAN

\* Who is signed in is what the next start would restore: whenever no operation
\* holds the lock, the session is the active credential and the credential of its
\* account, and once the saves under way have ended its server is the one in the
\* settings' file.  Excused: a failed rollback, which was reported; another
\* server selected by hand; for the file, saves that crossed, where the older
\* snapshot may be the one that is written last.
SessionIsPersisted ==
    lock = Nobody /\ Up /\ ~broken /\ session # NoStored =>
        /\ active = session
        /\ account[session.who] = session.token
        /\ ~moved /\ ~crossed /\ Quiet => disk = ServerOf[session.who]

\* "If logout or another account change happens while a login request is in
\* flight, the late login result [...] cannot write a credential or reactivate
\* the account": signed out stays signed out, across restarts too, until an
\* operation begun later signs in.
LogoutIsFinal ==
    out /\ lock = Nobody /\ ~broken => active = NoStored /\ session = NoStored

\* "A later failure restores every earlier changed value": an operation that
\* ends with an error, and whose rollback neither failed nor was stale, leaves
\* both kinds of credentials as it found them under the lock, and a sign-in the
\* selected server too, in memory and in the file, unless the settings were
\* changed by hand in between or the worker was still writing an older snapshot.
FailureLeavesNoTrace ==
    [][\A t \in Workers :
           lock = t /\ lock' = Nobody /\ phase' = "up" /\ outcome' = "error"
           /\ ~broken' =>
               /\ account' = op[t].was.account
               /\ active' = op[t].was.active
               /\ op[t].kind \in Persists /\ ~crossed' =>
                      data' = op[t].was.url /\ (Quiet' => disk' = op[t].was.url)]_accountVars

\* "Login commits, saved-account switches, and logout are serialized under the
\* native session generation": the credential of an account is the one its last
\* sign-in or update left, or none after it was deleted or signed out of.
AccountsAreKept ==
    lock = Nobody /\ ~broken /\ phase = "up" => account = kept
=============================================================================
