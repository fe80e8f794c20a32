------------------------- MODULE SessionResolverProofs -------------------------
(***************************************************************************)
(* Proofs about the session resolver, for any loaders, accounts, origins   *)
(* and number of redirects: types, the token's way, the account a session  *)
(* is handed to, and the per-media lock.                                   *)
(***************************************************************************)
EXTENDS SessionResolver, TLAPS

\* The token a session is played with is one of its server's.
TokenAtHome(s) ==
    s.token # NoToken => \E a \in Accounts : a.token = s.token /\ a.server = s.url.origin

\* Session s was resolved for account a, or might have been.
SuitsAccount(s, a) ==
    /\ s.server = a.server
    /\ s.account.token = a.token
    /\ s.account.proxy = a.proxy

\* The generation a load has begun with stands for the account it has begun with.
GenerationsAreAccounts ==
    \A t \in Loaders : load[t] # None =>
        /\ load[t].generation <= generation
        /\ load[t].generation = generation => load[t].account = account

SessionsAreHome ==
    /\ \A k \in Keys : sessions[k] # None => TokenAtHome(sessions[k])
    /\ \A t \in Loaders : load[t].at = "hand" => TokenAtHome(load[t].session)
    /\ \A t \in Loaders : handed[t] # None => TokenAtHome(handed[t].session)

SessionsSuit ==
    /\ \A t \in Loaders : load[t].at = "hand" =>
           SuitsAccount(load[t].session, load[t].account)
    /\ \A t \in Loaders : handed[t] # None =>
           SuitsAccount(handed[t].session, handed[t].account)

\* A load that probes has the lock of its user and media id.
ProbersHoldLock ==
    \A t \in Loaders : load[t].at = "probe" => locks[KeyOf(load[t])] = t

ResolverInv ==
    /\ ResolverTypeOK
    /\ GenerationsAreAccounts
    /\ SessionsAreHome
    /\ SessionsSuit
    /\ ProbersHoldLock

-----------------------------------------------------------------------------
(***************************************************************************)
(* The shapes of a load.                                                   *)
(***************************************************************************)
LEMMA Shapes ==
    ASSUME ResolverTypeOK, NEW t \in Loaders
    PROVE  /\ load[t] = None \/ load[t] \in Resolving \/ load[t] \in Given
           /\ load[t].at \in {"source", "lock", "probe"} => load[t] \in Resolving
           /\ load[t].at = "hand" => load[t] \in Given
           /\ load[t].at = "hand" <=> load[t] \in Given
           /\ load[t] = None <=> load[t].at = "none"
BY DEF ResolverTypeOK, Resolving, Given, None

LEMMA KeyIsKey ==
    ASSUME NEW l \in Resolving
    PROVE  KeyOf(l) \in Keys
BY DEF Resolving, KeyOf, Keys

\* The session made of a load's last link is typed, home and suits its account.
LEMMA MadeSession ==
    ASSUME NEW l \in Resolving
    PROVE  /\ SessionOf(l) \in Session
           /\ TokenAtHome(SessionOf(l))
           /\ SuitsAccount(SessionOf(l), l.account)
<1>1. /\ l.account \in Accounts /\ l.source \in Url /\ l.url \in Url /\ l.called \in Nat
  BY DEF Resolving
<1>2. l.account.server \in Origins
  BY <1>1, ResolverAssumption
<1>3. TokenFor(l.url, l.account) \in Tokens
  BY <1>1 DEF TokenFor, Tokens
<1>4. l.url.expires \in Nat
  BY <1>1, ResolverAssumption DEF Url
<1>5. Expiry(l.url, l.called) \in Int
  BY <1>1, <1>4 DEF Expiry, EXPIRY_SAFETY, DEFAULT_SESSION_TTL
<1>6. SessionOf(l) \in Session
  BY <1>1, <1>2, <1>3, <1>5 DEF SessionOf, Session
<1>7. TokenAtHome(SessionOf(l))
  BY <1>1 DEF TokenAtHome, SessionOf, TokenFor, SameOrigin
<1>8. SuitsAccount(SessionOf(l), l.account)
  BY DEF SuitsAccount, SessionOf
<1> QED
  BY <1>6, <1>7, <1>8

LEMMA ReusedSession ==
    ASSUME NEW l \in Resolving, NEW s \in {None} \cup Session, Reusable(s, l)
    PROVE  s \in Session /\ SuitsAccount(s, l.account)
BY DEF Reusable, SuitsAccount

-----------------------------------------------------------------------------
LEMMA InitEstablishes == ResolverInit => ResolverInv
<1> SUFFICES ASSUME ResolverInit PROVE ResolverInv
  OBVIOUS
<1>1. None.at = "none" /\ None.at # "hand" /\ None.at # "probe"
  BY DEF None
<1>2. ResolverTypeOK
  BY DEF ResolverInit, ResolverTypeOK
<1>3. GenerationsAreAccounts /\ SessionsAreHome /\ SessionsSuit /\ ProbersHoldLock
  BY <1>1 DEF ResolverInit, GenerationsAreAccounts, SessionsAreHome, SessionsSuit,
              ProbersHoldLock
<1> QED
  BY <1>2, <1>3 DEF ResolverInv

-----------------------------------------------------------------------------
(***************************************************************************)
(* A step of one load.                                                     *)
(***************************************************************************)
Handed == [at : {"player"}, session : Session, account : Accounts]

\* Load l belongs to the generation it was begun in.
InItsGeneration(l) ==
    l # None => /\ l.generation <= generation
                /\ l.generation = generation => l.account = account

\* The locks of other loads that probe are neither free nor the load's own.
LEMMA OthersHoldOtherLocks ==
    ASSUME ResolverInv, NEW t \in Loaders, NEW u \in Loaders \ {t}, load[u].at = "probe",
           NEW k \in Keys, locks[k] \in {Nobody, t}
    PROVE  /\ KeyOf(load[u]) \in Keys /\ KeyOf(load[u]) # k
           /\ locks[KeyOf(load[u])] = u
<1>1. load[u] \in Resolving
  BY Shapes DEF ResolverInv
<1>2. KeyOf(load[u]) \in Keys
  BY <1>1, KeyIsKey
<1>3. locks[KeyOf(load[u])] = u
  BY DEF ResolverInv, ProbersHoldLock
<1>4. u # Nobody
  BY ResolverAssumption
<1> QED
  BY <1>2, <1>3, <1>4

\* What a step of load t to l has to show for the invariant.
LEMMA OneLoadMoves ==
    ASSUME ResolverInv, NEW t \in Loaders, NEW l \in {None} \cup Resolving \cup Given,
           load' = [load EXCEPT ![t] = l],
           UNCHANGED <<now, account, generation, changes>>, loads' \in Nat,
           InItsGeneration(l),
           l.at = "hand" => TokenAtHome(l.session) /\ SuitsAccount(l.session, l.account),
           l.at = "probe" => locks'[KeyOf(l)] = t,
           \A u \in Loaders \ {t} : load[u].at = "probe" => locks'[KeyOf(load[u])] = u,
           locks' \in [Keys -> Loaders \cup {Nobody}],
           sessions' \in [Keys -> {None} \cup Session],
           \A k \in Keys : sessions'[k] # None => TokenAtHome(sessions'[k]),
           handed' \in [Loaders -> {None} \cup Handed],
           \A u \in Loaders : handed'[u] # None =>
               TokenAtHome(handed'[u].session)
               /\ SuitsAccount(handed'[u].session, handed'[u].account)
    PROVE  ResolverInv'
<1>1. \A u \in Loaders : load'[u] = IF u = t THEN l ELSE load[u]
  BY DEF ResolverInv, ResolverTypeOK
<1>2. ResolverTypeOK'
  BY DEF ResolverInv, ResolverTypeOK, Handed
<1>3. GenerationsAreAccounts'
  BY <1>1 DEF ResolverInv, GenerationsAreAccounts, InItsGeneration
<1>4. SessionsAreHome'
  BY <1>1 DEF ResolverInv, SessionsAreHome, TokenAtHome
<1>5. SessionsSuit'
  BY <1>1 DEF ResolverInv, SessionsSuit, SuitsAccount
<1>6. ProbersHoldLock'
  BY <1>1 DEF ProbersHoldLock, KeyOf
<1> QED
  BY <1>2, <1>3, <1>4, <1>5, <1>6 DEF ResolverInv

\* What the invariant says of the state OneLoadMoves asks about.
LEMMA AsItStands ==
    ASSUME ResolverInv
    PROVE  /\ loads \in Nat /\ changes \in Nat /\ generation \in Nat
           /\ locks \in [Keys -> Loaders \cup {Nobody}]
           /\ sessions \in [Keys -> {None} \cup Session]
           /\ \A k \in Keys : sessions[k] # None => TokenAtHome(sessions[k])
           /\ handed \in [Loaders -> {None} \cup Handed]
           /\ \A u \in Loaders : handed[u] # None =>
                  TokenAtHome(handed[u].session)
                  /\ SuitsAccount(handed[u].session, handed[u].account)
           /\ \A t \in Loaders : InItsGeneration(load[t])
           /\ \A t \in Loaders : load[t].at = "probe" => locks[KeyOf(load[t])] = t
           /\ None.at = "none"
BY DEF ResolverInv, ResolverTypeOK, SessionsAreHome, SessionsSuit, GenerationsAreAccounts,
       InItsGeneration, ProbersHoldLock, Handed, None

-----------------------------------------------------------------------------
(***************************************************************************)
(* The steps.                                                              *)
(***************************************************************************)
LEMMA BeginKeeps ==
    ASSUME ResolverInv, NEW t \in Loaders, NEW m \in Media, Begin(t, m)
    PROVE  ResolverInv'
<1> DEFINE source == [origin |-> account.server, expires |-> 0]
           l == [at |-> "source", account |-> account, generation |-> generation,
                 media |-> m, source |-> source, url |-> source, hops |-> 0, called |-> 0]
<1>1. account \in Accounts /\ generation \in Nat
  BY DEF ResolverInv, ResolverTypeOK
<1>2. source \in Url
  BY <1>1, ResolverAssumption DEF Url
<1>3. l \in Resolving /\ l.at = "source"
  BY <1>1, <1>2 DEF Resolving
<1>4. InItsGeneration(l)
  BY <1>1 DEF InItsGeneration
<1>5. load' = [load EXCEPT ![t] = l] /\ loads' = loads + 1
  BY DEF Begin, Begins
<1>6. UNCHANGED <<now, account, generation, sessions, locks, handed, changes>>
  BY DEF Begin
<1>7. loads' \in Nat
  BY <1>5, AsItStands
<1> HIDE DEF l
<1> QED
  BY <1>3, <1>4, <1>5, <1>6, <1>7, AsItStands, OneLoadMoves

\* A load that stays as it was but for its place, link or clock.
LEMMA StaysInGeneration ==
    ASSUME ResolverInv, NEW t \in Loaders, NEW l, l.generation = load[t].generation,
           l.account = load[t].account, load[t] # None
    PROVE  InItsGeneration(l)
BY AsItStands DEF InItsGeneration

LEMMA CallResolveKeeps ==
    ASSUME ResolverInv, NEW t \in Loaders, CallResolve(t)
    PROVE  ResolverInv'
<1>1. load[t] \in Resolving /\ load[t] # None
  BY Shapes DEF CallResolve, ResolverInv
<1>2. UNCHANGED <<now, account, generation, sessions, locks, handed, loads, changes>>
  BY DEF CallResolve
<1>3. CASE load[t].generation = generation
  <2> DEFINE l == [load[t] EXCEPT !.at = "lock", !.called = now]
  <2>1. l \in Resolving /\ l.at = "lock"
    BY <1>1 DEF Resolving, ResolverInv, ResolverTypeOK
  <2>2. l.generation = load[t].generation /\ l.account = load[t].account
    BY <1>1 DEF Resolving
  <2>3. InItsGeneration(l)
    BY <1>1, <2>2, StaysInGeneration
  <2>4. load' = [load EXCEPT ![t] = l]
    BY <1>3 DEF CallResolve, ResolverInv, ResolverTypeOK
  <2> HIDE DEF l
  <2> QED
    BY <1>2, <2>1, <2>3, <2>4, AsItStands, OneLoadMoves
<1>4. CASE load[t].generation # generation
  <2>1. load' = [load EXCEPT ![t] = None]
    BY <1>4 DEF CallResolve, Begins
  <2>2. InItsGeneration(None)
    BY DEF InItsGeneration
  <2> QED
    BY <1>2, <2>1, <2>2, AsItStands, OneLoadMoves
<1> QED
  BY <1>3, <1>4

\* A session for load t, with its lock free afterwards.
LEMMA ResolvedKeeps ==
    ASSUME ResolverInv, NEW t \in Loaders, load[t] \in Resolving,
           locks[KeyOf(load[t])] \in {Nobody, t},
           NEW s \in Session, TokenAtHome(s), SuitsAccount(s, load[t].account),
           NEW reused \in BOOLEAN, Resolved(t, s, reused),
           UNCHANGED <<now, account, generation, handed, loads, changes>>,
           sessions' \in [Keys -> {None} \cup Session],
           \A k \in Keys : sessions'[k] # None => TokenAtHome(sessions'[k])
    PROVE  ResolverInv'
<1> DEFINE l == [at |-> "hand", generation |-> load[t].generation,
                 account |-> load[t].account, session |-> s, reused |-> reused]
<1>1. load[t] # None
  BY Shapes DEF ResolverInv, Resolving, None
<1>2. load' = [load EXCEPT ![t] = l]
  BY DEF Resolved, ResolverInv, ResolverTypeOK
<1>3. l \in Given /\ l.at = "hand" /\ l.session = s /\ l.account = load[t].account
  BY DEF Resolving, Given
<1>4. InItsGeneration(l)
  BY <1>1, StaysInGeneration
<1>5. KeyOf(load[t]) \in Keys
  BY KeyIsKey
<1>6. locks' = [locks EXCEPT ![KeyOf(load[t])] = Nobody]
  BY DEF Resolved
<1>7. locks' \in [Keys -> Loaders \cup {Nobody}]
  BY <1>6, AsItStands
<1>8. \A u \in Loaders \ {t} : load[u].at = "probe" => locks'[KeyOf(load[u])] = u
  BY <1>5, <1>6, AsItStands, OthersHoldOtherLocks
<1> HIDE DEF l
<1> QED
  BY <1>2, <1>3, <1>4, <1>7, <1>8, AsItStands, OneLoadMoves

LEMMA EnterKeeps ==
    ASSUME ResolverInv, NEW t \in Loaders, Enter(t)
    PROVE  ResolverInv'
<1>1. load[t] \in Resolving /\ load[t] # None
  BY Shapes DEF Enter, ResolverInv
<1>2. UNCHANGED <<now, account, generation, sessions, handed, loads, changes>>
  BY DEF Enter
<1>3. KeyOf(load[t]) \in Keys /\ locks[KeyOf(load[t])] = Nobody
  BY <1>1, KeyIsKey DEF Enter
<1>4. CASE Reusable(sessions[KeyOf(load[t])], load[t])
  <2> DEFINE s == sessions[KeyOf(load[t])]
  <2>1. s \in {None} \cup Session
    BY <1>3, AsItStands
  <2>2. s \in Session /\ SuitsAccount(s, load[t].account)
    BY <1>1, <1>4, <2>1, ReusedSession
  <2>3. TokenAtHome(s)
    BY <1>3, <1>4, AsItStands DEF Reusable
  <2>4. Resolved(t, s, TRUE)
    BY <1>4 DEF Enter
  <2> QED
    BY <1>1, <1>2, <1>3, <2>2, <2>3, <2>4, AsItStands, ResolvedKeeps
<1>5. CASE ~Reusable(sessions[KeyOf(load[t])], load[t])
  <2> DEFINE l == [load[t] EXCEPT !.at = "probe"]
  <2>1. load' = [load EXCEPT ![t] = l] /\ locks' = [locks EXCEPT ![KeyOf(load[t])] = t]
    BY <1>5 DEF Enter, Goes, ResolverInv, ResolverTypeOK
  <2>2. /\ l \in Resolving /\ l.at = "probe" /\ KeyOf(l) = KeyOf(load[t])
        /\ l.generation = load[t].generation /\ l.account = load[t].account
    BY <1>1 DEF Resolving, KeyOf
  <2>3. InItsGeneration(l)
    BY <1>1, <2>2, StaysInGeneration
  <2>4. locks' \in [Keys -> Loaders \cup {Nobody}] /\ locks'[KeyOf(l)] = t
    BY <1>3, <2>1, <2>2, AsItStands
  <2>5. \A u \in Loaders \ {t} : load[u].at = "probe" => locks'[KeyOf(load[u])] = u
    BY <1>3, <2>1, AsItStands, OthersHoldOtherLocks
  <2> HIDE DEF l
  <2> QED
    BY <1>2, <2>1, <2>2, <2>3, <2>4, <2>5, AsItStands, OneLoadMoves
<1> QED
  BY <1>4, <1>5

LEMMA FollowKeeps ==
    ASSUME ResolverInv, NEW t \in Loaders, NEW next \in Url, Follow(t, next)
    PROVE  ResolverInv'
<1> DEFINE l == [load[t] EXCEPT !.url = next, !.hops = @ + 1]
<1>1. load[t] \in Resolving /\ load[t] # None
  BY Shapes DEF Follow, ResolverInv
<1>2. UNCHANGED <<now, account, generation, sessions, locks, handed, loads, changes>>
  BY DEF Follow
<1>3. load' = [load EXCEPT ![t] = l]
  BY DEF Follow, ResolverInv, ResolverTypeOK
<1>4. /\ l \in Resolving /\ l.at = load[t].at /\ KeyOf(l) = KeyOf(load[t])
      /\ l.generation = load[t].generation /\ l.account = load[t].account
  <2>1. load[t].hops \in Nat /\ load[t].hops + 1 \in Nat
    BY <1>1 DEF Resolving
  <2>2. l \in Resolving
    BY <1>1, <2>1 DEF Resolving
  <2>3. /\ l.at = load[t].at /\ l.media = load[t].media
        /\ l.generation = load[t].generation /\ l.account = load[t].account
    BY <1>1 DEF Resolving
  <2> QED
    BY <2>2, <2>3 DEF KeyOf
<1>5. InItsGeneration(l)
  BY <1>1, <1>4, StaysInGeneration
<1>6. l.at = "probe" /\ locks[KeyOf(l)] = t
  BY <1>4, AsItStands DEF Follow
<1> HIDE DEF l
<1> QED
  BY <1>2, <1>3, <1>4, <1>5, <1>6, AsItStands, OneLoadMoves

LEMMA ProbeFailsKeeps ==
    ASSUME ResolverInv, NEW t \in Loaders, ProbeFails(t)
    PROVE  ResolverInv'
<1>1. load[t] \in Resolving
  BY Shapes DEF ProbeFails, ResolverInv
<1>2. KeyOf(load[t]) \in Keys /\ locks[KeyOf(load[t])] = t
  BY <1>1, KeyIsKey, AsItStands DEF ProbeFails
<1>3. /\ load' = [load EXCEPT ![t] = None]
      /\ locks' = [locks EXCEPT ![KeyOf(load[t])] = Nobody]
      /\ UNCHANGED <<now, account, generation, sessions, handed, loads, changes>>
  BY DEF ProbeFails, Begins
<1>4. locks' \in [Keys -> Loaders \cup {Nobody}]
  BY <1>3, AsItStands
<1>5. \A u \in Loaders \ {t} : load[u].at = "probe" => locks'[KeyOf(load[u])] = u
  BY <1>2, <1>3, AsItStands, OthersHoldOtherLocks
<1>6. InItsGeneration(None)
  BY DEF InItsGeneration
<1> QED
  BY <1>3, <1>4, <1>5, <1>6, AsItStands, OneLoadMoves

LEMMA LandKeeps ==
    ASSUME ResolverInv, NEW t \in Loaders, Land(t)
    PROVE  ResolverInv'
<1> DEFINE s == SessionOf(load[t])
<1>1. load[t] \in Resolving
  BY Shapes DEF Land, ResolverInv
<1>2. KeyOf(load[t]) \in Keys /\ locks[KeyOf(load[t])] = t
  BY <1>1, KeyIsKey, AsItStands DEF Land
<1>3. s \in Session /\ TokenAtHome(s) /\ SuitsAccount(s, load[t].account)
  BY <1>1, MadeSession
<1>4. /\ sessions' = [sessions EXCEPT ![KeyOf(load[t])] = s]
      /\ Resolved(t, s, FALSE)
      /\ UNCHANGED <<now, account, generation, handed, loads, changes>>
  BY DEF Land
<1> HIDE DEF s
<1>5. sessions' \in [Keys -> {None} \cup Session]
  BY <1>3, <1>4, AsItStands
<1>6. \A k \in Keys : sessions'[k] # None => TokenAtHome(sessions'[k])
  BY <1>2, <1>3, <1>4, AsItStands
<1> QED
  BY <1>1, <1>2, <1>3, <1>4, <1>5, <1>6, ResolvedKeeps

\* The session handed over is of the account that is configured, because the load's
\* generation is.
LEMMA HandKeeps ==
    ASSUME ResolverInv, NEW t \in Loaders, Hand(t)
    PROVE  ResolverInv'
<1> DEFINE h == [at |-> "player", session |-> load[t].session, account |-> account]
<1>1. load[t] \in Given /\ load[t] # None
  BY Shapes DEF Hand, ResolverInv
<1>2. /\ load' = [load EXCEPT ![t] = None]
      /\ handed' = IF load[t].generation = generation THEN [handed EXCEPT ![t] = h] ELSE handed
      /\ UNCHANGED <<now, account, generation, sessions, locks, loads, changes>>
  BY DEF Hand, Begins
<1>3. h \in Handed /\ h.session = load[t].session /\ h.account = account
  BY <1>1 DEF Handed, Given, ResolverInv, ResolverTypeOK
<1>4. TokenAtHome(load[t].session) /\ SuitsAccount(load[t].session, load[t].account)
  BY DEF Hand, ResolverInv, SessionsAreHome, SessionsSuit
<1>5. load[t].generation = generation => load[t].account = account
  BY <1>1 DEF ResolverInv, GenerationsAreAccounts
<1>6. handed' \in [Loaders -> {None} \cup Handed]
  BY <1>2, <1>3, AsItStands
<1> HIDE DEF h
<1>7. \A u \in Loaders : handed'[u] # None =>
          TokenAtHome(handed'[u].session)
          /\ SuitsAccount(handed'[u].session, handed'[u].account)
  BY <1>2, <1>3, <1>4, <1>5, AsItStands
<1>8. InItsGeneration(None)
  BY DEF InItsGeneration
<1> QED
  BY <1>2, <1>6, <1>7, <1>8, AsItStands, OneLoadMoves

\* No load of an earlier generation is taken for one of the new account.
LEMMA ChangeAccountKeeps ==
    ASSUME ResolverInv, NEW a \in Accounts, ChangeAccount(a)
    PROVE  ResolverInv'
<1>1. generation \in Nat /\ changes \in Nat
  BY DEF ResolverInv, ResolverTypeOK
<1>2. \A t \in Loaders : load[t] # None => load[t].generation \in Nat
  BY Shapes DEF ResolverInv, Resolving, Given
<1>3. /\ account' = a /\ generation' = generation + 1 /\ changes' = changes + 1
      /\ UNCHANGED <<now, load, sessions, locks, handed, loads>>
  BY DEF ChangeAccount
<1>4. ResolverTypeOK'
  BY <1>1, <1>3 DEF ResolverInv, ResolverTypeOK
<1>5. GenerationsAreAccounts'
  BY <1>1, <1>2, <1>3 DEF ResolverInv, GenerationsAreAccounts
<1>6. SessionsAreHome' /\ SessionsSuit' /\ ProbersHoldLock'
  BY <1>3 DEF ResolverInv, SessionsAreHome, SessionsSuit, ProbersHoldLock, TokenAtHome,
              SuitsAccount, KeyOf
<1> QED
  BY <1>4, <1>5, <1>6 DEF ResolverInv

LEMMA TickKeeps ==
    ASSUME ResolverInv, Tick
    PROVE  ResolverInv'
<1>1. now' \in Nat /\ UNCHANGED <<account, generation, load, sessions, locks, handed, loads, changes>>
  BY ResolverAssumption DEF Tick
<1>2. ResolverTypeOK'
  BY <1>1 DEF ResolverInv, ResolverTypeOK
<1>3. /\ GenerationsAreAccounts' /\ SessionsAreHome' /\ SessionsSuit'
      /\ ProbersHoldLock'
  BY <1>1 DEF ResolverInv, GenerationsAreAccounts, SessionsAreHome, SessionsSuit,
              ProbersHoldLock, TokenAtHome, SuitsAccount, KeyOf
<1> QED
  BY <1>2, <1>3 DEF ResolverInv

-----------------------------------------------------------------------------
LEMMA StepKeeps == ResolverInv /\ [ResolverNext]_vars => ResolverInv'
<1> SUFFICES ASSUME ResolverInv, [ResolverNext]_vars PROVE ResolverInv'
  OBVIOUS
<1>1. CASE UNCHANGED vars
  BY <1>1 DEF vars, ResolverInv, ResolverTypeOK, GenerationsAreAccounts, SessionsAreHome,
              SessionsSuit, ProbersHoldLock, TokenAtHome, SuitsAccount, KeyOf
<1>2. ASSUME NEW t \in Loaders, Loader(t)
      PROVE  ResolverInv'
  BY <1>2, CallResolveKeeps, EnterKeeps, FollowKeeps, ProbeFailsKeeps, LandKeeps,
     HandKeeps DEF Loader
<1>3. ASSUME NEW t \in Loaders, NEW m \in Media, Begin(t, m)
      PROVE  ResolverInv'
  BY <1>3, BeginKeeps
<1>4. ASSUME NEW a \in Accounts, ChangeAccount(a)
      PROVE  ResolverInv'
  BY <1>4, ChangeAccountKeeps
<1>5. CASE Tick
  BY <1>5, TickKeeps
<1> QED
  BY <1>1, <1>2, <1>3, <1>4, <1>5 DEF ResolverNext

\* Loads, cache, locks and clock are well typed in every reachable state.
THEOREM ResolverTypes == ResolverSpec => []ResolverTypeOK
<1>1. ResolverInv => ResolverTypeOK
  BY DEF ResolverInv
<1> QED
  BY <1>1, InitEstablishes, StepKeeps, PTL DEF ResolverSpec

\* resolve_network sends the token to the server's own origin only, and what is
\* cached and played carries it for a link of that origin only, for any number of
\* redirects to any origins.
THEOREM TokensAtHome == ResolverSpec => []TokensStayHome
<1>1. ResolverInv => TokensStayHome
  <2> SUFFICES ASSUME ResolverInv, NEW t \in Loaders, NEW s \in Sent(t) \cup Played(t),
                      s.token # NoToken
               PROVE  \E a \in Accounts : a.token = s.token /\ a.server = s.origin
    BY DEF TokensStayHome
  <2>1. CASE s \in Sent(t)
    <3>1. load[t].at = "probe" /\ load[t] \in Resolving
      BY <2>1, Shapes DEF Sent, ResolverInv
    <3>2. /\ s = [origin |-> load[t].url.origin,
                  token |-> TokenFor(load[t].url, load[t].account)]
          /\ load[t].account \in Accounts
      BY <2>1, <3>1 DEF Sent, Resolving
    <3> QED
      BY <3>2 DEF TokenFor, SameOrigin
  <2>2. CASE s \in Played(t)
    <3>1. handed[t] # None /\ TokenAtHome(handed[t].session)
      BY <2>2 DEF Played, ResolverInv, SessionsAreHome
    <3>2. s = [origin |-> handed[t].session.url.origin, token |-> handed[t].session.token]
      BY <2>2, <3>1 DEF Played
    <3> QED
      BY <3>1, <3>2 DEF TokenAtHome
  <2> QED
    BY <2>1, <2>2
<1> QED
  BY <1>1, InitEstablishes, StepKeeps, PTL DEF ResolverSpec

\* resolve_at's comparison of the cached session with the request keeps what the
\* player is handed to the account that plays it, for any sequence of accounts.
THEOREM HandedFits == ResolverSpec => []HandedIsForAccount
<1>1. ResolverInv => HandedIsForAccount
  BY DEF ResolverInv, SessionsSuit, SuitsAccount, HandedIsForAccount
<1> QED
  BY <1>1, InitEstablishes, StepKeeps, PTL DEF ResolverSpec

\* The per-media resolve lock lets one load probe for a user and media id.
THEOREM OneProbe == ResolverSpec => []OneProbePerKey
<1>1. ResolverInv => OneProbePerKey
  BY DEF ResolverInv, ProbersHoldLock, OneProbePerKey
<1> QED
  BY <1>1, InitEstablishes, StepKeeps, PTL DEF ResolverSpec
=============================================================================
