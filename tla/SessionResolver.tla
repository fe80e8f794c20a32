---------------------------- MODULE SessionResolver ----------------------------
(***************************************************************************)
(* PlaybackSessionResolver of src/mediastation/src/playback_session.rs,    *)
(* called by execute_load of src/jfn_cef/src/mediastation_runtime.rs: the  *)
(* redirects of a source are followed to the link that is played, which is *)
(* cached for a user and media id until the time it is taken to expire.    *)
(* Accounts change meanwhile; the cache survives them.                     *)
(*                                                                         *)
(* A URL is its origin and the expiry its query states, 0 for none.  Time  *)
(* counts in units of ten seconds.  The servers answer as they like.       *)
(***************************************************************************)
EXTENDS Integers, FiniteSets

CONSTANTS
    Loaders,      \* the threads that load
    Accounts,     \* [user, server, token, proxy]: what a session is made of
    Media,
    Origins,      \* of the servers and of the delivery network
    Secure,       \* the origins that are https
    Expiries,     \* the expiries a link may state
    MAX_REDIRECTS,
    Instants,     \* the times there are
    MaxLoads,     \* bound on the loads
    MaxChanges    \* bound on the account changes

DEFAULT_SESSION_TTL == 12
EXPIRY_SAFETY       == 6
CACHE_REUSE_SAFETY  == 1

Nobody == "nobody"

ASSUME ResolverAssumption ==
    /\ \A a \in Accounts : a.server \in Origins
    /\ Secure \subseteq Origins /\ Expiries \subseteq Nat
    /\ Nobody \notin Loaders
    /\ Instants \subseteq Nat /\ 0 \in Instants
    /\ MAX_REDIRECTS \in Nat /\ MaxLoads \in Nat /\ MaxChanges \in Nat

Url     == [origin : Origins, expires : Expiries \cup {0}]
NoToken == "no token"
None    == [at |-> "none"]

VARIABLES
    now,        \* the clock
    account,    \* the account whose session is configured
    generation, \* RuntimeState::generation
    load,       \* what each loader does
    sessions,   \* the cache, for a user and media id
    locks,      \* the holder of each per-media resolve lock
    handed,     \* history: the playback each loader was last handed
    loads, changes

vars == <<now, account, generation, load, sessions, locks, handed, loads, changes>>

Keys == [user : {a.user : a \in Accounts}, media : Media]

-----------------------------------------------------------------------------
(***************************************************************************)
(* Sessions.                                                               *)
(***************************************************************************)
SameOrigin(url, server) == url.origin = server

\* Fault of the mutation runs: what the first probe carried is carried on.
TokenAlways(url, a) == a.token

\* What a probe or the player sends along: the token goes to the server only.
TokenFor(url, a) == IF SameOrigin(url, a.server) THEN a.token ELSE NoToken

\* direct_link_expiry, at the time of the call.
StatedExpiry(url, at) == url.expires > at + EXPIRY_SAFETY
Expiry(url, at) ==
    IF StatedExpiry(url, at) THEN url.expires - EXPIRY_SAFETY ELSE at + DEFAULT_SESSION_TTL

\* Fault of the mutation runs: a session is reused for any server and token of
\* the user.
ReusableForUser(s, l) ==
    s # None /\ s.source = l.source /\ s.expiry - CACHE_REUSE_SAFETY > l.called

\* resolve_at's check of the cached session, with the time of the call.
Reusable(s, l) ==
    /\ s # None
    /\ s.source = l.source
    /\ s.server = l.account.server
    /\ s.account.token = l.account.token
    /\ s.account.proxy = l.account.proxy
    /\ s.expiry - CACHE_REUSE_SAFETY > l.called

KeyOf(l)  == [user |-> l.account.user, media |-> l.media]
SessionOf(l) ==
    [at |-> "cache", source |-> l.source, url |-> l.url, token |-> TokenFor(l.url, l.account),
     server |-> l.account.server, account |-> l.account, expiry |-> Expiry(l.url, l.called)]

-----------------------------------------------------------------------------
Begins(t, l) == load' = [load EXCEPT ![t] = l]
Goes(t, at)  == load' = [load EXCEPT ![t].at = at]

\* begin_request and PlaybackInfo, for the account there is; the source comes
\* from its server, which is validated.
Begin(t, m) ==
    /\ load[t] = None /\ loads < MaxLoads
    /\ loads' = loads + 1
    /\ LET source == [origin |-> account.server, expires |-> 0] IN
           Begins(t, [at |-> "source", account |-> account, generation |-> generation,
                      media |-> m, source |-> source, url |-> source, hops |-> 0,
                      called |-> 0])
    /\ UNCHANGED <<now, account, generation, sessions, locks, handed, changes>>

\* ensure_generation, and resolve: the clock is read before the lock is waited for.
CallResolve(t) ==
    /\ load[t].at = "source"
    /\ IF load[t].generation = generation
       THEN load' = [load EXCEPT ![t].at = "lock", ![t].called = now]
       ELSE Begins(t, None)
    /\ UNCHANGED <<now, account, generation, sessions, locks, handed, loads, changes>>

\* The loader goes on with session s, and lets go of the lock.
Resolved(t, s, reused) ==
    /\ load' = [load EXCEPT ![t] = [at |-> "hand", generation |-> @.generation,
                                    account |-> @.account, session |-> s,
                                    reused |-> reused]]
    /\ locks' = [locks EXCEPT ![KeyOf(load[t])] = Nobody]

\* Fault of the mutation runs: the lock is passed by.
EnterUnlocked(t) ==
    /\ load[t].at = "lock"
    /\ \/ /\ Reusable(sessions[KeyOf(load[t])], load[t])
          /\ Resolved(t, sessions[KeyOf(load[t])], TRUE)
       \/ /\ ~Reusable(sessions[KeyOf(load[t])], load[t])
          /\ Goes(t, "probe") /\ UNCHANGED locks
    /\ UNCHANGED <<now, account, generation, sessions, handed, loads, changes>>

\* The resolve lock is taken and the cache looked at.
Enter(t) ==
    /\ load[t].at = "lock" /\ locks[KeyOf(load[t])] = Nobody
    /\ \/ /\ Reusable(sessions[KeyOf(load[t])], load[t])
          /\ Resolved(t, sessions[KeyOf(load[t])], TRUE)
       \/ /\ ~Reusable(sessions[KeyOf(load[t])], load[t])
          /\ Goes(t, "probe") /\ locks' = [locks EXCEPT ![KeyOf(load[t])] = t]
    /\ UNCHANGED <<now, account, generation, sessions, handed, loads, changes>>

Downgrades(from, to) == from.origin \in Secure /\ to.origin \notin Secure

\* Fault of the mutation runs: the redirects are not counted.
FollowForEver(t, next) ==
    /\ load[t].at = "probe"
    /\ ~Downgrades(load[t].url, next)
    /\ load' = [load EXCEPT ![t].url = next]
    /\ UNCHANGED <<now, account, generation, sessions, locks, handed, loads, changes>>

\* One turn of resolve_network: the probe is redirected,
Follow(t, next) ==
    /\ load[t].at = "probe"
    /\ load[t].hops < MAX_REDIRECTS /\ ~Downgrades(load[t].url, next)
    /\ load' = [load EXCEPT ![t].url = next, ![t].hops = @ + 1]
    /\ UNCHANGED <<now, account, generation, sessions, locks, handed, loads, changes>>

\* refused, downgraded, redirected once too often, or not answered,
ProbeFails(t) ==
    /\ load[t].at = "probe"
    /\ locks' = [locks EXCEPT ![KeyOf(load[t])] = Nobody]
    /\ Begins(t, None)
    /\ UNCHANGED <<now, account, generation, sessions, handed, loads, changes>>

\* or answered: the link is the session's, in the cache and for the player.
Land(t) ==
    /\ load[t].at = "probe"
    /\ sessions' = [sessions EXCEPT ![KeyOf(load[t])] = SessionOf(load[t])]
    /\ Resolved(t, SessionOf(load[t]), FALSE)
    /\ UNCHANGED <<now, account, generation, handed, loads, changes>>

\* load_if_current hands the playback to the player, of the same account only.
Hand(t) ==
    /\ load[t].at = "hand"
    /\ handed' = IF load[t].generation = generation
                 THEN [handed EXCEPT ![t] = [at |-> "player", session |-> load[t].session,
                                             account |-> account]]
                 ELSE handed
    /\ Begins(t, None)
    /\ UNCHANGED <<now, account, generation, sessions, locks, loads, changes>>

\* A sign-in, a switch or a new proxy mode: another session, a new generation.
ChangeAccount(a) ==
    /\ changes < MaxChanges /\ a # account
    /\ account' = a /\ generation' = generation + 1 /\ changes' = changes + 1
    /\ UNCHANGED <<now, load, sessions, locks, handed, loads>>

Tick ==
    /\ \E later \in Instants : later > now /\ now' = later
    /\ UNCHANGED <<account, generation, load, sessions, locks, handed, loads, changes>>

-----------------------------------------------------------------------------
ResolverInit ==
    /\ now = 0
    /\ account \in Accounts
    /\ generation = 0
    /\ load = [t \in Loaders |-> None]
    /\ sessions = [k \in Keys |-> None]
    /\ locks = [k \in Keys |-> Nobody]
    /\ handed = [t \in Loaders |-> None]
    /\ loads = 0 /\ changes = 0

Loader(t) ==
    \/ CallResolve(t) \/ Enter(t)
    \/ \E next \in Url : Follow(t, next)
    \/ ProbeFails(t) \/ Land(t) \/ Hand(t)

ResolverNext ==
    \/ \E t \in Loaders : (\E m \in Media : Begin(t, m)) \/ Loader(t)
    \/ \E a \in Accounts : ChangeAccount(a)
    \/ Tick

\* A loader is a thread that runs, and a probe has a time limit.
ResolverSpec ==
    ResolverInit /\ [][ResolverNext]_vars /\ \A t \in Loaders : WF_vars(Loader(t))

-----------------------------------------------------------------------------
(***************************************************************************)
(* Properties.                                                             *)
(***************************************************************************)
\* Type correctness: loads that resolve, loads with a session, the cache.
Tokens  == {a.token : a \in Accounts} \cup {NoToken}
Session == [at : {"cache"}, source : Url, url : Url, token : Tokens, server : Origins,
            account : Accounts, expiry : Int]
Resolving == [at : {"source", "lock", "probe"}, account : Accounts, generation : Nat,
              media : Media, source : Url, url : Url, hops : Nat, called : Nat]
Given     == [at : {"hand"}, generation : Nat, account : Accounts, session : Session,
              reused : BOOLEAN]
ResolverTypeOK ==
    /\ now \in Nat /\ account \in Accounts
    /\ generation \in Nat /\ loads \in Nat /\ changes \in Nat
    /\ load \in [Loaders -> {None} \cup Resolving \cup Given]
    /\ sessions \in [Keys -> {None} \cup Session]
    /\ locks \in [Keys -> Loaders \cup {Nobody}]
    /\ handed \in [Loaders -> {None} \cup [at : {"player"}, session : Session,
                                           account : Accounts]]

\* A token is sent, by a probe or by the player, to the server that issued it
\* and to no other origin on the way of the redirects.
Sent(t) ==
    IF load[t].at = "probe"
    THEN {[origin |-> load[t].url.origin, token |-> TokenFor(load[t].url, load[t].account)]}
    ELSE {}
Played(t) ==
    IF handed[t] = None THEN {}
    ELSE {[origin |-> handed[t].session.url.origin, token |-> handed[t].session.token]}
TokensStayHome ==
    \A t \in Loaders : \A s \in Sent(t) \cup Played(t) :
        s.token # NoToken => \E a \in Accounts : a.token = s.token /\ a.server = s.origin

\* What the player is handed was resolved at the server, with the token and
\* through the proxy of the account that plays it, be it cached or not.
HandedIsForAccount ==
    \A t \in Loaders : handed[t] # None =>
        /\ handed[t].session.server = handed[t].account.server
        /\ handed[t].session.account.token = handed[t].account.token
        /\ handed[t].session.account.proxy = handed[t].account.proxy

\* No two loads probe for one user and media id at once.
OneProbePerKey ==
    \A t, u \in Loaders :
        load[t].at = "probe" /\ load[u].at = "probe" /\ KeyOf(load[t]) = KeyOf(load[u])
        => t = u

\* Every load ends, however the servers redirect it and whoever has the lock.
LoadsEnd == \A t \in Loaders : []<>(load[t] = None)
=============================================================================
