---------------------------- MODULE MCAccountStore ----------------------------
(***************************************************************************)
(* Small instances of the account store: two accounts on two servers.      *)
(***************************************************************************)
EXTENDS AccountStore, TLC

CONSTANTS ui, auth, main, a1, a2, s1, s2

MCSavers   == {ui, auth, main}
MCValues   == {s1, s2}
MCAccounts == {a1, a2}
MCServerOf == a1 :> s1 @@ a2 :> s2
=============================================================================
