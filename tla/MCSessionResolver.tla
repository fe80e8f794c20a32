--------------------------- MODULE MCSessionResolver ---------------------------
(***************************************************************************)
(* Small instances of the resolver: one user id on two servers, with a new *)
(* token and through the proxy.                                            *)
(***************************************************************************)
EXTENDS SessionResolver

CONSTANTS t1, t2

MCAccount(s, t, p) == [user |-> "u", server |-> s, token |-> t, proxy |-> p]
MCAccounts == {MCAccount("home", "old", "direct"), MCAccount("home", "new", "direct"),
               MCAccount("home", "new", "system"), MCAccount("other", "alien", "direct")}
=============================================================================
