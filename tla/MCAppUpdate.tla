----------------------------- MODULE MCAppUpdate -----------------------------
(***************************************************************************)
(* A small instance of updating: a version published twice and a later     *)
(* one, packages of two and three chunks, four files.                      *)
(***************************************************************************)
EXTENDS AppUpdate, TLC

CONSTANTS app, old, new, note

R(v, b) == [version |-> v, build |-> b]

MCFiles    == {app, old, new, note}
MCFirst    == R(1, 1)
MCReleases == {R(1, 1), R(2, 1), R(2, 2), R(3, 1)}

MCManifest ==
    R(1, 1) :> {app, old} @@ R(2, 1) :> {app, new} @@ R(2, 2) :> {app, new}
    @@ R(3, 1) :> {app, old, new}

MCSize == R(1, 1) :> 2 @@ R(2, 1) :> 2 @@ R(2, 2) :> 3 @@ R(3, 1) :> 2
=============================================================================
