--------------------------- MODULE MCNativePlayback ---------------------------
(***************************************************************************)
(* Small instances of native playback: two loads, positions up to two and  *)
(* a few user commands.  The inputs are those NativePlayback posts.        *)
(***************************************************************************)
EXTENDS NativePlayback

CONSTANTS loader, sink, account

MCLoaders   == {loader}
MCItems     == 1..MaxPlays
MCPositions == 0..MaxTime
MCFields    == {}
MCValues    == {0}
NoFaults    == {}
AllFaults   == {"reject", "filter"}
MCInputs    == Posted
=============================================================================
