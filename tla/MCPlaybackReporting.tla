------------------------- MODULE MCPlaybackReporting -------------------------
(***************************************************************************)
(* Small instances of the reporting pipeline: two plays, one position and  *)
(* a dispatcher of two or three pending reports.                           *)
(***************************************************************************)
EXTENDS PlaybackReporting

CONSTANTS loader, sink, account

MCLoaders == {loader}
MCThreads == {loader, sink, account}
MCSpots   == {0}

MCJobs ==
    [generation : 0..MaxSwitches, play : 1..MaxPlays, kind : Kinds, position : MCSpots]
=============================================================================
