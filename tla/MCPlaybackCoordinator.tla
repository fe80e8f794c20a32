------------------------ MODULE MCPlaybackCoordinator ------------------------
(***************************************************************************)
(* A small instance of the coordinator: two producers race with inputs that *)
(* announce, start, select for and end a file.                             *)
(***************************************************************************)
EXTENDS PlaybackCoordinator

CONSTANTS i1, mpv, loader

MCItems        == {i1}
MCPositions    == 0..1
MCScalarFields == {"rate"}
MCScalarValues == 1..2
TwoProducers   == {mpv, loader}

MainKinds ==
    {[op |-> "FileLoaded"], [op |-> "PlaybackRestart"], [op |-> "Metadata", ty |-> "Audio"],
     [op |-> "EndFile", reason |-> "Canceled"]}
=============================================================================
