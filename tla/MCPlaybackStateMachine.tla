----------------------- MODULE MCPlaybackStateMachine -----------------------
(***************************************************************************)
(* A small instance of the state machine: two items, two positions and one *)
(* change-detected field of two values.                                    *)
(***************************************************************************)
EXTENDS PlaybackStateMachine

CONSTANTS i1, i2

MCItems        == {i1, i2}
MCPositions    == 0..1
MCScalarFields == {"rate"}
MCScalarValues == 0..1
=============================================================================
