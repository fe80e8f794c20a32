--------------------------- MODULE MCTrackPreference ---------------------------
(***************************************************************************)
(* Small instances of the track preference: one audio track beside the     *)
(* first, one subtitle of each kind.                                       *)
(***************************************************************************)
EXTENDS TrackPreference

CONSTANTS m1, a1, a2, listed, own, external, old, gone

MCOneExternal == <<external>>
MCPreference(conf, on, s, a) == [configured |-> conf, enabled |-> on, subtitle |-> s, audio |-> a]

\* Unconfigured; a key of each kind; subtitles off; tracks the file has not.
MCSaved == {MCPreference(FALSE, TRUE, {}, {}),
            MCPreference(TRUE, TRUE, {own}, {a2}),
            MCPreference(TRUE, TRUE, {external}, {gone}),
            MCPreference(TRUE, TRUE, {old}, {a1}),
            MCPreference(TRUE, FALSE, {gone}, {})}
=============================================================================
