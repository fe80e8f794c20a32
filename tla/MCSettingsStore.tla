--------------------------- MODULE MCSettingsStore ---------------------------
(***************************************************************************)
(* Small instances of the settings store: CEF's UI thread, which saves in  *)
(* the background, and the main thread, which saves at exit.               *)
(***************************************************************************)
EXTENDS SettingsStore

CONSTANTS ui, main

MCSavers == {ui, main}
MCValues == 0..2
=============================================================================
