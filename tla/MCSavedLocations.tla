--------------------------- MODULE MCSavedLocations ---------------------------
(***************************************************************************)
(* An instance of SavedLocations for TLC.                                  *)
(***************************************************************************)
EXTENDS SavedLocations
==============================================================================
