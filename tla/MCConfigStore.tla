--------------------------- MODULE MCConfigStore ---------------------------
(***************************************************************************)
(* ConfigStore with unlimited (0), which the page sends as the default (1),*)
(* and another value.                                                      *)
(***************************************************************************)
EXTENDS ConfigStore
=============================================================================
