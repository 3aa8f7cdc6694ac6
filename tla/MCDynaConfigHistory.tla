------------------------- MODULE MCDynaConfigHistory -------------------------
(* Small instances of DynaConfigHistory, with those of DynaConfig.          *)
EXTENDS MCDynaConfig, DynaConfigHistory
=============================================================================
