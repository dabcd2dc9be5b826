--------------------------- MODULE MCPluginState ---------------------------
(* PluginState with two overlapping writers. *)
EXTENDS PluginState
=============================================================================
