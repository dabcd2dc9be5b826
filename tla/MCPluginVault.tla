--------------------------- MODULE MCPluginVault ---------------------------
(* PluginVault with two paths and two nodes. *)
EXTENDS PluginVault
=============================================================================
