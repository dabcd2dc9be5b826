-------------------------- MODULE MCPluginSession --------------------------
(* PluginSession with three calls of connect() that may overlap. *)
EXTENDS PluginSession
=============================================================================
