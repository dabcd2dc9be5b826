-------------------------- MODULE MCServerMigration --------------------------
(* ServerMigration on two texts, a binary and a document it skips. *)
EXTENDS ServerMigration
=============================================================================
