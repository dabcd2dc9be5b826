--------------------------- MODULE MCManifestSync ---------------------------
(* ManifestSync on two clients. *)
EXTENDS ManifestSync
=============================================================================
