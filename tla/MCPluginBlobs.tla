--------------------------- MODULE MCPluginBlobs ---------------------------
(* PluginBlobs with two binary files, and two calls at a time. *)
EXTENDS PluginBlobs, TLC

Symmetry == Permutations(Blobs \ {EmptyBlob}) \cup Permutations(Calls)
=============================================================================
