-------------------------- MODULE MCPluginContent --------------------------
(* PluginContent with two notes.  Nothing tells the notes, the edits or the *)
(* tasks apart.                                                             *)
EXTENDS PluginContent, TLC

Symmetry == Permutations(Nodes) \cup Permutations(Edits) \cup Permutations(Tasks)
=============================================================================
