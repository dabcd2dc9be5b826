---------------------------- MODULE MCNodeFields ----------------------------
(* NodeFields on two actors.  Names are only compared, so they may be       *)
(* swapped; actors, nodes and Docs are ordered and may not.                 *)
EXTENDS NodeFields, TLC

Symmetry == Permutations(Names)
=============================================================================
