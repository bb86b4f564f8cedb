------------------------------ MODULE MCScenes ------------------------------
(* Scenes with interchangeable entities. *)
EXTENDS Scenes, TLC

Symmetry == Permutations(Entities)
=============================================================================
