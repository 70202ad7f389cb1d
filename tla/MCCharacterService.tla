------------------------- MODULE MCCharacterService -------------------------
(* Symmetric values for the attributes of a character. *)
EXTENDS CharacterService, TLC

Symmetry ==
  Permutations(Maps) \cup Permutations(Levels) \cup Permutations(JobIds) \cup Permutations(Channels)

=============================================================================
