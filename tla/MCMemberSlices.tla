--------------------------- MODULE MCMemberSlices ---------------------------
(* Goroutines, parties and members are interchangeable. *)
EXTENDS MemberSlices, TLC

Symmetry ==
  Permutations(Goroutines) \cup Permutations(Parties) \cup Permutations(Members)

=============================================================================
