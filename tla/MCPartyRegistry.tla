--------------------------- MODULE MCPartyRegistry ---------------------------
(* A small registry for TLC: two characters, room for both in a party, and   *)
(* ids 0..2, so that two Create calls can overlap beside an entry that an    *)
(* Update stored under the zero id.                                          *)
EXTENDS PartyRegistry, TLC

MCPartyIds == 0..2

Symmetry == Permutations(Characters)

=============================================================================
