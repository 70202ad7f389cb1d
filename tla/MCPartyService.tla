--------------------------- MODULE MCPartyService ---------------------------
(* Instances of the service for TLC: which worker is handed which messages. *)
EXTENDS PartyService, TLC

CONSTANTS w1, w2, w3

OnePartyIds  == 0..1
TwoPartyIds  == 0..2
OneCommandId == 1..1
OneMap == 1..1

\* One worker: messages are handled one at a time.
ServeCommands ==
  [w \in Workers |-> {"CREATE", "JOIN", "LEAVE", "EXPEL", "CHANGE_LEADER", "DELETED"}]
\* Everything but forced leaves, and joins by invitation only.
ServeInvites ==
  [w \in Workers |-> {"CREATE", "LEAVE", "CHANGE_LEADER", "REQUEST_INVITE", "ACCEPTED",
                       "MAP_CHANGED", "DELETED"}]

\* Two consumers at work on the same characters.
ServeDeletion ==
  (w1 :> {"CREATE", "JOIN", "LEAVE", "EXPEL"}) @@ (w2 :> {"DELETED", "VIEW"})

\* Pairs of consumers that undo what the serial runs show; see the README.
ServeJoinAndLeave == (w1 :> {"CREATE", "JOIN"}) @@ (w2 :> {"JOIN", "LEAVE"})
ServeInviteAndDeletion == (w1 :> {"REQUEST_INVITE"}) @@ (w2 :> {"DELETED"})

Symmetry == Permutations(Characters)

=============================================================================
