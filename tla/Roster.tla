------------------------------- MODULE Roster -------------------------------
(***************************************************************************)
(* What the party service promises: a roster of parties in which a         *)
(* character is in at most one party, and each command changes it in one   *)
(* step.  PartyService implements this when one worker handles all         *)
(* messages; see ImplementsRoster there.                                   *)
(***************************************************************************)
EXTENDS Integers, FiniteSets, GoMap

CONSTANTS Characters, Capacity, PartyIds

VARIABLES
  roster,  \* party id -> [leader, members]
  used     \* every id a party ever had

rosterVars == <<roster, used>>

RosterInit == roster = EmptyMap /\ used = {}

Unattached(c) == \A p \in DOMAIN roster : c \notin roster[p].members

Found(c, p) ==
  /\ Unattached(c)
  /\ p \notin used
  /\ used' = used \cup {p}
  /\ roster' = Put(roster, p, [leader |-> c, members |-> {c}])

Enter(c, p) ==
  /\ Unattached(c)
  /\ Cardinality(roster[p].members) < Capacity
  /\ roster' = [roster EXCEPT ![p].members = @ \cup {c}]
  /\ UNCHANGED used

\* A member leaves who is not the leader.  No member need remain: the leader
\* may have been expelled before.
Withdraw(c, p) ==
  /\ c \in roster[p].members /\ c # roster[p].leader
  /\ roster' = [roster EXCEPT ![p].members = @ \ {c}]
  /\ UNCHANGED used

\* A member, the leader too, is made to leave; the party goes with the last one.
\* A leader who is made to leave stays the party's leader by name.
Expel(c, p) ==
  /\ c \in roster[p].members
  /\ roster' = IF roster[p].members = {c} THEN DeleteKeys(roster, {p})
               ELSE [roster EXCEPT ![p].members = @ \ {c}]
  /\ UNCHANGED used

\* The leader leaves, and the party is no more.
Dissolve(p) ==
  /\ roster[p].leader \in roster[p].members
  /\ roster' = DeleteKeys(roster, {p})
  /\ UNCHANGED used

Promote(c, p) ==
  /\ c \in roster[p].members
  /\ roster' = [roster EXCEPT ![p].leader = c]
  /\ UNCHANGED used

RosterNext ==
  \/ \E c \in Characters, p \in PartyIds : Found(c, p)
  \/ \E p \in DOMAIN roster :
       \/ \E c \in Characters : Enter(c, p) \/ Withdraw(c, p) \/ Expel(c, p) \/ Promote(c, p)
       \/ Dissolve(p)

RosterSpec == RosterInit /\ [][RosterNext]_rosterVars

\* Nobody is in two parties, whatever the order of commands: what the abstract
\* service promises, and with ImplementsRoster the handlers (processor.go:207).
OneParty ==
  \A p, q \in DOMAIN roster : p # q => roster[p].members \cap roster[q].members = {}

=============================================================================
