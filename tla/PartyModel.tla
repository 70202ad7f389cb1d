----------------------------- MODULE PartyModel -----------------------------
(***************************************************************************)
(* The value type of a party: the record party.Model of party/model.go,    *)
(* its copying setters, and the rules Builder.Build states for it.         *)
(*                                                                         *)
(* A member list is a bag of characters: the order of the slice is never   *)
(* read back (GetPartyMembers lists it, the disband loop walks it), while  *)
(* the number of copies of a character is, because nothing in AddMember    *)
(* prevents a second copy.  tenantId is left out: a registry is keyed by   *)
(* tenant before it is keyed by party, and one tenant is modelled.         *)
(***************************************************************************)
EXTENDS Integers, FiniteSets, BagsExt, GoMap

CONSTANTS
  Characters,   \* character ids, the zero id excluded
  NoCharacter,  \* the zero character id
  Capacity      \* 6 in the code (registry.go:125, processor.go:226 and 616)

ASSUME CharactersAssumption == NoCharacter \notin Characters
ASSUME CapacityAssumption   == Capacity \in Nat \ {0}

\* The zero party id: "in no party" in a character record, the id of Model{}.
NoParty == 0

\* A bag of characters: how often each one is listed.
IsMemberList(b) ==
  /\ DOMAIN b \subseteq Characters
  /\ b = [c \in DOMAIN b |-> b[c]]
  /\ \A c \in DOMAIN b : b[c] \in Nat \ {0}

IsParty(m) ==
  /\ m = [id |-> m.id, leader |-> m.leader, members |-> m.members]
  /\ m.id \in Nat
  /\ m.leader \in Characters \cup {NoCharacter}
  /\ IsMemberList(m.members)

\* Model{}: what a Go map read yields for a key that is absent.
ZeroParty == [id |-> NoParty, leader |-> NoCharacter, members |-> EmptyMap]

Members(m) == DOMAIN m.members

\* len(m.members): one pair per copy of a member.
Size(m) == Cardinality(UNION {{c} \X (1..m.members[c]) : c \in Members(m)})

\* The literal Registry.Create builds: the leader is the one member.
NewParty(id, leader) ==
  [id |-> id, leader |-> leader, members |-> BagAdd(EmptyMap, leader)]

AddMember(m, c) == [m EXCEPT !.members = BagAdd(m.members, c)]

\* The loop keeps every entry that differs from c, so every copy of c goes.
RemoveMember(m, c) == [m EXCEPT !.members = BagRemoveAll(m.members, c)]

SetLeader(m, c) == [m EXCEPT !.leader = c]

(***************************************************************************)
(* The updaters callers hand to Registry.Update, as data.                  *)
(***************************************************************************)
Updaters == [kind : {"AddMember", "RemoveMember", "SetLeader"}, chr : Characters]

Adding(c)     == [kind |-> "AddMember", chr |-> c]
Removing(c)   == [kind |-> "RemoveMember", chr |-> c]
Appointing(c) == [kind |-> "SetLeader", chr |-> c]

Apply(u, m) ==
  CASE u.kind = "AddMember"    -> AddMember(m, u.chr)
    [] u.kind = "RemoveMember" -> RemoveMember(m, u.chr)
    [] u.kind = "SetLeader"    -> SetLeader(m, u.chr)

(***************************************************************************)
(* What Builder.Build demands of a party before it constructs one.  Only   *)
(* tests go through the builder; the registry and the processor write      *)
(* Model values directly.                                                  *)
(***************************************************************************)
Buildable(m) ==
  /\ m.id # NoParty
  /\ m.leader # NoCharacter
  /\ Members(m) # {} => m.leader \in Members(m)
  /\ NoCharacter \notin Members(m)
  /\ \A c \in Members(m) : m.members[c] = 1

=============================================================================
