---------------------------- MODULE RosterProofs ----------------------------
(***************************************************************************)
(* Nobody is in two parties of the roster, for any set of characters, any  *)
(* capacity and any set of ids.  OneParty is inductive once the entries of *)
(* the roster are known to be records, which RosterShape says.             *)
(***************************************************************************)
EXTENDS Roster, TLAPS

Entry == [leader : Characters, members : SUBSET Characters]

RosterShape == roster \in [DOMAIN roster -> Entry]

RosterInv == RosterShape /\ OneParty

\* Entry and departure replace the members of one party; who was not there
\* before was in no party at all.
LEMMA MembersChanged ==
  ASSUME RosterInv, NEW p \in DOMAIN roster, NEW S \in SUBSET Characters,
         roster' = [roster EXCEPT ![p].members = S],
         \A c \in S : c \in roster[p].members \/ Unattached(c)
  PROVE  RosterInv'
<1>1. roster[p] \in Entry /\ [roster[p] EXCEPT !.members = S] \in Entry
  BY DEF RosterInv, RosterShape, Entry
<1>2. DOMAIN roster' = DOMAIN roster /\ roster'[p].members = S
  BY <1>1 DEF RosterInv, RosterShape, Entry
<1>3. \A q \in DOMAIN roster : q # p => roster'[q] = roster[q]
  BY DEF RosterInv, RosterShape
<1>4. RosterShape'
  BY <1>1 DEF RosterInv, RosterShape
<1>5. OneParty'
  <2> SUFFICES ASSUME NEW q \in DOMAIN roster, q # p
               PROVE  S \cap roster[q].members = {}
    BY <1>2, <1>3 DEF RosterInv, OneParty
  <2>1. roster[p].members \cap roster[q].members = {}
    BY DEF RosterInv, OneParty
  <2> QED
    BY <2>1 DEF Unattached
<1> QED
  BY <1>4, <1>5 DEF RosterInv

LEMMA PartyDropped ==
  ASSUME RosterInv, NEW p, roster' = DeleteKeys(roster, {p})
  PROVE  RosterInv'
  BY DEF RosterInv, RosterShape, OneParty, DeleteKeys

LEMMA RosterNextInv ==
  ASSUME RosterInv, RosterNext
  PROVE  RosterInv'
<1>1. CASE \E c \in Characters, p \in PartyIds : Found(c, p)
  <2> PICK c \in Characters, p \in PartyIds : Found(c, p)
    BY <1>1
  <2> DEFINE m == [leader |-> c, members |-> {c}]
  <2>1. roster' = Put(roster, p, m) /\ m \in Entry
    BY DEF Found, Entry
  <2>2. DOMAIN roster' = DOMAIN roster \cup {p} /\ roster'[p] = m
    BY <2>1 DEF Put
  <2>3. \A q \in DOMAIN roster : q # p => roster'[q] = roster[q]
    BY <2>1 DEF Put
  <2>4. RosterShape'
    BY <2>1, <2>2, <2>3 DEF RosterInv, RosterShape, Put
  <2>5. OneParty'
    <3>1. \A q \in DOMAIN roster : q # p => m.members \cap roster[q].members = {}
      BY DEF Found, Unattached
    <3>2. m.members = roster'[p].members
      BY <2>2
    <3> HIDE DEF m
    <3> SUFFICES ASSUME NEW q \in DOMAIN roster', NEW r \in DOMAIN roster', q # r
                 PROVE  roster'[q].members \cap roster'[r].members = {}
      BY DEF OneParty
    <3>3. CASE q = p
      BY <2>2, <2>3, <3>1, <3>2, <3>3
    <3>4. CASE r = p
      BY <2>2, <2>3, <3>1, <3>2, <3>4
    <3>5. CASE q # p /\ r # p
      BY <2>2, <2>3, <3>5 DEF RosterInv, OneParty
    <3> QED
      BY <3>3, <3>4, <3>5
  <2> QED
    BY <2>4, <2>5 DEF RosterInv
<1>2. ASSUME NEW p \in DOMAIN roster, NEW c \in Characters,
             Enter(c, p) \/ Withdraw(c, p) \/ Expel(c, p) \/ Promote(c, p)
      PROVE  RosterInv'
  <2>1. roster[p] \in Entry
    BY DEF RosterInv, RosterShape
  <2>2. CASE Enter(c, p)
    <3>1. roster[p].members \cup {c} \in SUBSET Characters
      BY <2>1 DEF Entry
    <3> QED
      BY <2>2, <3>1, MembersChanged DEF Enter
  <2>3. CASE roster' = [roster EXCEPT ![p].members = @ \ {c}]
    <3>1. roster[p].members \ {c} \in SUBSET Characters
      BY <2>1 DEF Entry
    <3> QED
      BY <2>3, <3>1, MembersChanged
  <2>4. CASE roster' = DeleteKeys(roster, {p})
    BY <2>4, PartyDropped
  <2>5. CASE Promote(c, p)
    <3>1. [roster[p] EXCEPT !.leader = c] \in Entry
      BY <2>1 DEF Entry
    <3>2. \A q \in DOMAIN roster : roster'[q].members = roster[q].members
      BY <2>1, <2>5 DEF Promote, RosterInv, RosterShape, Entry
    <3> QED
      BY <2>5, <3>1, <3>2 DEF Promote, RosterInv, RosterShape, OneParty
  <2> QED
    BY <1>2, <2>2, <2>3, <2>4, <2>5 DEF Withdraw, Expel
<1>3. ASSUME NEW p \in DOMAIN roster, Dissolve(p)
      PROVE  RosterInv'
  BY <1>3, PartyDropped DEF Dissolve
<1> QED
  BY <1>1, <1>2, <1>3 DEF RosterNext

\* Whatever the order of commands, no character is in two parties: the checks
\* "already in a party" of Create and Join (processor.go:125 and 207) suffice
\* when each command takes effect in one step.
THEOREM RosterOneParty == RosterSpec => []OneParty
<1>1. RosterInit => RosterInv
  BY DEF RosterInit, RosterInv, RosterShape, OneParty, EmptyMap
<1>2. RosterInv /\ UNCHANGED rosterVars => RosterInv'
  BY DEF RosterInv, RosterShape, OneParty, rosterVars
<1>3. RosterInv => OneParty
  BY DEF RosterInv
<1> QED
  BY <1>1, <1>2, <1>3, RosterNextInv, PTL DEF RosterSpec

=============================================================================
