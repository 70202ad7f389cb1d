---------------------------- MODULE MemberLists ----------------------------
(***************************************************************************)
(* What callers of the party registry may believe of member lists: a list  *)
(* is a value.  The registry has one for each party, and what a goroutine  *)
(* was given stays as it was until the goroutine calls again.              *)
(***************************************************************************)
EXTENDS Sequences, Naturals

CONSTANTS Goroutines, Parties, Members, Capacity

VARIABLES
  list,  \* the member list of each party, empty where there is no party
  given  \* the lists each goroutine got from its last call

vars == <<list, given>>

Init == list = [p \in Parties |-> <<>>] /\ given = [g \in Goroutines |-> {}]

\* g makes the list of party p to be l, and gets it.
Put(g, p, l) ==
  /\ list' = [list EXCEPT ![p] = l]
  /\ given' = [given EXCEPT ![g] = {l}]

\* The list without m, the others in their order.
Without(l, m) ==
  LET Kept[i \in 0..Len(l)] ==
        IF i = 0 THEN <<>>
        ELSE IF l[i] = m THEN Kept[i - 1] ELSE Append(Kept[i - 1], l[i])
  IN  Kept[Len(l)]

Found(g, p, m) == list[p] = <<>> /\ Put(g, p, <<m>>)
Join(g, p, m) == Len(list[p]) < Capacity /\ Put(g, p, Append(list[p], m))
Expel(g, p, m) == Put(g, p, Without(list[p], m))
Refuse(g, p) ==
  /\ Len(list[p]) = Capacity
  /\ given' = [given EXCEPT ![g] = {}]
  /\ UNCHANGED list
Disband(g, p) ==
  /\ list' = [list EXCEPT ![p] = <<>>]
  /\ given' = [given EXCEPT ![g] = {}]
See(g, ps) ==
  /\ given' = [given EXCEPT ![g] = {list[p] : p \in ps}]
  /\ UNCHANGED list

Next ==
  \E g \in Goroutines :
    \/ \E p \in Parties :
         \/ \E m \in Members : Found(g, p, m) \/ Join(g, p, m) \/ Expel(g, p, m)
         \/ Refuse(g, p) \/ Disband(g, p) \/ See(g, {p})
    \/ See(g, Parties)

Spec == Init /\ [][Next]_vars

=============================================================================
