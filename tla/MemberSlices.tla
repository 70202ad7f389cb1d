---------------------------- MODULE MemberSlices ----------------------------
(***************************************************************************)
(* The member lists of the party registry as Go keeps them                 *)
(* (party/model.go, party/registry.go): a slice is an array and a length,  *)
(* models are copied with their slices, and append writes into the array   *)
(* it is given while there is room.  Every read of the registry hands out  *)
(* a slice that its caller goes on reading with no lock at all, while      *)
(* later updates append to the same array.                                 *)
(***************************************************************************)
EXTENDS Naturals, FiniteSets, Sequences

CONSTANTS
  Goroutines,
  Parties,   \* bound: the ids; one whose party was removed stands for the next new id
  Members,
  Capacity,  \* how many members a party may have: 6
  Arrays,    \* bound: the arrays on the heap
  Sizes,     \* how large the arrays are that append makes: 2, 4 and 8 for few members
  MaxSize,   \* the largest of them
  NoArray, Unset

ASSUME SlicesAssumption ==
  /\ Capacity \in Nat \ {0} /\ MaxSize \in Nat /\ Capacity < MaxSize
  /\ Sizes \subseteq 1..MaxSize
  /\ NoArray \notin Arrays

VARIABLES
  heap,  \* the arrays: what their cells hold, and how many cells are there
  reg,   \* the member slice of each party; a nil slice where there is no party
  held   \* the slices each goroutine got from its last call

vars == <<heap, reg, held>>

Slices == [array : Arrays \cup {NoArray}, len : 0..MaxSize]
NilSlice == [array |-> NoArray, len |-> 0]

Blank == [cells |-> [i \in 1..MaxSize |-> Unset], size |-> 0]

\* What a slice shows in heap h.
ContentsIn(h, s) == [i \in 1..s.len |-> h[s.array].cells[i]]
Contents(s) == ContentsIn(heap, s)

Init ==
  /\ heap = [a \in Arrays |-> Blank]
  /\ reg = [p \in Parties |-> NilSlice]
  /\ held = [g \in Goroutines |-> {}]

\* The arrays that somebody can still reach.
Reachable(r, h) ==
  {r[p].array : p \in Parties} \cup UNION {{s.array : s \in h[g]} : g \in Goroutines}
Free == Arrays \ Reachable(reg, held)

\* Which of them a new array takes makes no difference.
NewArray == CHOOSE a \in Free : TRUE

\* A call of g stores slice s for party p and returns the slices in result; what nobody
\* can reach then is collected.
Store(g, p, s, result, h) ==
  /\ reg' = [reg EXCEPT ![p] = s]
  /\ held' = [held EXCEPT ![g] = result]
  /\ heap' = [a \in Arrays |-> IF a \in Reachable(reg', held') THEN h[a] ELSE Blank]

\* The heap with the new array, whose first n cells are those of l.
New(l, n, size) ==
  [heap EXCEPT ![NewArray] = [cells |-> [i \in 1..MaxSize |-> IF i \in 1..n THEN l[i] ELSE Unset],
                       size |-> size]]

-----------------------------------------------------------------------------

\* members: make([]uint32, 0), and append of the leader.
Create(g, p, leader) ==
  /\ reg[p] = NilSlice
  /\ Free # {}
  /\ \E size \in Sizes :
       LET s == [array |-> NewArray, len |-> 1]
       IN  Store(g, p, s, {s}, New(<<leader>>, 1, size))

\* A slip: the capacity is that of the model before the updaters.
AppendedOldLength(g, p, s, h) ==
  IF reg[p].len > Capacity THEN Store(g, p, reg[p], {}, h) ELSE Store(g, p, s, {s}, h)

\* What Update makes of the appended slice: over the capacity it leaves the old model
\* and returns none, but the array has been written.
Appended(g, p, s, h) ==
  IF s.len > Capacity THEN Store(g, p, reg[p], {}, h) ELSE Store(g, p, s, {s}, h)

Room(s) == s.array # NoArray /\ s.len < heap[s.array].size

\* append(m.members, memberId): in the array while it has room, otherwise in a larger
\* copy.
AddMember(g, p, m) ==
  LET s == reg[p]
      n == s.len + 1
  IN  \/ /\ Room(s)
         /\ Appended(g, p, [s EXCEPT !.len = n], [heap EXCEPT ![s.array].cells[n] = m])
      \/ /\ ~Room(s)
         /\ Free # {}
         /\ \E size \in {k \in Sizes : k >= n} :
              Appended(g, p, [array |-> NewArray, len |-> n],
                       New([i \in 1..n |-> IF i = n THEN m ELSE Contents(s)[i]], n, size))

\* The places of the members that stay when m goes, and the k-th of them.
Kept(s, m) == {i \in 1..s.len : Contents(s)[i] # m}
KthOf(K, k) == CHOOSE i \in K : Cardinality({j \in K : j <= i}) = k

\* A slip: append(m.members[:i], m.members[i+1:]...), in the array of the old model.
RemoveMemberInPlace(g, p, m) ==
  LET s == reg[p]
      K == Kept(s, m)
      n == Cardinality(K)
      t == [s EXCEPT !.len = n]
  IN  IF n = s.len THEN Store(g, p, s, {s}, heap)
      ELSE Store(g, p, t, {t},
                 [heap EXCEPT ![s.array].cells =
                    [i \in 1..MaxSize |-> IF i \in 1..n THEN @[KthOf(K, i)] ELSE @[i]]])

\* Always into an array of its own, none when nobody stays.
RemoveMember(g, p, m) ==
  LET s == reg[p]
      K == Kept(s, m)
      n == Cardinality(K)
  IN  \/ n = 0 /\ Store(g, p, NilSlice, {NilSlice}, heap)
      \/ /\ n # 0 /\ Free # {}
         /\ \E size \in {k \in Sizes : k >= n} :
              LET t == [array |-> NewArray, len |-> n]
              IN  Store(g, p, t, {t}, New([i \in 1..n |-> Contents(s)[KthOf(K, i)]], n, size))

Remove(g, p) == Store(g, p, NilSlice, {}, heap)

\* Get and GetPartyByCharacter; and Update with SetLeader or ElectLeader, whose new
\* model has the slice of the old one.
Get(g, p) == Store(g, p, reg[p], {reg[p]}, heap)

GetAll(g) ==
  /\ held' = [held EXCEPT ![g] = {reg[p] : p \in Parties}]
  /\ heap' = [a \in Arrays |-> IF a \in Reachable(reg, held') THEN heap[a] ELSE Blank]
  /\ UNCHANGED reg

Next ==
  \E g \in Goroutines :
    \/ \E p \in Parties :
         \/ \E m \in Members : Create(g, p, m) \/ AddMember(g, p, m) \/ RemoveMember(g, p, m)
         \/ Remove(g, p) \/ Get(g, p)
    \/ GetAll(g)

Spec == Init /\ [][Next]_vars

-----------------------------------------------------------------------------
(* Properties.                                                             *)

\* An array is never smaller than a slice of it, and no party has more than its
\* capacity: what a rejected AddMember has written stays out of every slice.
TypeOK ==
  /\ heap \in [Arrays -> [cells : [1..MaxSize -> Members \cup {Unset}], size : 0..MaxSize]]
  /\ reg \in [Parties -> Slices]
  /\ held \in [Goroutines -> SUBSET Slices]
  /\ \A p \in Parties :
       /\ reg[p].len <= Capacity
       /\ IF reg[p].array = NoArray THEN reg[p].len = 0 ELSE reg[p].len <= heap[reg[p].array].size

\* What a goroutine was given never changes under its hands, although AddMember
\* appends in place (party/model.go:35) and ElectLeader and SetLeader share the array
\* of the old model (party/model.go:21, :30): every append lands behind all that
\* anyone can see.
SnapshotsStable ==
  [][\A g \in Goroutines : \A s \in held[g] \cap held'[g] : Contents(s)' = Contents(s)]_vars

\* The slices behave like values: the registry with its shared arrays implements the
\* one of MemberLists, so the other modules may have member lists as values.
Lists ==
  INSTANCE MemberLists WITH
    list <- [p \in Parties |-> Contents(reg[p])],
    given <- [g \in Goroutines |-> {Contents(s) : s \in held[g]}]
ByValue == Lists!Spec

=============================================================================
