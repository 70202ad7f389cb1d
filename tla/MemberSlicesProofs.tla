------------------------- MODULE MemberSlicesProofs -------------------------
(***************************************************************************)
(* Why nobody sees a member list change that the registry has handed out,  *)
(* for every number of goroutines, parties, members and arrays.  Two facts *)
(* carry the argument: no two parties have a slice of one array, and no    *)
(* slice that somebody holds reaches beyond the one the registry has of    *)
(* the same array.  So an append in place, which writes the cell behind    *)
(* the registry's slice, writes where nobody looks.                        *)
(*                                                                         *)
(* With the same invariant every slice of the registry fits: it is longer  *)
(* neither than its array nor than the capacity.  And the whole of it      *)
(* implements MemberLists, where lists are values: a step changes what one *)
(* party and one goroutine have, as the operation says, and nothing else.  *)
(***************************************************************************)
EXTENDS MemberSlices, FiniteSetTheorems, SequenceTheorems, WellFoundedInduction, TLAPS

\* A heap of arrays of MaxSize cells, whatever the cells hold.
Shaped(h) ==
  /\ h = [a \in Arrays |-> h[a]]
  /\ \A a \in Arrays :
       /\ h[a] = [cells |-> h[a].cells, size |-> h[a].size]
       /\ h[a].cells = [i \in 1..MaxSize |-> h[a].cells[i]]
       /\ h[a].size \in 0..MaxSize

TypeInv ==
  /\ Shaped(heap)
  /\ reg \in [Parties -> Slices]
  /\ held \in [Goroutines -> SUBSET Slices]

\* A nil slice shows nothing.
NilEmpty ==
  /\ \A p \in Parties : reg[p].array = NoArray => reg[p].len = 0
  /\ \A g \in Goroutines : \A s \in held[g] : s.array = NoArray => s.len = 0

Apart ==
  \A p, q \in Parties : p # q /\ reg[p].array = reg[q].array => reg[p].array = NoArray

Behind ==
  \A g \in Goroutines, p \in Parties : \A s \in held[g] :
    s.array = reg[p].array /\ s.array # NoArray => s.len <= reg[p].len

IInv == TypeInv /\ NilEmpty /\ Apart /\ Behind

Stable == \A g \in Goroutines : \A s \in held[g] \cap held'[g] : Contents(s)' = Contents(s)

\* Nobody sees a difference between the heap and h.
Unseen(h) ==
  \A g \in Goroutines : \A s \in held[g] :
    \A i \in 1..s.len : s.array \in Arrays => h[s.array].cells[i] = heap[s.array].cells[i]

-----------------------------------------------------------------------------

LEMMA BlankShaped == Blank = [cells |-> Blank.cells, size |-> Blank.size]
                     /\ Blank.cells = [i \in 1..MaxSize |-> Blank.cells[i]]
                     /\ Blank.size \in 0..MaxSize
  BY SlicesAssumption DEF Blank

\* The collector leaves a heap of the right shape.
LEMMA CollectedShaped ==
  ASSUME NEW h, NEW R, Shaped(h),
         heap' = [a \in Arrays |-> IF a \in R THEN h[a] ELSE Blank]
  PROVE  Shaped(heap')
<1>1. heap' = [a \in Arrays |-> heap'[a]]
  OBVIOUS
<1>2. ASSUME NEW a \in Arrays
      PROVE  /\ heap'[a] = [cells |-> heap'[a].cells, size |-> heap'[a].size]
             /\ heap'[a].cells = [i \in 1..MaxSize |-> heap'[a].cells[i]]
             /\ heap'[a].size \in 0..MaxSize
  <2>1. CASE a \in R
    <3>1. heap'[a] = h[a]
      BY <2>1
    <3>. QED BY <3>1 DEF Shaped
  <2>2. CASE a \notin R
    <3>1. heap'[a] = Blank
      BY <2>2
    <3>. QED BY <3>1, BlankShaped
  <2>. QED BY <2>1, <2>2
<1>. QED BY <1>1, <1>2 DEF Shaped

\* Storing slice s keeps the invariant when its array is no other party's and reaches
\* at least as far as what others hold of it.
LEMMA StoreKeeps ==
  ASSUME IInv, NEW g \in Goroutines, NEW p \in Parties, NEW s \in Slices, NEW result, NEW h,
         result \subseteq {s}, Shaped(h),
         s.array = NoArray => s.len = 0,
         \A q \in Parties \ {p} : reg[q].array = s.array => s.array = NoArray,
         \A k \in Goroutines : \A x \in held[k] :
           x.array = s.array /\ x.array # NoArray => x.len <= s.len,
         Store(g, p, s, result, h)
  PROVE  IInv'
<1>. USE DEF IInv, TypeInv
<1>1. reg' = [reg EXCEPT ![p] = s] /\ held' = [held EXCEPT ![g] = result]
  BY DEF Store
<1>2. Shaped(heap')
  BY CollectedShaped DEF Store
<1>3. reg' \in [Parties -> Slices]
  BY <1>1
<1>4. held' \in [Goroutines -> SUBSET Slices]
  <2>1. result \in SUBSET Slices
    OBVIOUS
  <2>. QED BY <1>1, <2>1
<1>5. \A k \in Goroutines : \A x \in held'[k] : x \in held[k] \/ x = s
  BY <1>1
<1>6. \A q \in Parties : reg'[q] = IF q = p THEN s ELSE reg[q]
  BY <1>1
<1>7. NilEmpty'
  BY <1>5, <1>6 DEF NilEmpty
<1>8. Apart'
  BY <1>6 DEF Apart
<1>9. Behind'
  <2>. SUFFICES ASSUME NEW k \in Goroutines, NEW q \in Parties, NEW x \in held'[k],
                       x.array = reg'[q].array, x.array # NoArray
                PROVE  x.len <= reg'[q].len
    BY DEF Behind
  <2>1. CASE q = p /\ x = s
    <3>1. s.len \in Nat
      BY SlicesAssumption DEF Slices
    <3>. QED BY <1>6, <2>1, <3>1
  <2>2. CASE q = p /\ x \in held[k]
    BY <1>6, <2>2
  <2>3. CASE q # p /\ x = s
    BY <1>6, <2>3
  <2>4. CASE q # p /\ x \in held[k]
    BY <1>6, <2>4 DEF Behind
  <2>. QED BY <1>5, <2>1, <2>2, <2>3, <2>4
<1>. QED BY <1>2, <1>3, <1>4, <1>7, <1>8, <1>9

\* Collecting never takes an array that is held, so only the change itself counts.
LEMMA CollectedStable ==
  ASSUME IInv, NEW h, Unseen(h),
         heap' = [a \in Arrays |-> IF a \in Reachable(reg', held') THEN h[a] ELSE Blank]
  PROVE  Stable
<1>. SUFFICES ASSUME NEW k \in Goroutines, NEW s \in held[k], s \in held'[k]
              PROVE  Contents(s)' = Contents(s)
  BY DEF Stable
<1>1. s \in Slices
  BY DEF IInv, TypeInv
<1>2. CASE s.array = NoArray
  <2>1. s.len = 0
    BY <1>2 DEF IInv, NilEmpty
  <2>. QED BY <2>1 DEF Contents, ContentsIn
<1>3. CASE s.array # NoArray
  <2>1. s.array \in Arrays
    BY <1>1, <1>3 DEF Slices
  <2>2. s.array \in Reachable(reg', held')
    BY DEF Reachable
  <2>3. heap'[s.array] = h[s.array]
    BY <2>1, <2>2
  <2>4. \A i \in 1..s.len : heap'[s.array].cells[i] = heap[s.array].cells[i]
    BY <2>1, <2>3 DEF Unseen
  <2>. QED BY <2>4 DEF Contents, ContentsIn
<1>. QED BY <1>2, <1>3

LEMMA StoreStable ==
  ASSUME IInv, NEW g, NEW p, NEW s, NEW result, NEW h, Unseen(h), Store(g, p, s, result, h)
  PROVE  Stable
  BY CollectedStable DEF Store

LEMMA HeapUnseen == Unseen(heap)
  BY DEF Unseen

\* A call that leaves the slice of a party as it is.
LEMMA Restored ==
  ASSUME IInv, NEW g \in Goroutines, NEW p \in Parties, NEW result, NEW h,
         result \subseteq {reg[p]}, Shaped(h), Unseen(h), Store(g, p, reg[p], result, h)
  PROVE  IInv' /\ Stable
<1>1. reg[p] \in Slices
  BY DEF IInv, TypeInv
<1>2. \A q \in Parties \ {p} : reg[q].array = reg[p].array => reg[p].array = NoArray
  BY DEF IInv, Apart
<1>3. \A k \in Goroutines : \A x \in held[k] :
        x.array = reg[p].array /\ x.array # NoArray => x.len <= reg[p].len
  BY DEF IInv, Behind
<1>4. reg[p].array = NoArray => reg[p].len = 0
  BY DEF IInv, NilEmpty
<1>. QED BY <1>1, <1>2, <1>3, <1>4, StoreKeeps, StoreStable

-----------------------------------------------------------------------------

\* A new array is nobody's, so filling it is not seen.
LEMMA NewIsFree ==
  ASSUME IInv, Free # {}, NEW l, NEW n, NEW size \in Sizes
  PROVE  /\ NewArray \in Arrays /\ NewArray # NoArray
         /\ \A q \in Parties : reg[q].array # NewArray
         /\ \A k \in Goroutines : \A x \in held[k] : x.array # NewArray
         /\ Shaped(New(l, n, size)) /\ Unseen(New(l, n, size))
<1>1. NewArray \in Free
  BY DEF NewArray
<1>2. NewArray \in Arrays /\ NewArray # NoArray
  BY <1>1, SlicesAssumption DEF Free
<1>3. \A q \in Parties : reg[q].array # NewArray
  BY <1>1 DEF Free, Reachable
<1>4. \A k \in Goroutines : \A x \in held[k] : x.array # NewArray
  BY <1>1 DEF Free, Reachable
<1>. DEFINE h == New(l, n, size)
            fill == [i \in 1..MaxSize |-> IF i \in 1..n THEN l[i] ELSE Unset]
<1>5. Shaped(heap)
  BY DEF IInv, TypeInv
<1>6. h = [a \in Arrays |-> IF a = NewArray THEN [cells |-> fill, size |-> size] ELSE heap[a]]
  BY <1>2, <1>5 DEF New, Shaped
<1>7. Shaped(h)
  <2>1. h = [a \in Arrays |-> h[a]]
    BY <1>6
  <2>2. ASSUME NEW a \in Arrays
        PROVE  /\ h[a] = [cells |-> h[a].cells, size |-> h[a].size]
               /\ h[a].cells = [i \in 1..MaxSize |-> h[a].cells[i]]
               /\ h[a].size \in 0..MaxSize
    <3>1. CASE a = NewArray
      <4>1. h[a] = [cells |-> fill, size |-> size]
        BY <1>6, <3>1
      <4>2. size \in 0..MaxSize
        BY SlicesAssumption
      <4>3. h[a].cells = fill /\ h[a].size = size
        BY <4>1
      <4>4. fill = [i \in 1..MaxSize |-> fill[i]]
        OBVIOUS
      <4>. QED BY <4>1, <4>2, <4>3, <4>4
    <3>2. CASE a # NewArray
      <4>1. h[a] = heap[a]
        BY <1>6, <3>2
      <4>. QED BY <1>5, <4>1 DEF Shaped
    <3>. QED BY <3>1, <3>2
  <2>. HIDE DEF h
  <2>. QED BY <2>1, <2>2 DEF Shaped
<1>8. Unseen(h)
  BY <1>4, <1>6 DEF Unseen
<1>. QED BY <1>2, <1>3, <1>4, <1>7, <1>8

\* Storing a slice of a new array.
LEMMA StoreNew ==
  ASSUME IInv, NEW g \in Goroutines, NEW p \in Parties, Free # {},
         NEW n \in 1..MaxSize, NEW size \in Sizes, NEW l,
         Store(g, p, [array |-> NewArray, len |-> n], {[array |-> NewArray, len |-> n]},
               New(l, n, size))
  PROVE  IInv' /\ Stable
<1>. DEFINE s == [array |-> NewArray, len |-> n]
            h == New(l, n, size)
<1>1. /\ NewArray \in Arrays /\ NewArray # NoArray
      /\ \A q \in Parties : reg[q].array # NewArray
      /\ \A k \in Goroutines : \A x \in held[k] : x.array # NewArray
      /\ Shaped(h) /\ Unseen(h)
  BY NewIsFree
<1>2. s \in Slices /\ s.array = NewArray
  BY <1>1, SlicesAssumption DEF Slices
<1>. HIDE DEF h, s
<1>3. Store(g, p, s, {s}, h)
  BY DEF s, h
<1>4. IInv'
  BY <1>1, <1>2, <1>3, StoreKeeps
<1>. QED BY <1>1, <1>3, <1>4, StoreStable

-----------------------------------------------------------------------------
(* The operations.                                                         *)

\* The heap after an append in place: the cell behind the registry's slice is written,
\* and nobody looks there.
LEMMA InPlaceUnseen ==
  ASSUME IInv, NEW p \in Parties, Room(reg[p]), NEW m
  PROVE  LET h == [heap EXCEPT ![reg[p].array].cells[reg[p].len + 1] = m]
         IN  Shaped(h) /\ Unseen(h)
<1>. DEFINE A == reg[p].array
            n == reg[p].len + 1
            h == [heap EXCEPT ![A].cells[n] = m]
<1>1. A \in Arrays /\ A # NoArray /\ reg[p].len \in Nat
  BY SlicesAssumption DEF Room, IInv, TypeInv, Slices
<1>2. Shaped(heap)
  BY DEF IInv, TypeInv
<1>3. \A a \in Arrays : a # A => h[a] = heap[a]
  BY <1>2 DEF Shaped
<1>4. h[A] = [cells |-> [heap[A].cells EXCEPT ![n] = m], size |-> heap[A].size]
  <2>1. A \in DOMAIN heap
    BY <1>1, <1>2 DEF Shaped
  <2>2. h[A] = [heap[A] EXCEPT !.cells = [heap[A].cells EXCEPT ![n] = m]]
    BY <2>1
  <2>3. heap[A] = [cells |-> heap[A].cells, size |-> heap[A].size]
    BY <1>1, <1>2 DEF Shaped
  <2>. QED BY <2>2, <2>3
<1>5. h = [a \in Arrays |-> h[a]]
  BY <1>2 DEF Shaped
<1>6. heap[A].cells = [i \in 1..MaxSize |-> heap[A].cells[i]]
  BY <1>1, <1>2 DEF Shaped
<1>7. [heap[A].cells EXCEPT ![n] = m] =
        [i \in 1..MaxSize |-> IF i = n THEN m ELSE heap[A].cells[i]]
  BY <1>6
<1>. HIDE DEF h
<1>8. /\ h[A].cells = [i \in 1..MaxSize |-> IF i = n THEN m ELSE heap[A].cells[i]]
      /\ h[A].size = heap[A].size
  BY <1>4, <1>7
<1>9. Shaped(h)
  <2>1. ASSUME NEW a \in Arrays, a # A
        PROVE  /\ h[a] = [cells |-> h[a].cells, size |-> h[a].size]
               /\ h[a].cells = [i \in 1..MaxSize |-> h[a].cells[i]]
               /\ h[a].size \in 0..MaxSize
    BY <1>2, <1>3, <2>1 DEF Shaped
  <2>3. h[A].cells = [i \in 1..MaxSize |-> h[A].cells[i]]
    BY <1>8
  <2>4. heap[A].size \in 0..MaxSize
    BY <1>1, <1>2 DEF Shaped
  <2>5. h[A] = [cells |-> h[A].cells, size |-> h[A].size]
    BY <1>4
  <2>. QED BY <1>5, <1>8, <2>1, <2>3, <2>4, <2>5 DEF Shaped
<1>10. Unseen(h)
  <2>. SUFFICES ASSUME NEW k \in Goroutines, NEW x \in held[k], NEW i \in 1..x.len,
                       x.array \in Arrays
                PROVE  h[x.array].cells[i] = heap[x.array].cells[i]
    BY DEF Unseen
  <2>1. CASE x.array # A
    BY <1>3, <2>1
  <2>2. CASE x.array = A
    <3>1. x.len <= reg[p].len /\ x.len \in 0..MaxSize
      BY <1>1, <2>2 DEF IInv, TypeInv, Behind, Slices
    <3>2. i # n /\ i \in 1..MaxSize
      BY <1>1, <3>1, SlicesAssumption
    <3>. QED BY <1>8, <2>2, <3>2
  <2>. QED BY <2>1, <2>2
<1>. QED BY <1>9, <1>10 DEF h

LEMMA CreateKeeps ==
  ASSUME IInv, NEW g \in Goroutines, NEW p \in Parties, NEW m, Create(g, p, m)
  PROVE  IInv' /\ Stable
<1>1. PICK size \in Sizes :
        Store(g, p, [array |-> NewArray, len |-> 1], {[array |-> NewArray, len |-> 1]},
              New(<<m>>, 1, size))
  BY DEF Create
<1>2. 1 \in 1..MaxSize /\ Free # {}
  BY SlicesAssumption DEF Create
<1>. QED BY <1>1, <1>2, StoreNew

LEMMA AddMemberKeeps ==
  ASSUME IInv, NEW g \in Goroutines, NEW p \in Parties, NEW m, AddMember(g, p, m)
  PROVE  IInv' /\ Stable
<1>. DEFINE s == reg[p]
            n == s.len + 1
<1>1. s \in Slices /\ s.len \in Nat
  BY SlicesAssumption DEF IInv, TypeInv, Slices
<1>2. CASE Room(s) /\ Appended(g, p, [s EXCEPT !.len = n],
                                [heap EXCEPT ![s.array].cells[n] = m])
  <2>. DEFINE h == [heap EXCEPT ![s.array].cells[n] = m]
              t == [s EXCEPT !.len = n]
  <2>1. Shaped(h) /\ Unseen(h)
    BY <1>2, InPlaceUnseen
  <2>2. s.array \in Arrays /\ s.array # NoArray /\ n <= MaxSize
    <3>1. s.array \in Arrays /\ s.array # NoArray /\ s.len < heap[s.array].size
      BY <1>1, <1>2 DEF Room, Slices
    <3>2. heap[s.array].size \in 0..MaxSize
      BY <3>1 DEF IInv, TypeInv, Shaped
    <3>. QED BY <1>1, <3>1, <3>2, SlicesAssumption
  <2>3. t \in Slices /\ t.array = s.array /\ t.len = n
    BY <1>1, <2>2, SlicesAssumption DEF Slices
  <2>4. \A q \in Parties \ {p} : reg[q].array # t.array
    BY <2>2, <2>3 DEF IInv, Apart
  <2>5. \A k \in Goroutines : \A x \in held[k] : x.array = t.array => x.len <= t.len
    <3>1. ASSUME NEW k \in Goroutines, NEW x \in held[k], x.array = t.array
          PROVE  x.len <= t.len
      <4>1. x.len <= s.len /\ x.len \in 0..MaxSize
        BY <2>2, <2>3, <3>1 DEF IInv, TypeInv, Behind, Slices
      <4>. QED BY <1>1, <2>3, <4>1, SlicesAssumption
    <3>. QED BY <3>1
  <2>. HIDE DEF h, t
  <2>6. Store(g, p, reg[p], {}, h) \/ Store(g, p, t, {t}, h)
    BY <1>2 DEF Appended, h, t
  <2>7. CASE Store(g, p, reg[p], {}, h)
    BY <2>1, <2>7, Restored
  <2>8. CASE Store(g, p, t, {t}, h)
    <3>1. IInv'
      BY <2>1, <2>2, <2>3, <2>4, <2>5, <2>8, StoreKeeps
    <3>. QED BY <2>1, <2>8, <3>1, StoreStable
  <2>. QED BY <2>6, <2>7, <2>8
<1>3. CASE ~Room(s)
  <2>. DEFINE l == [i \in 1..n |-> IF i = n THEN m ELSE Contents(s)[i]]
              t == [array |-> NewArray, len |-> n]
  <2>1. PICK size \in {k \in Sizes : k >= n} : Appended(g, p, t, New(l, n, size))
    BY <1>3 DEF AddMember
  <2>2. Free # {}
    BY <1>3 DEF AddMember
  <2>3. n \in 1..MaxSize
    <3>1. size \in 1..MaxSize /\ n <= size
      BY <2>1, SlicesAssumption
    <3>2. n \in Nat /\ n # 0
      BY <1>1
    <3>. HIDE DEF n
    <3>. QED BY <3>1, <3>2, SlicesAssumption
  <2>. HIDE DEF l
  <2>4. CASE Store(g, p, reg[p], {}, New(l, n, size))
    <3>1. Shaped(New(l, n, size)) /\ Unseen(New(l, n, size))
      BY <2>2, NewIsFree
    <3>. QED BY <2>4, <3>1, Restored
  <2>5. CASE Store(g, p, t, {t}, New(l, n, size))
    BY <2>2, <2>3, <2>5, StoreNew
  <2>. QED BY <2>1, <2>4, <2>5 DEF Appended
<1>. QED BY <1>2, <1>3 DEF AddMember

LEMMA NilKeeps ==
  ASSUME IInv, NEW g \in Goroutines, NEW p \in Parties, NEW result, result \subseteq {NilSlice},
         Store(g, p, NilSlice, result, heap)
  PROVE  IInv' /\ Stable
<1>1. NilSlice \in Slices /\ NilSlice.array = NoArray /\ NilSlice.len = 0
  BY SlicesAssumption DEF NilSlice, Slices
<1>2. Shaped(heap)
  BY DEF IInv, TypeInv
<1>. QED BY <1>1, <1>2, HeapUnseen, StoreKeeps, StoreStable

LEMMA RemoveMemberKeeps ==
  ASSUME IInv, NEW g \in Goroutines, NEW p \in Parties, NEW m, RemoveMember(g, p, m)
  PROVE  IInv' /\ Stable
<1>. DEFINE s == reg[p]
            K == Kept(s, m)
            n == Cardinality(K)
            l == [i \in 1..n |-> Contents(s)[KthOf(K, i)]]
            t == [array |-> NewArray, len |-> n]
<1>1. n \in Nat /\ n <= MaxSize
  <2>1. s.len \in 0..MaxSize
    BY DEF IInv, TypeInv, Slices
  <2>2. IsFiniteSet(1..s.len) /\ Cardinality(1..s.len) = s.len
    <3>1. s.len \in Nat
      BY <2>1, SlicesAssumption
    <3>2. \A d \in Nat : IsFiniteSet(1..d) /\ Cardinality(1..d) = d
      BY FS_Interval
    <3>. QED BY <3>1, <3>2
  <2>3. K \subseteq 1..s.len
    BY DEF Kept
  <2>4. n <= s.len /\ IsFiniteSet(K)
    BY <2>2, <2>3, FS_Subset
  <2>5. n \in Nat
    BY <2>4, FS_CardinalityType
  <2>. QED BY <2>1, <2>4, <2>5, SlicesAssumption
<1>2. CASE n = 0 /\ Store(g, p, NilSlice, {NilSlice}, heap)
  BY <1>2, NilKeeps
<1>3. CASE n # 0
  <2>1. PICK size \in Sizes : Store(g, p, t, {t}, New(l, n, size))
    BY <1>3 DEF RemoveMember
  <2>2. Free # {}
    BY <1>3 DEF RemoveMember
  <2>3. n \in 1..MaxSize
    BY <1>1, <1>3
  <2>. HIDE DEF l, n
  <2>. QED BY <2>1, <2>2, <2>3, StoreNew
<1>. QED BY <1>2, <1>3 DEF RemoveMember

LEMMA GetAllKeeps ==
  ASSUME IInv, NEW g \in Goroutines, GetAll(g)
  PROVE  IInv' /\ Stable
<1>. USE DEF IInv, TypeInv
<1>1. /\ held' = [held EXCEPT ![g] = {reg[p] : p \in Parties}]
      /\ heap' = [a \in Arrays |-> IF a \in Reachable(reg, held') THEN heap[a] ELSE Blank]
      /\ reg' = reg
  BY DEF GetAll
<1>2. Shaped(heap')
  BY <1>1, CollectedShaped
<1>3. {reg[p] : p \in Parties} \in SUBSET Slices
  OBVIOUS
<1>4. held' \in [Goroutines -> SUBSET Slices]
  BY <1>1, <1>3
<1>5. \A k \in Goroutines : \A x \in held'[k] : x \in held[k] \/ \E q \in Parties : x = reg[q]
  BY <1>1
<1>6. NilEmpty'
  BY <1>1, <1>5 DEF NilEmpty
<1>7. Apart'
  BY <1>1 DEF Apart
<1>8. Behind'
  <2>. SUFFICES ASSUME NEW k \in Goroutines, NEW q \in Parties, NEW x \in held'[k],
                       x.array = reg[q].array, x.array # NoArray
                PROVE  x.len <= reg[q].len
    BY <1>1 DEF Behind
  <2>1. CASE x \in held[k]
    BY <2>1 DEF Behind
  <2>2. CASE \E r \in Parties : x = reg[r]
    <3>1. x = reg[q]
      BY <2>2 DEF Apart
    <3>2. reg[q].len \in 0..MaxSize
      BY DEF Slices
    <3>. QED BY <3>1, <3>2, SlicesAssumption
  <2>. QED BY <1>5, <2>1, <2>2
<1>9. Stable
  BY <1>1, HeapUnseen, CollectedStable
<1>. QED BY <1>1, <1>2, <1>4, <1>6, <1>7, <1>8, <1>9

-----------------------------------------------------------------------------

LEMMA InitIInv == Init => IInv
<1>. SUFFICES ASSUME Init PROVE IInv
  OBVIOUS
<1>. USE DEF Init
<1>1. Shaped(heap)
  BY BlankShaped DEF Shaped
<1>2. NilSlice \in Slices /\ NilSlice.array = NoArray /\ NilSlice.len = 0
  BY SlicesAssumption DEF NilSlice, Slices
<1>3. TypeInv
  BY <1>1, <1>2 DEF TypeInv
<1>4. NilEmpty /\ Apart /\ Behind
  BY <1>2 DEF NilEmpty, Apart, Behind
<1>. QED BY <1>3, <1>4 DEF IInv

LEMMA StepKeeps ==
  ASSUME IInv, [Next]_vars
  PROVE  IInv' /\ Stable
<1>1. ASSUME NEW g \in Goroutines, NEW p \in Parties, NEW m \in Members,
             Create(g, p, m) \/ AddMember(g, p, m) \/ RemoveMember(g, p, m)
      PROVE  IInv' /\ Stable
  BY <1>1, CreateKeeps, AddMemberKeeps, RemoveMemberKeeps
<1>2. ASSUME NEW g \in Goroutines, NEW p \in Parties, Remove(g, p)
      PROVE  IInv' /\ Stable
  BY <1>2, NilKeeps DEF Remove
<1>3. ASSUME NEW g \in Goroutines, NEW p \in Parties, Get(g, p)
      PROVE  IInv' /\ Stable
  <2>1. Shaped(heap)
    BY DEF IInv, TypeInv
  <2>. QED BY <1>3, <2>1, HeapUnseen, Restored DEF Get
<1>4. ASSUME NEW g \in Goroutines, GetAll(g)
      PROVE  IInv' /\ Stable
  BY <1>4, GetAllKeeps
<1>5. CASE UNCHANGED vars
  <2>1. heap' = heap /\ reg' = reg /\ held' = held
    BY <1>5 DEF vars
  <2>2. IInv'
    BY <2>1 DEF IInv, TypeInv, Shaped, NilEmpty, Apart, Behind
  <2>3. Stable
    BY <2>1 DEF Stable, Contents, ContentsIn
  <2>. QED BY <2>2, <2>3
<1>. QED BY <1>1, <1>2, <1>3, <1>4, <1>5 DEF Next

\* For every instance: a slice that a goroutine has got from the registry shows the
\* same members for as long as the goroutine keeps it, whatever the others do to the
\* party (party/model.go:35, party/registry.go:115).
THEOREM ListsStayAsGiven == Spec => SnapshotsStable
<1>1. IInv /\ [Next]_vars => IInv' /\ Stable
  BY StepKeeps
<1>2. Stable => [\A g \in Goroutines : \A s \in held[g] \cap held'[g] :
                   Contents(s)' = Contents(s)]_vars
  BY DEF Stable
<1>. QED BY <1>1, <1>2, InitIInv, PTL DEF Spec, SnapshotsStable

-----------------------------------------------------------------------------
(* What the cells hold, and what the arrays have room for.                 *)

CellsOK(h) == \A a \in Arrays : \A i \in 1..MaxSize : h[a].cells[i] \in Members \cup {Unset}

FitsIn(h, s) == s.len <= Capacity /\ (s.array \in Arrays => s.len <= h[s.array].size)

FitInv == CellsOK(heap) /\ \A p \in Parties : FitsIn(heap, reg[p])

TypedInv == IInv /\ FitInv

\* Storing a slice that fits keeps the others as they fit: the collector takes none of
\* their arrays.
LEMMA StoreFits ==
  ASSUME TypedInv, NEW g \in Goroutines, NEW p \in Parties, NEW s, NEW result, NEW h,
         CellsOK(h), FitsIn(h, s), \A q \in Parties \ {p} : FitsIn(h, reg[q]),
         Store(g, p, s, result, h)
  PROVE  FitInv'
<1>1. /\ reg' = [reg EXCEPT ![p] = s]
      /\ heap' = [a \in Arrays |-> IF a \in Reachable(reg', held') THEN h[a] ELSE Blank]
  BY DEF Store
<1>2. \A q \in Parties : reg'[q] = IF q = p THEN s ELSE reg[q]
  BY <1>1 DEF TypedInv, IInv, TypeInv
<1>3. \A a \in Arrays, i \in 1..MaxSize : heap'[a].cells[i] \in Members \cup {Unset}
  <2>. SUFFICES ASSUME NEW a \in Arrays, NEW i \in 1..MaxSize
                PROVE  heap'[a].cells[i] \in Members \cup {Unset}
    OBVIOUS
  <2>1. Blank.cells[i] = Unset
    BY DEF Blank
  <2>2. heap'[a] = h[a] \/ heap'[a] = Blank
    BY <1>1
  <2>. QED BY <2>1, <2>2 DEF CellsOK
<1>4. ASSUME NEW q \in Parties
      PROVE  FitsIn(heap', reg'[q])
  <2>1. FitsIn(h, reg'[q])
    BY <1>2
  <2>2. reg'[q].array \in Reachable(reg', held')
    BY DEF Reachable
  <2>3. reg'[q].array \in Arrays => heap'[reg'[q].array] = h[reg'[q].array]
    BY <1>1, <2>2
  <2>. QED BY <2>1, <2>3 DEF FitsIn
<1>5. CellsOK(heap')
  BY <1>3 DEF CellsOK
<1>. QED BY <1>4, <1>5 DEF FitInv

\* The heap with a new array of members: every slice of a party fits as before.
LEMMA NewFits ==
  ASSUME TypedInv, Free # {}, NEW n \in 1..MaxSize, NEW size \in Sizes, n <= size, NEW l,
         \A i \in 1..n : l[i] \in Members \cup {Unset}
  PROVE  /\ CellsOK(New(l, n, size))
         /\ \A q \in Parties : FitsIn(New(l, n, size), reg[q])
         /\ n <= Capacity => FitsIn(New(l, n, size), [array |-> NewArray, len |-> n])
<1>. DEFINE h == New(l, n, size)
            fill == [i \in 1..MaxSize |-> IF i \in 1..n THEN l[i] ELSE Unset]
<1>1. /\ NewArray \in Arrays
      /\ \A q \in Parties : reg[q].array # NewArray
  BY NewIsFree DEF TypedInv
<1>2. h = [a \in Arrays |-> IF a = NewArray THEN [cells |-> fill, size |-> size] ELSE heap[a]]
  BY <1>1 DEF New, TypedInv, IInv, TypeInv, Shaped
<1>3. \A i \in 1..MaxSize : fill[i] \in Members \cup {Unset}
  OBVIOUS
<1>. HIDE DEF fill
<1>4. h[NewArray].cells = fill /\ h[NewArray].size = size
  BY <1>1, <1>2
<1>5. \A a \in Arrays : a # NewArray => h[a] = heap[a]
  BY <1>2
<1>. HIDE DEF h
<1>6. CellsOK(h)
  BY <1>3, <1>4, <1>5 DEF CellsOK, TypedInv, FitInv
<1>7. \A q \in Parties : FitsIn(h, reg[q])
  BY <1>1, <1>5 DEF FitsIn, TypedInv, FitInv
<1>8. n <= Capacity => FitsIn(h, [array |-> NewArray, len |-> n])
  BY <1>4 DEF FitsIn
<1>. QED BY <1>6, <1>7, <1>8 DEF h

\* Storing a slice of a new array of members.
LEMMA StoreNewFits ==
  ASSUME TypedInv, NEW g \in Goroutines, NEW p \in Parties, Free # {}, NEW n \in 1..MaxSize,
         n <= Capacity, NEW size \in Sizes, n <= size, NEW l,
         \A i \in 1..n : l[i] \in Members \cup {Unset},
         Store(g, p, [array |-> NewArray, len |-> n], {[array |-> NewArray, len |-> n]},
               New(l, n, size))
  PROVE  FitInv'
<1>. DEFINE s == [array |-> NewArray, len |-> n]
            h == New(l, n, size)
<1>1. CellsOK(h) /\ (\A q \in Parties : FitsIn(h, reg[q])) /\ FitsIn(h, s)
  BY NewFits
<1>. HIDE DEF h, s
<1>2. Store(g, p, s, {s}, h)
  BY DEF s, h
<1>. QED BY <1>1, <1>2, StoreFits

LEMMA NilFits ==
  ASSUME TypedInv, NEW g \in Goroutines, NEW p \in Parties, NEW result,
         Store(g, p, NilSlice, result, heap)
  PROVE  FitInv'
<1>1. FitsIn(heap, NilSlice)
  BY SlicesAssumption DEF FitsIn, NilSlice
<1>. QED BY <1>1, StoreFits DEF TypedInv, FitInv

LEMMA CreateFits ==
  ASSUME TypedInv, NEW g \in Goroutines, NEW p \in Parties, NEW m \in Members, Create(g, p, m)
  PROVE  FitInv'
<1>1. PICK size \in Sizes :
        Store(g, p, [array |-> NewArray, len |-> 1], {[array |-> NewArray, len |-> 1]},
              New(<<m>>, 1, size))
  BY DEF Create
<1>2. 1 \in 1..MaxSize /\ 1 <= Capacity /\ Free # {}
  BY SlicesAssumption DEF Create
<1>3. 1 <= size
  BY SlicesAssumption
<1>4. \A i \in 1..1 : <<m>>[i] \in Members \cup {Unset}
  OBVIOUS
<1>. QED BY <1>1, <1>2, <1>3, <1>4, StoreNewFits

\* What a slice of a party shows are members.
LEMMA Shown ==
  ASSUME TypedInv, NEW p \in Parties, NEW i \in 1..reg[p].len
  PROVE  Contents(reg[p])[i] \in Members \cup {Unset}
<1>1. reg[p] \in Slices /\ reg[p].len \in Nat /\ reg[p].len <= MaxSize
  BY SlicesAssumption DEF TypedInv, IInv, TypeInv, Slices
<1>2. reg[p].array \in Arrays
  BY <1>1 DEF TypedInv, IInv, NilEmpty, Slices
<1>3. i \in 1..MaxSize
  BY <1>1, SlicesAssumption
<1>4. Contents(reg[p])[i] = heap[reg[p].array].cells[i]
  BY DEF Contents, ContentsIn
<1>. QED BY <1>2, <1>3, <1>4 DEF TypedInv, FitInv, CellsOK

\* AddMember: the append writes a member, and is stored only when it is not over the
\* capacity.
LEMMA AddMemberFits ==
  ASSUME TypedInv, NEW g \in Goroutines, NEW p \in Parties, NEW m \in Members,
         AddMember(g, p, m)
  PROVE  FitInv'
<1>. DEFINE s == reg[p]
            n == s.len + 1
<1>1. s \in Slices /\ s.len \in Nat /\ Capacity \in Nat /\ MaxSize \in Nat
  BY SlicesAssumption DEF TypedInv, IInv, TypeInv, Slices
<1>2. \A q \in Parties : FitsIn(heap, reg[q])
  BY DEF TypedInv, FitInv
<1>3. CASE Room(s) /\ Appended(g, p, [s EXCEPT !.len = n],
                                [heap EXCEPT ![s.array].cells[n] = m])
  <2>. DEFINE A == s.array
              h == [heap EXCEPT ![A].cells[n] = m]
              t == [s EXCEPT !.len = n]
  <2>1. A \in Arrays /\ s.len < heap[A].size
    BY <1>1, <1>3 DEF Room, Slices
  <2>2. Shaped(heap)
    BY DEF TypedInv, IInv, TypeInv
  <2>3. heap[A].size \in 0..MaxSize /\ heap[A].cells = [i \in 1..MaxSize |-> heap[A].cells[i]]
    BY <2>1, <2>2 DEF Shaped
  <2>4. \A a \in Arrays : a # A => h[a] = heap[a]
    BY <2>2 DEF Shaped
  <2>5. h[A] = [heap[A] EXCEPT !.cells = [heap[A].cells EXCEPT ![n] = m]]
    BY <2>1, <2>2 DEF Shaped
  <2>6. heap[A] = [cells |-> heap[A].cells, size |-> heap[A].size]
    BY <2>1, <2>2 DEF Shaped
  <2>7. h[A].cells = [heap[A].cells EXCEPT ![n] = m] /\ h[A].size = heap[A].size
    BY <2>5, <2>6
  <2>8. t.array = A /\ t.len = n
    BY <1>1 DEF Slices
  <2>. HIDE DEF h, t
  <2>9. CellsOK(h)
    <3>. SUFFICES ASSUME NEW a \in Arrays, NEW i \in 1..MaxSize
                  PROVE  h[a].cells[i] \in Members \cup {Unset}
      BY DEF CellsOK
    <3>1. heap[a].cells[i] \in Members \cup {Unset}
      BY DEF TypedInv, FitInv, CellsOK
    <3>2. CASE a = A
      <4>1. h[A].cells[i] = IF i = n THEN m ELSE heap[A].cells[i]
        BY <2>3, <2>7
      <4>. QED BY <3>1, <3>2, <4>1
    <3>. QED BY <2>4, <3>1, <3>2
  <2>10. \A q \in Parties : FitsIn(h, reg[q])
    BY <1>2, <2>4, <2>7 DEF FitsIn
  <2>11. CASE Store(g, p, reg[p], {}, h)
    BY <2>9, <2>10, <2>11, StoreFits
  <2>12. CASE ~(t.len > Capacity) /\ Store(g, p, t, {t}, h)
    <3>1. n <= Capacity /\ n <= heap[A].size
      BY <1>1, <2>1, <2>3, <2>8, <2>12
    <3>2. FitsIn(h, t)
      BY <2>7, <2>8, <3>1 DEF FitsIn
    <3>. QED BY <2>9, <2>10, <2>12, <3>2, StoreFits
  <2>13. Appended(g, p, t, h)
    BY <1>3 DEF t, h
  <2>. QED BY <2>11, <2>12, <2>13 DEF Appended
<1>4. CASE ~Room(s)
  <2>. DEFINE l == [i \in 1..n |-> IF i = n THEN m ELSE Contents(s)[i]]
              t == [array |-> NewArray, len |-> n]
  <2>1. PICK size \in {k \in Sizes : k >= n} : Appended(g, p, t, New(l, n, size))
    BY <1>4 DEF AddMember
  <2>2. Free # {}
    BY <1>4 DEF AddMember
  <2>3. size \in Sizes /\ n <= size /\ n \in 1..MaxSize
    <3>1. size \in 1..MaxSize /\ n <= size
      BY <2>1, SlicesAssumption
    <3>2. n \in Nat /\ n # 0
      BY <1>1
    <3>. HIDE DEF n
    <3>. QED BY <2>1, <3>1, <3>2, SlicesAssumption
  <2>4. \A i \in 1..n : l[i] \in Members \cup {Unset}
    <3>1. ASSUME NEW i \in 1..n
          PROVE  l[i] \in Members \cup {Unset}
      <4>1. CASE i = n
        BY <4>1
      <4>2. CASE i # n
        <5>1. i \in 1..s.len
          BY <1>1, <4>2
        <5>. QED BY <4>2, <5>1, Shown
      <4>. QED BY <4>1, <4>2
    <3>. QED BY <3>1
  <2>5. t.len = n
    OBVIOUS
  <2>. HIDE DEF l
  <2>6. CASE Store(g, p, reg[p], {}, New(l, n, size))
    <3>1. CellsOK(New(l, n, size)) /\ \A q \in Parties : FitsIn(New(l, n, size), reg[q])
      BY <2>2, <2>3, <2>4, NewFits
    <3>. QED BY <2>6, <3>1, StoreFits
  <2>7. CASE n <= Capacity /\ Store(g, p, t, {t}, New(l, n, size))
    BY <2>2, <2>3, <2>4, <2>7, StoreNewFits
  <2>8. n <= Capacity \/ t.len > Capacity
    BY <1>1, <2>5
  <2>. QED BY <2>1, <2>5, <2>6, <2>7, <2>8 DEF Appended
<1>. QED BY <1>3, <1>4 DEF AddMember

\* The members of K up to i; their number is the rank of i.
UpTo(K, i) == {j \in K : j <= i}

\* Sets of places are finite, so they have a number of members.
LEMMA Finite ==
  ASSUME NEW L \in Nat, NEW K \in SUBSET (1..L)
  PROVE  IsFiniteSet(K) /\ Cardinality(K) \in Nat
<1>1. IsFiniteSet(1..L)
  BY FS_Interval
<1>2. IsFiniteSet(K)
  BY <1>1, FS_Subset
<1>. QED BY <1>2, FS_CardinalityType

\* No two have one rank.
LEMMA RanksDiffer ==
  ASSUME NEW L \in Nat, NEW K \in SUBSET (1..L), NEW i \in K, NEW j \in K,
         Cardinality(UpTo(K, i)) = Cardinality(UpTo(K, j))
  PROVE  i = j
<1>1. ASSUME NEW x \in K, NEW y \in K, x < y
      PROVE  Cardinality(UpTo(K, x)) # Cardinality(UpTo(K, y))
  <2>1. K \subseteq Nat
    OBVIOUS
  <2>2. UpTo(K, x) \in SUBSET UpTo(K, y) /\ y \in UpTo(K, y) /\ y \notin UpTo(K, x)
    <3>1. \A z \in Nat : z <= x => z <= y
      BY <1>1, <2>1
    <3>2. y <= y /\ ~(y <= x)
      BY <1>1, <2>1
    <3>. QED BY <2>1, <3>1, <3>2 DEF UpTo
  <2>3. IsFiniteSet(UpTo(K, y))
    BY Finite, FS_Subset DEF UpTo
  <2>4. Cardinality(UpTo(K, y)) = Cardinality(UpTo(K, x)) => UpTo(K, y) = UpTo(K, x)
    BY <2>2, <2>3, FS_Subset
  <2>. QED BY <2>2, <2>4
<1>2. i < j \/ j < i \/ i = j
  OBVIOUS
<1>. QED BY <1>1, <1>2

\* Of n numbers there is a k-th for every k up to n: otherwise the ranks of the n would
\* be n - 1 values only.
LEMMA KthExists ==
  ASSUME NEW L \in Nat, NEW K \in SUBSET (1..L), NEW k \in 1..Cardinality(K)
  PROVE  KthOf(K, k) \in K /\ Cardinality(UpTo(K, KthOf(K, k))) = k
<1>. DEFINE n == Cardinality(K)
            rank == [i \in K |-> Cardinality(UpTo(K, i))]
            T == (1..n) \ {k}
<1>1. IsFiniteSet(K) /\ n \in Nat
  BY Finite
<1>2. ASSUME NEW i \in K
      PROVE  Cardinality(UpTo(K, i)) \in 1..n
  <2>1. UpTo(K, i) \subseteq K /\ i \in UpTo(K, i)
    BY DEF UpTo
  <2>2. IsFiniteSet(UpTo(K, i)) /\ Cardinality(UpTo(K, i)) <= n
    BY <1>1, <2>1, FS_Subset
  <2>3. Cardinality(UpTo(K, i)) \in Nat
    BY <2>2, FS_CardinalityType
  <2>4. Cardinality(UpTo(K, i)) # 0
    BY <2>1, <2>2, FS_EmptySet
  <2>. QED BY <1>1, <2>2, <2>3, <2>4
<1>3. \E i \in K : Cardinality(UpTo(K, i)) = k
  <2>. SUFFICES ASSUME \A i \in K : Cardinality(UpTo(K, i)) # k
                PROVE  FALSE
    OBVIOUS
  <2>1. IsFiniteSet(T) /\ Cardinality(T) < n
    <3>1. IsFiniteSet(1..n) /\ Cardinality(1..n) = n
      BY <1>1, FS_Interval
    <3>2. IsFiniteSet(T) /\ Cardinality(T) = n - 1
      BY <3>1, FS_RemoveElement
    <3>. QED BY <1>1, <3>2
  <2>2. rank \in [K -> T]
    BY <1>2
  <2>. HIDE DEF rank, T
  <2>3. PICK i, j \in K : i # j /\ rank[i] = rank[j]
    BY <1>1, <2>1, <2>2, FS_PigeonHole
  <2>4. Cardinality(UpTo(K, i)) = Cardinality(UpTo(K, j))
    BY <2>3 DEF rank
  <2>. QED BY <2>3, <2>4, RanksDiffer
<1>. QED BY <1>3 DEF KthOf, UpTo

LEMMA RemoveMemberFits ==
  ASSUME TypedInv, NEW g \in Goroutines, NEW p \in Parties, NEW m, RemoveMember(g, p, m)
  PROVE  FitInv'
<1>. DEFINE s == reg[p]
            K == Kept(s, m)
            n == Cardinality(K)
            l == [i \in 1..n |-> Contents(s)[KthOf(K, i)]]
            t == [array |-> NewArray, len |-> n]
<1>1. s.len \in Nat /\ s.len <= Capacity /\ Capacity \in Nat /\ MaxSize \in Nat /\ Capacity < MaxSize
  BY SlicesAssumption DEF TypedInv, IInv, TypeInv, Slices, FitInv, FitsIn
<1>2. K \subseteq 1..s.len
  BY DEF Kept
<1>3. n \in Nat /\ n <= Capacity
  <2>1. IsFiniteSet(1..s.len) /\ Cardinality(1..s.len) = s.len
    <3>1. \A d \in Nat : IsFiniteSet(1..d) /\ Cardinality(1..d) = d
      BY FS_Interval
    <3>. QED BY <1>1, <3>1
  <2>2. n <= s.len /\ IsFiniteSet(K)
    BY <1>2, <2>1, FS_Subset
  <2>3. n \in Nat
    BY <2>2, FS_CardinalityType
  <2>. QED BY <1>1, <2>2, <2>3
<1>4. CASE n = 0 /\ Store(g, p, NilSlice, {NilSlice}, heap)
  BY <1>4, NilFits
<1>5. CASE n # 0
  <2>1. PICK size \in {k \in Sizes : k >= n} : Store(g, p, t, {t}, New(l, n, size))
    BY <1>5 DEF RemoveMember
  <2>2. Free # {}
    BY <1>5 DEF RemoveMember
  <2>3. n \in 1..MaxSize
    BY <1>1, <1>3, <1>5
  <2>4. \A i \in 1..n : l[i] \in Members \cup {Unset}
    <3>1. ASSUME NEW i \in 1..n
          PROVE  l[i] \in Members \cup {Unset}
      <4>1. KthOf(K, i) \in 1..s.len
        BY <1>1, <1>2, KthExists
      <4>2. Contents(s)[KthOf(K, i)] \in Members \cup {Unset}
        BY <4>1, Shown
      <4>. QED BY <4>2
    <3>. QED BY <3>1
  <2>5. size \in Sizes /\ n <= size
    BY <2>1
  <2>. HIDE DEF l, n
  <2>. QED BY <1>3, <2>1, <2>2, <2>3, <2>4, <2>5, StoreNewFits
<1>. QED BY <1>4, <1>5 DEF RemoveMember

LEMMA GetAllFits ==
  ASSUME TypedInv, NEW g \in Goroutines, GetAll(g)
  PROVE  FitInv'
<1>1. /\ heap' = [a \in Arrays |-> IF a \in Reachable(reg, held') THEN heap[a] ELSE Blank]
      /\ reg' = reg
  BY DEF GetAll
<1>2. \A i \in 1..MaxSize : Blank.cells[i] = Unset
  BY DEF Blank
<1>3. CellsOK(heap')
  BY <1>1, <1>2 DEF CellsOK, TypedInv, FitInv
<1>4. \A p \in Parties : FitsIn(heap', reg[p])
  BY <1>1 DEF FitsIn, TypedInv, FitInv, Reachable
<1>. QED BY <1>1, <1>3, <1>4 DEF FitInv

LEMMA InitFits == Init => FitInv
<1>. SUFFICES ASSUME Init PROVE FitInv
  OBVIOUS
<1>1. NilSlice.array = NoArray /\ NilSlice.len = 0 /\ \A i \in 1..MaxSize : Blank.cells[i] = Unset
  BY DEF NilSlice, Blank
<1>2. CellsOK(heap)
  BY <1>1 DEF Init, CellsOK
<1>3. \A p \in Parties : FitsIn(heap, reg[p])
  BY <1>1, SlicesAssumption DEF Init, FitsIn
<1>. QED BY <1>2, <1>3 DEF FitInv

LEMMA StepFits ==
  ASSUME TypedInv, [Next]_vars
  PROVE  FitInv'
<1>1. ASSUME NEW g \in Goroutines, NEW p \in Parties, NEW m \in Members,
             Create(g, p, m) \/ AddMember(g, p, m) \/ RemoveMember(g, p, m)
      PROVE  FitInv'
  BY <1>1, CreateFits, AddMemberFits, RemoveMemberFits
<1>2. ASSUME NEW g \in Goroutines, NEW p \in Parties, Remove(g, p)
      PROVE  FitInv'
  BY <1>2, NilFits DEF Remove
<1>3. ASSUME NEW g \in Goroutines, NEW p \in Parties, Get(g, p)
      PROVE  FitInv'
  BY <1>3, StoreFits DEF Get, TypedInv, FitInv
<1>4. ASSUME NEW g \in Goroutines, GetAll(g)
      PROVE  FitInv'
  BY <1>4, GetAllFits
<1>5. CASE UNCHANGED vars
  <2>1. heap' = heap /\ reg' = reg
    BY <1>5 DEF vars
  <2>. QED BY <2>1 DEF TypedInv, FitInv, CellsOK, FitsIn
<1>. QED BY <1>1, <1>2, <1>3, <1>4, <1>5 DEF Next

LEMMA TypedTypeOK == TypedInv => TypeOK
<1>. SUFFICES ASSUME TypedInv PROVE TypeOK
  OBVIOUS
<1>. USE DEF TypedInv, IInv, TypeInv
<1>1. heap \in [Arrays -> [cells : [1..MaxSize -> Members \cup {Unset}], size : 0..MaxSize]]
  <2>1. ASSUME NEW a \in Arrays
        PROVE  heap[a] \in [cells : [1..MaxSize -> Members \cup {Unset}], size : 0..MaxSize]
    <3>1. heap[a].cells \in [1..MaxSize -> Members \cup {Unset}]
      BY DEF Shaped, FitInv, CellsOK
    <3>2. heap[a] = [cells |-> heap[a].cells, size |-> heap[a].size]
      BY DEF Shaped
    <3>3. heap[a].size \in 0..MaxSize
      BY DEF Shaped
    <3>. QED BY <3>1, <3>2, <3>3
  <2>2. heap = [a \in Arrays |-> heap[a]]
    BY DEF Shaped
  <2>. QED BY <2>1, <2>2
<1>2. ASSUME NEW p \in Parties
      PROVE  /\ reg[p].len <= Capacity
             /\ IF reg[p].array = NoArray THEN reg[p].len = 0
                ELSE reg[p].len <= heap[reg[p].array].size
  BY DEF FitInv, FitsIn, NilEmpty, Slices
<1>. QED BY <1>1, <1>2 DEF TypeOK

\* For every instance: no party has more members than its capacity, also when AddMember
\* has already appended the one too many (party/registry.go:125), and no slice
\* of the registry is longer than its array.
THEOREM SlicesFit == Spec => []TypeOK
<1>1. Init => TypedInv
  BY InitIInv, InitFits DEF TypedInv
<1>2. TypedInv /\ [Next]_vars => TypedInv'
  BY StepKeeps, StepFits DEF TypedInv
<1>. QED BY <1>1, <1>2, TypedTypeOK, PTL DEF Spec

-----------------------------------------------------------------------------
(* What RemoveMember keeps, by ranks, is what a walk over the list keeps.  *)

\* A set of naturals that is not empty has a least element.
LEMMA Least ==
  ASSUME NEW T \in SUBSET Nat, T # {}
  PROVE  \E x \in T : \A y \in T : x <= y
<1>1. PICK x \in T : \A y \in T : ~ (<<y, x>> \in OpToRel(<, Nat))
  BY NatLessThanWellFounded, WFMin
<1>2. \A y \in T : ~ (y < x)
  BY <1>1 DEF OpToRel
<1>. QED BY <1>2

\* G computes what is left of the first i of n members when m goes.
Computes(G, l, m, n) ==
  G = [i \in 0..n |-> IF i = 0 THEN <<>>
                      ELSE IF l[i] = m THEN G[i - 1] ELSE Append(G[i - 1], l[i])]

\* Only one function computes it: of two, take the least place where they differ; they
\* agree before it, and so there.
LEMMA WithoutIs ==
  ASSUME NEW l, NEW m, NEW n \in Nat, Len(l) = n, NEW G, Computes(G, l, m, n)
  PROVE  Lists!Without(l, m) = G[n]
<1>. DEFINE Loop(F) == [i \in 0..n |-> IF i = 0 THEN <<>>
                         ELSE IF l[i] = m THEN F[i - 1] ELSE Append(F[i - 1], l[i])]
            F == CHOOSE f : f = Loop(f)
<1>0. G = Loop(G)
  BY DEF Computes
<1>1. Lists!Without(l, m) = F[n]
  BY DEF Lists!Without
<1>2. F = Loop(F)
  <2>. HIDE DEF Loop
  <2>. QED BY <1>0
<1>. HIDE DEF F
<1>. DEFINE T == {i \in 0..n : F[i] # G[i]}
<1>3. T = {}
  <2>. SUFFICES ASSUME T # {} PROVE FALSE
    OBVIOUS
  <2>1. T \in SUBSET Nat
    OBVIOUS
  <2>2. PICK x \in T : \A y \in T : x <= y
    <3>. HIDE DEF T
    <3>. QED BY <2>1, Least
  <2>3. x \in 0..n /\ F[x] # G[x]
    OBVIOUS
  <2>4. CASE x = 0
    BY <1>0, <1>2, <2>3, <2>4
  <2>5. CASE x # 0
    <3>1. x - 1 \in 0..n /\ ~(x <= x - 1)
      BY <2>3, <2>5
    <3>2. F[x - 1] = G[x - 1]
      BY <2>2, <3>1
    <3>3. F[x] = IF l[x] = m THEN F[x - 1] ELSE Append(F[x - 1], l[x])
      BY <1>2, <2>3, <2>5
    <3>4. G[x] = IF l[x] = m THEN G[x - 1] ELSE Append(G[x - 1], l[x])
      BY <1>0, <2>3, <2>5
    <3>. QED BY <2>3, <3>2, <3>3, <3>4
  <2>. QED BY <2>4, <2>5
<1>4. n \in 0..n
  OBVIOUS
<1>. QED BY <1>1, <1>3, <1>4

\* What the ranks become when a number greater than all of them joins.
LEMMA KthGrows ==
  ASSUME NEW e \in Nat \ {0}, NEW K \in SUBSET (1..(e - 1))
  PROVE  /\ Cardinality(K) \in Nat
         /\ Cardinality(K \cup {e}) = Cardinality(K) + 1
         /\ \A k \in 1..Cardinality(K) : KthOf(K \cup {e}, k) = KthOf(K, k)
         /\ KthOf(K \cup {e}, Cardinality(K) + 1) = e
<1>. DEFINE W == K \cup {e}
<1>0. e - 1 \in Nat
  OBVIOUS
<1>1. IsFiniteSet(K)
  BY <1>0, Finite
<1>2. Cardinality(K) \in Nat
  BY <1>0, Finite
<1>3. e \notin K
  OBVIOUS
<1>4. IsFiniteSet(W) /\ Cardinality(W) = Cardinality(K) + 1
  BY <1>1, <1>3, FS_AddElement
<1>5. e \in Nat /\ W \in SUBSET (1..e)
  OBVIOUS
<1>6. \A i \in K : i \in Nat /\ i < e
  OBVIOUS
<1>7. ASSUME NEW i \in K
      PROVE  UpTo(W, i) = UpTo(K, i)
  BY <1>6 DEF UpTo
<1>8. UpTo(W, e) = W
  <2>1. \A i \in W : i <= e
    BY <1>6, <1>5
  <2>. HIDE DEF W
  <2>. QED BY <2>1 DEF UpTo
<1>. HIDE DEF W
<1>9. ASSUME NEW k \in 1..Cardinality(K)
      PROVE  KthOf(W, k) = KthOf(K, k)
  <2>1. KthOf(K, k) \in K /\ Cardinality(UpTo(K, KthOf(K, k))) = k
    BY <1>0, KthExists
  <2>2. k \in 1..Cardinality(W)
    BY <1>2, <1>4
  <2>3. KthOf(W, k) \in W /\ Cardinality(UpTo(W, KthOf(W, k))) = k
    BY <1>5, <2>2, KthExists
  <2>4. KthOf(K, k) \in W /\ Cardinality(UpTo(W, KthOf(K, k))) = k
    BY <1>7, <2>1 DEF W
  <2>. QED BY <1>5, <2>3, <2>4, RanksDiffer
<1>10. KthOf(W, Cardinality(K) + 1) = e
  <2>. DEFINE k == Cardinality(K) + 1
  <2>1. k \in 1..Cardinality(W)
    BY <1>2, <1>4
  <2>2. KthOf(W, k) \in W /\ Cardinality(UpTo(W, KthOf(W, k))) = k
    BY <1>5, <2>1, KthExists
  <2>3. e \in W /\ Cardinality(UpTo(W, e)) = k
    BY <1>4, <1>8 DEF W
  <2>. HIDE DEF k
  <2>4. KthOf(W, k) = e
    BY <1>5, <2>2, <2>3, RanksDiffer
  <2>. QED BY <2>4 DEF k
<1>. QED BY <1>2, <1>4, <1>9, <1>10 DEF W

\* What RemoveMember leaves of the first i members.
KeptOf(l, m, i) == {j \in 1..i : l[j] # m}
LeftOf(l, m, i) ==
  [k \in 1..Cardinality(KeptOf(l, m, i)) |-> l[KthOf(KeptOf(l, m, i), k)]]

\* One step of the walk.
LEMMA LeftGrows ==
  ASSUME NEW V, NEW n \in Nat, NEW l \in [1..n -> V], NEW m, NEW i \in 1..n
  PROVE  /\ l[i] = m => LeftOf(l, m, i) = LeftOf(l, m, i - 1)
         /\ l[i] # m => LeftOf(l, m, i) = Append(LeftOf(l, m, i - 1), l[i])
<1>. DEFINE K == KeptOf(l, m, i - 1)
            d == Cardinality(K)
            q == LeftOf(l, m, i - 1)
<1>1. i - 1 \in Nat /\ (i - 1) + 1 = i /\ K \in SUBSET (1..(i - 1))
  BY DEF KeptOf
<1>2. CASE l[i] = m
  <2>1. KeptOf(l, m, i) = K
    BY <1>2 DEF KeptOf
  <2>. QED BY <1>2, <2>1 DEF LeftOf
<1>3. CASE l[i] # m
  <2>1. KeptOf(l, m, i) = K \cup {i}
    BY <1>3 DEF KeptOf
  <2>0. K \subseteq 1..n
    BY <1>1
  <2>. HIDE DEF K
  <2>2. /\ d \in Nat /\ Cardinality(K \cup {i}) = d + 1
        /\ \A k \in 1..d : KthOf(K \cup {i}, k) = KthOf(K, k)
        /\ KthOf(K \cup {i}, d + 1) = i
    <3>1. i \in Nat \ {0}
      OBVIOUS
    <3>. QED BY <1>1, <3>1, KthGrows
  <2>. HIDE DEF d
  <2>3. LeftOf(l, m, i) = [k \in 1..(d + 1) |-> l[KthOf(K \cup {i}, k)]]
    BY <2>1, <2>2 DEF LeftOf
  <2>4. q = [k \in 1..d |-> l[KthOf(K, k)]]
    BY DEF LeftOf, K, d
  <2>5. \A k \in 1..d : KthOf(K, k) \in 1..n
    <3>1. ASSUME NEW k \in 1..d PROVE KthOf(K, k) \in 1..n
      <4>1. KthOf(K, k) \in K
        BY <1>1, KthExists DEF d
      <4>. QED BY <2>0, <4>1
    <3>. QED BY <3>1
  <2>6. q \in Seq(V) /\ Len(q) = d
    <3>1. q \in [1..d -> V]
      BY <2>4, <2>5
    <3>. HIDE DEF q
    <3>. QED BY <2>2, <3>1, LenProperties
  <2>. HIDE DEF q
  <2>7. Append(q, l[i]) = [k \in 1..(d + 1) |-> IF k = d + 1 THEN l[i] ELSE q[k]]
    BY <2>2, <2>6
  <2>8. \A k \in 1..(d + 1) :
          l[KthOf(K \cup {i}, k)] = IF k = d + 1 THEN l[i] ELSE q[k]
    <3>1. \A k \in 1..(d + 1) : k = d + 1 \/ (k # d + 1 /\ k \in 1..d)
      BY <2>2
    <3>2. \A k \in 1..d : l[KthOf(K \cup {i}, k)] = q[k]
      BY <2>2, <2>4
    <3>. QED BY <2>2, <3>1, <3>2
  <2>9. LeftOf(l, m, i) = Append(q, l[i])
    BY <2>3, <2>7, <2>8
  <2>. QED BY <1>3, <2>9 DEF q
<1>. QED BY <1>2, <1>3

\* So the members whom RemoveMember keeps, by their ranks, are the list without m.
LEMMA WithoutLeft ==
  ASSUME NEW V, NEW n \in Nat, NEW l \in [1..n -> V], NEW m
  PROVE  Lists!Without(l, m) = LeftOf(l, m, n)
<1>. DEFINE G == [i \in 0..n |-> LeftOf(l, m, i)]
<1>1. Len(l) = n
  BY LenProperties
<1>2. LeftOf(l, m, 0) = <<>>
  <2>1. KeptOf(l, m, 0) = {}
    BY DEF KeptOf
  <2>2. Cardinality({}) = 0
    BY FS_EmptySet
  <2>3. LeftOf(l, m, 0) = [k \in 1..0 |-> l[KthOf({}, k)]]
    BY <2>1, <2>2 DEF LeftOf
  <2>4. LeftOf(l, m, 0) \in [1..0 -> V]
    <3>1. \A k \in 1..0 : l[KthOf({}, k)] \in V
      OBVIOUS
    <3>. QED BY <2>3, <3>1
  <2>5. LeftOf(l, m, 0) \in Seq(V) /\ Len(LeftOf(l, m, 0)) = 0
    BY <2>4, LenProperties
  <2>. QED BY <2>5, EmptySeq
<1>3. \A i \in 0..n : i # 0 =>
        /\ i - 1 \in 0..n
        /\ LeftOf(l, m, i) =
             IF l[i] = m THEN LeftOf(l, m, i - 1) ELSE Append(LeftOf(l, m, i - 1), l[i])
  <2>. SUFFICES ASSUME NEW i \in 0..n, i # 0
                PROVE  /\ i - 1 \in 0..n
                       /\ LeftOf(l, m, i) = IF l[i] = m THEN LeftOf(l, m, i - 1)
                                            ELSE Append(LeftOf(l, m, i - 1), l[i])
    OBVIOUS
  <2>1. i \in 1..n /\ i - 1 \in 0..n
    OBVIOUS
  <2>2. /\ l[i] = m => LeftOf(l, m, i) = LeftOf(l, m, i - 1)
        /\ l[i] # m => LeftOf(l, m, i) = Append(LeftOf(l, m, i - 1), l[i])
    BY <2>1, LeftGrows
  <2>. QED BY <2>1, <2>2
<1>4. Computes(G, l, m, n)
  <2>1. ASSUME NEW i \in 0..n
        PROVE  G[i] = IF i = 0 THEN <<>>
                      ELSE IF l[i] = m THEN G[i - 1] ELSE Append(G[i - 1], l[i])
    BY <1>2, <1>3
  <2>2. G = [i \in 0..n |-> G[i]]
    OBVIOUS
  <2>. HIDE DEF G
  <2>. QED BY <2>1, <2>2 DEF Computes
<1>5. G[n] = LeftOf(l, m, n)
  OBVIOUS
<1>. HIDE DEF G
<1>. QED BY <1>1, <1>4, <1>5, WithoutIs

-----------------------------------------------------------------------------
(* The lists that parties and goroutines have, whatever the arrays.        *)

ShownLists == [p \in Parties |-> Contents(reg[p])]

GivenLists == [g \in Goroutines |-> {Contents(s) : s \in held[g]}]

\* A step after which party p has list l, and goroutine g the lists ls.
Turn(g, p, l, ls) ==
  /\ ShownLists' = [ShownLists EXCEPT ![p] = l]
  /\ GivenLists' = [GivenLists EXCEPT ![g] = ls]

\* The slice of a party, read in its array: nothing where there is none.
LEMMA Held ==
  ASSUME TypedInv, NEW p \in Parties
  PROVE  /\ reg[p] \in Slices /\ reg[p].len \in Nat
         /\ reg[p].array = NoArray => reg[p].len = 0
         /\ Contents(reg[p]) \in [1..reg[p].len -> Members \cup {Unset}]
         /\ Contents(reg[p]) \in Seq(Members \cup {Unset}) /\ Len(Contents(reg[p])) = reg[p].len
<1>1. reg[p] \in Slices /\ reg[p].len \in Nat /\ (reg[p].array = NoArray => reg[p].len = 0)
  BY SlicesAssumption DEF TypedInv, IInv, TypeInv, NilEmpty, Slices
<1>2. \A i \in 1..reg[p].len : Contents(reg[p])[i] \in Members \cup {Unset}
  BY Shown
<1>3. Contents(reg[p]) = [i \in 1..reg[p].len |-> Contents(reg[p])[i]]
  BY DEF Contents, ContentsIn
<1>. DEFINE l == Contents(reg[p])
            n == reg[p].len
            V == Members \cup {Unset}
<1>. HIDE DEF l, n, V
<1>4. l \in [1..n -> V]
  BY <1>2, <1>3 DEF l, n, V
<1>5. n \in Nat
  BY <1>1 DEF n
<1>6. l \in Seq(V) /\ Len(l) = n
  BY <1>4, <1>5, LenProperties
<1>. QED BY <1>1, <1>4, <1>6 DEF l, n, V

\* A function with no arguments is the empty list.
LEMMA EmptyList ==
  ASSUME NEW f, f = [i \in 1..0 |-> f[i]]
  PROVE  f = <<>>
<1>1. f \in [1..0 -> {0}]
  <2>1. \A k \in 1..0 : f[k] \in {0}
    OBVIOUS
  <2>. QED BY <2>1
<1>2. f \in Seq({0}) /\ Len(f) = 0
  BY <1>1, LenProperties
<1>. QED BY <1>2, EmptySeq

\* An append cell by cell.
LEMMA AppendIs ==
  ASSUME NEW V, NEW l \in Seq(V), NEW m \in V, NEW d \in Nat, Len(l) = d
  PROVE  Append(l, m) = [i \in 1..(d + 1) |-> IF i = d + 1 THEN m ELSE l[i]]
<1>. DEFINE q == Append(l, m)
<1>1. /\ q \in Seq(V) /\ Len(q) = d + 1
      /\ \A i \in 1..d : q[i] = l[i]
      /\ q[d + 1] = m
  BY AppendProperties
<1>2. q = [i \in 1..(d + 1) |-> q[i]]
  BY <1>1, LenProperties
<1>. HIDE DEF q
<1>3. \A i \in 1..(d + 1) : q[i] = IF i = d + 1 THEN m ELSE l[i]
  BY <1>1
<1>. QED BY <1>2, <1>3 DEF q

\* What a slice shows in two heaps that agree on it.
LEMMA SameShown ==
  ASSUME NEW h, NEW k, NEW x \in Slices, x.array = NoArray => x.len = 0,
         \A i \in 1..x.len : x.array \in Arrays => h[x.array].cells[i] = k[x.array].cells[i]
  PROVE  ContentsIn(h, x) = ContentsIn(k, x)
<1>1. CASE x.array = NoArray
  BY <1>1 DEF ContentsIn
<1>2. CASE x.array \in Arrays
  BY <1>2 DEF ContentsIn
<1>. QED BY <1>1, <1>2 DEF Slices

\* The heap h shows every party but p as it was.
UnseenBut(h, p) ==
  \A q \in Parties \ {p} :
    \A i \in 1..reg[q].len : reg[q].array \in Arrays => h[reg[q].array].cells[i] = heap[reg[q].array].cells[i]

\* A call that stores a slice changes the list of its party and what its caller holds,
\* and nothing else that anyone sees.
LEMMA StoreShown ==
  ASSUME TypedInv, NEW g \in Goroutines, NEW p \in Parties, NEW s \in Slices,
         NEW result, result \subseteq {s}, s.array = NoArray => s.len = 0,
         NEW h, Unseen(h), UnseenBut(h, p), Store(g, p, s, result, h)
  PROVE  /\ result = {s} => Turn(g, p, ContentsIn(h, s), {ContentsIn(h, s)})
         /\ result = {} => Turn(g, p, ContentsIn(h, s), {})
<1>1. /\ reg' = [reg EXCEPT ![p] = s] /\ held' = [held EXCEPT ![g] = result]
      /\ heap' = [a \in Arrays |-> IF a \in Reachable(reg', held') THEN h[a] ELSE Blank]
  BY DEF Store
<1>2. /\ \A q \in Parties : reg'[q] = IF q = p THEN s ELSE reg[q]
      /\ \A k \in Goroutines : held'[k] = IF k = g THEN result ELSE held[k]
  BY <1>1 DEF TypedInv, IInv, TypeInv
<1>3. ASSUME NEW x \in Slices, x.array = NoArray => x.len = 0,
             x.array \in Reachable(reg', held')
      PROVE  ContentsIn(heap', x) = ContentsIn(h, x)
  <2>1. x.array \in Arrays => heap'[x.array] = h[x.array]
    BY <1>1, <1>3
  <2>2. \A i \in 1..x.len : x.array \in Arrays => heap'[x.array].cells[i] = h[x.array].cells[i]
    BY <2>1
  <2>. QED BY <1>3, <2>2, SameShown
<1>4. ASSUME NEW q \in Parties
      PROVE  ContentsIn(heap', reg'[q]) = IF q = p THEN ContentsIn(h, s) ELSE Contents(reg[q])
  <2>1. reg'[q].array \in Reachable(reg', held')
    BY DEF Reachable
  <2>2. CASE q = p
    <3>1. reg'[q] = s
      BY <1>2, <2>2
    <3>. QED BY <1>3, <2>1, <2>2, <3>1
  <2>3. CASE q # p
    <3>1. reg'[q] = reg[q] /\ reg[q] \in Slices /\ (reg[q].array = NoArray => reg[q].len = 0)
      BY <1>2, <2>3, Held
    <3>2. ContentsIn(heap', reg[q]) = ContentsIn(h, reg[q])
      BY <1>3, <2>1, <3>1
    <3>3. \A i \in 1..reg[q].len :
            reg[q].array \in Arrays => h[reg[q].array].cells[i] = heap[reg[q].array].cells[i]
      BY <2>3 DEF UnseenBut
    <3>4. ContentsIn(h, reg[q]) = ContentsIn(heap, reg[q])
      BY <3>1, <3>3, SameShown
    <3>. QED BY <2>3, <3>1, <3>2, <3>4 DEF Contents
  <2>. QED BY <2>2, <2>3
<1>5. ASSUME NEW k \in Goroutines, NEW x \in held'[k]
      PROVE  ContentsIn(heap', x) = IF k = g THEN ContentsIn(h, x) ELSE Contents(x)
  <2>1. x.array \in Reachable(reg', held')
    BY DEF Reachable
  <2>2. CASE k = g
    <3>1. x = s
      BY <1>2, <2>2
    <3>. QED BY <1>3, <2>1, <2>2, <3>1
  <2>3. CASE k # g
    <3>1. x \in held[k]
      BY <1>2, <2>3
    <3>2. x \in Slices /\ (x.array = NoArray => x.len = 0)
      BY <3>1 DEF TypedInv, IInv, TypeInv, NilEmpty
    <3>3. ContentsIn(heap', x) = ContentsIn(h, x)
      BY <1>3, <2>1, <3>2
    <3>4. \A i \in 1..x.len : x.array \in Arrays => h[x.array].cells[i] = heap[x.array].cells[i]
      BY <3>1 DEF Unseen
    <3>5. ContentsIn(h, x) = ContentsIn(heap, x)
      BY <3>2, <3>4, SameShown
    <3>. QED BY <2>3, <3>3, <3>5 DEF Contents
  <2>. QED BY <2>2, <2>3
<1>6. ShownLists' = [ShownLists EXCEPT ![p] = ContentsIn(h, s)]
  <2>1. ShownLists' = [q \in Parties |-> ContentsIn(heap', reg'[q])]
    BY DEF ShownLists, Contents
  <2>2. \A q \in Parties : ShownLists[q] = Contents(reg[q])
    BY DEF ShownLists
  <2>3. ShownLists = [q \in Parties |-> ShownLists[q]]
    BY DEF ShownLists
  <2>. QED BY <1>4, <2>1, <2>2, <2>3
<1>7. GivenLists' = [GivenLists EXCEPT ![g] = {ContentsIn(h, x) : x \in result}]
  <2>1. GivenLists' = [k \in Goroutines |-> {ContentsIn(heap', x) : x \in held'[k]}]
    BY DEF GivenLists, Contents
  <2>2. \A k \in Goroutines : GivenLists[k] = {Contents(x) : x \in held[k]}
    BY DEF GivenLists
  <2>3. GivenLists = [k \in Goroutines |-> GivenLists[k]]
    BY DEF GivenLists
  <2>4. ASSUME NEW k \in Goroutines
        PROVE  {ContentsIn(heap', x) : x \in held'[k]} =
                 IF k = g THEN {ContentsIn(h, x) : x \in result} ELSE GivenLists[k]
    <3>1. CASE k = g
      <4>1. held'[k] = result
        BY <1>2, <3>1
      <4>2. \A x \in result : ContentsIn(heap', x) = ContentsIn(h, x)
        BY <1>5, <3>1, <4>1
      <4>. QED BY <3>1, <4>1, <4>2
    <3>2. CASE k # g
      <4>1. held'[k] = held[k]
        BY <1>2, <3>2
      <4>2. \A x \in held[k] : ContentsIn(heap', x) = Contents(x)
        BY <1>5, <3>2, <4>1
      <4>. QED BY <2>2, <3>2, <4>1, <4>2
    <3>. QED BY <3>1, <3>2
  <2>. QED BY <2>1, <2>3, <2>4
<1>8. ASSUME result = {s}
      PROVE  {ContentsIn(h, x) : x \in result} = {ContentsIn(h, s)}
  BY <1>8
<1>9. ASSUME result = {}
      PROVE  {ContentsIn(h, x) : x \in result} = {}
  BY <1>9
<1>. QED BY <1>6, <1>7, <1>8, <1>9 DEF Turn

\* A slice of a new array shows what was copied into it.
LEMMA NewShows ==
  ASSUME IInv, Free # {}, NEW n, NEW l, NEW size, NEW t, t = [array |-> NewArray, len |-> n],
         n \in 1..MaxSize
  PROVE  ContentsIn(New(l, n, size), t) = [i \in 1..n |-> l[i]]
<1>1. NewArray \in Arrays
  BY DEF NewArray, Free
<1>2. Shaped(heap) /\ n \in Nat /\ n <= MaxSize /\ MaxSize \in Nat
  BY SlicesAssumption DEF IInv, TypeInv
<1>3. \A i \in 1..n : i \in 1..MaxSize
  BY <1>2
<1>4. New(l, n, size)[NewArray].cells = [i \in 1..MaxSize |-> IF i \in 1..n THEN l[i] ELSE Unset]
  BY <1>1, <1>2 DEF New, Shaped
<1>. QED BY <1>3, <1>4 DEF ContentsIn

\* A new array is no party's, so the other parties are shown as they were.
LEMMA NewShown ==
  ASSUME TypedInv, NEW g \in Goroutines, NEW p \in Parties, Free # {}, NEW n \in 1..MaxSize,
         NEW size \in Sizes, NEW l, NEW t, t = [array |-> NewArray, len |-> n]
  PROVE  /\ Store(g, p, t, {t}, New(l, n, size)) =>
              Turn(g, p, [i \in 1..n |-> l[i]], {[i \in 1..n |-> l[i]]})
         /\ Store(g, p, reg[p], {}, New(l, n, size)) => Turn(g, p, Contents(reg[p]), {})
<1>. DEFINE h == New(l, n, size)
<1>1. /\ NewArray \in Arrays /\ NewArray # NoArray
      /\ \A q \in Parties : reg[q].array # NewArray
      /\ Unseen(h)
  BY NewIsFree DEF TypedInv
<1>2. \A a \in Arrays : a # NewArray => h[a] = heap[a]
  BY <1>1 DEF New, TypedInv, IInv, TypeInv, Shaped
<1>3. UnseenBut(h, p)
  BY <1>1, <1>2 DEF UnseenBut
<1>4. ContentsIn(h, t) = [i \in 1..n |-> l[i]]
  BY NewShows DEF TypedInv
<1>5. t \in Slices /\ t.array = NewArray
  BY <1>1, SlicesAssumption DEF Slices
<1>. HIDE DEF h
<1>6. ASSUME Store(g, p, t, {t}, h)
      PROVE  Turn(g, p, ContentsIn(h, t), {ContentsIn(h, t)})
  BY <1>1, <1>3, <1>5, <1>6, StoreShown
<1>7. ASSUME Store(g, p, reg[p], {}, h)
      PROVE  Turn(g, p, Contents(reg[p]), {})
  <2>1. reg[p] \in Slices /\ (reg[p].array = NoArray => reg[p].len = 0)
    BY Held
  <2>2. Turn(g, p, ContentsIn(h, reg[p]), {})
    <3>1. {} \subseteq {reg[p]}
      OBVIOUS
    <3>. QED BY <1>1, <1>3, <1>7, <2>1, <3>1, StoreShown
  <2>3. \A i \in 1..reg[p].len :
          reg[p].array \in Arrays => h[reg[p].array].cells[i] = heap[reg[p].array].cells[i]
    BY <1>1, <1>2
  <2>4. ContentsIn(h, reg[p]) = Contents(reg[p])
    BY <2>1, <2>3, SameShown DEF Contents
  <2>. QED BY <2>2, <2>4
<1>. QED BY <1>4, <1>6, <1>7 DEF h

\* A slice read or dropped in the heap as it is.
LEMMA HeapShown ==
  ASSUME TypedInv, NEW g \in Goroutines, NEW p \in Parties, NEW s \in Slices,
         s.array = NoArray => s.len = 0, NEW result, result \subseteq {s},
         Store(g, p, s, result, heap)
  PROVE  /\ result = {s} => Turn(g, p, Contents(s), {Contents(s)})
         /\ result = {} => Turn(g, p, Contents(s), {})
<1>1. UnseenBut(heap, p)
  BY DEF UnseenBut
<1>. QED BY <1>1, HeapUnseen, StoreShown DEF Contents

-----------------------------------------------------------------------------
(* Each operation is one of MemberLists.                                   *)

LEMMA ShownAt ==
  ASSUME NEW p \in Parties
  PROVE  ShownLists[p] = Contents(reg[p])
  BY DEF ShownLists

LEMMA CreateIsFound ==
  ASSUME TypedInv, NEW g \in Goroutines, NEW p \in Parties, NEW m \in Members, Create(g, p, m)
  PROVE  Lists!Found(g, p, m)
<1>. DEFINE t == [array |-> NewArray, len |-> 1]
<1>1. PICK size \in Sizes : Store(g, p, t, {t}, New(<<m>>, 1, size))
  BY DEF Create
<1>2. 1 \in 1..MaxSize /\ Free # {}
  BY SlicesAssumption DEF Create
<1>3. Turn(g, p, [i \in 1..1 |-> <<m>>[i]], {[i \in 1..1 |-> <<m>>[i]]})
  <2>. DEFINE l == <<m>>
  <2>1. PICK n \in 1..MaxSize : n = 1
    BY <1>2
  <2>2. t = [array |-> NewArray, len |-> n] /\ Store(g, p, t, {t}, New(l, n, size))
    BY <1>1, <2>1
  <2>. HIDE DEF t, l
  <2>3. Turn(g, p, [i \in 1..n |-> l[i]], {[i \in 1..n |-> l[i]]})
    BY <1>2, <2>2, NewShown
  <2>. QED BY <2>1, <2>3 DEF l
<1>4. [i \in 1..1 |-> <<m>>[i]] = <<m>>
  OBVIOUS
<1>5. Contents(reg[p]) = <<>>
  <2>1. Contents(reg[p]) = [i \in 1..0 |-> Contents(reg[p])[i]]
    BY DEF Create, NilSlice, Contents, ContentsIn
  <2>. QED BY <2>1, EmptyList
<1>6. ShownLists[p] = <<>>
  BY <1>5, ShownAt
<1>. QED BY <1>3, <1>4, <1>6 DEF Lists!Found, Lists!Put, Turn, ShownLists, GivenLists

\* An append in place and one that moves show the same list; an append over the capacity
\* shows nothing, wherever it has written.
LEMMA AddMemberIsJoin ==
  ASSUME TypedInv, NEW g \in Goroutines, NEW p \in Parties, NEW m \in Members,
         AddMember(g, p, m)
  PROVE  Lists!Join(g, p, m) \/ Lists!Refuse(g, p)
<1>. DEFINE s == reg[p]
            n == s.len + 1
            longer == Append(Contents(s), m)
<1>1. /\ s \in Slices /\ s.len \in Nat /\ (s.array = NoArray => s.len = 0)
      /\ Contents(s) \in Seq(Members \cup {Unset}) /\ Len(Contents(s)) = s.len
  BY Held
<1>2. s.len <= Capacity /\ Capacity \in Nat
  BY SlicesAssumption DEF TypedInv, FitInv, FitsIn
<1>3. longer = [i \in 1..n |-> IF i = n THEN m ELSE Contents(s)[i]]
  <2>1. m \in Members \cup {Unset}
    OBVIOUS
  <2>. QED BY <1>1, <2>1, AppendIs
<1>. HIDE DEF longer
<1>4. ASSUME ~(n > Capacity), Turn(g, p, longer, {longer})
      PROVE  Lists!Join(g, p, m)
  <2>1. Len(ShownLists[p]) < Capacity
    BY <1>1, <1>2, <1>4, ShownAt
  <2>2. longer = Append(ShownLists[p], m)
    BY ShownAt DEF longer
  <2>. QED BY <1>4, <2>1, <2>2 DEF Lists!Join, Lists!Put, Turn, ShownLists, GivenLists
<1>5. ASSUME n > Capacity, Turn(g, p, Contents(s), {})
      PROVE  Lists!Refuse(g, p)
  <2>1. Len(ShownLists[p]) = Capacity
    BY <1>1, <1>2, <1>5, ShownAt
  <2>2. ShownLists = [ShownLists EXCEPT ![p] = Contents(s)]
    BY DEF ShownLists
  <2>3. ShownLists' = ShownLists
    BY <1>5, <2>2 DEF Turn
  <2>. QED BY <1>5, <2>1, <2>3 DEF Lists!Refuse, Turn, ShownLists, GivenLists
<1>6. CASE Room(s) /\ Appended(g, p, [s EXCEPT !.len = n],
                                [heap EXCEPT ![s.array].cells[n] = m])
  <2>. DEFINE A == s.array
              h == [heap EXCEPT ![A].cells[n] = m]
              t == [s EXCEPT !.len = n]
  <2>1. Unseen(h)
    BY <1>6, InPlaceUnseen DEF TypedInv
  <2>2. A \in Arrays /\ A # NoArray /\ s.len < heap[A].size
    BY <1>1, <1>6 DEF Room, Slices
  <2>3. Shaped(heap)
    BY DEF TypedInv, IInv, TypeInv
  <2>4. heap[A].size \in 0..MaxSize /\ heap[A].cells = [i \in 1..MaxSize |-> heap[A].cells[i]]
    BY <2>2, <2>3 DEF Shaped
  <2>5. n \in 1..MaxSize
    BY <1>1, <2>2, <2>4, SlicesAssumption
  <2>6. \A a \in Arrays : a # A => h[a] = heap[a]
    BY <2>3 DEF Shaped
  <2>7. h[A].cells = [heap[A].cells EXCEPT ![n] = m]
    <3>1. h[A] = [heap[A] EXCEPT !.cells = [heap[A].cells EXCEPT ![n] = m]]
      BY <2>2, <2>3 DEF Shaped
    <3>2. heap[A] = [cells |-> heap[A].cells, size |-> heap[A].size]
      BY <2>2, <2>3 DEF Shaped
    <3>. QED BY <3>1, <3>2
  <2>8. t \in Slices /\ t.array = A /\ t.len = n
    BY <1>1, <2>5, SlicesAssumption DEF Slices
  <2>. HIDE DEF h, t
  <2>9. h[A].cells[n] = m /\ \A i \in 1..s.len : h[A].cells[i] = heap[A].cells[i]
    <3>1. \A i \in 1..s.len : i \in 1..MaxSize /\ i # n
      BY <1>1, <2>5, SlicesAssumption
    <3>. QED BY <2>4, <2>5, <2>7, <3>1
  <2>10. UnseenBut(h, p)
    BY <2>2, <2>6 DEF UnseenBut, TypedInv, IInv, Apart
  <2>11. ContentsIn(h, t) = longer
    <3>1. \A i \in 1..n : h[A].cells[i] = IF i = n THEN m ELSE Contents(s)[i]
      <4>1. \A i \in 1..n : i = n \/ (i # n /\ i \in 1..s.len)
        BY <1>1
      <4>2. \A i \in 1..s.len : Contents(s)[i] = heap[A].cells[i]
        BY DEF Contents, ContentsIn
      <4>. QED BY <2>9, <4>1, <4>2
    <3>. QED BY <1>3, <2>8, <3>1 DEF ContentsIn
  <2>12. ContentsIn(h, s) = Contents(s)
    BY <1>1, <2>9, SameShown DEF Contents
  <2>13. CASE n > Capacity /\ Store(g, p, s, {}, h)
    <3>1. {} \subseteq {s}
      OBVIOUS
    <3>2. Turn(g, p, ContentsIn(h, s), {})
      BY <1>1, <2>1, <2>10, <2>13, <3>1, StoreShown
    <3>. QED BY <1>5, <2>12, <2>13, <3>2
  <2>14. CASE ~(n > Capacity) /\ Store(g, p, t, {t}, h)
    <3>1. Turn(g, p, ContentsIn(h, t), {ContentsIn(h, t)})
      BY <2>1, <2>2, <2>8, <2>10, <2>14, StoreShown
    <3>. QED BY <1>4, <2>11, <2>14, <3>1
  <2>15. Appended(g, p, t, h)
    BY <1>6 DEF t, h
  <2>. QED BY <2>8, <2>13, <2>14, <2>15 DEF Appended
<1>7. CASE ~Room(s)
  <2>. DEFINE l == [i \in 1..n |-> IF i = n THEN m ELSE Contents(s)[i]]
              t == [array |-> NewArray, len |-> n]
  <2>1. PICK size \in {k \in Sizes : k >= n} : Appended(g, p, t, New(l, n, size))
    BY <1>7 DEF AddMember
  <2>2. Free # {}
    BY <1>7 DEF AddMember
  <2>3. size \in Sizes /\ n \in 1..MaxSize
    <3>1. size \in 1..MaxSize /\ n <= size
      BY <2>1, SlicesAssumption
    <3>2. n \in Nat /\ n # 0
      BY <1>1
    <3>. HIDE DEF n
    <3>. QED BY <2>1, <3>1, <3>2, SlicesAssumption
  <2>4. [i \in 1..n |-> l[i]] = longer
    BY <1>3
  <2>5. t.len = n
    OBVIOUS
  <2>. HIDE DEF l, t
  <2>6. CASE n > Capacity /\ Store(g, p, s, {}, New(l, n, size))
    BY <1>5, <2>2, <2>3, <2>6, NewShown DEF t
  <2>7. CASE ~(n > Capacity) /\ Store(g, p, t, {t}, New(l, n, size))
    <3>1. Turn(g, p, [i \in 1..n |-> l[i]], {[i \in 1..n |-> l[i]]})
      BY <2>2, <2>3, <2>7, NewShown DEF t
    <3>. QED BY <1>4, <2>4, <2>7, <3>1
  <2>. QED BY <2>1, <2>5, <2>6, <2>7 DEF Appended
<1>. QED BY <1>6, <1>7 DEF AddMember

\* Those who stay are copied to a new array, in their order; when nobody stays there
\* is no array, and nothing to see.
LEMMA RemoveMemberIsExpel ==
  ASSUME TypedInv, NEW g \in Goroutines, NEW p \in Parties, NEW m, RemoveMember(g, p, m)
  PROVE  Lists!Expel(g, p, m)
<1>. DEFINE s == reg[p]
            K == Kept(s, m)
            n == Cardinality(K)
            l == [i \in 1..n |-> Contents(s)[KthOf(K, i)]]
            t == [array |-> NewArray, len |-> n]
            V == Members \cup {Unset}
<1>1. s.len \in Nat /\ s.len <= MaxSize /\ Contents(s) \in [1..s.len -> V]
  BY Held, SlicesAssumption DEF TypedInv, IInv, TypeInv, Slices
<1>2. Lists!Without(Contents(s), m) = l
  <2>1. Lists!Without(Contents(s), m) = LeftOf(Contents(s), m, s.len)
    <3>. HIDE DEF V
    <3>. QED BY <1>1, WithoutLeft
  <2>2. KeptOf(Contents(s), m, s.len) = K
    BY DEF KeptOf, Kept
  <2>. QED BY <2>1, <2>2 DEF LeftOf
<1>3. n \in Nat /\ n <= MaxSize
  <2>1. IsFiniteSet(1..s.len) /\ Cardinality(1..s.len) = s.len
    <3>1. \A d \in Nat : IsFiniteSet(1..d) /\ Cardinality(1..d) = d
      BY FS_Interval
    <3>. QED BY <1>1, <3>1
  <2>2. K \subseteq 1..s.len
    BY DEF Kept
  <2>3. n <= s.len /\ IsFiniteSet(K)
    BY <2>1, <2>2, FS_Subset
  <2>4. n \in Nat
    BY <2>3, FS_CardinalityType
  <2>. QED BY <1>1, <2>3, <2>4, SlicesAssumption
<1>4. l = [i \in 1..n |-> l[i]]
  OBVIOUS
<1>5. ASSUME Turn(g, p, l, {l})
      PROVE  Lists!Expel(g, p, m)
  <2>1. l = Lists!Without(ShownLists[p], m)
    BY <1>2, ShownAt
  <2>. HIDE DEF l
  <2>. QED BY <1>5, <2>1 DEF Lists!Expel, Lists!Put, Turn, ShownLists, GivenLists
<1>6. CASE n = 0 /\ Store(g, p, NilSlice, {NilSlice}, heap)
  <2>1. NilSlice \in Slices /\ NilSlice.array = NoArray /\ NilSlice.len = 0
    BY SlicesAssumption DEF NilSlice, Slices
  <2>2. Turn(g, p, Contents(NilSlice), {Contents(NilSlice)})
    BY <1>6, <2>1, HeapShown
  <2>3. Contents(NilSlice) = <<>>
    <3>1. Contents(NilSlice) = [i \in 1..0 |-> Contents(NilSlice)[i]]
      BY <2>1 DEF Contents, ContentsIn
    <3>. QED BY <3>1, EmptyList
  <2>4. l = <<>>
    <3>1. l = [i \in 1..0 |-> l[i]]
      BY <1>4, <1>6
    <3>. HIDE DEF l
    <3>. QED BY <3>1, EmptyList
  <2>. QED BY <1>5, <2>2, <2>3, <2>4
<1>7. CASE n # 0
  <2>1. PICK size \in Sizes : Store(g, p, t, {t}, New(l, n, size))
    BY <1>7 DEF RemoveMember
  <2>2. Free # {}
    BY <1>7 DEF RemoveMember
  <2>3. n \in 1..MaxSize
    BY <1>3, <1>7, SlicesAssumption
  <2>4. t = [array |-> NewArray, len |-> n]
    OBVIOUS
  <2>. HIDE DEF l, n, t
  <2>5. Turn(g, p, [i \in 1..n |-> l[i]], {[i \in 1..n |-> l[i]]})
    BY <2>1, <2>2, <2>3, <2>4, NewShown
  <2>. QED BY <1>4, <1>5, <2>5
<1>. QED BY <1>6, <1>7 DEF RemoveMember

LEMMA RemoveIsDisband ==
  ASSUME TypedInv, NEW g \in Goroutines, NEW p \in Parties, Remove(g, p)
  PROVE  Lists!Disband(g, p)
<1>1. NilSlice \in Slices /\ NilSlice.array = NoArray /\ NilSlice.len = 0
  BY SlicesAssumption DEF NilSlice, Slices
<1>2. Turn(g, p, Contents(NilSlice), {})
  <2>1. {} \subseteq {NilSlice}
    OBVIOUS
  <2>. QED BY <1>1, <2>1, HeapShown DEF Remove
<1>3. Contents(NilSlice) = <<>>
  <2>1. Contents(NilSlice) = [i \in 1..0 |-> Contents(NilSlice)[i]]
    BY <1>1 DEF Contents, ContentsIn
  <2>. QED BY <2>1, EmptyList
<1>. QED BY <1>2, <1>3 DEF Lists!Disband, Turn, ShownLists, GivenLists

LEMMA GetIsSee ==
  ASSUME TypedInv, NEW g \in Goroutines, NEW p \in Parties, Get(g, p)
  PROVE  Lists!See(g, {p})
<1>1. reg[p] \in Slices /\ (reg[p].array = NoArray => reg[p].len = 0)
  BY Held
<1>2. Turn(g, p, Contents(reg[p]), {Contents(reg[p])})
  BY <1>1, HeapShown DEF Get
<1>3. ShownLists = [ShownLists EXCEPT ![p] = Contents(reg[p])]
  BY DEF ShownLists
<1>4. ShownLists' = ShownLists
  BY <1>2, <1>3 DEF Turn
<1>5. {ShownLists[q] : q \in {p}} = {Contents(reg[p])}
  BY ShownAt
<1>6. GivenLists' = [GivenLists EXCEPT ![g] = {ShownLists[q] : q \in {p}}]
  BY <1>2, <1>5 DEF Turn
<1>. QED BY <1>4, <1>6 DEF Lists!See, ShownLists, GivenLists

LEMMA GetAllIsSee ==
  ASSUME TypedInv, NEW g \in Goroutines, GetAll(g)
  PROVE  Lists!See(g, Parties)
<1>1. /\ held' = [held EXCEPT ![g] = {reg[p] : p \in Parties}]
      /\ heap' = [a \in Arrays |-> IF a \in Reachable(reg, held') THEN heap[a] ELSE Blank]
      /\ reg' = reg
  BY DEF GetAll
<1>2. \A k \in Goroutines : held'[k] = IF k = g THEN {reg[p] : p \in Parties} ELSE held[k]
  BY <1>1 DEF TypedInv, IInv, TypeInv
<1>3. ASSUME NEW x \in Slices, x.array = NoArray => x.len = 0,
             x.array \in Reachable(reg, held')
      PROVE  ContentsIn(heap', x) = Contents(x)
  <2>1. x.array \in Arrays => heap'[x.array] = heap[x.array]
    BY <1>1, <1>3
  <2>2. \A i \in 1..x.len :
          x.array \in Arrays => heap'[x.array].cells[i] = heap[x.array].cells[i]
    BY <2>1
  <2>. QED BY <1>3, <2>2, SameShown DEF Contents
<1>4. \A q \in Parties : ContentsIn(heap', reg'[q]) = Contents(reg[q])
  <2>. SUFFICES ASSUME NEW q \in Parties
                PROVE  ContentsIn(heap', reg'[q]) = Contents(reg[q])
    OBVIOUS
  <2>1. reg[q] \in Slices /\ (reg[q].array = NoArray => reg[q].len = 0)
    BY Held
  <2>2. reg[q].array \in Reachable(reg, held')
    BY DEF Reachable
  <2>. QED BY <1>1, <1>3, <2>1, <2>2
<1>5. ShownLists' = ShownLists
  <2>1. ShownLists' = [q \in Parties |-> ContentsIn(heap', reg'[q])]
    BY DEF ShownLists, Contents
  <2>. QED BY <1>4, <2>1 DEF ShownLists
<1>6. ASSUME NEW k \in Goroutines
      PROVE  {ContentsIn(heap', x) : x \in held'[k]} =
               IF k = g THEN {ShownLists[p] : p \in Parties} ELSE GivenLists[k]
  <2>1. CASE k = g
    <3>1. held'[k] = {reg[p] : p \in Parties}
      BY <1>2, <2>1
    <3>2. \A p \in Parties : ContentsIn(heap', reg[p]) = ShownLists[p]
      BY <1>1, <1>4, ShownAt
    <3>. QED BY <2>1, <3>1, <3>2
  <2>2. CASE k # g
    <3>1. held'[k] = held[k]
      BY <1>2, <2>2
    <3>2. ASSUME NEW x \in held[k]
          PROVE  ContentsIn(heap', x) = Contents(x)
      <4>1. x \in Slices /\ (x.array = NoArray => x.len = 0)
        BY DEF TypedInv, IInv, TypeInv, NilEmpty
      <4>2. x.array \in Reachable(reg, held')
        BY <3>1 DEF Reachable
      <4>. QED BY <1>3, <4>1, <4>2
    <3>3. GivenLists[k] = {Contents(x) : x \in held[k]}
      BY DEF GivenLists
    <3>. QED BY <2>2, <3>1, <3>2, <3>3
  <2>. QED BY <2>1, <2>2
<1>7. GivenLists' = [GivenLists EXCEPT ![g] = {ShownLists[p] : p \in Parties}]
  <2>1. GivenLists' = [k \in Goroutines |-> {ContentsIn(heap', x) : x \in held'[k]}]
    BY DEF GivenLists, Contents
  <2>2. GivenLists = [k \in Goroutines |-> GivenLists[k]]
    BY DEF GivenLists
  <2>. QED BY <1>6, <2>1, <2>2
<1>. QED BY <1>5, <1>7 DEF Lists!See, ShownLists, GivenLists

LEMMA InitIsInit == Init => Lists!Init
<1>. SUFFICES ASSUME Init PROVE Lists!Init
  OBVIOUS
<1>1. Contents(NilSlice) = <<>>
  <2>1. Contents(NilSlice) = [i \in 1..0 |-> Contents(NilSlice)[i]]
    BY DEF NilSlice, Contents, ContentsIn
  <2>. QED BY <2>1, EmptyList
<1>. QED BY <1>1 DEF Init, Lists!Init

LEMMA StepIsStep ==
  ASSUME TypedInv, [Next]_vars
  PROVE  [Lists!Next]_Lists!vars
<1>1. ASSUME NEW g \in Goroutines, NEW p \in Parties, NEW m \in Members, Create(g, p, m)
      PROVE  Lists!Next
  BY <1>1, CreateIsFound DEF Lists!Next
<1>2. ASSUME NEW g \in Goroutines, NEW p \in Parties, NEW m \in Members, AddMember(g, p, m)
      PROVE  Lists!Next
  BY <1>2, AddMemberIsJoin DEF Lists!Next
<1>3. ASSUME NEW g \in Goroutines, NEW p \in Parties, NEW m \in Members,
             RemoveMember(g, p, m)
      PROVE  Lists!Next
  BY <1>3, RemoveMemberIsExpel DEF Lists!Next
<1>4. ASSUME NEW g \in Goroutines, NEW p \in Parties, Remove(g, p)
      PROVE  Lists!Next
  BY <1>4, RemoveIsDisband DEF Lists!Next
<1>5. ASSUME NEW g \in Goroutines, NEW p \in Parties, Get(g, p)
      PROVE  Lists!Next
  BY <1>5, GetIsSee DEF Lists!Next
<1>6. ASSUME NEW g \in Goroutines, GetAll(g)
      PROVE  Lists!Next
  BY <1>6, GetAllIsSee DEF Lists!Next
<1>7. CASE UNCHANGED vars
  BY <1>7 DEF vars, Lists!vars, Contents, ContentsIn
<1>. QED BY <1>1, <1>2, <1>3, <1>4, <1>5, <1>6, <1>7 DEF Next

\* For every instance: the registry with its shared arrays and its appends in place cannot
\* be told from one whose member lists are values (party/model.go:20 to :58,
\* party/registry.go:115): every call changes the list of one party and what its caller
\* holds, as in MemberLists, and nothing else that anyone can see.
THEOREM SlicesImplementLists == Spec => ByValue
<1>1. Init => TypedInv
  BY InitIInv, InitFits DEF TypedInv
<1>2. TypedInv /\ [Next]_vars => TypedInv'
  BY StepKeeps, StepFits DEF TypedInv
<1>3. TypedInv /\ [Next]_vars => [Lists!Next]_Lists!vars
  BY StepIsStep
<1>. QED BY <1>1, <1>2, <1>3, InitIsInit, PTL DEF Spec, ByValue, Lists!Spec

=============================================================================
