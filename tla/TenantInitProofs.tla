-------------------------- MODULE TenantInitProofs --------------------------
(***************************************************************************)
(* The initialisation of a tenant with any number of goroutines: ids are   *)
(* unique from the first, and a tenant that has settled stays so, keeps    *)
(* what is stored, and lets no one into an inner map beside a writer.      *)
(***************************************************************************)
EXTENDS TenantInit, FiniteSetTheorems, TLAPS

-----------------------------------------------------------------------------
(***************************************************************************)
(* The inductive invariant.  A call that has got past taking a lock has    *)
(* one; the locks exclude writers from readers; ids come from the counter; *)
(* and the generations are counted: each lookup that is about to install   *)
(* one accounts for one, and so does the first Create of the party         *)
(* registry until it has run (Room).  The count says that the generation   *)
(* installed is one of Generations, so that its lock exists.               *)
(***************************************************************************)
CallFields == {"op", "pc", "id", "lock", "unlock", "map"}
Locking == {"lookup.lock", "lookup.read", "create.lock", "change.lock", "change.defer",
            "change.write", "change.unlock"}
Writing == {"change.defer", "change.write", "change.unlock"}

CallOK(k) ==
  /\ DOMAIN k = CallFields
  /\ k.pc \in Locking => k.lock # 0
  /\ k.pc \in {"create.lock", "change.write", "change.unlock"} => k.unlock # 0

CallsOK == DOMAIN call = Threads /\ \A t \in Threads : CallOK(call[t])

LocksOK ==
  /\ writer \in [Generations -> Threads \cup {NoThread}]
  /\ readers \in [Generations -> SUBSET Threads]
  /\ \A g \in Generations : writer[g] # NoThread => readers[g] = {}

IdsOK ==
  registry = "party" =>
    \A t \in Threads : call[t].op = "create" /\ call[t].id # 0 => call[t].id \in 1..lastId

Installers == {t \in Threads : call[t].pc \in {"lookup.global", "lookup.section"}}
FirstCreate == IF registry = "party" /\ lastId = 0 THEN 1 ELSE 0
Room == made + Cardinality(Installers) + FirstCreate <= Cardinality(Threads) + 1

OuterOK ==
  /\ registry \in {"party", "character"}
  /\ made \in Nat /\ current = made /\ lastId \in Nat
  /\ registry = "party" /\ lastId # 0 => current # 0
  /\ Room

\* Nobody is past taking a lock before there is one.
Locked == \A t \in Threads : call[t].pc \in Locking => current # 0

TenantInv == CallsOK /\ LocksOK /\ OuterOK /\ Locked /\ IdsOK /\ UniqueIds

LEMMA Called ==
  ASSUME CallsOK, NEW t \in Threads, NEW k, CallOK(k), Become(t, k)
  PROVE  /\ CallsOK' /\ call'[t] = k
         /\ \A s \in Threads : s # t => call'[s] = call[s]
<1>1. call' = [call EXCEPT ![t] = k] /\ DOMAIN call = Threads
  BY DEF Become, CallsOK
<1> QED BY <1>1 DEF CallsOK, CallOK

LEMMA NoCallOK == CallOK(NoCall) /\ NoCall.pc \notin Locking
  BY DEF CallOK, NoCall, CallFields, Locking

LEMMA FiniteThreads ==
  /\ Cardinality(Threads) \in Nat
  /\ \A S \in SUBSET Threads : IsFiniteSet(S) /\ Cardinality(S) \in Nat
                                /\ Cardinality(S) <= Cardinality(Threads)
  BY ThreadsAssumption, FS_Subset, FS_CardinalityType

\* The installed generation is one that the model has.
LEMMA CurrentExists ==
  ASSUME OuterOK, current # 0
  PROVE  current \in Generations
<1>1. Cardinality(Installers) \in Nat /\ Cardinality(Threads) \in Nat
  BY FiniteThreads DEF Installers
<1> QED BY <1>1 DEF OuterOK, Room, FirstCreate, Generations

-----------------------------------------------------------------------------
(* Steps of a call.                                                        *)

Installing == {"lookup.global", "lookup.section"}

\* The id a call ends up with is the one it had, if it creates.
SameId(t, k) == k.op = "create" => k.id = 0 \/ (call[t].op = "create" /\ k.id = call[t].id)

LEMMA IdsKept ==
  ASSUME TenantInv, NEW t \in Threads, NEW k, CallOK(k), Become(t, k), SameId(t, k),
         UNCHANGED <<registry, lastId>>
  PROVE  IdsOK' /\ UniqueIds'
<1>1. call'[t] = k /\ \A s \in Threads : s # t => call'[s] = call[s]
  BY Called DEF TenantInv
<1>2. IdsOK'
  BY <1>1 DEF TenantInv, IdsOK, SameId
<1>3. UniqueIds'
  BY <1>1 DEF TenantInv, UniqueIds, SameId
<1> QED BY <1>2, <1>3

LEMMA PlainStep ==
  ASSUME TenantInv, NEW t \in Threads, NEW k, CallOK(k), Become(t, k), SameId(t, k),
         UNCHANGED <<registry, current, made, lastId>>,
         k.pc \in Installing => call[t].pc \in Installing,
         k.pc \in Locking => call[t].pc \in Locking \/ current # 0,
         LocksOK'
  PROVE  TenantInv'
<1>1. /\ CallsOK' /\ call'[t] = k
      /\ \A s \in Threads : s # t => call'[s] = call[s]
  BY Called DEF TenantInv
<1>2. Installers' \subseteq Installers
  BY <1>1 DEF Installers, Installing
<1>3. IsFiniteSet(Installers)
  BY FiniteThreads DEF Installers
<1>4. Cardinality(Installers') <= Cardinality(Installers)
  BY <1>2, <1>3, FS_Subset
<1>5. Cardinality(Installers') \in Nat /\ Cardinality(Installers) \in Nat
  BY FiniteThreads DEF Installers
<1>6. OuterOK'
  BY <1>4, <1>5, FiniteThreads DEF TenantInv, OuterOK, Room, FirstCreate
<1>7. Locked'
  BY <1>1 DEF TenantInv, Locked
<1> QED BY <1>1, <1>6, <1>7, IdsKept DEF TenantInv

LEMMA SameLocks == LocksOK /\ UNCHANGED lockVars => LocksOK'
  BY DEF LocksOK, lockVars

\* A goto between two points of a call.
LEMMA Going ==
  ASSUME CallsOK, NEW t \in Threads, NEW pc,
         pc \in Locking => call[t].pc \in Locking,
         pc \in {"create.lock", "change.write", "change.unlock"} =>
           call[t].pc \in {"create.lock", "change.write", "change.unlock"}
  PROVE  LET k == [call[t] EXCEPT !.pc = pc]
         IN  CallOK(k) /\ SameId(t, k) /\ k.pc = pc
  BY DEF CallsOK, CallOK, CallFields, SameId

LEMMA TakeGlobalInv ==
  ASSUME TenantInv, NEW t \in Threads,
         TakeGlobal(t, "create", "create.section") \/ TakeGlobal(t, "lookup.global", "lookup.section")
  PROVE  TenantInv'
<1>1. PICK from, to :
        /\ <<from, to>> \in {<<"create", "create.section">>, <<"lookup.global", "lookup.section">>}
        /\ TakeGlobal(t, from, to)
  OBVIOUS
<1> DEFINE k == [call[t] EXCEPT !.pc = to]
<1>2. CallOK(k) /\ SameId(t, k) /\ k.pc = to
  BY <1>1, Going DEF TenantInv, Locking
<1>3. Become(t, k) /\ call[t].pc = from /\ UNCHANGED <<registry, current, made, lastId, lockVars>>
  BY <1>1 DEF TakeGlobal, Goto, At, innerVars
<1>4. LocksOK'
  BY <1>3, SameLocks DEF TenantInv
<1> HIDE DEF k
<1> QED BY <1>1, <1>2, <1>3, <1>4, PlainStep DEF Installing, Locking

LEMMA LookupTestInv ==
  ASSUME TenantInv, NEW t \in Threads, LookupTest(t)
  PROVE  TenantInv'
<1>1. UNCHANGED <<registry, current, made, lastId, lockVars>>
  BY DEF LookupTest, outerVars, innerVars
<1>2. LocksOK'
  BY <1>1, SameLocks DEF TenantInv
<1>3. CASE current = 0
  <2> DEFINE k == [call[t] EXCEPT !.pc = "lookup.global"]
  <2>1. CallOK(k) /\ SameId(t, k) /\ k.pc \notin Locking
    <3>1. CallOK(k) /\ SameId(t, k) /\ k.pc = "lookup.global"
      BY Going DEF TenantInv, Locking
    <3> QED BY <3>1 DEF Locking
  <2>2. Become(t, k)
    BY <1>3 DEF LookupTest
  <2> HIDE DEF k
  <2>3. CallsOK'
    BY <2>1, <2>2, Called DEF TenantInv
  <2>4. Installers' \in SUBSET Threads
    BY DEF Installers
  <2>5. Cardinality(Installers') \in Nat /\ Cardinality(Installers') <= Cardinality(Threads)
    BY <2>4, FiniteThreads
  <2>6. OuterOK'
    BY <1>1, <1>3, <2>5, FiniteThreads DEF TenantInv, OuterOK, Room, FirstCreate
  <2>7. Locked'
    BY <1>1, <2>1, <2>2, Called DEF TenantInv, Locked
  <2> QED BY <1>1, <1>2, <2>1, <2>2, <2>3, <2>6, <2>7, IdsKept DEF TenantInv
<1>4. CASE current # 0
  <2> DEFINE k == [call[t] EXCEPT !.pc = "lookup.lock", !.lock = current]
  <2>1. CallOK(k) /\ SameId(t, k) /\ k.pc = "lookup.lock"
    BY <1>4 DEF TenantInv, CallsOK, CallOK, CallFields, SameId
  <2>2. Become(t, k)
    BY <1>4 DEF LookupTest
  <2> HIDE DEF k
  <2> QED BY <1>1, <1>2, <1>4, <2>1, <2>2, PlainStep DEF Installing, Locking
<1> QED BY <1>3, <1>4

LEMMA LookupSectionInv ==
  ASSUME TenantInv, NEW t \in Threads, LookupSection(t)
  PROVE  TenantInv'
<1>1. /\ UNCHANGED <<registry, lastId, lockVars>>
      /\ made' = made + 1 /\ current' = made + 1 /\ call[t].pc = "lookup.section"
  BY DEF LookupSection, Install, At
<1>2. LocksOK' /\ made \in Nat /\ current' # 0
  BY <1>1, SameLocks DEF TenantInv, OuterOK
<1> DEFINE k == [call[t] EXCEPT !.pc = "lookup.lock", !.lock = current']
<1>3. CallOK(k) /\ SameId(t, k) /\ k.pc = "lookup.lock"
  BY <1>2 DEF TenantInv, CallsOK, CallOK, CallFields, SameId
<1>4. Become(t, k)
  BY DEF LookupSection
<1> HIDE DEF k
<1>5. /\ CallsOK' /\ call'[t] = k
      /\ \A s \in Threads : s # t => call'[s] = call[s]
  BY <1>3, <1>4, Called DEF TenantInv
<1>6. Installers' = Installers \ {t} /\ t \in Installers
  BY <1>1, <1>3, <1>5 DEF Installers
<1>7. Cardinality(Installers') = Cardinality(Installers) - 1 /\ Cardinality(Installers) \in Nat
  BY <1>6, FiniteThreads, FS_RemoveElement DEF Installers
<1>8. OuterOK'
  BY <1>1, <1>2, <1>7, FiniteThreads DEF TenantInv, OuterOK, Room, FirstCreate
<1>9. Locked'
  BY <1>2 DEF Locked
<1> QED BY <1>1, <1>2, <1>3, <1>4, <1>5, <1>8, <1>9, IdsKept DEF TenantInv

LEMMA CreateSectionInv ==
  ASSUME TenantInv, NEW t \in Threads, CreateSection(t)
  PROVE  TenantInv'
<1>1. /\ UNCHANGED <<registry, lockVars>>
      /\ IF Known THEN made' = made /\ current' = current
         ELSE made' = made + 1 /\ current' = made + 1
      /\ lastId' = IF registry = "party" THEN lastId + 1 ELSE lastId
      /\ call[t].pc = "create.section"
  BY DEF CreateSection, Install, Keep, At
<1>2. PICK id \in Ids :
        /\ registry = "party" => id = lastId'
        /\ Become(t, [call[t] EXCEPT !.pc = "create.lock", !.id = id,
                                     !.lock = current', !.unlock = current', !.map = current'])
  BY DEF CreateSection
<1> DEFINE k == [call[t] EXCEPT !.pc = "create.lock", !.id = id,
                                !.lock = current', !.unlock = current', !.map = current']
<1>3. LocksOK' /\ current' # 0 /\ current' = made' /\ made' \in Nat /\ lastId' \in Nat
  BY <1>1, SameLocks DEF TenantInv, OuterOK, Known
<1>4. CallOK(k) /\ k.pc = "create.lock" /\ k.id = id /\ k.op = call[t].op
  BY <1>3 DEF TenantInv, CallsOK, CallOK, CallFields
<1>5. Become(t, k)
  BY <1>2
<1> HIDE DEF k
<1>6. /\ CallsOK' /\ call'[t] = k
      /\ \A s \in Threads : s # t => call'[s] = call[s]
  BY <1>4, <1>5, Called DEF TenantInv
<1>7. Installers' = Installers
  BY <1>1, <1>4, <1>6 DEF Installers
<1>8. Cardinality(Installers) \in Nat /\ Cardinality(Installers) <= Cardinality(Threads)
  BY FiniteThreads DEF Installers
<1>9. Room'
  BY <1>1, <1>7, <1>8, FiniteThreads DEF TenantInv, OuterOK, Room, FirstCreate, Known
<1>10. OuterOK'
  BY <1>1, <1>3, <1>9 DEF TenantInv, OuterOK
<1>11. IdsOK'
  BY <1>1, <1>2, <1>4, <1>6 DEF TenantInv, OuterOK, IdsOK, Ids
<1>12. UniqueIds'
  BY <1>1, <1>2, <1>4, <1>6 DEF TenantInv, OuterOK, IdsOK, UniqueIds
<1>13. Locked'
  BY <1>3 DEF Locked
<1> QED BY <1>3, <1>6, <1>10, <1>11, <1>12, <1>13 DEF TenantInv

LEMMA ReadersInv ==
  ASSUME TenantInv, NEW t \in Threads, LookupLock(t) \/ LookupRead(t)
  PROVE  TenantInv'
<1>1. UNCHANGED <<registry, current, made, lastId, writer>> /\ call[t].pc \in Locking
  BY DEF LookupLock, LookupRead, outerVars, At, Locking
<1>2. CASE LookupLock(t)
  <2> DEFINE k == [call[t] EXCEPT !.pc = "lookup.read"]
  <2>1. CallOK(k) /\ SameId(t, k) /\ k.pc = "lookup.read"
    BY <1>1, Going DEF TenantInv, Locking
  <2>2. Become(t, k)
    BY <1>2 DEF LookupLock, Goto
  <2>3. LocksOK'
    BY <1>1, <1>2 DEF LookupLock, TenantInv, LocksOK
  <2> HIDE DEF k
  <2> QED BY <1>1, <2>1, <2>2, <2>3, PlainStep DEF Installing, Locking
<1>3. CASE LookupRead(t)
  <2>1. Become(t, NoCall) /\ SameId(t, NoCall) /\ NoCall.pc = "idle"
    BY <1>3 DEF LookupRead, SameId, NoCall
  <2>2. LocksOK'
    BY <1>1, <1>3 DEF LookupRead, TenantInv, LocksOK
  <2> QED BY <1>1, <2>1, <2>2, NoCallOK, PlainStep DEF Installing, Locking
<1> QED BY <1>2, <1>3

\* The process that died holds nothing.
LEMMA Died ==
  ASSUME TenantInv, NEW why, Die(why)
  PROVE  TenantInv'
<1>1. call' = [s \in Threads |-> NoCall]
  BY DEF Die
<1>2. CallsOK'
  BY <1>1, NoCallOK DEF CallsOK
<1>3. LocksOK'
  BY DEF Die, LocksOK
<1>4. Installers' = {}
  BY <1>1 DEF Installers, NoCall
<1>5. OuterOK'
  BY <1>4, FS_EmptySet, FiniteThreads DEF Die, TenantInv, OuterOK, Room, FirstCreate
<1>6. IdsOK' /\ UniqueIds'
  BY <1>1 DEF IdsOK, UniqueIds, NoCall
<1>7. Locked'
  BY <1>1, NoCallOK DEF Locked
<1> QED BY <1>2, <1>3, <1>5, <1>6, <1>7 DEF TenantInv

LEMMA ChangeTestInv ==
  ASSUME TenantInv, NEW t \in Threads, ChangeTest(t)
  PROVE  TenantInv'
<1>1. CASE Die("nil lock")
  BY <1>1, Died
<1>2. CASE ~Die("nil lock")
  <2>1. UNCHANGED <<registry, current, made, lastId, lockVars>>
    BY <1>2 DEF ChangeTest, outerVars, innerVars
  <2>2. LocksOK'
    BY <2>1, SameLocks DEF TenantInv
  <2> DEFINE k == [call[t] EXCEPT !.pc = "change.lock", !.lock = current]
  <2>3. current # 0 => CallOK(k) /\ SameId(t, k) /\ k.pc = "change.lock"
    BY DEF TenantInv, CallsOK, CallOK, CallFields, SameId
  <2>4. (current # 0 /\ Become(t, k)) \/ Become(t, NoCall)
    BY <1>2 DEF ChangeTest
  <2> HIDE DEF k
  <2>5. SameId(t, NoCall) /\ NoCall.pc = "idle"
    BY DEF SameId, NoCall
  <2> QED BY <2>1, <2>2, <2>3, <2>4, <2>5, NoCallOK, PlainStep DEF Installing, Locking
<1> QED BY <1>1, <1>2

LEMMA WriteLockInv ==
  ASSUME TenantInv, NEW t \in Threads,
         WriteLock(t, "change.lock", "change.defer") \/ WriteLock(t, "create.lock", "change.write")
  PROVE  TenantInv'
<1>1. PICK from, to :
        /\ <<from, to>> \in {<<"change.lock", "change.defer">>, <<"create.lock", "change.write">>}
        /\ WriteLock(t, from, to)
  OBVIOUS
<1> DEFINE k == [call[t] EXCEPT !.pc = to]
<1>2. /\ call[t].pc = from /\ Become(t, k)
      /\ UNCHANGED <<registry, current, made, lastId, readers>>
  BY <1>1 DEF WriteLock, At, Goto, outerVars
<1>3. CallOK(k) /\ SameId(t, k) /\ k.pc = to
  BY <1>1, <1>2, Going DEF TenantInv, Locking
<1>4. LocksOK'
  BY <1>1, <1>2 DEF WriteLock, TenantInv, LocksOK
<1> HIDE DEF k
<1> QED BY <1>1, <1>2, <1>3, <1>4, PlainStep DEF Installing, Locking

LEMMA ChangeDeferInv ==
  ASSUME TenantInv, NEW t \in Threads, ChangeDefer(t)
  PROVE  TenantInv'
<1> DEFINE u == IF registry = "character" /\ call[t].op = "remove" THEN call[t].lock ELSE current
           k == [call[t] EXCEPT !.pc = "change.write", !.unlock = u]
<1>1. /\ call[t].pc = "change.defer" /\ Become(t, k)
      /\ UNCHANGED <<registry, current, made, lastId, lockVars>>
  BY DEF ChangeDefer, At, outerVars, innerVars
<1>2. call[t].lock # 0 /\ u # 0
  BY <1>1 DEF TenantInv, CallsOK, CallOK, Locking, Locked
<1> HIDE DEF u
<1>3. CallOK(k) /\ SameId(t, k) /\ k.pc = "change.write"
  BY <1>2 DEF TenantInv, CallsOK, CallOK, CallFields, SameId
<1>4. LocksOK'
  BY <1>1, SameLocks DEF TenantInv
<1> HIDE DEF k
<1> QED BY <1>1, <1>3, <1>4, PlainStep DEF Installing, Locking

LEMMA WriteInv ==
  ASSUME TenantInv, NEW t \in Threads, Write(t)
  PROVE  TenantInv'
<1> DEFINE k == [call[t] EXCEPT !.pc = "change.unlock"]
<1>1. /\ call[t].pc = "change.write" /\ Become(t, k)
      /\ UNCHANGED <<registry, current, made, lastId, lockVars>>
  BY DEF Write, At, Goto, outerVars, lockVars
<1>2. CallOK(k) /\ SameId(t, k) /\ k.pc = "change.unlock"
  BY <1>1, Going DEF TenantInv, Locking
<1>3. LocksOK'
  BY <1>1, SameLocks DEF TenantInv
<1> HIDE DEF k
<1> QED BY <1>1, <1>2, <1>3, PlainStep DEF Installing, Locking

LEMMA UnlockInv ==
  ASSUME TenantInv, NEW t \in Threads, Unlock(t)
  PROVE  TenantInv'
<1>1. CASE Die("unlock of unlocked")
  BY <1>1, Died
<1>2. CASE ~Die("unlock of unlocked")
  <2>1. /\ UNCHANGED <<registry, current, made, lastId, readers>>
        /\ writer' = [writer EXCEPT ![call[t].unlock] = NoThread]
        /\ Become(t, NoCall)
    BY <1>2 DEF Unlock, outerVars
  <2>2. SameId(t, NoCall) /\ NoCall.pc = "idle"
    BY DEF SameId, NoCall
  <2>3. LocksOK'
    BY <2>1 DEF TenantInv, LocksOK
  <2> QED BY <2>1, <2>2, <2>3, NoCallOK, PlainStep DEF Installing, Locking
<1> QED BY <1>1, <1>2

\* A call that begins holds nothing, and a Create has no id yet.
LEMMA Beginning ==
  ASSUME TenantInv, NEW t \in Threads, NEW k, Become(t, k), DOMAIN k = CallFields,
         k.pc \in {"create", "lookup", "change"}, k.op = "create" => k.id = 0,
         UNCHANGED <<registry, current, made, lastId, lockVars>>
  PROVE  TenantInv'
<1>1. k.pc \notin Locking /\ k.pc \notin Installing
  BY DEF Locking, Installing
<1>2. CallOK(k) /\ SameId(t, k)
  BY <1>1 DEF CallOK, SameId, Locking
<1>3. LocksOK'
  BY SameLocks DEF TenantInv
<1> QED BY <1>1, <1>2, <1>3, PlainStep

LEMMA BeginInv ==
  ASSUME TenantInv, NEW t \in Threads, Begin(t)
  PROVE  TenantInv'
<1>1. UNCHANGED <<registry, current, made, lastId, lockVars>>
  BY DEF Begin, outerVars, innerVars
<1>2. CASE Become(t, [NoCall EXCEPT !.op = "create", !.pc = "create"])
  <2> DEFINE k == [NoCall EXCEPT !.op = "create", !.pc = "create"]
  <2>1. DOMAIN k = CallFields /\ k.pc = "create" /\ k.id = 0
    BY DEF NoCall, CallFields
  <2>2. Become(t, k)
    BY <1>2
  <2> HIDE DEF k
  <2> QED BY <1>1, <2>1, <2>2, Beginning
<1>3. CASE Become(t, [NoCall EXCEPT !.op = "lookup", !.pc = "lookup"])
  <2> DEFINE k == [NoCall EXCEPT !.op = "lookup", !.pc = "lookup"]
  <2>1. DOMAIN k = CallFields /\ k.pc = "lookup" /\ k.op = "lookup"
    BY DEF NoCall, CallFields
  <2>2. Become(t, k)
    BY <1>3
  <2> HIDE DEF k
  <2> QED BY <1>1, <2>1, <2>2, Beginning
<1>4. ASSUME NEW op \in {"update", "remove"}, NEW id \in Ids,
             Become(t, [NoCall EXCEPT !.op = op, !.pc = "change", !.id = id])
      PROVE  TenantInv'
  <2> DEFINE k == [NoCall EXCEPT !.op = op, !.pc = "change", !.id = id]
  <2>1. DOMAIN k = CallFields /\ k.pc = "change" /\ k.op # "create"
    BY DEF NoCall, CallFields
  <2>2. Become(t, k)
    BY <1>4
  <2> HIDE DEF k
  <2> QED BY <1>1, <2>1, <2>2, Beginning
<1> QED BY <1>2, <1>3, <1>4 DEF Begin

LEMMA TenantInvariant == Spec => []TenantInv
<1>1. Init => TenantInv
  <2> SUFFICES ASSUME Init PROVE TenantInv
    OBVIOUS
  <2>1. CallsOK /\ Locked
    BY NoCallOK DEF Init, CallsOK, Locked
  <2>2. LocksOK /\ IdsOK /\ UniqueIds
    BY DEF Init, LocksOK, IdsOK, UniqueIds, NoCall
  <2>3. Installers = {}
    BY DEF Init, Installers, NoCall
  <2>4. OuterOK
    BY <2>3, FS_EmptySet, FiniteThreads DEF Init, OuterOK, Room, FirstCreate
  <2> QED BY <2>1, <2>2, <2>4 DEF TenantInv
<1>2. TenantInv /\ [Next]_vars => TenantInv'
  <2> SUFFICES ASSUME TenantInv, [Next]_vars PROVE TenantInv'
    OBVIOUS
  <2>1. ASSUME NEW t \in Threads, Step(t) PROVE TenantInv'
    BY <2>1, TakeGlobalInv, CreateSectionInv, LookupTestInv, LookupSectionInv, ReadersInv,
       ChangeTestInv, WriteLockInv, ChangeDeferInv, WriteInv, UnlockInv DEF Step
  <2>2. ASSUME NEW t \in Threads, Begin(t) PROVE TenantInv'
    BY <2>2, BeginInv
  <2>3. CASE MapFault
    BY <2>3, Died DEF MapFault
  <2>4. CASE UNCHANGED vars
    BY <2>4 DEF vars, TenantInv, CallsOK, LocksOK, OuterOK, Locked, IdsOK, UniqueIds, Room,
                Installers, FirstCreate
  <2> QED BY <2>1, <2>2, <2>3, <2>4 DEF Next
<1> QED BY <1>1, <1>2, PTL DEF Spec

\* Overlapping Creates are given different ids, the first ones of a tenant included, with
\* any number of goroutines whose lookups install maps meanwhile: the counter moves under
\* r.lock only.
THEOREM UniqueFromTheFirst == Spec => []UniqueIds
BY TenantInvariant, PTL DEF TenantInv

-----------------------------------------------------------------------------
(***************************************************************************)
(* A settled tenant.                                                       *)
(***************************************************************************)
LEMMA SettledHasLock ==
  ASSUME TenantInv, Settled
  PROVE  /\ current # 0 /\ current \in Generations
         /\ \A t \in Threads :
              /\ call[t].pc \notin Installing
              /\ call[t].pc \in Locking => call[t].lock = current
              /\ call[t].pc = "change.unlock" => call[t].unlock = current
<1>1. current # 0
  BY DEF TenantInv, OuterOK, Settled, Known
<1>2. current \in Generations
  BY <1>1, CurrentExists DEF TenantInv
<1>3. \A t \in Threads : CallOK(call[t])
  BY DEF TenantInv, CallsOK
<1> QED BY <1>1, <1>2, <1>3 DEF Settled, CallOK, Installing

\* A reader is among the readers, a writer is the writer, and the lock has not both.
LEMMA SettledExcludes ==
  ASSUME TenantInv, Settled
  PROVE  SettledExclusive
<1>1. SUFFICES ASSUME NEW t \in Threads, NEW s \in Threads, t # s,
                      call[t].pc = "change.write",
                      call[s].pc = "change.write" \/ call[s].pc = "lookup.read"
               PROVE  FALSE
  BY DEF SettledExclusive, InnerRace
<1>2. writer[current] = t /\ t # NoThread /\ current \in Generations
  BY <1>1, SettledHasLock, ThreadsAssumption DEF Settled
<1>3. readers[current] = {}
  BY <1>2 DEF TenantInv, LocksOK
<1>4. call[s].pc # "change.write"
  BY <1>1, <1>2 DEF Settled
<1>5. call[s].pc # "lookup.read"
  BY <1>3 DEF Settled
<1> QED BY <1>1, <1>4, <1>5

\* In a settled tenant nobody is in an inner map beside a writer, with any number of
\* goroutines, although Create uses what it captured and the others look theirs up.
THEOREM SettledIsExclusive == Spec => []SettledExclusive
<1>1. TenantInv => SettledExclusive
  BY SettledExcludes DEF SettledExclusive
<1> QED BY <1>1, TenantInvariant, PTL

-----------------------------------------------------------------------------
(* Its steps.                                                              *)

LEMMA SettledMoves ==
  ASSUME TenantInv, Settled, NEW t \in Threads, NEW k, Become(t, k), CallOK(k),
         UNCHANGED <<registry, current, died>>,
         lastId' = lastId \/ lastId' # 0,
         k.pc \notin Installing,
         {k.lock, k.unlock, k.map} \subseteq {0, current},
         k.pc \in Writing <=> writer'[current] = t,
         \A s \in Threads : s # t => (writer'[current] = s <=> writer[current] = s),
         readers'[current] = (readers[current] \ {t})
                               \cup (IF k.pc = "lookup.read" THEN {t} ELSE {})
  PROVE  Settled'
<1>1. call'[t] = k /\ \A s \in Threads : s # t => call'[s] = call[s]
  BY Called DEF TenantInv
<1>2. Known' /\ died' = "no"
  BY DEF Settled, Known
<1>3. ASSUME NEW s \in Threads
      PROVE  /\ call'[s].pc \notin Installing
             /\ {call'[s].lock, call'[s].unlock, call'[s].map} \subseteq {0, current'}
             /\ call'[s].pc \in Writing <=> writer'[current'] = s
  BY <1>1 DEF Settled, Installing, Writing
<1>4. readers'[current'] = {s \in Threads : call'[s].pc = "lookup.read"}
  BY <1>1 DEF Settled
<1> QED BY <1>2, <1>3, <1>4 DEF Settled, Installing, Writing

\* The steps that neither take nor release the tenant's lock.
LEMMA SettledElsewhere ==
  ASSUME TenantInv, Settled, NEW t \in Threads, NEW k, Become(t, k), CallOK(k),
         UNCHANGED <<registry, current, died, lockVars>>,
         lastId' = lastId \/ lastId' # 0,
         k.pc \notin Installing,
         {k.lock, k.unlock, k.map} \subseteq {0, current},
         k.pc \in Writing <=> call[t].pc \in Writing,
         call[t].pc # "lookup.read" /\ k.pc # "lookup.read"
  PROVE  Settled'
<1>1. k.pc \in Writing <=> writer'[current] = t
  BY DEF Settled, Writing, lockVars
<1>2. readers'[current] = readers[current] /\ t \notin readers[current]
  BY DEF Settled, lockVars
<1> QED BY <1>1, <1>2, SettledMoves DEF lockVars

LEMMA SettledTakeGlobal ==
  ASSUME TenantInv, Settled, NEW t \in Threads, TakeGlobal(t, "create", "create.section")
  PROVE  Settled'
<1> DEFINE k == [call[t] EXCEPT !.pc = "create.section"]
<1>1. /\ call[t].pc = "create" /\ Become(t, k)
      /\ UNCHANGED <<registry, current, lastId, died, lockVars>>
  BY DEF TakeGlobal, At, Goto, innerVars
<1>2. CallOK(k) /\ k.pc = "create.section"
  BY <1>1, Going DEF TenantInv, Locking
<1>3. k.lock = call[t].lock /\ k.unlock = call[t].unlock /\ k.map = call[t].map
  BY DEF TenantInv, CallsOK, CallOK, CallFields
<1> HIDE DEF k
<1>4. {k.lock, k.unlock, k.map} \subseteq {0, current}
  BY <1>3 DEF Settled
<1> QED BY <1>1, <1>2, <1>4, SettledElsewhere DEF Installing, Writing

LEMMA SettledCreateSection ==
  ASSUME TenantInv, Settled, NEW t \in Threads, CreateSection(t)
  PROVE  Settled'
<1>1. /\ call[t].pc = "create.section" /\ UNCHANGED <<registry, current, died, lockVars>>
      /\ lastId' = lastId \/ lastId' # 0
  BY DEF CreateSection, At, Keep, Settled, TenantInv, OuterOK
<1>2. PICK id \in Ids :
        Become(t, [call[t] EXCEPT !.pc = "create.lock", !.id = id,
                                  !.lock = current', !.unlock = current', !.map = current'])
  BY DEF CreateSection
<1> DEFINE k == [call[t] EXCEPT !.pc = "create.lock", !.id = id,
                                !.lock = current', !.unlock = current', !.map = current']
<1>3. /\ CallOK(k) /\ k.pc = "create.lock"
      /\ k.lock = current /\ k.unlock = current /\ k.map = current
  BY <1>1, SettledHasLock DEF TenantInv, CallsOK, CallOK, CallFields
<1>4. Become(t, k)
  BY <1>2
<1> HIDE DEF k
<1>5. {k.lock, k.unlock, k.map} \subseteq {0, current}
  BY <1>3
<1> QED BY <1>1, <1>3, <1>4, <1>5, SettledElsewhere DEF Installing, Writing

\* A lookup or a change finds the lock.
LEMMA SettledTests ==
  ASSUME TenantInv, Settled, NEW t \in Threads, LookupTest(t) \/ ChangeTest(t)
  PROVE  Settled'
<1>1. PICK to \in {"lookup.lock", "change.lock"} :
        /\ call[t].pc \in {"lookup", "change"}
        /\ Become(t, [call[t] EXCEPT !.pc = to, !.lock = current])
        /\ UNCHANGED <<registry, current, lastId, died, lockVars>>
  <2>1. CASE LookupTest(t)
    BY <2>1, SettledHasLock DEF LookupTest, At, outerVars, innerVars
  <2>2. CASE ChangeTest(t)
    BY <2>2, SettledHasLock DEF ChangeTest, At, outerVars, innerVars
  <2> QED BY <2>1, <2>2
<1> DEFINE k == [call[t] EXCEPT !.pc = to, !.lock = current]
<1>2. /\ CallOK(k) /\ k.pc = to /\ k.lock = current
      /\ k.unlock = call[t].unlock /\ k.map = call[t].map
  BY <1>1, SettledHasLock DEF TenantInv, CallsOK, CallOK, CallFields
<1>3. Become(t, k)
  BY <1>1
<1> HIDE DEF k
<1>4. {k.lock, k.unlock, k.map} \subseteq {0, current}
  BY <1>2 DEF Settled
<1> QED BY <1>1, <1>2, <1>3, <1>4, SettledElsewhere DEF Installing, Writing

LEMMA SettledReads ==
  ASSUME TenantInv, Settled, NEW t \in Threads, LookupLock(t) \/ LookupRead(t)
  PROVE  Settled'
<1>1. /\ call[t].pc \in {"lookup.lock", "lookup.read"} /\ call[t].lock = current
      /\ current \in DOMAIN readers
      /\ UNCHANGED <<registry, current, lastId, died, writer>>
  BY SettledHasLock DEF LookupLock, LookupRead, outerVars, At, Locking, TenantInv, LocksOK
<1>2. CASE LookupLock(t)
  <2> DEFINE k == [call[t] EXCEPT !.pc = "lookup.read"]
  <2>1. CallOK(k) /\ k.pc = "lookup.read"
    BY <1>1, Going DEF TenantInv, Locking
  <2>2. k.lock = call[t].lock /\ k.unlock = call[t].unlock /\ k.map = call[t].map
    BY DEF TenantInv, CallsOK, CallOK, CallFields
  <2>3. Become(t, k) /\ readers'[current] = readers[current] \cup {t}
    BY <1>1, <1>2 DEF LookupLock, Goto
  <2> HIDE DEF k
  <2>4. {k.lock, k.unlock, k.map} \subseteq {0, current}
    BY <2>2 DEF Settled
  <2>5. k.pc \in Writing <=> writer'[current] = t
    BY <1>1, <2>1 DEF Settled, Writing
  <2>6. readers'[current] = (readers[current] \ {t})
                              \cup (IF k.pc = "lookup.read" THEN {t} ELSE {})
    BY <2>1, <2>3
  <2> QED BY <1>1, <2>1, <2>3, <2>4, <2>5, <2>6, SettledMoves DEF Installing
<1>3. CASE LookupRead(t)
  <2>1. /\ CallOK(NoCall) /\ NoCall.pc = "idle"
        /\ {NoCall.lock, NoCall.unlock, NoCall.map} \subseteq {0, current}
    BY NoCallOK DEF NoCall
  <2>2. Become(t, NoCall) /\ readers'[current] = readers[current] \ {t}
    BY <1>1, <1>3 DEF LookupRead
  <2>3. NoCall.pc \in Writing <=> writer'[current] = t
    BY <1>1, <2>1 DEF Settled, Writing
  <2>4. readers'[current] = (readers[current] \ {t})
                              \cup (IF NoCall.pc = "lookup.read" THEN {t} ELSE {})
    BY <2>1, <2>2
  <2> QED BY <1>1, <2>1, <2>2, <2>3, <2>4, SettledMoves DEF Installing
<1> QED BY <1>2, <1>3

LEMMA SettledWriteLock ==
  ASSUME TenantInv, Settled, NEW t \in Threads,
         WriteLock(t, "change.lock", "change.defer") \/ WriteLock(t, "create.lock", "change.write")
  PROVE  Settled'
<1>1. PICK from, to :
        /\ <<from, to>> \in {<<"change.lock", "change.defer">>, <<"create.lock", "change.write">>}
        /\ WriteLock(t, from, to)
  OBVIOUS
<1> DEFINE k == [call[t] EXCEPT !.pc = to]
<1>2. /\ call[t].pc = from /\ Become(t, k) /\ call[t].lock = current
      /\ UNCHANGED <<registry, current, lastId, died, readers>>
  BY <1>1, SettledHasLock DEF WriteLock, At, Goto, outerVars, Locking
<1>3. CallOK(k) /\ k.pc = to
  BY <1>1, <1>2, Going DEF TenantInv, Locking
<1>4. k.lock = call[t].lock /\ k.unlock = call[t].unlock /\ k.map = call[t].map
  BY DEF TenantInv, CallsOK, CallOK, CallFields
<1>5. writer[current] = NoThread /\ writer'[current] = t
  BY <1>1, <1>2, SettledHasLock DEF WriteLock, TenantInv, LocksOK
<1> HIDE DEF k
<1>6. {k.lock, k.unlock, k.map} \subseteq {0, current}
  BY <1>4 DEF Settled
<1>7. k.pc \in Writing /\ k.pc # "lookup.read" /\ k.pc \notin Installing
  BY <1>1, <1>3 DEF Writing, Installing
<1>8. \A s \in Threads : s # t => (writer'[current] = s <=> writer[current] = s)
  BY <1>5, ThreadsAssumption
<1>9. readers'[current] = readers[current] /\ t \notin readers[current]
  BY <1>1, <1>2 DEF Settled
<1> QED BY <1>2, <1>3, <1>5, <1>6, <1>7, <1>8, <1>9, SettledMoves

\* Inside the section: the deferred unlock is given its lock, and the map is written.
LEMMA SettledInside ==
  ASSUME TenantInv, Settled, NEW t \in Threads, ChangeDefer(t) \/ Write(t)
  PROVE  Settled'
<1> DEFINE u == IF registry = "character" /\ call[t].op = "remove" THEN call[t].lock ELSE current
           d == [call[t] EXCEPT !.pc = "change.write", !.unlock = u]
           w == [call[t] EXCEPT !.pc = "change.unlock"]
<1>1. UNCHANGED <<registry, current, lastId, died, lockVars>>
  BY DEF ChangeDefer, Write, outerVars, innerVars, lockVars
<1>2. CASE ChangeDefer(t)
  <2>1. call[t].pc = "change.defer" /\ Become(t, d)
    BY <1>2 DEF ChangeDefer, At
  <2>2. u = current /\ current # 0
    BY <2>1, SettledHasLock DEF Locking
  <2> HIDE DEF u
  <2>3. /\ CallOK(d) /\ d.pc = "change.write"
        /\ d.lock = call[t].lock /\ d.unlock = u /\ d.map = call[t].map
    BY <2>1, <2>2 DEF TenantInv, CallsOK, CallOK, CallFields, Locking
  <2> HIDE DEF d
  <2>4. {d.lock, d.unlock, d.map} \subseteq {0, current}
    BY <2>2, <2>3 DEF Settled
  <2> QED BY <1>1, <2>1, <2>3, <2>4, SettledElsewhere DEF Installing, Writing
<1>3. CASE Write(t)
  <2>1. call[t].pc = "change.write" /\ Become(t, w)
    BY <1>3 DEF Write, At, Goto
  <2>2. CallOK(w) /\ w.pc = "change.unlock"
    BY <2>1, Going DEF TenantInv, Locking
  <2>3. w.lock = call[t].lock /\ w.unlock = call[t].unlock /\ w.map = call[t].map
    BY DEF TenantInv, CallsOK, CallOK, CallFields
  <2> HIDE DEF w
  <2>4. {w.lock, w.unlock, w.map} \subseteq {0, current}
    BY <2>3 DEF Settled
  <2> QED BY <1>1, <2>1, <2>2, <2>4, SettledElsewhere DEF Installing, Writing
<1> QED BY <1>2, <1>3

\* The lock that is released is the one that was taken, and t holds it.
LEMMA SettledUnlock ==
  ASSUME TenantInv, Settled, NEW t \in Threads, Unlock(t)
  PROVE  Settled'
<1>1. call[t].unlock = current /\ writer[current] = t /\ current \in DOMAIN writer
  BY SettledHasLock DEF Unlock, At, Settled, TenantInv, LocksOK
<1>2. t # NoThread
  BY ThreadsAssumption
<1>3. /\ Become(t, NoCall) /\ writer'[current] = NoThread
      /\ UNCHANGED <<registry, current, lastId, died, readers>>
  BY <1>1, <1>2 DEF Unlock, outerVars
<1>4. /\ CallOK(NoCall) /\ NoCall.pc = "idle"
      /\ {NoCall.lock, NoCall.unlock, NoCall.map} \subseteq {0, current}
  BY NoCallOK DEF NoCall
<1>5. \A s \in Threads : s # t => (writer'[current] = s <=> writer[current] = s)
  BY <1>1, <1>3, ThreadsAssumption
<1>6. readers'[current] = readers[current] /\ t \notin readers[current]
  BY <1>3 DEF Unlock, At, Settled
<1> QED BY <1>2, <1>3, <1>4, <1>5, <1>6, SettledMoves DEF Installing, Writing

LEMMA SettledBeginning ==
  ASSUME TenantInv, Settled, NEW t \in Threads, call[t].pc = "idle", NEW k, Become(t, k),
         DOMAIN k = CallFields, k.pc \in {"create", "lookup", "change"},
         k.lock = 0 /\ k.unlock = 0 /\ k.map = 0,
         UNCHANGED <<registry, current, lastId, died, lockVars>>
  PROVE  Settled'
<1>1. CallOK(k) /\ k.pc \notin Installing /\ k.pc # "lookup.read"
  BY DEF CallOK, Installing, Locking
<1>2. {k.lock, k.unlock, k.map} \subseteq {0, current}
  OBVIOUS
<1>3. k.pc \in Writing <=> call[t].pc \in Writing
  BY DEF Writing
<1> QED BY <1>1, <1>2, <1>3, SettledElsewhere

LEMMA SettledBegin ==
  ASSUME TenantInv, Settled, NEW t \in Threads, Begin(t)
  PROVE  Settled'
<1>1. UNCHANGED <<registry, current, lastId, died, lockVars>> /\ call[t].pc = "idle"
  BY DEF Begin, At, outerVars, innerVars
<1>2. CASE Become(t, [NoCall EXCEPT !.op = "create", !.pc = "create"])
  <2> DEFINE k == [NoCall EXCEPT !.op = "create", !.pc = "create"]
  <2>1. DOMAIN k = CallFields /\ k.pc = "create" /\ k.lock = 0 /\ k.unlock = 0 /\ k.map = 0
    BY DEF NoCall, CallFields
  <2>2. Become(t, k)
    BY <1>2
  <2> HIDE DEF k
  <2> QED BY <1>1, <2>1, <2>2, SettledBeginning
<1>3. CASE Become(t, [NoCall EXCEPT !.op = "lookup", !.pc = "lookup"])
  <2> DEFINE k == [NoCall EXCEPT !.op = "lookup", !.pc = "lookup"]
  <2>1. DOMAIN k = CallFields /\ k.pc = "lookup" /\ k.lock = 0 /\ k.unlock = 0 /\ k.map = 0
    BY DEF NoCall, CallFields
  <2>2. Become(t, k)
    BY <1>3
  <2> HIDE DEF k
  <2> QED BY <1>1, <2>1, <2>2, SettledBeginning
<1>4. ASSUME NEW op \in {"update", "remove"}, NEW id \in Ids,
             Become(t, [NoCall EXCEPT !.op = op, !.pc = "change", !.id = id])
      PROVE  Settled'
  <2> DEFINE k == [NoCall EXCEPT !.op = op, !.pc = "change", !.id = id]
  <2>1. DOMAIN k = CallFields /\ k.pc = "change" /\ k.lock = 0 /\ k.unlock = 0 /\ k.map = 0
    BY DEF NoCall, CallFields
  <2>2. Become(t, k)
    BY <1>4
  <2> HIDE DEF k
  <2> QED BY <1>1, <2>1, <2>2, SettledBeginning
<1> QED BY <1>2, <1>3, <1>4 DEF Begin

\* A settled tenant stays settled with any number of goroutines, whatever they call:
\* no generation is replaced, no nil lock is met, and every Unlock meets the lock its
\* goroutine holds.  Only the data race on the outer maps ends it.
THEOREM SettledForGood == Spec => SettledStays
<1>1. TenantInv /\ [Next]_vars => (Settled => Settled' \/ died' = "concurrent map access")
  <2> SUFFICES ASSUME TenantInv, [Next]_vars, Settled
               PROVE  Settled' \/ died' = "concurrent map access"
    OBVIOUS
  <2>1. ASSUME NEW t \in Threads, Step(t) PROVE Settled'
    <3>1. ~TakeGlobal(t, "lookup.global", "lookup.section") /\ ~LookupSection(t)
      BY DEF TakeGlobal, LookupSection, At, Settled
    <3> QED BY <2>1, <3>1, SettledTakeGlobal, SettledCreateSection, SettledTests, SettledReads,
               SettledWriteLock, SettledInside, SettledUnlock DEF Step
  <2>2. ASSUME NEW t \in Threads, Begin(t) PROVE Settled'
    BY <2>2, SettledBegin
  <2>3. CASE MapFault
    BY <2>3 DEF MapFault, Die
  <2>4. CASE UNCHANGED vars
    BY <2>4 DEF vars, Settled, Known
  <2> QED BY <2>1, <2>2, <2>3, <2>4 DEF Next
<1>2. TenantInv /\ [Next]_vars => [Settled => Settled' \/ died' = "concurrent map access"]_vars
  BY <1>1
<1> QED BY <1>2, TenantInvariant, PTL DEF Spec, SettledStays

\* In a settled tenant an entry of the inner map goes only with a call that removes it:
\* no Create installs an empty map over it any more.
THEOREM SettledLosesNothing == Spec => SettledKeeps
<1> DEFINE Kept == \A id \in stored \ stored' :
             \E t \in Threads :
               At(t, "change.write") /\ call[t].op = "remove" /\ call[t].id = id /\ call'[t] # call[t]
<1>1. TenantInv /\ [Next]_vars => (Settled /\ died' = "no" => Kept)
  <2> SUFFICES ASSUME TenantInv, [Next]_vars, Settled, died' = "no"
               PROVE  Kept
    OBVIOUS
  <2>1. ASSUME NEW t \in Threads, Write(t) PROVE Kept
    <3> DEFINE k == [call[t] EXCEPT !.pc = "change.unlock"]
    <3>1. /\ At(t, "change.write") /\ Become(t, k)
          /\ stored' = stored \/ stored' = stored \cup {call[t].id}
             \/ (call[t].op = "remove" /\ stored' = stored \ {call[t].id})
      BY <2>1 DEF Write, Goto
    <3>2. CallOK(k) /\ k.pc = "change.unlock"
      BY <3>1, Going DEF TenantInv, Locking, At
    <3> HIDE DEF k
    <3>3. call'[t] # call[t]
      BY <3>1, <3>2, Called DEF TenantInv, At
    <3> QED BY <3>1, <3>3
  <2>2. ASSUME NEW t \in Threads, Step(t), ~Write(t) PROVE stored' = stored
    <3>1. ~LookupSection(t)
      BY DEF LookupSection, At, Settled
    <3>2. ~Die("nil lock") /\ ~Die("unlock of unlocked")
      BY DEF Die
    <3>3. CASE CreateSection(t)
      BY <3>3 DEF CreateSection, Settled, Keep
    <3> QED BY <2>2, <3>1, <3>2, <3>3
         DEF Step, TakeGlobal, LookupTest, LookupLock, LookupRead, ChangeTest, WriteLock,
             ChangeDefer, Unlock, innerVars
  <2>3. ASSUME NEW t \in Threads, Begin(t) PROVE stored' = stored
    BY <2>3 DEF Begin, innerVars
  <2>4. ~MapFault
    BY DEF MapFault, Die
  <2>5. CASE UNCHANGED vars
    BY <2>5 DEF vars
  <2> QED BY <2>1, <2>2, <2>3, <2>4, <2>5 DEF Next
<1>2. TenantInv /\ [Next]_vars => [Settled /\ died' = "no" => Kept]_vars
  BY <1>1
<1> QED BY <1>2, TenantInvariant, PTL DEF Spec, SettledKeeps

-----------------------------------------------------------------------------
(* Types.  A call names generations that were made, and once it may write, *)
(* an id.                                                                  *)

Changing == {"create.lock", "change", "change.lock", "change.defer", "change.write",
             "change.unlock"}

CallTyped(k, n) ==
  /\ {k.lock, k.unlock, k.map} \subseteq 0..n
  /\ k.pc \in Changing => k.id \in Ids

TypeInv ==
  /\ globalLock \in Threads \cup {NoThread}
  /\ lastId \in 0..MaxId
  /\ stored \in SUBSET Ids
  /\ \A t \in Threads : CallTyped(call[t], made)

LEMMA TypedStep ==
  ASSUME TenantInv, TypeInv, NEW t \in Threads, NEW k, Become(t, k), CallTyped(k, made'),
         made' = made \/ made' = made + 1,
         globalLock' \in Threads \cup {NoThread}, lastId' \in 0..MaxId, stored' \in SUBSET Ids
  PROVE  TypeInv'
<1>1. made \in Nat
  BY DEF TenantInv, OuterOK
<1>2. ASSUME NEW s \in Threads PROVE CallTyped(call'[s], made')
  <2>1. CASE s = t
    BY <2>1 DEF Become, TenantInv, CallsOK
  <2>2. CASE s # t
    <3>1. call'[s] = call[s]
      BY <2>2 DEF Become, TenantInv, CallsOK
    <3>2. CallTyped(call[s], made)
      BY DEF TypeInv
    <3>3. \A i \in 0..made : i \in 0..made'
      BY <1>1
    <3> QED BY <3>1, <3>2, <3>3 DEF CallTyped
  <2> QED BY <2>1, <2>2
<1> QED BY <1>2 DEF TypeInv

\* The steps that change nothing but the call.
LEMMA TypedCalling ==
  ASSUME TenantInv, TypeInv, NEW t \in Threads, NEW k, Become(t, k), CallTyped(k, made),
         UNCHANGED <<made, lastId, stored>>, globalLock' \in {globalLock, t}
  PROVE  TypeInv'
<1>1. globalLock' \in Threads \cup {NoThread}
  BY DEF TypeInv
<1>2. /\ CallTyped(k, made') /\ made' = made
      /\ lastId' \in 0..MaxId /\ stored' \in SUBSET Ids
  BY DEF TypeInv
<1> QED BY <1>1, <1>2, TypedStep

LEMMA NoCallTyped == ASSUME NEW n \in Nat PROVE CallTyped(NoCall, n)
  BY DEF CallTyped, NoCall, Changing

LEMMA TypedGoing ==
  ASSUME CallsOK, NEW t \in Threads, NEW n, CallTyped(call[t], n), NEW pc,
         pc \in Changing => call[t].pc \in Changing
  PROVE  CallTyped([call[t] EXCEPT !.pc = pc], n)
  BY DEF CallsOK, CallOK, CallFields, CallTyped

LEMMA TypedGoto ==
  ASSUME TenantInv, TypeInv, NEW t \in Threads, NEW pc, Goto(t, pc),
         pc \in Changing => call[t].pc \in Changing,
         UNCHANGED <<made, lastId, stored>>, globalLock' \in {globalLock, t}
  PROVE  TypeInv'
<1>1. PICK k : k = [call[t] EXCEPT !.pc = pc]
  OBVIOUS
<1>2. CallTyped(k, made)
  BY <1>1, TypedGoing DEF TypeInv, TenantInv
<1>3. Become(t, k)
  BY <1>1 DEF Goto
<1> QED BY <1>2, <1>3, TypedCalling

LEMMA TypedDied ==
  ASSUME NEW why, Die(why)
  PROVE  TypeInv'
<1>1. 0 \in 0..MaxId /\ 0 \in Nat
  BY ThreadsAssumption
<1>2. CallTyped(NoCall, 0)
  BY <1>1, NoCallTyped
<1> QED BY <1>1, <1>2 DEF Die, TypeInv

LEMMA TypedSections ==
  ASSUME TenantInv, TypeInv, NEW t \in Threads, CreateSection(t) \/ LookupSection(t)
  PROVE  TypeInv'
<1>1. made \in Nat /\ current = made
  BY DEF TenantInv, OuterOK
<1>2. /\ made' = made \/ made' = made + 1
      /\ current' = made' /\ made' \in Nat
      /\ stored' \in SUBSET Ids
      /\ globalLock' \in Threads \cup {NoThread}
  <2>1. (Keep \/ Install) /\ globalLock' = NoThread
    BY DEF CreateSection, LookupSection
  <2>2. CASE Keep
    BY <1>1, <2>1, <2>2 DEF Keep, TypeInv
  <2>3. CASE Install
    BY <1>1, <2>1, <2>3 DEF Install
  <2> QED BY <2>1, <2>2, <2>3
<1>3. CASE CreateSection(t)
  <2>1. PICK id \in Ids :
          /\ registry = "party" => id = lastId'
          /\ Become(t, [call[t] EXCEPT !.pc = "create.lock", !.id = id,
                                       !.lock = current', !.unlock = current', !.map = current'])
    BY <1>3 DEF CreateSection
  <2>2. PICK k : k = [call[t] EXCEPT !.pc = "create.lock", !.id = id,
                                     !.lock = current', !.unlock = current', !.map = current']
    OBVIOUS
  <2>3. k.id = id /\ k.lock = made' /\ k.unlock = made' /\ k.map = made'
    BY <1>2, <2>2 DEF TenantInv, CallsOK, CallOK, CallFields
  <2>4. CallTyped(k, made')
    BY <1>2, <2>3 DEF CallTyped
  <2>5. lastId' \in 0..MaxId
    <3>1. registry = "party" \/ lastId' = lastId
      BY <1>3 DEF CreateSection
    <3>2. id \in 0..MaxId
      BY ThreadsAssumption DEF Ids
    <3> QED BY <2>1, <3>1, <3>2 DEF TypeInv
  <2> QED BY <1>2, <2>1, <2>2, <2>4, <2>5, TypedStep
<1>4. CASE LookupSection(t)
  <2>1. PICK k : k = [call[t] EXCEPT !.pc = "lookup.lock", !.lock = current']
    OBVIOUS
  <2>2. /\ k.pc = "lookup.lock" /\ k.lock = made'
        /\ k.unlock = call[t].unlock /\ k.map = call[t].map
    BY <1>2, <2>1 DEF TenantInv, CallsOK, CallOK, CallFields
  <2>3. {call[t].unlock, call[t].map} \subseteq 0..made
    BY DEF TypeInv, CallTyped
  <2>4. {k.lock, k.unlock, k.map} \subseteq 0..made'
    BY <1>1, <1>2, <2>2, <2>3
  <2>5. CallTyped(k, made')
    BY <2>2, <2>4 DEF CallTyped, Changing
  <2>6. Become(t, k) /\ lastId' \in 0..MaxId
    BY <1>4, <2>1 DEF LookupSection, TypeInv
  <2> QED BY <1>2, <2>5, <2>6, TypedStep
<1> QED BY <1>3, <1>4

\* The call notes which lock is installed, to take it or to release it.
LEMMA TypedNotes ==
  ASSUME TenantInv, TypeInv, NEW t \in Threads, LookupTest(t) \/ ChangeTest(t) \/ ChangeDefer(t)
  PROVE  TypeInv'
<1> DEFINE c == call[t]
<1>1. made \in Nat /\ current \in 0..made
  BY DEF TenantInv, OuterOK
<1>2. CallTyped(c, made) /\ DOMAIN c = CallFields
  BY DEF TypeInv, TenantInv, CallsOK, CallOK
<1>3. CASE Die("nil lock")
  BY <1>3, TypedDied
<1>4. CASE ~Die("nil lock")
  <2>1. UNCHANGED <<made, lastId, stored, globalLock>>
    BY <1>4 DEF LookupTest, ChangeTest, ChangeDefer, outerVars, innerVars
  <2>2. CASE \E pc \in {"lookup.lock", "change.lock"} :
               /\ pc \in Changing => c.pc \in Changing
               /\ Become(t, [c EXCEPT !.pc = pc, !.lock = current])
    <3>1. PICK pc \in {"lookup.lock", "change.lock"} :
            /\ pc \in Changing => c.pc \in Changing
            /\ Become(t, [c EXCEPT !.pc = pc, !.lock = current])
      BY <2>2
    <3>2. PICK k : k = [c EXCEPT !.pc = pc, !.lock = current]
      OBVIOUS
    <3>3. k.pc = pc /\ k.lock = current /\ k.unlock = c.unlock /\ k.map = c.map /\ k.id = c.id
      BY <1>2, <3>2 DEF CallFields
    <3>4. CallTyped(k, made)
      BY <1>1, <1>2, <3>1, <3>3 DEF CallTyped
    <3> QED BY <2>1, <3>1, <3>2, <3>4, TypedCalling
  <2>3. CASE Goto(t, "lookup.global")
    BY <2>1, <2>3, TypedGoto DEF Changing
  <2>4. CASE Become(t, NoCall)
    BY <1>1, <2>1, <2>4, NoCallTyped, TypedCalling
  <2>5. CASE ChangeDefer(t)
    <3> DEFINE u == IF registry = "character" /\ c.op = "remove" THEN c.lock ELSE current
    <3>1. u \in 0..made
      BY <1>1, <1>2 DEF CallTyped
    <3>2. Become(t, [c EXCEPT !.pc = "change.write", !.unlock = u]) /\ c.pc = "change.defer"
      BY <2>5 DEF ChangeDefer, At
    <3> HIDE DEF u
    <3>3. PICK k : k = [c EXCEPT !.pc = "change.write", !.unlock = u]
      OBVIOUS
    <3>4. k.lock = c.lock /\ k.unlock = u /\ k.map = c.map /\ k.id = c.id
      BY <1>2, <3>3 DEF CallFields
    <3>5. CallTyped(k, made)
      BY <1>2, <3>1, <3>2, <3>4 DEF CallTyped, Changing
    <3> QED BY <2>1, <3>2, <3>3, <3>5, TypedCalling
  <2>6. CASE LookupTest(t)
    BY <2>2, <2>3, <2>6 DEF LookupTest, Goto, Changing
  <2>7. CASE ChangeTest(t)
    BY <1>4, <2>2, <2>4, <2>7 DEF ChangeTest, At, Changing
  <2> QED BY <2>5, <2>6, <2>7
<1> QED BY <1>3, <1>4

LEMMA TypedInner ==
  ASSUME TenantInv, TypeInv, NEW t \in Threads,
         LookupLock(t) \/ LookupRead(t) \/ Write(t) \/ Unlock(t)
         \/ WriteLock(t, "change.lock", "change.defer") \/ WriteLock(t, "create.lock", "change.write")
  PROVE  TypeInv'
<1>1. made \in Nat
  BY DEF TenantInv, OuterOK
<1>2. CASE Die("unlock of unlocked")
  BY <1>2, TypedDied
<1>3. CASE ~Die("unlock of unlocked") /\ ~Write(t)
  <2>1. UNCHANGED <<made, lastId, stored, globalLock>>
    BY <1>3 DEF LookupLock, LookupRead, Unlock, WriteLock, outerVars
  <2>2. \/ Become(t, NoCall)
        \/ \E pc \in {"lookup.read", "change.defer", "change.write"} :
             Goto(t, pc) /\ (pc \in Changing => call[t].pc \in Changing)
    BY <1>3 DEF LookupLock, LookupRead, Unlock, WriteLock, At, Changing
  <2> QED BY <1>1, <2>1, <2>2, NoCallTyped, TypedCalling, TypedGoto
<1>4. CASE Write(t)
  <2>1. /\ UNCHANGED <<made, lastId, globalLock>> /\ call[t].pc = "change.write"
        /\ Goto(t, "change.unlock")
    BY <1>4 DEF Write, outerVars, At
  <2>2. call[t].id \in Ids
    BY <2>1 DEF TypeInv, CallTyped, Changing
  <2>3. stored' \in SUBSET Ids
    BY <1>4, <2>2 DEF Write, TypeInv
  <2>4. PICK k : k = [call[t] EXCEPT !.pc = "change.unlock"]
    OBVIOUS
  <2>5. CallTyped(k, made)
    BY <2>1, <2>4, TypedGoing DEF TypeInv, TenantInv, Changing
  <2>6. Become(t, k) /\ globalLock' \in Threads \cup {NoThread} /\ lastId' \in 0..MaxId
    BY <2>1, <2>4 DEF Goto, TypeInv
  <2> QED BY <2>1, <2>3, <2>5, <2>6, TypedStep
<1> QED BY <1>2, <1>3, <1>4

LEMMA TypedBegin ==
  ASSUME TenantInv, TypeInv, NEW t \in Threads, Begin(t)
  PROVE  TypeInv'
<1>1. made \in Nat /\ UNCHANGED <<made, lastId, stored, globalLock>>
  BY DEF Begin, outerVars, innerVars, TenantInv, OuterOK
<1>2. PICK k :
        /\ Become(t, k)
        /\ k.lock = 0 /\ k.unlock = 0 /\ k.map = 0
        /\ k.pc \in {"create", "lookup"} \/ k.id \in Ids
  <2>1. CASE Become(t, [NoCall EXCEPT !.op = "create", !.pc = "create"])
    <3>1. PICK k : k = [NoCall EXCEPT !.op = "create", !.pc = "create"]
      OBVIOUS
    <3>2. k.lock = 0 /\ k.unlock = 0 /\ k.map = 0 /\ k.pc = "create"
      BY <3>1 DEF NoCall
    <3> QED BY <2>1, <3>1, <3>2
  <2>2. CASE Become(t, [NoCall EXCEPT !.op = "lookup", !.pc = "lookup"])
    <3>1. PICK k : k = [NoCall EXCEPT !.op = "lookup", !.pc = "lookup"]
      OBVIOUS
    <3>2. k.lock = 0 /\ k.unlock = 0 /\ k.map = 0 /\ k.pc = "lookup"
      BY <3>1 DEF NoCall
    <3> QED BY <2>2, <3>1, <3>2
  <2>3. ASSUME NEW op \in {"update", "remove"}, NEW id \in Ids,
               Become(t, [NoCall EXCEPT !.op = op, !.pc = "change", !.id = id])
        PROVE  \E k : /\ Become(t, k)
                      /\ k.lock = 0 /\ k.unlock = 0 /\ k.map = 0
                      /\ k.pc \in {"create", "lookup"} \/ k.id \in Ids
    <3>1. PICK k : k = [NoCall EXCEPT !.op = op, !.pc = "change", !.id = id]
      OBVIOUS
    <3>2. k.lock = 0 /\ k.unlock = 0 /\ k.map = 0 /\ k.id = id
      BY <3>1 DEF NoCall
    <3> QED BY <2>3, <3>1, <3>2
  <2> QED BY <2>1, <2>2, <2>3 DEF Begin
<1>3. 0 \in 0..made
  BY <1>1
<1>4. CallTyped(k, made)
  BY <1>2, <1>3 DEF CallTyped, Changing
<1> QED BY <1>1, <1>2, <1>4, TypedCalling

\* For any number of goroutines: the generations made never exceed one for each
\* goroutine and one more, so that a tenant is not initialised over and over
\* (party/registry.go:77), and every lock and map a call holds is one that was made.
THEOREM GenerationsTyped == Spec => []TypeOK
<1>1. Init => TypeInv
  <2> SUFFICES ASSUME Init PROVE TypeInv
    OBVIOUS
  <2>1. 0 \in 0..MaxId /\ CallTyped(NoCall, 0)
    BY ThreadsAssumption, NoCallTyped
  <2> QED BY <2>1 DEF Init, TypeInv
<1>2. TenantInv /\ TypeInv /\ [Next]_vars => TypeInv'
  <2> SUFFICES ASSUME TenantInv, TypeInv, [Next]_vars PROVE TypeInv'
    OBVIOUS
  <2>1. ASSUME NEW t \in Threads,
               TakeGlobal(t, "create", "create.section")
               \/ TakeGlobal(t, "lookup.global", "lookup.section")
        PROVE  TypeInv'
    <3>1. PICK pc \in {"create.section", "lookup.section"} :
            Goto(t, pc) /\ UNCHANGED <<made, lastId, stored>> /\ globalLock' = t
      BY <2>1 DEF TakeGlobal, innerVars
    <3> QED BY <3>1, TypedGoto DEF Changing
  <2>2. ASSUME NEW t \in Threads, Step(t) PROVE TypeInv'
    BY <2>1, <2>2, TypedSections, TypedNotes, TypedInner DEF Step
  <2>3. ASSUME NEW t \in Threads, Begin(t) PROVE TypeInv'
    BY <2>3, TypedBegin
  <2>4. CASE MapFault
    BY <2>4, TypedDied DEF MapFault
  <2>5. CASE UNCHANGED vars
    BY <2>5 DEF vars, TypeInv, CallTyped
  <2> QED BY <2>2, <2>3, <2>4, <2>5 DEF Next
<1>3. TenantInv /\ TypeInv => TypeOK
  <2> SUFFICES ASSUME TenantInv, TypeInv PROVE TypeOK
    OBVIOUS
  <2>1. made \in Generations \cup {0} /\ current \in 0..made
    BY CurrentExists DEF TenantInv, OuterOK
  <2> QED BY <2>1 DEF TypeOK, TypeInv, TenantInv, OuterOK, LocksOK, CallTyped
<1> QED BY <1>1, <1>2, <1>3, TenantInvariant, PTL DEF Spec

=============================================================================
