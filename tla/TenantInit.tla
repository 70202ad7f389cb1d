----------------------------- MODULE TenantInit -----------------------------
(***************************************************************************)
(* How a tenant comes into being in the two registries (party/registry.go  *)
(* and character/registry.go), access by access.  The outer maps, from     *)
(* tenants to locks and to inner maps, are written under r.lock and read   *)
(* with no lock at all, several times in one call; lookups install what is *)
(* missing, and the first Create of the party registry installs everything *)
(* anew.                                                                   *)
(*                                                                         *)
(* One tenant.  A tenant's lock and its inner maps are made and installed  *)
(* together, under r.lock: a generation is the number of such a set, zero  *)
(* for none.  Of an inner map only the keys are kept, and only while it is *)
(* the installed one: nobody looks into a map that was replaced.  The      *)
(* character index moves with the party map.                               *)
(***************************************************************************)
EXTENDS Naturals, FiniteSets

CONSTANTS
  Threads,
  MaxId,    \* bound: the keys are 1..MaxId, and Create stops handing them out there
  NoThread

ASSUME ThreadsAssumption ==
  IsFiniteSet(Threads) /\ NoThread \notin Threads /\ MaxId \in Nat \ {0}

Ids == 1..MaxId

\* Each running lookup that saw no lock may install a generation, and so may the
\* first Create: there are no more.
Generations == 1..(Cardinality(Threads) + 1)

VARIABLES
  registry,    \* which of the two: "party" or "character"; never changes
  globalLock,  \* who holds r.lock
  current,     \* the generation r.tenantLock[t] and r.partyReg[t] belong to
  made,        \* how many generations were made
  lastId,      \* r.tenantPartyId[t]
  stored,      \* the keys in the installed inner map
  writer,      \* who holds the lock of each generation for writing
  readers,     \* and for reading
  call,        \* what each goroutine is doing
  died         \* "no", or what the runtime stopped the process for

vars == <<registry, globalLock, current, made, lastId, stored, writer, readers, call, died>>
outerVars == <<globalLock, current, made, lastId>>
lockVars == <<writer, readers>>
innerVars == <<stored, lockVars>>

\* lock: the lock this call took or waits for; unlock: the one it will unlock;
\* map: the inner map it captured.
NoCall == [op |-> "none", pc |-> "idle", id |-> 0, lock |-> 0, unlock |-> 0, map |-> 0]

Init ==
  /\ registry \in {"party", "character"}
  /\ globalLock = NoThread
  /\ current = 0 /\ made = 0 /\ lastId = 0
  /\ stored = {}
  /\ writer = [g \in Generations |-> NoThread]
  /\ readers = [g \in Generations |-> {}]
  /\ call = [t \in Threads |-> NoCall]
  /\ died = "no"

At(t, pc) == died = "no" /\ call[t].pc = pc
Become(t, k) == call' = [call EXCEPT ![t] = k]
Goto(t, pc) == Become(t, [call[t] EXCEPT !.pc = pc])

\* The process stops, and what it kept in memory is gone.
Die(why) ==
  /\ died' = why
  /\ globalLock' = NoThread /\ current' = 0 /\ made' = 0 /\ lastId' = 0 /\ stored' = {}
  /\ writer' = [g \in Generations |-> NoThread] /\ readers' = [g \in Generations |-> {}]
  /\ call' = [t \in Threads |-> NoCall]
  /\ UNCHANGED registry

-----------------------------------------------------------------------------
(* r.lock.                                                                 *)

TakeGlobal(t, from, to) ==
  /\ At(t, from)
  /\ globalLock = NoThread
  /\ globalLock' = t
  /\ Goto(t, to)
  /\ UNCHANGED <<registry, current, made, lastId, innerVars, died>>

\* r.characterReg[t] = make(...), r.tenantLock[t] = &sync.RWMutex{}: a new generation.
Install == made' = made + 1 /\ current' = made + 1 /\ stored' = {}
Keep == UNCHANGED <<made, current, stored>>

-----------------------------------------------------------------------------
(* Create.                                                                 *)

\* Whether this Create finds its tenant: the party registry asks the id counter, the
\* character registry the outer map.
Known == IF registry = "party" THEN lastId # 0 ELSE current # 0

\* A slip: the maps are made before it is known whether they are needed.
CreateSectionAnew(t) ==
  /\ At(t, "create.section")
  /\ Install
  /\ lastId' = IF registry = "party" THEN lastId + 1 ELSE lastId
  /\ \E id \in Ids :
       /\ registry = "party" => id = lastId'
       /\ Become(t, [call[t] EXCEPT !.pc = "create.lock", !.id = id,
                                    !.lock = current', !.unlock = current', !.map = current'])
  /\ globalLock' = NoThread
  /\ UNCHANGED <<registry, lockVars, died>>

CreateSection(t) ==
  /\ At(t, "create.section")
  /\ IF Known THEN Keep ELSE Install
  /\ lastId' = IF registry = "party" THEN lastId + 1 ELSE lastId
  /\ \E id \in Ids :
       /\ registry = "party" => id = lastId'
       /\ Become(t, [call[t] EXCEPT !.pc = "create.lock", !.id = id,
                                    !.lock = current', !.unlock = current', !.map = current'])
  /\ globalLock' = NoThread
  /\ UNCHANGED <<registry, lockVars, died>>

-----------------------------------------------------------------------------
(* Get, GetAll and GetPartyByCharacter.                                    *)

\* A slip: nobody asks whether the tenant has a lock already.
LookupTestSkipped(t) ==
  /\ At(t, "lookup")
  /\ Goto(t, "lookup.global")
  /\ UNCHANGED <<registry, outerVars, innerVars, died>>

\* The presence test of r.tenantLock[t], which holds no lock.
LookupTest(t) ==
  /\ At(t, "lookup")
  /\ Become(t, IF current = 0 THEN [call[t] EXCEPT !.pc = "lookup.global"]
               ELSE [call[t] EXCEPT !.pc = "lookup.lock", !.lock = current])
  /\ UNCHANGED <<registry, outerVars, innerVars, died>>

\* A slip: the counter is installed with the maps.
LookupSectionAll(t) ==
  /\ At(t, "lookup.section")
  /\ Install
  /\ lastId' = 0
  /\ Become(t, [call[t] EXCEPT !.pc = "lookup.lock", !.lock = current'])
  /\ globalLock' = NoThread
  /\ UNCHANGED <<registry, lockVars, died>>

\* The maps and the lock, not the counter; there is no second test under r.lock.
LookupSection(t) ==
  /\ At(t, "lookup.section")
  /\ Install
  /\ Become(t, [call[t] EXCEPT !.pc = "lookup.lock", !.lock = current'])
  /\ globalLock' = NoThread
  /\ UNCHANGED <<registry, lastId, lockVars, died>>

\* A slip: nobody waits for a writer.
LookupLockBarges(t) ==
  /\ At(t, "lookup.lock")
  /\ readers' = [readers EXCEPT ![call[t].lock] = @ \cup {t}]
  /\ Goto(t, "lookup.read")
  /\ UNCHANGED <<registry, outerVars, stored, writer, died>>

LookupLock(t) ==
  /\ At(t, "lookup.lock")
  /\ writer[call[t].lock] = NoThread
  /\ readers' = [readers EXCEPT ![call[t].lock] = @ \cup {t}]
  /\ Goto(t, "lookup.read")
  /\ UNCHANGED <<registry, outerVars, stored, writer, died>>

\* A slip: who finds nothing returns without RUnlock.
LookupReadLeaks(t) ==
  /\ At(t, "lookup.read")
  /\ readers' = IF stored = {} THEN readers
                ELSE [readers EXCEPT ![call[t].lock] = @ \ {t}]
  /\ Become(t, NoCall)
  /\ UNCHANGED <<registry, outerVars, stored, writer, died>>

\* The read of the inner map of whatever generation is current, and RUnlock.
LookupRead(t) ==
  /\ At(t, "lookup.read")
  /\ readers' = [readers EXCEPT ![call[t].lock] = @ \ {t}]
  /\ Become(t, NoCall)
  /\ UNCHANGED <<registry, outerVars, stored, writer, died>>

-----------------------------------------------------------------------------
(* Update, Remove and Delete, and the second half of Create.               *)

\* r.tenantLock[t].Lock() of a tenant without a lock is a nil dereference; Delete of
\* the character registry tests for it.
ChangeTest(t) ==
  /\ At(t, "change")
  /\ \/ /\ current # 0
        /\ Become(t, [call[t] EXCEPT !.pc = "change.lock", !.lock = current])
        /\ UNCHANGED <<registry, outerVars, innerVars, died>>
     \/ /\ current = 0 /\ registry = "character" /\ call[t].op = "remove"
        /\ Become(t, NoCall)
        /\ UNCHANGED <<registry, outerVars, innerVars, died>>
     \/ /\ current = 0 /\ ~(registry = "character" /\ call[t].op = "remove")
        /\ Die("nil lock")

WriteLock(t, from, to) ==
  LET l == call[t].lock
  IN  /\ At(t, from)
      /\ writer[l] = NoThread /\ readers[l] = {}
      /\ writer' = [writer EXCEPT ![l] = t]
      /\ Goto(t, to)
      /\ UNCHANGED <<registry, outerVars, stored, readers, died>>

\* defer r.tenantLock[t].Unlock() reads the outer map again; Delete and Create keep
\* the lock they have taken.
ChangeDefer(t) ==
  /\ At(t, "change.defer")
  /\ Become(t, [call[t] EXCEPT !.pc = "change.write",
                  !.unlock = IF registry = "character" /\ call[t].op = "remove"
                             THEN call[t].lock ELSE current])
  /\ UNCHANGED <<registry, outerVars, innerVars, died>>

\* The inner map a call writes to: Create has captured it, the others look it up.
Target(t) == IF call[t].op = "create" THEN call[t].map ELSE current

Write(t) ==
  /\ At(t, "change.write")
  /\ stored' = CASE Target(t) # current -> stored
                  [] Target(t) = current /\ call[t].op = "remove" -> stored \ {call[t].id}
                  [] Target(t) = current /\ call[t].op # "remove" -> stored \cup {call[t].id}
  /\ Goto(t, "change.unlock")
  /\ UNCHANGED <<registry, outerVars, writer, readers, died>>

\* A slip: the lock is released where it was taken, and by the deferred call.
UnlockTwice(t) ==
  /\ At(t, "change.unlock")
  /\ IF writer[call[t].unlock] = NoThread THEN Die("unlock of unlocked")
     ELSE /\ writer' = [writer EXCEPT ![call[t].unlock] = NoThread]
          /\ IF call[t].op = "remove" THEN Goto(t, "change.unlock") ELSE Become(t, NoCall)
          /\ UNCHANGED <<registry, outerVars, stored, readers, died>>

Unlock(t) ==
  /\ At(t, "change.unlock")
  /\ IF writer[call[t].unlock] = NoThread THEN Die("unlock of unlocked")
     ELSE /\ writer' = [writer EXCEPT ![call[t].unlock] = NoThread]
          /\ Become(t, NoCall)
          /\ UNCHANGED <<registry, outerVars, stored, readers, died>>

-----------------------------------------------------------------------------

\* Bound: a Create of the party registry begins while an id is left for it.
IdsLeft ==
  registry = "party" =>
    lastId + Cardinality({t \in Threads : call[t].pc \in {"create", "create.section"}}) < MaxId

Begin(t) ==
  /\ At(t, "idle")
  /\ \/ IdsLeft /\ Become(t, [NoCall EXCEPT !.op = "create", !.pc = "create"])
     \/ Become(t, [NoCall EXCEPT !.op = "lookup", !.pc = "lookup"])
     \/ \E op \in {"update", "remove"}, id \in Ids :
          Become(t, [NoCall EXCEPT !.op = op, !.pc = "change", !.id = id])
  /\ UNCHANGED <<registry, outerVars, innerVars, died>>

\* Which goroutines are about to write the outer maps, and which to read them: Create
\* writes them every time, for a known tenant too.
WritesOuter == {t \in Threads : call[t].pc \in {"create.section", "lookup.section"}}
ReadsOuter ==
  {t \in Threads : \/ call[t].pc \in {"lookup", "lookup.read", "change", "change.defer"}
                   \/ call[t].pc = "change.write" /\ call[t].op # "create"}

\* Two goroutines at one inner map, one of them writing.
InnerRace ==
  \E t, s \in Threads :
    /\ t # s /\ call[t].pc = "change.write"
    /\ \/ call[s].pc = "change.write" /\ Target(s) = Target(t)
       \/ call[s].pc = "lookup.read" /\ current = Target(t)

\* What the Go runtime makes of a map that is read or written during a write: it may
\* stop the process, or notice nothing.
MapFault ==
  /\ died = "no"
  /\ (WritesOuter # {} /\ ReadsOuter # {}) \/ InnerRace
  /\ Die("concurrent map access")

Step(t) ==
  \/ TakeGlobal(t, "create", "create.section") \/ CreateSection(t)
  \/ LookupTest(t) \/ TakeGlobal(t, "lookup.global", "lookup.section") \/ LookupSection(t)
  \/ LookupLock(t) \/ LookupRead(t)
  \/ ChangeTest(t) \/ WriteLock(t, "change.lock", "change.defer") \/ ChangeDefer(t)
  \/ WriteLock(t, "create.lock", "change.write")
  \/ Write(t) \/ Unlock(t)

Next ==
  \/ \E t \in Threads : Step(t) \/ Begin(t)
  \/ MapFault

Spec == Init /\ [][Next]_vars

\* A goroutine goes on, and Go's mutexes hand over to who has waited long.
LiveSpec == Spec /\ \A t \in Threads : SF_vars(Step(t))

-----------------------------------------------------------------------------
(* Properties.                                                             *)

\* One generation for each lookup that ran into a missing lock, and one more: a tenant
\* is not initialised over and over.
TypeOK ==
  /\ registry \in {"party", "character"}
  /\ globalLock \in Threads \cup {NoThread}
  /\ made \in Generations \cup {0} /\ current \in 0..made
  /\ lastId \in 0..MaxId
  /\ stored \in SUBSET Ids
  /\ writer \in [Generations -> Threads \cup {NoThread}]
  /\ readers \in [Generations -> SUBSET Threads]
  /\ \A t \in Threads : {call[t].lock, call[t].unlock, call[t].map} \subseteq 0..made

\* Creates that overlap are given different ids, the first ones of a tenant included:
\* lookups that install maps at the same time leave the counter alone
\* (party/registry.go:77-84), and r.lock orders the rest.
UniqueIds ==
  registry = "party" =>
    \A t, s \in Threads :
      /\ t # s /\ call[t].op = "create" /\ call[s].op = "create"
      /\ call[t].id # 0
      => call[t].id # call[s].id

\* A tenant has settled when its first Create has been through r.lock (in the
\* character registry, its first lookup), nobody is about to install another
\* generation, nobody holds on to an old one, and its lock is held by exactly those
\* who are inside a section of it.
Settled ==
  /\ died = "no"
  /\ Known
  /\ \A t \in Threads :
       /\ call[t].pc \notin {"lookup.global", "lookup.section"}
       /\ {call[t].lock, call[t].unlock, call[t].map} \subseteq {0, current}
       /\ call[t].pc \in {"change.defer", "change.write", "change.unlock"} <=> writer[current] = t
  /\ readers[current] = {t \in Threads : call[t].pc = "lookup.read"}

\* A settled tenant stays settled, whatever calls come in: no generation is replaced
\* any more, and no Unlock meets a lock that is not held (party/registry.go:117
\* looks the lock up twice).  The data race on the outer maps is the one thing that
\* can still stop the process.
SettledStays == [][Settled => Settled' \/ died' = "concurrent map access"]_vars

\* In a settled tenant no one touches an inner map while another writes to it,
\* although Create uses a map and a lock it has captured and the others look theirs up.
SettledExclusive == Settled => ~InnerRace

\* In a settled tenant nothing that was stored is lost but by a call that removes it.
SettledKeeps ==
  [][Settled /\ died' = "no" =>
       \A id \in stored \ stored' :
         \E t \in Threads :
           At(t, "change.write") /\ call[t].op = "remove" /\ call[t].id = id /\ call'[t] # call[t]]_vars

\* In a settled tenant every call returns: no lock is left behind.
SettledReturns ==
  \A t \in Threads : (Settled /\ ~At(t, "idle")) ~> (At(t, "idle") \/ died # "no")

\* README.md:123: concurrent processing is thread-safe, with race condition
\* protection.  So at least in a settled tenant no one reads the outer maps while
\* another writes to them.
OuterMapsSafe == Settled => WritesOuter = {} \/ ReadsOuter = {}

=============================================================================
