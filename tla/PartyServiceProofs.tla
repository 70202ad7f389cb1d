------------------------- MODULE PartyServiceProofs -------------------------
(***************************************************************************)
(* The service for any number of workers, characters and party ids and any *)
(* mix of messages.  The handlers hand the registries ids where they       *)
(* expect them, so the invariants of the party registry carry over; types; *)
(* reads; the records of the living; and disbanded parties.                *)
(***************************************************************************)
EXTENDS PartyService, PartyRegistryProofs

-----------------------------------------------------------------------------
(* What a registry call needs of the job that makes it: ids of parties and *)
(* characters where it expects them.                                       *)

Fields == {"op", "pc", "actor", "chr", "pid", "fetched", "rec", "party", "disband", "todo",
           "map", "buf", "err"}

Creating == {"create", "create.alloc", "invite", "invite.chr"}
Creators == {"CREATE", "REQUEST_INVITE"}

\* Handlers that name a character.
Busy(j) == j.op \notin {"none", "VIEW"}

JobOK(j) ==
  /\ DOMAIN j = Fields
  /\ j.pid \in PartyIds
  /\ j.party.id \in PartyIds
  /\ ~Busy(j) => j.pc \in {"idle", "view", "view.member"}
  /\ Busy(j) => j.chr \in Characters
  /\ j.op \in Creators => j.actor \in Characters
  /\ j.pc \in Creating => j.op \in Creators

LEMMA Moved ==
  ASSUME NEW j, JobOK(j), Busy(j), NEW pc, pc \in Creating => j.op \in Creators
  PROVE  JobOK(Goto(j, pc))
  BY DEF JobOK, Goto, Fields, Busy, Creators, Creating

\* A handler that ends, whether it refuses or not.
LEMMA Ended ==
  ASSUME NEW j, JobOK(j), Busy(j)
  PROVE  JobOK(Refuse(j)) /\ JobOK(Fail(j)) /\ JobOK(Done(j))
  BY DEF JobOK, Goto, Fields, Busy, Creators, Creating, Refuse, Fail, Done, Buffered

LEMMA BufferedOK ==
  ASSUME NEW j, JobOK(j), NEW e
  PROVE  JobOK(Buffered(j, e)) /\ Buffered(j, e).op = j.op
  BY DEF JobOK, Fields, Busy, Creators, Creating, Buffered

\* The variables of a handler that no registry call depends on.
LEMMA Noted ==
  ASSUME NEW j, JobOK(j), NEW v
  PROVE  /\ JobOK([j EXCEPT !.fetched = v])
         /\ JobOK([j EXCEPT !.rec = v])
         /\ JobOK([j EXCEPT !.todo = v])
         /\ JobOK([j EXCEPT !.disband = v])
         /\ JobOK([j EXCEPT !.err = v])
  BY DEF JobOK, Fields, Busy, Creators, Creating

LEMMA Holding ==
  ASSUME NEW j, JobOK(j), NEW m, m.id \in PartyIds
  PROVE  JobOK([j EXCEPT !.party = m])
  BY DEF JobOK, Fields, Busy, Creators, Creating

LEMMA NoJobOK == JobOK(NoJob)
  BY PartyIdsAssumption
  DEF JobOK, NoJob, Fields, Busy, Creators, Creating, ZeroParty

-----------------------------------------------------------------------------
(***************************************************************************)
(* The inductive invariant: the registry's own, the jobs of the workers,   *)
(* and the invitations, which come back as commands.                       *)
(***************************************************************************)
JobsOK == DOMAIN job = Workers /\ \A w \in Workers : JobOK(job[w])

InvitesOK == invites \subseteq [pid : PartyIds, chr : Characters]

ServiceInv == RegistryInv /\ JobsOK /\ InvitesOK

\* What a step that leaves the registry alone does, and what any step does.
Quiet == UNCHANGED registryVars /\ JobsOK' /\ InvitesOK'
Orderly == [RegistryNext]_registryVars /\ JobsOK' /\ InvitesOK'

LEMMA Became ==
  ASSUME JobsOK, NEW w \in Workers, NEW j, JobOK(j), Become(w, j)
  PROVE  JobsOK'
  BY DEF JobsOK, Become, JobOK

\* Ids that the registry gives to a handler.
LEMMA LookedUp ==
  ASSUME RegistryInv, NEW p
  PROVE  Lookup(p).id \in PartyIds
  BY PartyIdsAssumption DEF RegistryInv, RegistryTypeOK, StoredIds, Lookup, ZeroParty

LEMMA UpdatedId ==
  ASSUME RegistryInv, NEW p, NEW u \in Updaters
  PROVE  Updated(p, u).id \in PartyIds
<1>1. Updated(p, u).id = Lookup(p).id
  BY LookupParty, AppliedParty DEF Updated, RegistryInv
<1> QED BY <1>1, LookedUp

LEMMA IsUpdater ==
  ASSUME NEW c \in Characters
  PROVE  {Adding(c), Removing(c), Appointing(c)} \subseteq Updaters
  BY DEF Adding, Removing, Appointing, Updaters

-----------------------------------------------------------------------------
(* The steps the handlers share.                                           *)

LEMMA GetByIdOrderly ==
  ASSUME ServiceInv, NEW w \in Workers, NEW c, NEW found, JobOK(found), NEW failed, JobOK(failed),
         GetById(w, c, found, failed)
  PROVE  Quiet
<1>1. JobOK(job[w])
  BY DEF ServiceInv, JobsOK
<1>2. InvitesOK' /\ UNCHANGED registryVars
  BY DEF GetById, ServiceInv, InvitesOK
<1>3. \E j : JobOK(j) /\ Become(w, j)
  <2>1. CASE Become(w, found) \/ Become(w, failed)
    BY <2>1
  <2>2. CASE \E map \in Maps : Become(w, [job[w] EXCEPT !.fetched = Fresh(c, map)])
    BY <2>2, <1>1, Noted
  <2>3. CASE Become(w, [found EXCEPT !.fetched = ZeroCharacter])
    BY <2>3, Noted
  <2> QED BY <2>1, <2>2, <2>3 DEF GetById
<1> QED BY <1>2, <1>3, Became DEF Quiet, ServiceInv

LEMMA GetCharacterOrderly ==
  ASSUME ServiceInv, NEW w \in Workers, NEW c, NEW found, JobOK(found), NEW failed, JobOK(failed),
         GetCharacter(w, c, found, failed)
  PROVE  Quiet
<1>1. Become(w, found) \/ Become(w, failed)
  BY DEF GetCharacter
<1> QED BY <1>1, Became DEF Quiet, GetCharacter, ServiceInv, InvitesOK

LEMMA SetCharacterOrderly ==
  ASSUME ServiceInv, NEW w \in Workers, NEW updated, NEW j, JobOK(j), SetCharacter(w, updated, j)
  PROVE  Quiet
  BY Became DEF Quiet, SetCharacter, ServiceInv, InvitesOK

LEMMA GetPartyOrderly ==
  ASSUME ServiceInv, NEW w \in Workers, NEW p, NEW found, JobOK(found), NEW failed, JobOK(failed),
         GetParty(w, p, found, failed)
  PROVE  Quiet
<1>1. Become(w, found) \/ Become(w, failed)
  BY DEF GetParty
<1> QED BY <1>1, Became DEF Quiet, GetParty, ServiceInv, InvitesOK

LEMMA SetPartyOrderly ==
  ASSUME ServiceInv, NEW w \in Workers, NEW p \in PartyIds, NEW u \in Updaters,
         NEW done, JobOK(done), NEW refused, JobOK(refused), SetParty(w, p, u, done, refused)
  PROVE  Orderly
<1>1. JobsOK'
  BY Became DEF SetParty, ServiceInv
<1>2. [RegistryNext]_registryVars
  BY DEF SetParty, RegistryNext
<1> QED BY <1>1, <1>2 DEF Orderly, SetParty, ServiceInv, InvitesOK

-----------------------------------------------------------------------------
(* Jobs at work: where a handler is says what its job holds.               *)

Resting == {"idle", "view", "view.member"}

LEMMA Working ==
  ASSUME ServiceInv, NEW w \in Workers
  PROVE  /\ JobOK(job[w])
         /\ job[w].pid \in PartyIds
         /\ job[w].pc \notin Resting => Busy(job[w]) /\ job[w].chr \in Characters
         /\ job[w].pc \in Creating => job[w].op \in Creators /\ job[w].actor \in Characters
  BY DEF ServiceInv, JobsOK, JobOK, Resting

LEMMA CreateEnded ==
  ASSUME NEW j, JobOK(j), Busy(j)
  PROVE  /\ \A m : m.id \in PartyIds => JobOK(CreateEnds(j, m))
         /\ JobOK(FailCreate(j))
<1>1. ASSUME NEW k, JobOK(k), Busy(k), NEW m, m.id \in PartyIds
      PROVE  JobOK(CreateEnds(k, m))
  <2>1. JobOK(Goto(k, "invite.send")) /\ JobOK(Done(k))
    BY <1>1, Moved, Ended DEF Creating
  <2> QED BY <2>1, <1>1, Holding DEF CreateEnds
<1>2. LET k == Buffered(j, Event("ERROR", NoParty, j.actor)) IN JobOK(k) /\ Busy(k)
  BY BufferedOK DEF Busy
<1>3. ZeroParty.id \in PartyIds
  BY PartyIdsAssumption DEF ZeroParty
<1> QED BY <1>1, <1>2, <1>3 DEF FailCreate

LEMMA Quietly == ASSUME Quiet PROVE Orderly
  BY DEF Quiet, Orderly

-----------------------------------------------------------------------------
(* One lemma per handler: each of its steps is a step of the registry, or  *)
(* leaves the registry alone.                                              *)

CreateSteps(w) ==
  \/ CreateCheck(w) \/ CreateAllocate(w) \/ CreateStore(w) \/ EnterCheck(w) \/ EnterSet(w)

LEMMA CreateOrderly ==
  ASSUME ServiceInv, NEW w \in Workers, CreateSteps(w)
  PROVE  Orderly
<1> DEFINE j == job[w]
<1>0. JobOK(j) /\ j.pid \in PartyIds
  BY Working
<1>1. CASE CreateCheck(w)
  <2>1. Busy(j) /\ j.op \in Creators
    BY <1>1, Working DEF CreateCheck, At, Resting, Creating
  <2>2. JobOK(Refuse(j)) /\ JobOK(Goto(j, "create.alloc")) /\ JobOK(FailCreate(j))
    BY <1>0, <2>1, Ended, Moved, CreateEnded
  <2>3. PICK barred \in BOOLEAN :
          GetById(w, j.actor,
                  IF Obtained(w, j.actor).partyId # NoParty \/ barred
                  THEN Refuse(j) ELSE Goto(j, "create.alloc"),
                  FailCreate(j))
    BY <1>1 DEF CreateCheck
  <2> DEFINE found == IF Obtained(w, j.actor).partyId # NoParty \/ barred
                      THEN Refuse(j) ELSE Goto(j, "create.alloc")
  <2>4. JobOK(found)
    BY <2>2
  <2> HIDE DEF found
  <2> QED BY <2>2, <2>3, <2>4, GetByIdOrderly, Quietly DEF found
<1>2. CASE CreateAllocate(w)
  <2>1. Busy(j) /\ j.actor \in Characters
    BY <1>2, Working DEF CreateAllocate, At, Resting, Creating
  <2>2. AllocatePartyId(j.actor) /\ NextId \in PartyIds
    BY <1>2 DEF CreateAllocate, AllocatePartyId
  <2> DEFINE m == NewParty(NextId, j.actor)
  <2>3. m.id \in PartyIds
    BY <2>2 DEF NewParty
  <2>4. JobOK(Goto(j, "create.store"))
    BY <1>0, <2>1, Moved DEF Creating
  <2>5. JobOK([Goto(j, "create.store") EXCEPT !.party = m])
    BY <2>3, <2>4, Holding
  <2>6. Become(w, [Goto(j, "create.store") EXCEPT !.party = m]) /\ UNCHANGED invites
    BY <1>2 DEF CreateAllocate
  <2>7. JobsOK'
    BY <2>5, <2>6, Became DEF ServiceInv
  <2> QED BY <2>1, <2>2, <2>6, <2>7 DEF Orderly, RegistryNext, ServiceInv, InvitesOK
<1>3. CASE CreateStore(w)
  <2>1. Busy(j)
    BY <1>3, Working DEF CreateStore, At, Resting, Creating
  <2> DEFINE k == Buffered(Goto(j, "enter"), Event("CREATED", j.party.id, j.actor))
  <2>2. JobOK(k)
    BY <1>0, <2>1, Moved, BufferedOK DEF Creating
  <2>3. StoreParty(j.party) /\ Become(w, k) /\ UNCHANGED invites
    BY <1>3 DEF CreateStore
  <2>4. JobsOK'
    BY <2>2, <2>3, Became DEF ServiceInv
  <2>5. RegistryNext
    BY <2>3 DEF RegistryNext, StoreParty
  <2> QED BY <2>3, <2>4, <2>5 DEF Orderly, ServiceInv, InvitesOK
<1>4. CASE EnterCheck(w)
  <2> DEFINE c == IF Joins(j) THEN j.chr ELSE j.actor
             found == [Goto(j, "enter.set") EXCEPT !.rec = Obtained(w, c)]
             failed == IF Joins(j) THEN Goto(j, "join.undo") ELSE FailCreate(j)
  <2>1. Busy(j)
    BY <1>4, Working DEF EnterCheck, At, Resting, Creating
  <2>2. JobOK(Goto(j, "enter.set")) /\ JobOK(Goto(j, "join.undo")) /\ JobOK(FailCreate(j))
    BY <1>0, <2>1, Moved, CreateEnded DEF Creating
  <2>3. JobOK(found) /\ JobOK(failed)
    BY <2>2, Noted
  <2>4. GetById(w, c, found, failed)
    BY <1>4 DEF EnterCheck
  <2> HIDE DEF c, found, failed
  <2> QED BY <2>3, <2>4, GetByIdOrderly, Quietly
<1>5. CASE EnterSet(w)
  <2> DEFINE e == Event("JOINED", j.party.id, j.chr)
             k == IF Joins(j) THEN Done(Buffered(j, e)) ELSE CreateEnds(j, j.party)
  <2>1. Busy(j)
    BY <1>5, Working DEF EnterSet, At, Resting, Creating
  <2>2. JobOK(Buffered(j, e)) /\ Busy(Buffered(j, e))
    BY <1>0, <2>1, BufferedOK DEF Busy
  <2>3. JobOK(CreateEnds(j, j.party))
    BY <1>0, <2>1, CreateEnded DEF JobOK
  <2>4. JobOK(k)
    BY <2>2, <2>3, Ended
  <2>5. \E updated : SetCharacter(w, updated, k)
    BY <1>5 DEF EnterSet
  <2> HIDE DEF k
  <2> QED BY <2>4, <2>5, SetCharacterOrderly, Quietly
<1> QED BY <1>1, <1>2, <1>3, <1>4, <1>5 DEF CreateSteps

JoinSteps(w) == JoinCheck(w) \/ JoinGetParty(w) \/ JoinAdd(w) \/ JoinUndo(w)

LEMMA JoinOrderly ==
  ASSUME ServiceInv, NEW w \in Workers, JoinSteps(w)
  PROVE  Orderly
<1> DEFINE j == job[w]
<1>0. JobOK(j) /\ j.pid \in PartyIds /\ RegistryInv
  BY Working DEF ServiceInv
<1>1. Busy(j) /\ j.chr \in Characters
  BY Working DEF JoinSteps, JoinCheck, JoinGetParty, JoinAdd, JoinUndo, At, Resting, Creating
<1>2. JobOK(Refuse(j)) /\ JobOK(Fail(j))
  BY <1>0, <1>1, Ended
<1>3. JobOK(Goto(j, "join.party")) /\ JobOK(Goto(j, "join.add")) /\ JobOK(Goto(j, "enter"))
  BY <1>0, <1>1, Moved DEF Creating
<1>4. {Adding(j.chr), Removing(j.chr)} \subseteq Updaters
  BY <1>1, IsUpdater
<1>5. CASE JoinCheck(w)
  <2> DEFINE found == IF Obtained(w, j.chr).partyId # NoParty
                      THEN Refuse(j) ELSE Goto(j, "join.party")
  <2>1. JobOK(found)
    BY <1>2, <1>3
  <2>2. GetById(w, j.chr, found, Fail(j))
    BY <1>5 DEF JoinCheck
  <2> HIDE DEF found
  <2> QED BY <1>2, <2>1, <2>2, GetByIdOrderly, Quietly
<1>6. CASE JoinGetParty(w)
  <2> DEFINE found == IF Size(Lookup(j.pid)) >= Capacity THEN Refuse(j) ELSE Goto(j, "join.add")
  <2>1. JobOK(found)
    BY <1>2, <1>3
  <2>2. GetParty(w, j.pid, found, Fail(j))
    BY <1>6 DEF JoinGetParty
  <2> HIDE DEF found
  <2> QED BY <1>2, <2>1, <2>2, GetPartyOrderly, Quietly
<1>7. CASE JoinAdd(w)
  <2> DEFINE m == Updated(j.pid, Adding(j.chr))
             done == [Goto(j, "enter") EXCEPT !.party = m]
  <2>1. m.id \in PartyIds
    BY <1>0, <1>4, UpdatedId
  <2> HIDE DEF m
  <2>2. JobOK(done)
    BY <1>3, <2>1, Holding
  <2>3. SetParty(w, j.pid, Adding(j.chr), done, Fail(j))
    BY <1>7 DEF JoinAdd, m
  <2> HIDE DEF done
  <2> QED BY <1>0, <1>2, <1>4, <2>2, <2>3, SetPartyOrderly
<1>8. CASE JoinUndo(w)
  <2>1. SetParty(w, j.pid, Removing(j.chr), Fail(j), Fail(j))
    BY <1>8 DEF JoinUndo
  <2> QED BY <1>0, <1>2, <1>4, <2>1, SetPartyOrderly
<1> QED BY <1>5, <1>6, <1>7, <1>8 DEF JoinSteps

LeaveSteps(w) ==
  \/ LeaveCheck(w) \/ LeaveGetParty(w) \/ LeaveRemove(w)
  \/ LeaveGet(w) \/ LeaveClear(w) \/ LeaveUndo(w)

LEMMA LeaveOrderly ==
  ASSUME ServiceInv, NEW w \in Workers, LeaveSteps(w)
  PROVE  Orderly
<1> DEFINE j == job[w]
<1>0. JobOK(j) /\ j.pid \in PartyIds /\ RegistryInv
  BY Working DEF ServiceInv
<1>1. Busy(j) /\ j.chr \in Characters
  BY Working
  DEF LeaveSteps, LeaveCheck, LeaveGetParty, LeaveRemove, LeaveGet, LeaveClear, LeaveUndo,
      At, Resting, Creating
<1>2. JobOK(Refuse(j)) /\ JobOK(Fail(j))
  BY <1>0, <1>1, Ended
<1>3. \A pc \in {"leave.party", "leave.remove", "leave.get", "leave.clear", "leave.undo",
                 "disband"} : JobOK(Goto(j, pc))
  BY <1>0, <1>1, Moved DEF Creating
<1>4. {Adding(j.chr), Removing(j.chr)} \subseteq Updaters
  BY <1>1, IsUpdater
<1>5. CASE LeaveCheck(w)
  <2> DEFINE found == IF Obtained(w, j.chr).partyId # j.pid
                      THEN Refuse(j) ELSE Goto(j, "leave.party")
  <2>1. JobOK(found)
    BY <1>2, <1>3
  <2>2. GetById(w, j.chr, found, Fail(j))
    BY <1>5 DEF LeaveCheck
  <2> HIDE DEF found
  <2> QED BY <1>2, <2>1, <2>2, GetByIdOrderly, Quietly
<1>6. CASE LeaveGetParty(w)
  <2> DEFINE found == [Goto(j, "leave.remove") EXCEPT
                         !.disband = j.op # "EXPEL" /\ Lookup(j.pid).leader = j.chr]
  <2>1. JobOK(found)
    BY <1>3, Noted
  <2>2. GetParty(w, j.pid, found, Fail(j))
    BY <1>6 DEF LeaveGetParty
  <2> HIDE DEF found
  <2> QED BY <1>2, <2>1, <2>2, GetPartyOrderly, Quietly
<1>7. CASE LeaveRemove(w)
  <2> DEFINE m == Updated(j.pid, Removing(j.chr))
             done == [Goto(j, "leave.get") EXCEPT !.party = m, !.todo = m.members]
  <2>1. m.id \in PartyIds
    BY <1>0, <1>4, UpdatedId
  <2>2. SetParty(w, j.pid, Removing(j.chr), done, Fail(j))
    BY <1>7 DEF LeaveRemove
  <2> HIDE DEF m
  <2>3. JobOK(done)
    BY <1>3, <2>1, Holding, Noted
  <2> HIDE DEF done
  <2> QED BY <1>0, <1>2, <1>4, <2>2, <2>3, SetPartyOrderly
<1>8. CASE LeaveGet(w)
  <2> DEFINE found == [Goto(j, "leave.clear") EXCEPT !.rec = Character(j.chr)]
  <2>1. JobOK(found) /\ JobOK(Goto(j, "leave.undo"))
    BY <1>3, Noted
  <2>2. GetCharacter(w, j.chr, found, Goto(j, "leave.undo"))
    BY <1>8 DEF LeaveGet
  <2> HIDE DEF found
  <2> QED BY <2>1, <2>2, GetCharacterOrderly, Quietly
<1>9. CASE LeaveClear(w)
  <2>1. ASSUME NEW e
        PROVE  JobOK(Done(Buffered(j, e))) /\ JobOK(Goto(Buffered(j, e), "expel.remove"))
    <3>1. JobOK(Buffered(j, e)) /\ Busy(Buffered(j, e))
      BY <1>0, <1>1, BufferedOK DEF Busy
    <3> QED BY <3>1, Ended, Moved DEF Creating
  <2>2. PICK updated, k : SetCharacter(w, updated, k) /\ JobOK(k)
    BY <1>3, <1>9, <2>1 DEF LeaveClear
  <2> QED BY <2>2, SetCharacterOrderly, Quietly
<1>10. CASE LeaveUndo(w)
  <2>1. SetParty(w, j.pid, Adding(j.chr), Fail(j), Fail(j))
    BY <1>10 DEF LeaveUndo
  <2> QED BY <1>0, <1>2, <1>4, <2>1, SetPartyOrderly
<1> QED BY <1>5, <1>6, <1>7, <1>8, <1>9, <1>10 DEF LeaveSteps

EndSteps(w) ==
  \/ DisbandGet(w) \/ DisbandClear(w) \/ RemoveDisbanded(w) \/ RemoveEmptied(w)

LEMMA EndOrderly ==
  ASSUME ServiceInv, NEW w \in Workers, EndSteps(w)
  PROVE  Orderly
<1> DEFINE j == job[w]
<1>0. JobOK(j) /\ j.pid \in PartyIds
  BY Working
<1>1. Busy(j)
  BY Working DEF EndSteps, DisbandGet, DisbandClear, RemoveDisbanded, RemoveEmptied, At, Resting
<1>2. CASE DisbandGet(w)
  <2>1. PICK c : LET k == [j EXCEPT !.todo = BagRemove(j.todo, c)]
                 IN  GetCharacter(w, c, [Goto(k, "disband.clear") EXCEPT !.rec = Character(c)], k)
    BY <1>2 DEF DisbandGet
  <2> DEFINE k == [j EXCEPT !.todo = BagRemove(j.todo, c)]
             found == [Goto(k, "disband.clear") EXCEPT !.rec = Character(c)]
  <2>2. JobOK(k)
    BY <1>0, Noted
  <2>3. Busy(k)
    BY <1>1, <1>0 DEF Busy, JobOK, Fields
  <2>4. JobOK(found)
    <3> HIDE DEF k
    <3>1. JobOK(Goto(k, "disband.clear"))
      BY <2>2, <2>3, Moved DEF Creating
    <3> QED BY <3>1, Noted
  <2>5. GetCharacter(w, c, found, k)
    BY <2>1
  <2> HIDE DEF k, found
  <2> QED BY <2>2, <2>4, <2>5, GetCharacterOrderly, Quietly
<1>3. CASE DisbandClear(w)
  <2>1. JobOK(Goto(j, "disband"))
    BY <1>0, <1>1, Moved DEF Creating
  <2>2. SetCharacter(w, LeaveParty(Target(w)), Goto(j, "disband"))
    BY <1>3 DEF DisbandClear
  <2> QED BY <2>1, <2>2, SetCharacterOrderly, Quietly
<1>4. CASE RemoveDisbanded(w) \/ RemoveEmptied(w)
  <2> DEFINE e == Event("DISBAND", j.pid, j.chr)
  <2>1. JobOK(Buffered(j, e)) /\ Busy(Buffered(j, e))
    BY <1>0, <1>1, BufferedOK DEF Busy
  <2>2. JobOK(Done(Buffered(j, e))) /\ JobOK(Done(j))
    BY <1>0, <1>1, <2>1, Ended
  <2>3. /\ RemoveParty(j.pid)
        /\ Become(w, Done(Buffered(j, e))) \/ Become(w, Done(j))
        /\ UNCHANGED invites
    BY <1>4 DEF RemoveDisbanded, RemoveEmptied
  <2>4. JobsOK'
    BY <2>2, <2>3, Became DEF ServiceInv
  <2> QED BY <1>0, <2>3, <2>4 DEF Orderly, RegistryNext, ServiceInv, InvitesOK
<1> QED BY <1>2, <1>3, <1>4 DEF EndSteps

LeadSteps(w) == LeadGetActor(w) \/ LeadCheck(w) \/ LeadSet(w)

LEMMA LeadOrderly ==
  ASSUME ServiceInv, NEW w \in Workers, LeadSteps(w)
  PROVE  Orderly
<1> DEFINE j == job[w]
<1>0. JobOK(j) /\ j.pid \in PartyIds /\ RegistryInv
  BY Working DEF ServiceInv
<1>1. Busy(j) /\ j.chr \in Characters
  BY Working DEF LeadSteps, LeadGetActor, LeadCheck, LeadSet, At, Resting
<1>2. JobOK(Refuse(j)) /\ JobOK(Fail(j))
  BY <1>0, <1>1, Ended
<1>3. JobOK(Goto(j, "lead.chr")) /\ JobOK(Goto(j, "lead.set"))
  BY <1>0, <1>1, Moved DEF Creating
<1>4. CASE LeadGetActor(w)
  <2> DEFINE found == [Goto(j, "lead.chr") EXCEPT !.rec = Obtained(w, j.chr)]
  <2>1. JobOK(found)
    BY <1>3, Noted
  <2>2. GetById(w, j.chr, found, Fail(j))
    BY <1>4 DEF LeadGetActor
  <2> HIDE DEF found
  <2> QED BY <1>2, <2>1, <2>2, GetByIdOrderly, Quietly
<1>5. CASE LeadCheck(w)
  <2>1. PICK found : JobOK(found) /\ GetById(w, j.chr, found, Fail(j))
    BY <1>2, <1>3, <1>5 DEF LeadCheck
  <2> QED BY <1>2, <2>1, GetByIdOrderly, Quietly
<1>6. CASE LeadSet(w)
  <2>1. ASSUME NEW k, JobOK(k), Busy(k), NEW e
        PROVE  JobOK(Done(Buffered(k, e)))
    <3>1. JobOK(Buffered(k, e)) /\ Busy(Buffered(k, e))
      BY <2>1, BufferedOK DEF Busy
    <3> QED BY <3>1, Ended
  <2>2. ASSUME NEW e
        PROVE  JobOK(Buffered(j, e)) /\ Busy(Buffered(j, e))
    BY <1>0, <1>1, BufferedOK DEF Busy
  <2>3. PICK done, refused :
          /\ JobOK(done) /\ JobOK(refused)
          /\ SetParty(w, j.pid, Appointing(j.chr), done, refused)
    BY <1>0, <1>1, <1>6, <2>1, <2>2 DEF LeadSet
  <2>4. Appointing(j.chr) \in Updaters
    BY <1>1, IsUpdater
  <2> QED BY <1>0, <2>3, <2>4, SetPartyOrderly
<1> QED BY <1>4, <1>5, <1>6 DEF LeadSteps

InviteSteps(w) ==
  \/ InviteGetActor(w) \/ InviteCheck(w) \/ InviteGetParty(w) \/ InviteSend(w)

LEMMA InviteOrderly ==
  ASSUME ServiceInv, NEW w \in Workers, InviteSteps(w)
  PROVE  Orderly
<1> DEFINE j == job[w]
<1>0. JobOK(j) /\ RegistryInv
  BY Working DEF ServiceInv
<1>1. Busy(j) /\ j.chr \in Characters
  BY Working
  DEF InviteSteps, InviteGetActor, InviteCheck, InviteGetParty, InviteSend, At, Resting
<1>2. JobOK(Refuse(j)) /\ JobOK(Fail(j)) /\ JobOK(Done(j))
  BY <1>0, <1>1, Ended
<1>3. JobOK(Goto(j, "invite.party")) /\ JobOK(Goto(j, "invite.send"))
  BY <1>0, <1>1, Moved DEF Creating
<1>4. CASE InviteGetActor(w)
  <2> DEFINE found == [Goto(j, "invite.chr") EXCEPT !.rec = Obtained(w, j.actor)]
  <2>1. JobOK(Goto(j, "invite.chr"))
    BY <1>0, <1>1, <1>4, Working, Moved DEF InviteGetActor, At, Creating
  <2>2. JobOK(found)
    BY <2>1, Noted
  <2>3. GetById(w, j.actor, found, Fail(j))
    BY <1>4 DEF InviteGetActor
  <2> HIDE DEF found
  <2> QED BY <1>2, <2>2, <2>3, GetByIdOrderly, Quietly
<1>5. CASE InviteCheck(w)
  <2>1. JobOK(Goto(j, "create"))
    BY <1>0, <1>1, <1>5, Working, Moved DEF InviteCheck, At, Creating
  <2>2. PICK found : JobOK(found) /\ GetById(w, j.chr, found, Fail(j))
    BY <1>2, <1>3, <1>5, <2>1 DEF InviteCheck
  <2> QED BY <1>2, <2>2, GetByIdOrderly, Quietly
<1>6. CASE InviteGetParty(w)
  <2> DEFINE found == [Goto(j, "invite.send") EXCEPT !.party = Lookup(j.rec.partyId)]
             failed == [Done(j) EXCEPT !.err = TRUE]
  <2>1. Lookup(j.rec.partyId).id \in PartyIds
    BY <1>0, LookedUp
  <2>2. JobOK(found) /\ JobOK(failed)
    BY <1>2, <1>3, <2>1, Holding, Noted
  <2>3. GetParty(w, j.rec.partyId, found, failed)
    BY <1>6 DEF InviteGetParty
  <2> HIDE DEF found, failed
  <2> QED BY <2>2, <2>3, GetPartyOrderly, Quietly
<1>7. CASE InviteSend(w)
  <2>1. /\ Become(w, Refuse(j)) \/ Become(w, Done(j)) \/ Become(w, Fail(j))
        /\ \/ UNCHANGED invites
           \/ invites' = invites \cup {[pid |-> j.party.id, chr |-> j.chr]}
        /\ UNCHANGED registryVars
    BY <1>7 DEF InviteSend
  <2>2. JobsOK'
    BY <1>2, <2>1, Became DEF ServiceInv
  <2>3. [pid |-> j.party.id, chr |-> j.chr] \in [pid : PartyIds, chr : Characters]
    BY <1>0, <1>1 DEF JobOK
  <2>4. InvitesOK'
    BY <2>1, <2>3 DEF ServiceInv, InvitesOK
  <2> QED BY <2>1, <2>2, <2>4 DEF Orderly
<1> QED BY <1>4, <1>5, <1>6, <1>7 DEF InviteSteps

LEMMA Named ==
  ASSUME NEW op, NEW pc, NEW actor, NEW p \in PartyIds, NEW c \in Characters,
         op \notin {"none", "VIEW"}, op \in Creators => actor \in Characters,
         pc \in Creating => op \in Creators
  PROVE  JobOK(Job(op, pc, actor, p, c))
  BY PartyIdsAssumption
  DEF Job, JobOK, NoJob, Fields, Busy, Creators, Creating, ZeroParty

DeletionSteps(w) ==
  \/ DeletedGetParty(w) \/ DeleteGet(w) \/ DeleteLeaveGet(w) \/ DeleteLeaveClear(w)
  \/ DeleteDrop(w)

LEMMA DeletionOrderly ==
  ASSUME ServiceInv, NEW w \in Workers, DeletionSteps(w)
  PROVE  Orderly
<1> DEFINE j == job[w]
<1>0. JobOK(j) /\ RegistryInv
  BY Working DEF ServiceInv
<1>1. Busy(j) /\ j.chr \in Characters
  BY Working
  DEF DeletionSteps, DeletedGetParty, DeleteGet, DeleteLeaveGet, DeleteLeaveClear, DeleteDrop,
      At, Resting
<1>2. \A pc \in {"leave", "delete.get", "delete.clear", "delete.drop"} : JobOK(Goto(j, pc))
  BY <1>0, <1>1, Moved DEF Creating
<1>3. ASSUME Forget(w), UNCHANGED registryVars
      PROVE  Orderly
  BY <1>3, NoJobOK, Became DEF Forget, Orderly, ServiceInv, InvitesOK
<1>4. CASE DeletedGetParty(w)
  <2> DEFINE p == PartyOf(j.chr).id
             k == [Goto(j, "leave") EXCEPT !.pid = p]
  <2>1. p \in PartyIds
    BY <1>0, LookedUp, PartyIdsAssumption DEF PartyOf, ZeroParty
  <2>2. Become(w, k) /\ UNCHANGED <<registryVars, invites>>
    BY <1>4 DEF DeletedGetParty
  <2> HIDE DEF p
  <2>3. JobOK(k)
    BY <1>2, <2>1 DEF JobOK, Fields, Busy
  <2> HIDE DEF k
  <2> QED BY <2>2, <2>3, Became DEF Orderly, ServiceInv, InvitesOK
<1>5. CASE DeleteGet(w)
  <2>1. CASE Forget(w)
    BY <2>1, <1>3 DEF Forget
  <2>2. CASE \E found : JobOK(found) /\ GetCharacter(w, j.chr, found, j)
    BY <1>0, <2>2, GetCharacterOrderly, Quietly
  <2> QED BY <1>2, <1>5, <2>1, <2>2 DEF DeleteGet
<1>6. CASE DeleteLeaveGet(w)
  <2>1. CASE Forget(w)
    BY <2>1, <1>3 DEF Forget
  <2>2. CASE \E found : JobOK(found) /\ GetCharacter(w, j.chr, found, j)
    BY <1>0, <2>2, GetCharacterOrderly, Quietly
  <2> DEFINE found == [Goto(j, "delete.clear") EXCEPT !.rec = Character(j.chr)]
  <2>3. JobOK(found)
    BY <1>2, Noted
  <2>4. Forget(w) \/ GetCharacter(w, j.chr, found, j)
    BY <1>6 DEF DeleteLeaveGet
  <2> HIDE DEF found
  <2> QED BY <2>1, <2>2, <2>3, <2>4
<1>7. CASE DeleteLeaveClear(w)
  <2>1. SetCharacter(w, LeaveParty(Target(w)), Goto(j, "delete.drop"))
    BY <1>7 DEF DeleteLeaveClear
  <2> QED BY <1>2, <2>1, SetCharacterOrderly, Quietly
<1>8. CASE DeleteDrop(w)
  BY <1>8, <1>3 DEF DeleteDrop, Forget
<1> QED BY <1>4, <1>5, <1>6, <1>7, <1>8 DEF DeletionSteps

OtherSteps(w) == MapGet(w) \/ MapSet(w) \/ ViewGet(w) \/ ViewMember(w) \/ Return(w)

LEMMA OtherOrderly ==
  ASSUME ServiceInv, NEW w \in Workers, OtherSteps(w)
  PROVE  Orderly
<1> DEFINE j == job[w]
<1>0. JobOK(j)
  BY Working
<1>1. CASE MapGet(w)
  <2> DEFINE found == [Goto(j, "map.set") EXCEPT !.rec = Obtained(w, j.chr)]
  <2>1. Busy(j)
    BY <1>1, Working DEF MapGet, At, Resting
  <2>2. JobOK(Goto(j, "map.set")) /\ JobOK(Done(j))
    BY <1>0, <2>1, Moved, Ended DEF Creating
  <2>3. JobOK(found)
    BY <2>2, Noted
  <2>4. GetById(w, j.chr, found, Done(j))
    BY <1>1 DEF MapGet
  <2> HIDE DEF found
  <2> QED BY <2>2, <2>3, <2>4, GetByIdOrderly, Quietly
<1>2. CASE MapSet(w)
  <2>1. JobOK(Done(j))
    BY <1>0, <1>2, Working, Ended DEF MapSet, At, Resting
  <2>2. SetCharacter(w, ChangeMap(Target(w), j.map), Done(j))
    BY <1>2 DEF MapSet
  <2> QED BY <2>1, <2>2, SetCharacterOrderly, Quietly
<1>3. CASE ViewGet(w)
  <2>1. ASSUME NEW list
        PROVE  JobOK([Goto(j, "view.member") EXCEPT !.todo = list])
    BY <1>0 DEF JobOK, Goto, Fields, Busy, Creating
  <2>2. PICK k : JobOK(k) /\ Become(w, k)
    BY <1>3, <2>1, NoJobOK DEF ViewGet
  <2> QED BY <1>3, <2>2, Became DEF ViewGet, Orderly, ServiceInv, InvitesOK
<1>4. CASE ViewMember(w)
  <2>1. ASSUME NEW list
        PROVE  JobOK([j EXCEPT !.todo = list])
    BY <1>0, Noted
  <2>2. PICK c, found : JobOK(found) /\ GetById(w, c, found, NoJob)
    BY <1>4, <2>1, NoJobOK DEF ViewMember
  <2> QED BY <2>2, NoJobOK, GetByIdOrderly, Quietly
<1>5. CASE Return(w)
  <2> DEFINE k == Job("DELETED", "delete", j.actor, NoParty, j.chr)
  <2>1. j.op = "DELETED" => JobOK(k)
    BY <1>0, Named, PartyIdsAssumption DEF JobOK, Busy, Creators, Creating
  <2>2. Become(w, IF j.op = "DELETED" THEN k ELSE NoJob) /\ UNCHANGED <<registryVars, invites>>
    BY <1>5 DEF Return
  <2> HIDE DEF k
  <2>3. JobsOK'
    BY <2>1, <2>2, NoJobOK, Became DEF ServiceInv
  <2> QED BY <2>2, <2>3 DEF Orderly, ServiceInv, InvitesOK
<1> QED BY <1>1, <1>2, <1>3, <1>4, <1>5 DEF OtherSteps

LEMMA IncomingOK ==
  ASSUME InvitesOK, NEW j \in Incoming
  PROVE  JobOK(j)
<1> USE ServiceAssumption, PartyIdsAssumption DEF Creators, Creating
<1>1. CASE \E c \in Characters : j = PostParty(c)
  BY <1>1, Named DEF PostParty
<1>2. CASE \E p \in CommandIds, c \in Characters :
             j \in {PostMember(p, c), DeleteMember(p, c), Job("EXPEL", "leave", c, p, c),
                   PatchParty(p, c)}
  BY <1>2, Named DEF PostMember, DeleteMember, PatchParty
<1>3. CASE \E a \in Characters, p \in CommandIds, c \in Characters :
             j = Job("CHANGE_LEADER", "lead", a, p, c)
  BY <1>3, Named
<1>4. CASE \E p \in CommandIds : j = Job("VIEW", "view", NoCharacter, p, NoCharacter)
  BY <1>4 DEF Job, NoJob, JobOK, Fields, Busy, ZeroParty
<1>5. CASE \E a \in Characters, c \in Characters :
             j = Job("REQUEST_INVITE", "invite", a, NoParty, c)
  BY <1>5, Named
<1>6. CASE \E i \in invites : j = Job("ACCEPTED", "join", i.chr, i.pid, i.chr)
  <2>1. PICK i \in invites : j = Job("ACCEPTED", "join", i.chr, i.pid, i.chr)
    BY <1>6
  <2>2. i.pid \in PartyIds /\ i.chr \in Characters
    BY DEF InvitesOK
  <2> QED BY <2>1, <2>2, Named
<1>7. CASE \E c \in Characters : j = Job("DELETED", "deleted", c, NoParty, c)
  BY <1>7, Named
<1>8. CASE \E m \in Maps, c \in Characters :
             j = [Job("MAP_CHANGED", "map", c, NoParty, c) EXCEPT !.map = m]
  <2>1. PICK m \in Maps, c \in Characters :
          j = [Job("MAP_CHANGED", "map", c, NoParty, c) EXCEPT !.map = m]
    BY <1>8
  <2>2. JobOK(Job("MAP_CHANGED", "map", c, NoParty, c))
    BY Named
  <2> QED BY <2>1, <2>2 DEF JobOK, Fields, Busy
<1> QED BY <1>1, <1>2, <1>3, <1>4, <1>5, <1>6, <1>7, <1>8 DEF Incoming

LEMMA WorkOrderly ==
  ASSUME ServiceInv, NEW w \in Workers, Work(w)
  PROVE  Orderly
<1>1. \/ CreateSteps(w) \/ JoinSteps(w) \/ LeaveSteps(w) \/ EndSteps(w) \/ LeadSteps(w)
      \/ InviteSteps(w) \/ DeletionSteps(w) \/ OtherSteps(w)
  BY DEF Work, CreateSteps, JoinSteps, LeaveSteps, EndSteps, LeadSteps, InviteSteps,
         DeletionSteps, OtherSteps
<1> QED BY <1>1, CreateOrderly, JoinOrderly, LeaveOrderly, EndOrderly, LeadOrderly,
           InviteOrderly, DeletionOrderly, OtherOrderly

-----------------------------------------------------------------------------
(***************************************************************************)
(* What any step of the service does to the party registry, and what       *)
(* follows for every run of it.                                            *)
(***************************************************************************)

LEMMA ServiceStep ==
  ASSUME ServiceInv, Next, ~Restart
  PROVE  Orderly
<1>1. CASE \E w \in Workers : Work(w)
  BY <1>1, WorkOrderly
<1>2. CASE \E w \in Workers : \E j \in Incoming : Receive(w, j)
  <2>1. PICK w \in Workers, j \in Incoming : Receive(w, j)
    BY <1>2
  <2>2. JobOK(j)
    BY IncomingOK DEF ServiceInv
  <2> QED BY <2>1, <2>2, Became DEF Receive, Orderly, ServiceInv, InvitesOK
<1>3. CASE \E c \in Mortal : Vanish(c)
  BY <1>3 DEF Vanish, Orderly, ServiceInv, JobsOK, InvitesOK
<1> QED BY <1>1, <1>2, <1>3 DEF Next

LEMMA Restarted == Restart => RegistryInit' /\ JobsOK' /\ invites' = invites
  BY NoJobOK DEF Restart, RegistryInit, JobsOK

LEMMA ServiceInvariant == Spec => []ServiceInv
<1>1. Init => ServiceInv
  BY RegistryInitInv, NoJobOK DEF Init, ServiceInv, JobsOK, InvitesOK
<1>2. ServiceInv /\ [Next]_vars => ServiceInv'
  <2> SUFFICES ASSUME ServiceInv, [Next]_vars
               PROVE  ServiceInv'
    OBVIOUS
  <2>1. CASE Next /\ ~Restart
    BY <2>1, ServiceStep, RegistryNextInv DEF Orderly, ServiceInv
  <2>2. CASE Restart
    <3>1. RegistryInit' => RegistryInv'
      BY RegistryInitInv, PTL
    <3> QED BY <2>2, <3>1, Restarted DEF ServiceInv, InvitesOK
  <2>3. CASE UNCHANGED vars
    <3>1. UNCHANGED registryVars /\ UNCHANGED <<job, invites>>
      BY <2>3 DEF vars, serviceVars
    <3>2. RegistryInv'
      BY <3>1, RegistryNextInv DEF ServiceInv
    <3> QED BY <3>1, <3>2 DEF ServiceInv, JobsOK, InvitesOK
  <2> QED BY <2>1, <2>2, <2>3
<1> QED BY <1>1, <1>2, PTL DEF Spec

\* Whatever the topics and the REST resource hand to however many handlers, and
\* however often the process is killed: no two parties share an id, the index never
\* sends a character to a party it is not in, no party exceeds the capacity, and
\* an invitation names an existing character and an id a party can have.
THEOREM ServiceKeepsRegistry ==
  Spec => [](RegistryTypeOK /\ UniqueIds /\ IndexSound /\ WithinCapacity /\ InvitesOK)
<1>1. ServiceInv => RegistryTypeOK /\ UniqueIds /\ IndexSound /\ WithinCapacity /\ InvitesOK
  BY DEF ServiceInv, RegistryInv
<1> QED BY <1>1, ServiceInvariant, PTL

-----------------------------------------------------------------------------
(***************************************************************************)
(* What the service lists it has looked up: a second invariant, also for   *)
(* any number of workers.                                                  *)
(***************************************************************************)

\* A character that a lookup never stores (again): it is cached, or the character service
\* does not answer for it any more.
Known(c) == Cached(c) \/ foreign[c] # "alive"

\* Where a handler may still add its character to a party, on the strength of its lookup.
Relying == {"join.party", "join.add", "leave.party", "leave.remove", "leave.get", "leave.undo"}

Viewing == {"view", "view.member"}

KnownOK(j) ==
  /\ j.pc \in Viewing => j.op = "VIEW"
  /\ j.pc \in Relying => Known(j.chr)
  /\ j.pc = "create.alloc" => Known(j.actor)
  /\ j.op = "VIEW" =>
       /\ j.fetched = ZeroCharacter
       /\ \A c \in DOMAIN j.todo : c \in Characters /\ Known(c)

PartiesKnown ==
  /\ \A p \in DOMAIN partyReg : \A c \in Members(partyReg[p]) : Known(c)
  /\ \A m \in creating : \A c \in Members(m) : Known(c)

KnownInv ==
  /\ DOMAIN foreign = Characters
  /\ PartiesKnown
  /\ \A w \in Workers : KnownOK(job[w])

\* What is known stays known.
Lasting == DOMAIN foreign' = Characters /\ \A c \in Characters : Known(c) => Known(c)'

LEMMA Recording ==
  ASSUME KnownInv, UNCHANGED foreign, DOMAIN charReg \subseteq DOMAIN charReg'
  PROVE  Lasting
  BY DEF KnownInv, Lasting, Known, Cached

\* The jobs of the others, and the parties that are not touched.
LEMMA OthersKnown ==
  ASSUME ServiceInv, KnownInv, Lasting, NEW w \in Workers
  PROVE  KnownOK(job[w])'  \/ job'[w] # job[w]
<1>1. PICK j : j = job[w] /\ JobOK(j) /\ KnownOK(j)
  BY Working DEF KnownInv
<1>2. j.pc \in Relying => j.chr \in Characters
  BY <1>1, Working DEF Relying, Resting
<1>3. j.pc = "create.alloc" => j.actor \in Characters
  BY <1>1, Working DEF Creating
<1>4. KnownOK(j)'
  BY <1>1, <1>2, <1>3 DEF KnownOK, Lasting
<1> QED BY <1>1, <1>4 DEF KnownOK, Known, Cached

LEMMA ListedCharacters ==
  ASSUME RegistryInv
  PROVE  /\ \A p : Members(Lookup(p)) \subseteq Characters
         /\ \A p \in DOMAIN partyReg : Members(partyReg[p]) \subseteq Characters
         /\ \A m \in creating : Members(m) \subseteq Characters
<1>1. /\ \A p \in DOMAIN partyReg : Members(partyReg[p]) \subseteq Characters
      /\ \A m \in creating : Members(m) \subseteq Characters
  BY DEF RegistryInv, RegistryTypeOK, IsParty, IsMemberList, Members
<1>2. Members(ZeroParty) = {}
  BY DEF Members, ZeroParty, EmptyMap
<1> QED BY <1>1, <1>2 DEF Lookup

LEMMA PartiesStay ==
  ASSUME RegistryInv, PartiesKnown, Lasting, UNCHANGED registryVars
  PROVE  PartiesKnown'
<1>1. UNCHANGED partyReg /\ UNCHANGED creating
  BY DEF registryVars
<1> QED BY <1>1, ListedCharacters DEF PartiesKnown, Lasting, Members

\* The next job of a handler of a message.
LEMMA KnownLanded ==
  ASSUME ServiceInv, KnownInv, Lasting, PartiesKnown', NEW w \in Workers, NEW k, Become(w, k),
         KnownOK(k)'
  PROVE  KnownInv'
<1>1. /\ job'[w] = k /\ \A v \in Workers \ {w} : job'[v] = job[v]
  BY DEF Become, ServiceInv, JobsOK
<1>2. ASSUME NEW v \in Workers
      PROVE  KnownOK(job[v])'
  <2>1. CASE v = w
    BY <1>1, <2>1 DEF KnownOK, Known, Cached
  <2>2. CASE v # w
    BY <1>1, <2>2, OthersKnown
  <2> QED BY <2>1, <2>2
<1> QED BY <1>2 DEF KnownInv, Lasting

\* A place where nothing is relied on.
Reliable(k) ==
  /\ k.op # "VIEW" /\ k.pc \notin Viewing
  /\ k.pc \in Relying => Known(k.chr)'
  /\ k.pc = "create.alloc" => Known(k.actor)'

LEMMA ReliableOK ==
  ASSUME NEW k, Reliable(k)
  PROVE  KnownOK(k)'
  BY DEF Reliable, KnownOK

LEMMA QuietKnown ==
  ASSUME ServiceInv, KnownInv, UNCHANGED registryVars, Lasting,
         NEW w \in Workers, NEW k, Become(w, k), Reliable(k)
  PROVE  KnownInv'
  BY KnownLanded, ReliableOK, PartiesStay DEF KnownInv, ServiceInv

\* A lookup makes its character known where its handler goes on.
LEMMA LookupKnown ==
  ASSUME ServiceInv, KnownInv, NEW w \in Workers, NEW j, j = job[w], Busy(j),
         NEW c, NEW found, DOMAIN found = Fields, found.op = j.op, found.pc \notin Viewing,
         found.pc \in Relying => c = found.chr,
         found.pc = "create.alloc" => c = found.actor,
         NEW failed, failed.op = j.op, failed.pc \notin Relying \cup Viewing \cup {"create.alloc"},
         GetById(w, c, found, failed)
  PROVE  KnownInv'
<1>1. UNCHANGED registryVars /\ UNCHANGED foreign /\ JobOK(j) /\ j.op # "VIEW" /\ KnownOK(j)
  BY Working DEF GetById, Busy, KnownInv
<1>9. j.pc \notin Viewing
  BY <1>1 DEF KnownOK
<1>2. Lasting
  BY <1>1, Recording DEF GetById, CreateCharacter, Put
<1>3. CASE Become(w, found) /\ Cached(c)'
  BY <1>1, <1>2, <1>3, QuietKnown DEF Reliable, Known
<1>4. CASE Become(w, failed)
  BY <1>1, <1>2, <1>4, QuietKnown DEF Reliable
<1>5. CASE \E map \in Maps : Become(w, [j EXCEPT !.fetched = Fresh(c, map)])
  <2>1. PICK k : Become(w, k) /\ \E m : k = [j EXCEPT !.fetched = m]
    BY <1>5
  <2>2. k.op = j.op /\ k.pc = j.pc /\ k.chr = j.chr /\ k.actor = j.actor
    BY <1>1, <2>1 DEF JobOK, Fields
  <2>3. j.pc \in Relying => j.chr \in Characters
    BY Working DEF Relying, Resting
  <2>4. j.pc = "create.alloc" => j.actor \in Characters
    BY Working DEF Creating
  <2>5. Reliable(k)
    BY <1>1, <1>2, <1>9, <2>2, <2>3, <2>4 DEF Reliable, KnownOK, Lasting
  <2> QED BY <1>1, <1>2, <2>1, <2>5, QuietKnown
<1>6. CASE Become(w, [found EXCEPT !.fetched = ZeroCharacter]) /\ Cached(c)'
  <2>1. PICK k : k = [found EXCEPT !.fetched = ZeroCharacter]
    OBVIOUS
  <2>2. k.op = j.op /\ k.pc = found.pc /\ k.chr = found.chr /\ k.actor = found.actor
    BY <2>1 DEF Fields
  <2>3. Reliable(k)
    BY <1>1, <1>6, <2>2 DEF Reliable, Known
  <2> QED BY <1>1, <1>2, <1>6, <2>1, <2>3, QuietKnown
<1>7. Cached(c) /\ UNCHANGED charReg => Cached(c)'
  BY DEF Cached
<1>8. (\E map : CreateCharacter(c, map)) => Cached(c)'
  BY DEF CreateCharacter, Put, Cached
<1> QED BY <1>3, <1>4, <1>5, <1>6, <1>7, <1>8 DEF GetById

\* A job further on in its handler, of the same message.
Heads(j, k, pc) ==
  DOMAIN k = Fields /\ k.op = j.op /\ k.pc = pc /\ k.chr = j.chr /\ k.actor = j.actor

LEMMA Headed ==
  ASSUME NEW j, JobOK(j), NEW pc
  PROVE  /\ Heads(j, Goto(j, pc), pc)
         /\ \A v : /\ Heads(j, [Goto(j, pc) EXCEPT !.rec = v], pc)
                   /\ Heads(j, [Goto(j, pc) EXCEPT !.party = v], pc)
                   /\ Heads(j, [Goto(j, pc) EXCEPT !.pid = v], pc)
                   /\ Heads(j, [Goto(j, pc) EXCEPT !.disband = v], pc)
                   /\ Heads(j, Buffered(Goto(j, pc), v), pc)
                   /\ Heads(j, Goto(Buffered(j, v), pc), pc)
                   /\ \A u : Heads(j, [Goto(j, pc) EXCEPT !.party = v, !.todo = u], pc)
  BY DEF Heads, Goto, Buffered, JobOK, Fields

\* Handlers that end, or go on to the invitation.
LEMMA Quitted ==
  ASSUME NEW j, JobOK(j)
  PROVE  /\ Heads(j, Refuse(j), "return") /\ Heads(j, Fail(j), "return")
         /\ Heads(j, Done(j), "return")
         /\ Heads(j, [Done(j) EXCEPT !.err = TRUE], "return")
         /\ \A e : Heads(j, Done(Buffered(j, e)), "return")
         /\ \A e, f : Heads(j, Done(Buffered(Buffered(j, e), f)), "return")
         /\ \A m : \E pc \in {"return", "invite.send"} : Heads(j, CreateEnds(j, m), pc)
         /\ \E pc \in {"return", "invite.send"} : Heads(j, FailCreate(j), pc)
  BY DEF Heads, Goto, Buffered, JobOK, Fields, Refuse, Fail, Done, CreateEnds, FailCreate

LEMMA LookupHeads ==
  ASSUME ServiceInv, KnownInv, NEW w \in Workers, NEW j, j = job[w], Busy(j),
         NEW c, NEW pc, NEW found, Heads(j, found, pc), pc \notin Viewing,
         pc \in Relying => c = j.chr, pc = "create.alloc" => c = j.actor,
         NEW end, NEW failed, Heads(j, failed, end),
         end \notin Relying \cup Viewing \cup {"create.alloc"},
         GetById(w, c, found, failed)
  PROVE  KnownInv'
  BY LookupKnown DEF Heads

\* The steps that leave the party registry alone, other than lookups.
LEMMA QuietHeads ==
  ASSUME ServiceInv, KnownInv, UNCHANGED registryVars, Lasting,
         NEW w \in Workers, NEW j, j = job[w], Busy(j),
         NEW pc, NEW k, Heads(j, k, pc), pc \notin Viewing,
         pc \in Relying => Known(j.chr), pc # "create.alloc",
         Become(w, k)
  PROVE  KnownInv'
<1>1. pc \in Relying => j.chr \in Characters
  BY Working DEF Busy, JobOK
<1>2. Reliable(k)
  BY <1>1 DEF Reliable, Heads, Lasting, Busy
<1> QED BY <1>2, QuietKnown

\* The steps that change the party registry: whom they list is known.
LEMMA RegistryKnown ==
  ASSUME ServiceInv, KnownInv, UNCHANGED <<charReg, foreign>>,
         \A p \in DOMAIN partyReg' : \A c \in Members(partyReg'[p]) : Known(c),
         \A m \in creating' : \A c \in Members(m) : Known(c),
         NEW w \in Workers, NEW j, j = job[w], Busy(j),
         NEW pc, NEW k, Heads(j, k, pc), pc \notin Viewing,
         pc \in Relying => Known(j.chr), pc # "create.alloc",
         Become(w, k)
  PROVE  KnownInv'
<1>1. \A c : Known(c)' <=> Known(c)
  BY DEF Known, Cached
<1>2. Lasting
  BY <1>1 DEF Lasting, KnownInv
<1>3. PartiesKnown'
  BY <1>1 DEF PartiesKnown, Members
<1>4. Reliable(k)
  BY <1>1 DEF Reliable, Heads, Busy
<1> QED BY <1>2, <1>3, <1>4, KnownLanded, ReliableOK

LEMMA MembersKnown ==
  ASSUME KnownInv, NEW p
  PROVE  \A c \in Members(Lookup(p)) : Known(c)
<1>1. Members(ZeroParty) = {}
  BY DEF Members, ZeroParty, EmptyMap
<1> QED BY <1>1 DEF Lookup, KnownInv, PartiesKnown

LEMMA NewMembers ==
  ASSUME RegistryInv, NEW p, NEW c \in Characters
  PROVE  /\ Members(Updated(p, Adding(c))) = Members(Lookup(p)) \cup {c}
         /\ Members(Updated(p, Removing(c))) = Members(Lookup(p)) \ {c}
         /\ Members(Updated(p, Appointing(c))) = Members(Lookup(p))
<1>1. PICK m : m = Lookup(p) /\ IsParty(m)
  BY LookupParty DEF RegistryInv
<1>2. /\ DOMAIN BagAdd(m.members, c) = Members(m) \cup {c}
      /\ DOMAIN BagRemoveAll(m.members, c) = Members(m) \ {c}
  BY <1>1, AddedMember, RemovedMember DEF IsParty, Members
<1>3. /\ Updated(p, Adding(c)).members = BagAdd(m.members, c)
      /\ Updated(p, Removing(c)).members = BagRemoveAll(m.members, c)
      /\ Updated(p, Appointing(c)).members = m.members
  BY <1>1
  DEF Updated, Apply, Adding, Removing, Appointing, AddMember, RemoveMember, SetLeader, IsParty
<1> QED BY <1>1, <1>2, <1>3 DEF Members

\* An update that adds nobody who is not known.
LEMMA SetPartyKnown ==
  ASSUME ServiceInv, KnownInv, NEW w \in Workers, NEW j, j = job[w], Busy(j),
         NEW p, NEW u, \A c \in Members(Updated(p, u)) : Known(c),
         NEW pc, NEW done, Heads(j, done, pc), pc \notin Viewing,
         pc \in Relying => Known(j.chr), pc # "create.alloc",
         NEW end, NEW refused, Heads(j, refused, end),
         end \notin Relying \cup Viewing \cup {"create.alloc"},
         SetParty(w, p, u, done, refused)
  PROVE  KnownInv'
<1>1. UNCHANGED <<charReg, foreign>>
  BY DEF SetParty
<1>2. CASE UpdateParty(p, u) /\ Become(w, done)
  <2>1. \A q \in DOMAIN partyReg' : \A c \in Members(partyReg'[q]) : Known(c)
    <3>1. \A q \in DOMAIN partyReg' :
            partyReg'[q] = Updated(p, u) \/ (q \in DOMAIN partyReg /\ partyReg'[q] = partyReg[q])
      BY <1>2 DEF UpdateParty, Put
    <3> QED BY <3>1 DEF KnownInv, PartiesKnown
  <2>2. \A m \in creating' : \A c \in Members(m) : Known(c)
    BY <1>2 DEF UpdateParty, KnownInv, PartiesKnown
  <2> QED BY <1>1, <1>2, <2>1, <2>2, RegistryKnown
<1>3. CASE UNCHANGED registryVars /\ Become(w, refused)
  <2>1. Lasting
    BY <1>1 DEF Lasting, KnownInv, Known, Cached
  <2> QED BY <1>3, <2>1, QuietHeads
<1> QED BY <1>2, <1>3 DEF SetParty

-----------------------------------------------------------------------------
(* The handlers, one lemma each.                                           *)

\* Where a handler relies on nothing.
Unbound ==
  {"return", "enter", "enter.set", "join.undo", "lead.chr", "invite.chr", "invite.send",
   "map.set"}

LEMMA NothingRelied == Unbound \cap (Relying \cup Viewing \cup {"create.alloc"}) = {}
  BY DEF Unbound, Relying, Viewing

LEMMA CreateKnown ==
  ASSUME ServiceInv, KnownInv, NEW w \in Workers, CreateSteps(w)
  PROVE  KnownInv'
<1> DEFINE j == job[w]
<1>1. JobOK(j) /\ Busy(j) /\ KnownOK(j) /\ RegistryInv
  BY Working
  DEF CreateSteps, CreateCheck, CreateAllocate, CreateStore, EnterCheck, EnterSet, At, Resting,
      KnownInv, ServiceInv
<1>2. CASE CreateCheck(w)
  <2>1. PICK barred \in BOOLEAN :
          GetById(w, j.actor,
                  IF Obtained(w, j.actor).partyId # NoParty \/ barred
                  THEN Refuse(j) ELSE Goto(j, "create.alloc"),
                  FailCreate(j))
    BY <1>2 DEF CreateCheck
  <2> DEFINE found == IF Obtained(w, j.actor).partyId # NoParty \/ barred
                      THEN Refuse(j) ELSE Goto(j, "create.alloc")
  <2>2. PICK pc \in {"return", "create.alloc"} : Heads(j, found, pc)
    BY <1>1, Headed, Quitted
  <2>3. PICK end \in {"return", "invite.send"} : Heads(j, FailCreate(j), end)
    BY <1>1, Quitted
  <2> HIDE DEF found
  <2> QED BY <1>1, <2>1, <2>2, <2>3, LookupHeads DEF found, Relying, Viewing
<1>3. CASE CreateAllocate(w)
  <2> DEFINE n == NewParty(NextId, j.actor)
             k == [Goto(j, "create.store") EXCEPT !.party = n]
  <2>1. /\ AllocatePartyId(j.actor) /\ Become(w, k) /\ UNCHANGED <<charReg, foreign>>
        /\ Known(j.actor) /\ j.actor \in Characters
    BY <1>1, <1>3, Working DEF CreateAllocate, At, KnownOK, Creating
  <2>2. Members(n) = {j.actor}
    <3>1. NextId \in Nat
      BY <2>1, PartyIdsAssumption DEF AllocatePartyId
    <3> QED BY <2>1, <3>1, CreatedParty
  <2>3. Heads(j, k, "create.store")
    BY <1>1, Headed
  <2> HIDE DEF n, k
  <2>4. \A p \in DOMAIN partyReg' : \A c \in Members(partyReg'[p]) : Known(c)
    BY <2>1 DEF AllocatePartyId, EmptyMap, KnownInv, PartiesKnown
  <2>5. \A m \in creating' : \A c \in Members(m) : Known(c)
    BY <2>1, <2>2 DEF AllocatePartyId, KnownInv, PartiesKnown, n
  <2> QED BY <1>1, <2>1, <2>3, <2>4, <2>5, RegistryKnown DEF Relying, Viewing
<1>4. CASE CreateStore(w)
  <2> DEFINE k == Buffered(Goto(j, "enter"), Event("CREATED", j.party.id, j.actor))
  <2>1. StoreParty(j.party) /\ Become(w, k) /\ UNCHANGED <<charReg, foreign>>
    BY <1>4 DEF CreateStore
  <2>2. Heads(j, k, "enter")
    BY <1>1, Headed
  <2> HIDE DEF k
  <2>3. /\ \A p \in DOMAIN partyReg' : \A c \in Members(partyReg'[p]) : Known(c)
        /\ \A m \in creating' : \A c \in Members(m) : Known(c)
    BY <2>1 DEF StoreParty, Put, KnownInv, PartiesKnown
  <2> QED BY <1>1, <2>1, <2>2, <2>3, RegistryKnown DEF Relying, Viewing
<1>5. CASE EnterCheck(w)
  <2> DEFINE c == IF Joins(j) THEN j.chr ELSE j.actor
             found == [Goto(j, "enter.set") EXCEPT !.rec = Obtained(w, c)]
             failed == IF Joins(j) THEN Goto(j, "join.undo") ELSE FailCreate(j)
  <2>1. GetById(w, c, found, failed)
    BY <1>5 DEF EnterCheck
  <2>2. Heads(j, found, "enter.set")
    BY <1>1, Headed
  <2>3. PICK end \in {"return", "invite.send", "join.undo"} : Heads(j, failed, end)
    BY <1>1, Headed, Quitted
  <2>4. /\ end \notin Relying \cup Viewing \cup {"create.alloc"}
        /\ "enter.set" \notin Relying \cup Viewing \cup {"create.alloc"}
    BY <2>3, NothingRelied DEF Unbound
  <2> HIDE DEF c, found, failed
  <2> QED BY <1>1, <2>1, <2>2, <2>3, <2>4, LookupHeads
<1>6. CASE EnterSet(w)
  <2>1. PICK p, k :
          /\ SetCharacter(w, p, k)
          /\ k = IF Joins(j) THEN Done(Buffered(j, Event("JOINED", j.party.id, j.chr)))
                 ELSE CreateEnds(j, j.party)
    BY <1>6 DEF EnterSet
  <2>2. PICK pc \in {"return", "invite.send"} : Heads(j, k, pc)
    BY <1>1, <2>1, Quitted
  <2>3. Become(w, k) /\ UNCHANGED registryVars /\ Lasting
    BY <2>1, Recording DEF SetCharacter, UpdateCharacter, Put
  <2> QED BY <1>1, <2>2, <2>3, QuietHeads DEF Relying, Viewing
<1> QED BY <1>2, <1>3, <1>4, <1>5, <1>6 DEF CreateSteps

LEMMA JoinKnown ==
  ASSUME ServiceInv, KnownInv, NEW w \in Workers, JoinSteps(w)
  PROVE  KnownInv'
<1> DEFINE j == job[w]
<1>1. JobOK(j) /\ Busy(j) /\ KnownOK(j) /\ RegistryInv /\ j.chr \in Characters
  BY Working
  DEF JoinSteps, JoinCheck, JoinGetParty, JoinAdd, JoinUndo, At, Resting, KnownInv, ServiceInv
<1>2. Heads(j, Refuse(j), "return") /\ Heads(j, Fail(j), "return")
  BY <1>1, Quitted
<1>3. CASE JoinCheck(w)
  <2> DEFINE found == IF Obtained(w, j.chr).partyId # NoParty
                      THEN Refuse(j) ELSE Goto(j, "join.party")
  <2>1. PICK pc \in {"return", "join.party"} : Heads(j, found, pc)
    BY <1>1, <1>2, Headed
  <2>2. GetById(w, j.chr, found, Fail(j))
    BY <1>3 DEF JoinCheck
  <2> HIDE DEF found
  <2> QED BY <1>1, <1>2, <2>1, <2>2, LookupHeads DEF Relying, Viewing
<1>4. CASE JoinGetParty(w)
  <2>1. PICK k : Become(w, k) /\ k \in {Fail(j), Refuse(j), Goto(j, "join.add")}
    BY <1>4 DEF JoinGetParty, GetParty
  <2>2. PICK pc \in {"return", "join.add"} : Heads(j, k, pc)
    BY <1>1, <1>2, <2>1, Headed
  <2>3. UNCHANGED registryVars /\ Lasting /\ Known(j.chr)
    BY <1>1, <1>4, Recording DEF JoinGetParty, GetParty, At, KnownOK, Relying
  <2> QED BY <1>1, <2>1, <2>2, <2>3, QuietHeads DEF Viewing
<1>5. CASE JoinAdd(w)
  <2> DEFINE done == [Goto(j, "enter") EXCEPT !.party = Updated(j.pid, Adding(j.chr))]
  <2>1. SetParty(w, j.pid, Adding(j.chr), done, Fail(j)) /\ Known(j.chr)
    BY <1>1, <1>5 DEF JoinAdd, At, KnownOK, Relying
  <2>2. \A c \in Members(Updated(j.pid, Adding(j.chr))) : Known(c)
    BY <1>1, <2>1, NewMembers, MembersKnown
  <2>3. Heads(j, done, "enter")
    BY <1>1, Headed
  <2>4. {"enter", "return"} \cap (Relying \cup Viewing \cup {"create.alloc"}) = {}
    BY NothingRelied DEF Unbound
  <2> HIDE DEF done
  <2> QED BY <1>1, <1>2, <2>1, <2>2, <2>3, <2>4, SetPartyKnown
<1>6. CASE JoinUndo(w)
  <2>1. SetParty(w, j.pid, Removing(j.chr), Fail(j), Fail(j))
    BY <1>6 DEF JoinUndo
  <2>2. \A c \in Members(Updated(j.pid, Removing(j.chr))) : Known(c)
    BY <1>1, NewMembers, MembersKnown
  <2> QED BY <1>1, <1>2, <2>1, <2>2, SetPartyKnown DEF Relying, Viewing
<1> QED BY <1>3, <1>4, <1>5, <1>6 DEF JoinSteps

LEMMA LeaveKnown ==
  ASSUME ServiceInv, KnownInv, NEW w \in Workers, LeaveSteps(w)
  PROVE  KnownInv'
<1> DEFINE j == job[w]
<1>1. JobOK(j) /\ Busy(j) /\ KnownOK(j) /\ RegistryInv /\ j.chr \in Characters
  BY Working
  DEF LeaveSteps, LeaveCheck, LeaveGetParty, LeaveRemove, LeaveGet, LeaveClear, LeaveUndo,
      At, Resting, KnownInv, ServiceInv
<1>2. Heads(j, Refuse(j), "return") /\ Heads(j, Fail(j), "return")
  BY <1>1, Quitted
<1>3. CASE LeaveCheck(w)
  <2> DEFINE found == IF Obtained(w, j.chr).partyId # j.pid
                      THEN Refuse(j) ELSE Goto(j, "leave.party")
  <2>1. PICK pc \in {"return", "leave.party"} : Heads(j, found, pc)
    BY <1>1, <1>2, Headed
  <2>2. GetById(w, j.chr, found, Fail(j))
    BY <1>3 DEF LeaveCheck
  <2> HIDE DEF found
  <2> QED BY <1>1, <1>2, <2>1, <2>2, LookupHeads DEF Relying, Viewing
<1>4. CASE LeaveGetParty(w)
  <2>1. PICK k : /\ Become(w, k)
                 /\ k = Fail(j) \/ \E d : k = [Goto(j, "leave.remove") EXCEPT !.disband = d]
    BY <1>4 DEF LeaveGetParty, GetParty
  <2>4. \A d : Heads(j, [Goto(j, "leave.remove") EXCEPT !.disband = d], "leave.remove")
    BY <1>1, Headed
  <2>2. PICK pc \in {"return", "leave.remove"} : Heads(j, k, pc)
    BY <1>2, <2>1, <2>4
  <2>3. UNCHANGED registryVars /\ Lasting /\ Known(j.chr)
    BY <1>1, <1>4, Recording DEF LeaveGetParty, GetParty, At, KnownOK, Relying
  <2> QED BY <1>1, <2>1, <2>2, <2>3, QuietHeads DEF Viewing
<1>5. CASE LeaveRemove(w)
  <2> DEFINE m == Updated(j.pid, Removing(j.chr))
             done == [Goto(j, "leave.get") EXCEPT !.party = m, !.todo = m.members]
  <2>1. SetParty(w, j.pid, Removing(j.chr), done, Fail(j)) /\ Known(j.chr)
    BY <1>1, <1>5 DEF LeaveRemove, At, KnownOK, Relying
  <2>2. \A c \in Members(Updated(j.pid, Removing(j.chr))) : Known(c)
    BY <1>1, NewMembers, MembersKnown
  <2>3. Heads(j, done, "leave.get")
    BY <1>1, Headed
  <2> HIDE DEF done
  <2> QED BY <1>1, <1>2, <2>1, <2>2, <2>3, SetPartyKnown DEF Relying, Viewing
<1>6. CASE LeaveGet(w)
  <2>1. PICK k : Become(w, k) /\ (\/ k = Goto(j, "leave.undo")
                                  \/ \E v : k = [Goto(j, "leave.clear") EXCEPT !.rec = v])
    BY <1>6 DEF LeaveGet, GetCharacter
  <2>4. /\ Heads(j, Goto(j, "leave.undo"), "leave.undo")
        /\ \A v : Heads(j, [Goto(j, "leave.clear") EXCEPT !.rec = v], "leave.clear")
    BY <1>1, Headed
  <2>2. PICK pc \in {"leave.undo", "leave.clear"} : Heads(j, k, pc)
    BY <2>1, <2>4
  <2>3. UNCHANGED registryVars /\ Lasting /\ Known(j.chr)
    BY <1>1, <1>6, Recording DEF LeaveGet, GetCharacter, At, KnownOK, Relying
  <2> QED BY <1>1, <2>1, <2>2, <2>3, QuietHeads DEF Viewing
<1>7. CASE LeaveClear(w)
  <2>1. PICK v, k, e :
          /\ SetCharacter(w, v, k)
          /\ k \in {Goto(j, "disband"), Goto(Buffered(j, e), "expel.remove"), Done(Buffered(j, e))}
    BY <1>7 DEF LeaveClear
  <2>4. /\ Heads(j, Goto(j, "disband"), "disband")
        /\ Heads(j, Goto(Buffered(j, e), "expel.remove"), "expel.remove")
        /\ Heads(j, Done(Buffered(j, e)), "return")
    BY <1>1, Headed, Quitted
  <2>2. PICK pc \in {"disband", "expel.remove", "return"} : Heads(j, k, pc)
    BY <2>1, <2>4
  <2>3. Become(w, k) /\ UNCHANGED registryVars /\ Lasting
    BY <2>1, Recording DEF SetCharacter, UpdateCharacter, Put
  <2> QED BY <1>1, <2>2, <2>3, QuietHeads DEF Relying, Viewing
<1>8. CASE LeaveUndo(w)
  <2>1. SetParty(w, j.pid, Adding(j.chr), Fail(j), Fail(j)) /\ Known(j.chr)
    BY <1>1, <1>8 DEF LeaveUndo, At, KnownOK, Relying
  <2>2. \A c \in Members(Updated(j.pid, Adding(j.chr))) : Known(c)
    BY <1>1, <2>1, NewMembers, MembersKnown
  <2> QED BY <1>1, <1>2, <2>1, <2>2, SetPartyKnown DEF Relying, Viewing
<1> QED BY <1>3, <1>4, <1>5, <1>6, <1>7, <1>8 DEF LeaveSteps

LEMMA EndKnown ==
  ASSUME ServiceInv, KnownInv, NEW w \in Workers, EndSteps(w)
  PROVE  KnownInv'
<1> DEFINE j == job[w]
<1>1. JobOK(j) /\ Busy(j)
  BY Working DEF EndSteps, DisbandGet, DisbandClear, RemoveDisbanded, RemoveEmptied, At, Resting
<1>2. CASE DisbandGet(w)
  <2>1. PICK c, rest, rec :
          LET k == [j EXCEPT !.todo = rest]
          IN  GetCharacter(w, c, [Goto(k, "disband.clear") EXCEPT !.rec = rec], k)
    BY <1>2 DEF DisbandGet
  <2> DEFINE k == [j EXCEPT !.todo = rest]
             found == [Goto(k, "disband.clear") EXCEPT !.rec = rec]
  <2>2. j.pc = "disband"
    BY <1>2 DEF DisbandGet, At
  <2>3. Heads(j, k, "disband") /\ Heads(j, found, "disband.clear")
    BY <1>1, <2>2 DEF Heads, Goto, JobOK, Fields
  <2>4. /\ UNCHANGED registryVars /\ Lasting
        /\ Become(w, k) \/ Become(w, found)
    BY <2>1, Recording DEF GetCharacter
  <2> HIDE DEF k, found
  <2> QED BY <1>1, <2>3, <2>4, QuietHeads DEF Relying, Viewing
<1>3. CASE DisbandClear(w)
  <2>1. Become(w, Goto(j, "disband")) /\ UNCHANGED registryVars /\ Lasting
    BY <1>3, Recording DEF DisbandClear, SetCharacter, UpdateCharacter, Put
  <2>2. Heads(j, Goto(j, "disband"), "disband")
    BY <1>1, Headed
  <2> QED BY <1>1, <2>1, <2>2, QuietHeads DEF Relying, Viewing
<1>4. CASE RemoveDisbanded(w) \/ RemoveEmptied(w)
  <2>1. PICK k :
          /\ RemoveParty(j.pid) /\ Become(w, k) /\ UNCHANGED <<charReg, foreign>>
          /\ k \in {Done(Buffered(j, Event("DISBAND", j.pid, j.chr))), Done(j)}
    BY <1>4 DEF RemoveDisbanded, RemoveEmptied
  <2>2. Heads(j, k, "return")
    BY <1>1, <2>1, Quitted
  <2>3. /\ \A p \in DOMAIN partyReg' : \A c \in Members(partyReg'[p]) : Known(c)
        /\ \A m \in creating' : \A c \in Members(m) : Known(c)
    BY <2>1 DEF RemoveParty, DeleteKeys, KnownInv, PartiesKnown
  <2> QED BY <1>1, <2>1, <2>2, <2>3, RegistryKnown DEF Relying, Viewing
<1> QED BY <1>2, <1>3, <1>4 DEF EndSteps

LEMMA LeadKnown ==
  ASSUME ServiceInv, KnownInv, NEW w \in Workers, LeadSteps(w)
  PROVE  KnownInv'
<1> DEFINE j == job[w]
<1>1. JobOK(j) /\ Busy(j) /\ RegistryInv /\ j.chr \in Characters
  BY Working DEF LeadSteps, LeadGetActor, LeadCheck, LeadSet, At, Resting, ServiceInv
<1>2. Heads(j, Refuse(j), "return") /\ Heads(j, Fail(j), "return")
  BY <1>1, Quitted
<1>3. CASE LeadGetActor(w)
  <2> DEFINE found == [Goto(j, "lead.chr") EXCEPT !.rec = Obtained(w, j.chr)]
  <2>1. GetById(w, j.chr, found, Fail(j))
    BY <1>3 DEF LeadGetActor
  <2>2. Heads(j, found, "lead.chr")
    BY <1>1, Headed
  <2>3. {"lead.chr", "return"} \cap (Relying \cup Viewing \cup {"create.alloc"}) = {}
    BY NothingRelied DEF Unbound
  <2> HIDE DEF found
  <2> QED BY <1>1, <1>2, <2>1, <2>2, <2>3, LookupHeads
<1>4. CASE LeadCheck(w)
  <2>1. PICK found :
          GetById(w, j.chr, found, Fail(j)) /\ found \in {Refuse(j), Goto(j, "lead.set")}
    BY <1>4 DEF LeadCheck
  <2>2. Heads(j, Goto(j, "lead.set"), "lead.set")
    BY <1>1, Headed
  <2>3. PICK pc \in {"return", "lead.set"} : Heads(j, found, pc)
    BY <1>2, <2>1, <2>2
  <2> QED BY <1>1, <1>2, <2>1, <2>3, LookupHeads DEF Relying, Viewing
<1>5. CASE LeadSet(w)
  <2>1. PICK done, refused, e, f, g :
          /\ SetParty(w, j.pid, Appointing(j.chr), done, refused)
          /\ done = Done(Buffered(j, e)) /\ refused = Done(Buffered(Buffered(j, f), g))
    BY <1>5 DEF LeadSet, Buffered
  <2>2. Heads(j, done, "return") /\ Heads(j, refused, "return")
    BY <1>1, <2>1, Quitted
  <2>3. \A c \in Members(Updated(j.pid, Appointing(j.chr))) : Known(c)
    BY <1>1, NewMembers, MembersKnown
  <2>4. "return" \notin Relying \cup Viewing \cup {"create.alloc"}
    BY NothingRelied DEF Unbound
  <2> QED BY <1>1, <2>1, <2>2, <2>3, <2>4, SetPartyKnown
<1> QED BY <1>3, <1>4, <1>5 DEF LeadSteps

LEMMA InviteKnown ==
  ASSUME ServiceInv, KnownInv, NEW w \in Workers, InviteSteps(w)
  PROVE  KnownInv'
<1> DEFINE j == job[w]
<1>1. JobOK(j) /\ Busy(j)
  BY Working
  DEF InviteSteps, InviteGetActor, InviteCheck, InviteGetParty, InviteSend, At, Resting
<1>2. Heads(j, Refuse(j), "return") /\ Heads(j, Fail(j), "return") /\ Heads(j, Done(j), "return")
  BY <1>1, Quitted
<1>3. CASE InviteGetActor(w)
  <2> DEFINE found == [Goto(j, "invite.chr") EXCEPT !.rec = Obtained(w, j.actor)]
  <2>1. GetById(w, j.actor, found, Fail(j))
    BY <1>3 DEF InviteGetActor
  <2>2. Heads(j, found, "invite.chr")
    BY <1>1, Headed
  <2>3. {"invite.chr", "return"} \cap (Relying \cup Viewing \cup {"create.alloc"}) = {}
    BY NothingRelied DEF Unbound
  <2> HIDE DEF found
  <2> QED BY <1>1, <1>2, <2>1, <2>2, <2>3, LookupHeads
<1>4. CASE InviteCheck(w)
  <2>1. PICK found :
          /\ GetById(w, j.chr, found, Fail(j))
          /\ found \in {Refuse(j), Goto(j, "create"), Goto(j, "invite.party")}
    BY <1>4 DEF InviteCheck
  <2>2. Heads(j, Goto(j, "create"), "create") /\ Heads(j, Goto(j, "invite.party"), "invite.party")
    BY <1>1, Headed
  <2>3. PICK pc \in {"return", "create", "invite.party"} : Heads(j, found, pc)
    BY <1>2, <2>1, <2>2
  <2> QED BY <1>1, <1>2, <2>1, <2>3, LookupHeads DEF Relying, Viewing
<1>5. CASE InviteGetParty(w)
  <2> DEFINE found == [Goto(j, "invite.send") EXCEPT !.party = Lookup(j.rec.partyId)]
             failed == [Done(j) EXCEPT !.err = TRUE]
  <2>1. Heads(j, found, "invite.send") /\ Heads(j, failed, "return")
    BY <1>1, Headed, Quitted
  <2>2. /\ Become(w, found) \/ Become(w, failed)
        /\ UNCHANGED registryVars /\ Lasting
    BY <1>5, Recording DEF InviteGetParty, GetParty
  <2> HIDE DEF found, failed
  <2> QED BY <1>1, <2>1, <2>2, QuietHeads DEF Relying, Viewing
<1>6. CASE InviteSend(w)
  <2>1. PICK k : Become(w, k) /\ k \in {Refuse(j), Done(j), Fail(j)}
    BY <1>6 DEF InviteSend
  <2>2. UNCHANGED registryVars /\ Lasting
    BY <1>6, Recording DEF InviteSend
  <2> QED BY <1>1, <1>2, <2>1, <2>2, QuietHeads DEF Relying, Viewing
<1> QED BY <1>3, <1>4, <1>5, <1>6 DEF InviteSteps

\* What the character service has said of its deletions stays said.
LEMMA Forgetting ==
  ASSUME KnownInv, NEW c \in Characters, DOMAIN charReg \ {c} \subseteq DOMAIN charReg',
         foreign' = [foreign EXCEPT ![c] = "deleted"]
  PROVE  Lasting
<1>1. ASSUME NEW d \in Characters, Known(d)
      PROVE  Known(d)'
  <2>1. CASE d = c
    BY <2>1 DEF KnownInv, Known
  <2>2. CASE d # c
    BY <1>1, <2>2 DEF KnownInv, Known, Cached
  <2> QED BY <2>1, <2>2
<1> QED BY <1>1 DEF Lasting, KnownInv

LEMMA DeletionKnown ==
  ASSUME ServiceInv, KnownInv, NEW w \in Workers, DeletionSteps(w)
  PROVE  KnownInv'
<1> DEFINE j == job[w]
<1>1. JobOK(j) /\ Busy(j) /\ j.chr \in Characters
  BY Working
  DEF DeletionSteps, DeletedGetParty, DeleteGet, DeleteLeaveGet, DeleteLeaveClear, DeleteDrop,
      At, Resting
<1>2. ASSUME Forget(w), DOMAIN charReg \ {j.chr} \subseteq DOMAIN charReg'
      PROVE  KnownInv'
  <2>1. Lasting
    BY <1>1, <1>2, Forgetting DEF Forget
  <2>2. Reliable(NoJob)
    BY DEF Reliable, NoJob, Relying, Viewing
  <2> QED BY <1>2, <2>1, <2>2, QuietKnown DEF Forget
<1>3. CASE DeletedGetParty(w)
  <2> DEFINE k == [Goto(j, "leave") EXCEPT !.pid = PartyOf(j.chr).id]
  <2>1. Heads(j, k, "leave")
    BY <1>1, Headed
  <2>2. Become(w, k) /\ UNCHANGED registryVars /\ Lasting
    BY <1>3, Recording DEF DeletedGetParty
  <2> HIDE DEF k
  <2> QED BY <1>1, <2>1, <2>2, QuietHeads DEF Relying, Viewing
<1>4. CASE DeleteGet(w) \/ DeleteLeaveGet(w)
  <2>1. \/ Forget(w) /\ UNCHANGED charReg
        \/ /\ UNCHANGED <<registryVars, charReg, foreign>>
           /\ \E k : /\ Become(w, k)
                     /\ \/ k \in {Goto(j, "delete.get"), Goto(j, "delete.drop"), j}
                        \/ \E v : k = [Goto(j, "delete.clear") EXCEPT !.rec = v]
    BY <1>4 DEF DeleteGet, DeleteLeaveGet, GetCharacter
  <2>2. ASSUME UNCHANGED <<registryVars, charReg, foreign>>,
               NEW k, Become(w, k),
               \/ k \in {Goto(j, "delete.get"), Goto(j, "delete.drop"), j}
               \/ \E v : k = [Goto(j, "delete.clear") EXCEPT !.rec = v]
        PROVE  KnownInv'
    <3>2. /\ Heads(j, Goto(j, "delete.get"), "delete.get")
          /\ Heads(j, Goto(j, "delete.drop"), "delete.drop")
          /\ \A v : Heads(j, [Goto(j, "delete.clear") EXCEPT !.rec = v], "delete.clear")
      BY <1>1, Headed
    <3>3. Heads(j, j, j.pc) /\ j.pc \in {"delete", "delete.get"}
      BY <1>1, <1>4 DEF Heads, JobOK, DeleteGet, DeleteLeaveGet, At
    <3>4. PICK pc \in {"delete", "delete.get", "delete.drop", "delete.clear"} : Heads(j, k, pc)
      BY <2>2, <3>2, <3>3
    <3>5. Lasting
      BY <2>2, Recording
    <3> QED BY <1>1, <2>2, <3>4, <3>5, QuietHeads DEF Relying, Viewing
  <2> QED BY <1>2, <2>1, <2>2
<1>5. CASE DeleteLeaveClear(w)
  <2>1. Become(w, Goto(j, "delete.drop")) /\ UNCHANGED registryVars /\ Lasting
    BY <1>5, Recording DEF DeleteLeaveClear, SetCharacter, UpdateCharacter, Put
  <2>2. Heads(j, Goto(j, "delete.drop"), "delete.drop")
    BY <1>1, Headed
  <2> QED BY <1>1, <2>1, <2>2, QuietHeads DEF Relying, Viewing
<1>6. CASE DeleteDrop(w)
  BY <1>2, <1>6 DEF DeleteDrop, DeleteCharacter, DeleteKeys
<1> QED BY <1>3, <1>4, <1>5, <1>6 DEF DeletionSteps

\* A GET request begins with members of parties, whoever they are.
LEMMA ListsKnown ==
  ASSUME ServiceInv, KnownInv, NEW p,
         NEW list \in ViewParties \cup ViewParty(p) \cup ViewPartyMember(p)
  PROVE  \A c \in DOMAIN list : c \in Characters /\ Known(c)
<1>1. \A q : \A c \in Members(Lookup(q)) : c \in Characters /\ Known(c)
  BY ListedCharacters, MembersKnown DEF ServiceInv
<1>2. \A q \in DOMAIN partyReg : \A c \in Members(partyReg[q]) : c \in Characters /\ Known(c)
  BY <1>1 DEF Lookup
<1>3. \A P \in SUBSET DOMAIN partyReg :
        \A c \in DOMAIN ListOfParties(P) : c \in Characters /\ Known(c)
  BY <1>2 DEF ListOfParties, ListOf
<1>4. CASE list \in ViewParties
  BY <1>3, <1>4 DEF ViewParties
<1>5. CASE list \in ViewParty(p)
  BY <1>1, <1>5 DEF ViewParty, Members
<1>6. CASE list \in ViewPartyMember(p)
  BY <1>1, <1>6 DEF ViewPartyMember, ListOf
<1> QED BY <1>4, <1>5, <1>6

\* The steps of a GET request; what it lists needs no lookup in the character service.
LEMMA ViewMoves ==
  ASSUME ServiceInv, KnownInv, NEW w \in Workers, ViewGet(w) \/ ViewMember(w)
  PROVE  /\ UNCHANGED <<registryVars, charReg, foreign>>
         /\ \E k : /\ Become(w, k)
                   /\ \/ k = NoJob
                      \/ /\ k.op = "VIEW" /\ k.pc = "view.member" /\ k.fetched = ZeroCharacter
                         /\ k.buf = job[w].buf
                         /\ \A c \in DOMAIN k.todo : c \in Characters /\ Known(c)
<1> DEFINE j == job[w]
<1>1. JobOK(j) /\ KnownOK(j) /\ j.pc \in Viewing
  BY Working DEF ViewGet, ViewMember, At, Viewing, KnownInv
<1>2. /\ j.op = "VIEW" /\ j.fetched = ZeroCharacter
      /\ \A c \in DOMAIN j.todo : c \in Characters /\ Known(c)
  BY <1>1 DEF KnownOK
<1>3. CASE ViewGet(w)
  <2>1. PICK list \in ViewParties \cup ViewParty(j.pid) \cup ViewPartyMember(j.pid) :
          Become(w, IF list = EmptyMap THEN NoJob
                    ELSE [Goto(j, "view.member") EXCEPT !.todo = list])
    BY <1>3 DEF ViewGet
  <2>2. \A c \in DOMAIN list : c \in Characters /\ Known(c)
    BY ListsKnown
  <2>3. PICK k : k = [Goto(j, "view.member") EXCEPT !.todo = list]
    OBVIOUS
  <2>4. k.op = "VIEW" /\ k.pc = "view.member" /\ k.fetched = ZeroCharacter /\ k.todo = list
       /\ k.buf = j.buf
    BY <1>1, <1>2, <2>3 DEF JobOK, Fields, Goto
  <2> QED BY <1>3, <2>1, <2>2, <2>3, <2>4 DEF ViewGet
<1>4. CASE ViewMember(w)
  <2>1. PICK c \in DOMAIN j.todo :
          GetById(w, c, IF BagRemove(j.todo, c) = EmptyMap THEN NoJob
                        ELSE [j EXCEPT !.todo = BagRemove(j.todo, c)], NoJob)
    BY <1>4 DEF ViewMember
  <2> DEFINE rest == BagRemove(j.todo, c)
             found == IF rest = EmptyMap THEN NoJob ELSE [j EXCEPT !.todo = rest]
  <2>2. Known(c) /\ ~Fetched(w)
    BY <1>2, <2>1 DEF Fetched
  <2>3. GetById(w, c, found, NoJob)
    BY <2>1
  <2> HIDE DEF found
  <2>4. /\ UNCHANGED <<registryVars, charReg, foreign>>
        /\ Become(w, found) \/ Become(w, NoJob)
    BY <2>2, <2>3 DEF GetById, Known
  <2>5. DOMAIN rest \subseteq DOMAIN j.todo
    BY DEF BagRemove
  <2>6. \/ found = NoJob
        \/ /\ found.op = "VIEW" /\ found.pc = "view.member" /\ found.fetched = ZeroCharacter
           /\ found.todo = rest /\ found.buf = j.buf
    BY <1>1, <1>2, <1>4 DEF found, JobOK, Fields, ViewMember, At
  <2> QED BY <1>2, <2>4, <2>5, <2>6
<1> QED BY <1>3, <1>4

LEMMA ViewOnlyReads ==
  ASSUME ServiceInv, KnownInv, NEW w \in Workers, ViewGet(w) \/ ViewMember(w)
  PROVE  UNCHANGED <<registryVars, charReg, foreign>> /\ KnownInv'
<1>1. UNCHANGED <<registryVars, charReg, foreign>>
  BY ViewMoves
<1>2. PICK k : /\ Become(w, k)
               /\ \/ k = NoJob
                  \/ /\ k.op = "VIEW" /\ k.pc = "view.member" /\ k.fetched = ZeroCharacter
                     /\ \A c \in DOMAIN k.todo : c \in Characters /\ Known(c)
  BY ViewMoves
<1>3. Lasting
  BY <1>1, Recording
<1>4. KnownOK(k)'
  <2>1. CASE k = NoJob
    BY <2>1 DEF KnownOK, NoJob, Relying, Viewing
  <2>2. CASE k # NoJob
    BY <1>2, <1>3, <2>2 DEF KnownOK, Relying, Viewing, Lasting
  <2> QED BY <2>1, <2>2
<1>5. PartiesKnown'
  BY <1>1, <1>3, PartiesStay DEF KnownInv, ServiceInv
<1> QED BY <1>1, <1>2, <1>3, <1>4, <1>5, KnownLanded

LEMMA JobFields ==
  ASSUME NEW op, NEW pc, NEW actor, NEW p, NEW c
  PROVE  /\ Job(op, pc, actor, p, c).op = op /\ Job(op, pc, actor, p, c).pc = pc
         /\ Job(op, pc, actor, p, c).fetched = ZeroCharacter
         /\ Job(op, pc, actor, p, c).todo = EmptyMap
         /\ \A m : /\ [Job(op, pc, actor, p, c) EXCEPT !.map = m].op = op
                   /\ [Job(op, pc, actor, p, c) EXCEPT !.map = m].pc = pc
<1>1. DOMAIN Job(op, pc, actor, p, c) = Fields
  BY DEF Job, NoJob, Fields
<1>2. PICK j : j = Job(op, pc, actor, p, c)
  OBVIOUS
<1>3. j.op = op /\ j.pc = pc /\ j.fetched = ZeroCharacter /\ j.todo = EmptyMap
  BY <1>2 DEF Job, NoJob
<1> QED BY <1>1, <1>2, <1>3 DEF Fields

LEMMA OtherKnown ==
  ASSUME ServiceInv, KnownInv, NEW w \in Workers, OtherSteps(w)
  PROVE  KnownInv'
<1> DEFINE j == job[w]
<1>1. JobOK(j)
  BY Working
<1>2. CASE MapGet(w)
  <2> DEFINE found == [Goto(j, "map.set") EXCEPT !.rec = Obtained(w, j.chr)]
  <2>1. GetById(w, j.chr, found, Done(j)) /\ Busy(j)
    BY <1>2, Working DEF MapGet, At, Resting
  <2>2. Heads(j, found, "map.set") /\ Heads(j, Done(j), "return")
    BY <1>1, Headed, Quitted
  <2>3. {"map.set", "return"} \cap (Relying \cup Viewing \cup {"create.alloc"}) = {}
    BY NothingRelied DEF Unbound
  <2> HIDE DEF found
  <2> QED BY <2>1, <2>2, <2>3, LookupHeads
<1>3. CASE MapSet(w)
  <2>1. Become(w, Done(j)) /\ UNCHANGED registryVars /\ Lasting /\ Busy(j)
    BY <1>3, Recording, Working DEF MapSet, SetCharacter, UpdateCharacter, Put, At, Resting
  <2>2. Heads(j, Done(j), "return")
    BY <1>1, Quitted
  <2> QED BY <2>1, <2>2, QuietHeads DEF Relying, Viewing
<1>4. CASE ViewGet(w) \/ ViewMember(w)
  BY <1>4, ViewOnlyReads
<1>5. CASE Return(w)
  <2>1. PICK k : Become(w, k) /\ k \in {Job("DELETED", "delete", j.actor, NoParty, j.chr), NoJob}
    BY <1>5 DEF Return
  <2>2. k.op \in {"DELETED", "none"} /\ k.pc \in {"delete", "idle"}
    <3>1. NoJob.op = "none" /\ NoJob.pc = "idle"
      BY DEF NoJob
    <3> QED BY <2>1, <3>1, JobFields
  <2>4. Reliable(k)
    BY <2>2 DEF Reliable, Relying, Viewing
  <2>3. UNCHANGED registryVars /\ Lasting
    BY <1>5, Recording DEF Return
  <2> QED BY <2>1, <2>3, <2>4, QuietKnown
<1> QED BY <1>2, <1>3, <1>4, <1>5 DEF OtherSteps

LEMMA WorkKnown ==
  ASSUME ServiceInv, KnownInv, NEW w \in Workers, Work(w)
  PROVE  KnownInv'
<1>1. \/ CreateSteps(w) \/ JoinSteps(w) \/ LeaveSteps(w) \/ EndSteps(w) \/ LeadSteps(w)
      \/ InviteSteps(w) \/ DeletionSteps(w) \/ OtherSteps(w)
  BY DEF Work, CreateSteps, JoinSteps, LeaveSteps, EndSteps, LeadSteps, InviteSteps,
         DeletionSteps, OtherSteps
<1> QED BY <1>1, CreateKnown, JoinKnown, LeaveKnown, EndKnown, LeadKnown, InviteKnown,
           DeletionKnown, OtherKnown

LEMMA ReceiveKnown ==
  ASSUME ServiceInv, KnownInv, NEW w \in Workers, NEW j \in Incoming, Receive(w, j)
  PROVE  KnownInv'
<1>1. /\ j.pc \in {"create", "join", "leave", "lead", "view", "invite", "deleted", "map"}
      /\ j.pc = "view" => j.op = "VIEW"
      /\ j.op = "VIEW" => j.fetched = ZeroCharacter /\ j.todo = EmptyMap
  <2> DEFINE Pcs == {"create", "join", "leave", "lead", "invite", "deleted", "map"}
  <2>1. \/ \E p : j = Job("VIEW", "view", NoCharacter, p, NoCharacter)
        \/ \E op, a, p, c : \E pc \in Pcs : op # "VIEW" /\ j = Job(op, pc, a, p, c)
        \/ \E c, m : j = [Job("MAP_CHANGED", "map", c, NoParty, c) EXCEPT !.map = m]
    BY DEF Incoming, PostParty, PostMember, DeleteMember, PatchParty
  <2>2. CASE \E p : j = Job("VIEW", "view", NoCharacter, p, NoCharacter)
    BY <2>2, JobFields
  <2>3. CASE \E op, a, p, c : \E pc \in Pcs : op # "VIEW" /\ j = Job(op, pc, a, p, c)
    <3>1. j.pc \in Pcs /\ j.op # "VIEW"
      BY <2>3, JobFields
    <3> QED BY <3>1
  <2>4. CASE \E c, m : j = [Job("MAP_CHANGED", "map", c, NoParty, c) EXCEPT !.map = m]
    BY <2>4, JobFields
  <2> QED BY <2>1, <2>2, <2>3, <2>4
<1>2. Lasting /\ PartiesKnown'
  BY Recording, PartiesStay DEF Receive, ServiceInv, KnownInv
<1>3. KnownOK(j)'
  BY <1>1 DEF KnownOK, Relying, Viewing, EmptyMap
<1> QED BY <1>2, <1>3, KnownLanded DEF Receive

LEMMA VanishKnown ==
  ASSUME ServiceInv, KnownInv, NEW c, Vanish(c)
  PROVE  KnownInv'
<1>1. Lasting
  BY DEF Vanish, Lasting, KnownInv, Known, Cached
<1>2. PartiesKnown'
  BY <1>1, PartiesStay DEF Vanish, ServiceInv, KnownInv
<1>3. \A w \in Workers : KnownOK(job[w])'
  BY <1>1, OthersKnown DEF Vanish
<1> QED BY <1>1, <1>2, <1>3 DEF KnownInv, Lasting

LEMMA KnownInvariant == Spec => []KnownInv
<1>1. Init => KnownInv
  BY DEF Init, RegistryInit, KnownInv, PartiesKnown, KnownOK, NoJob, Relying, Viewing, EmptyMap
<1>2. ServiceInv /\ KnownInv /\ [Next]_vars => KnownInv'
  <2> SUFFICES ASSUME ServiceInv, KnownInv, [Next]_vars
               PROVE  KnownInv'
    OBVIOUS
  <2>1. CASE \E w \in Workers : Work(w)
    BY <2>1, WorkKnown
  <2>2. CASE \E w \in Workers : \E j \in Incoming : Receive(w, j)
    BY <2>2, ReceiveKnown
  <2>3. CASE \E c \in Mortal : Vanish(c)
    BY <2>3, VanishKnown
  <2>4. CASE Restart
    BY <2>4
    DEF Restart, KnownInv, PartiesKnown, KnownOK, NoJob, Relying, Viewing, EmptyMap
  <2>5. CASE UNCHANGED vars
    BY <2>5
    DEF vars, serviceVars, registryVars, KnownInv, PartiesKnown, KnownOK, Known, Cached, Members
  <2> QED BY <2>1, <2>2, <2>3, <2>4, <2>5 DEF Next
<1> QED BY <1>1, <1>2, ServiceInvariant, PTL DEF Spec

\* A step of a handler changes the job of its worker only.
LEMMA WorkBecomes ==
  ASSUME NEW w \in Workers, Work(w)
  PROVE  \E k : Become(w, k)
<1>1. \A c, found, failed : GetById(w, c, found, failed) => \E k : Become(w, k)
  BY DEF GetById
<1>2. \A c, found, failed : GetCharacter(w, c, found, failed) => \E k : Become(w, k)
  BY DEF GetCharacter
<1>3. \A u, k : SetCharacter(w, u, k) => \E l : Become(w, l)
  BY DEF SetCharacter
<1>4. \A p, found, failed : GetParty(w, p, found, failed) => \E k : Become(w, k)
  BY DEF GetParty
<1>5. \A p, u, done, refused : SetParty(w, p, u, done, refused) => \E k : Become(w, k)
  BY DEF SetParty
<1>6. Forget(w) => \E k : Become(w, k)
  BY DEF Forget
<1>7. CreateSteps(w) \/ JoinSteps(w) => \E k : Become(w, k)
  BY <1>1, <1>3, <1>4, <1>5
  DEF CreateSteps, JoinSteps, CreateCheck, CreateAllocate, CreateStore, EnterCheck, EnterSet,
      JoinCheck, JoinGetParty, JoinAdd, JoinUndo
<1>8. LeaveSteps(w) => \E k : Become(w, k)
  BY <1>1, <1>2, <1>3, <1>4, <1>5
  DEF LeaveSteps, LeaveCheck, LeaveGetParty, LeaveRemove, LeaveGet, LeaveClear, LeaveUndo
<1>9. EndSteps(w) => \E k : Become(w, k)
  BY <1>2, <1>3 DEF EndSteps, DisbandGet, DisbandClear, RemoveDisbanded, RemoveEmptied
<1>10. LeadSteps(w) \/ InviteSteps(w) => \E k : Become(w, k)
  BY <1>1, <1>4, <1>5
  DEF LeadSteps, InviteSteps, LeadGetActor, LeadCheck, LeadSet, InviteGetActor, InviteCheck,
      InviteGetParty, InviteSend
<1>11. DeletionSteps(w) => \E k : Become(w, k)
  BY <1>2, <1>3, <1>6
  DEF DeletionSteps, DeletedGetParty, DeleteGet, DeleteLeaveGet, DeleteLeaveClear, DeleteDrop
<1>12. OtherSteps(w) => \E k : Become(w, k)
  BY <1>1, <1>3 DEF OtherSteps, MapGet, MapSet, ViewGet, ViewMember, Return
<1>13. \/ CreateSteps(w) \/ JoinSteps(w) \/ LeaveSteps(w) \/ EndSteps(w) \/ LeadSteps(w)
       \/ InviteSteps(w) \/ DeletionSteps(w) \/ OtherSteps(w)
  BY DEF Work, CreateSteps, JoinSteps, LeaveSteps, EndSteps, LeadSteps, InviteSteps,
         DeletionSteps, OtherSteps
<1> QED BY <1>7, <1>8, <1>9, <1>10, <1>11, <1>12, <1>13

\* A GET request only reads, for any number of handlers: its lookups of the members it
\* lists (party/rest.go:142) never store a record, although members come, go and are
\* deleted while it runs.  Restarts are left out, since one changes everything at once.
THEOREM ServiceViewsChangeNothing ==
  ASSUME ~Restarts
  PROVE  Spec => ViewsChangeNothing
<1>1. ServiceInv /\ KnownInv /\ [Next]_vars =>
        [\A w \in Workers : job[w].op = "VIEW" /\ job'[w] # job[w]
           => UNCHANGED <<registryVars, charReg>>]_vars
  <2> SUFFICES ASSUME ServiceInv, KnownInv, Next,
                      NEW w \in Workers, job[w].op = "VIEW", job'[w] # job[w]
               PROVE  UNCHANGED <<registryVars, charReg>>
    OBVIOUS
  <2>1. job[w].pc \in Resting /\ ~Busy(job[w])
    BY Working DEF JobOK, Busy, Resting
  <2>2. CASE \E v \in Workers : Work(v)
    <3>1. PICK v \in Workers : Work(v)
      BY <2>2
    <3>2. CASE v = w
      <4>1. ViewGet(w) \/ ViewMember(w)
        BY <2>1, <3>1, <3>2
        DEF Work, At, Resting, CreateCheck, CreateAllocate, CreateStore, EnterCheck, EnterSet,
            JoinCheck, JoinGetParty, JoinAdd, JoinUndo, LeaveCheck, LeaveGetParty, LeaveRemove,
            LeaveGet, LeaveClear, LeaveUndo, DisbandGet, DisbandClear, RemoveDisbanded,
            RemoveEmptied, LeadGetActor, LeadCheck, LeadSet, InviteGetActor, InviteCheck,
            InviteGetParty, InviteSend, MapGet, MapSet, DeletedGetParty, DeleteGet,
            DeleteLeaveGet, DeleteLeaveClear, DeleteDrop, Return
      <4> QED BY <4>1, ViewOnlyReads
    <3>3. CASE v # w
      <4>1. \E k : Become(v, k)
        BY <3>1, WorkBecomes
      <4> QED BY <3>3, <4>1 DEF Become, ServiceInv, JobsOK
    <3> QED BY <3>2, <3>3
  <2>3. CASE \E v \in Workers : \E j \in Incoming : Receive(v, j)
    BY <2>3 DEF Receive
  <2>4. CASE \E c \in Mortal : Vanish(c)
    BY <2>4 DEF Vanish
  <2> QED BY <2>2, <2>3, <2>4 DEF Next, Restart
<1> QED BY <1>1, ServiceInvariant, KnownInvariant, PTL DEF Spec, ViewsChangeNothing

-----------------------------------------------------------------------------
(***************************************************************************)
(* Types, for any number of workers: a third invariant.  A handler buffers *)
(* at most two events that will be published, and they are all of parties  *)
(* and characters, so what a follower makes of them is.                    *)
(***************************************************************************)
EventTypes == {"ERROR", "CREATED", "JOINED", "LEFT", "EXPEL", "DISBAND", "CHANGE_LEADER"}
Events == [type : EventTypes, pid : PartyIds, chr : Characters \cup {NoCharacter}]

\* Where a handler may have buffered three events, two, and one.
AtMostTwo == {"return", "invite.send"}
AtMostOne == AtMostTwo \cup {"enter", "enter.set", "join.undo", "expel.remove"}

BufferFits(j, pc) ==
  /\ j.err \/ Len(j.buf) <= 3
  /\ pc # "return" => j.err \/ Len(j.buf) <= 2
  /\ pc \notin AtMostTwo => Len(j.buf) <= 1
  /\ pc \notin AtMostOne => Len(j.buf) = 0

FieldsTyped(j) ==
  /\ DOMAIN j = Fields
  /\ j.op \in Operations \cup {"none"}
  /\ {j.actor, j.chr} \subseteq Characters \cup {NoCharacter}
  /\ j.pid \in PartyIds
  /\ IsCharacter(j.rec) /\ IsCharacter(j.fetched)
  /\ IsParty(j.party) /\ IsMemberList(j.todo)
  /\ j.map \in Maps \cup {ZeroMap}
  /\ j.buf \in Seq(Events)

JobTyped(j) == FieldsTyped(j) /\ BufferFits(j, j.pc)

JobsTyped == \A w \in Workers : JobTyped(job[w])

CacheTyped ==
  /\ DOMAIN charReg \subseteq Characters \cup {NoCharacter}
  /\ \A c \in DOMAIN charReg : IsCharacter(charReg[c])

PeersTyped ==
  /\ foreign \in [Characters -> {"alive", "deleting", "deleted"}]
  /\ mirror \in [Characters -> PartyIds]

TypedInv == ServiceInv /\ JobsTyped /\ CacheTyped /\ PeersTyped

\* What a step has to leave behind.
TypesKept == JobsTyped' /\ CacheTyped' /\ PeersTyped'

LEMMA ZeroCharacterTyped == IsCharacter(ZeroCharacter)
  BY PartyIdsAssumption DEF IsCharacter, ZeroCharacter

LEMMA NoJobTyped == JobTyped(NoJob)
<1>1. IsParty(ZeroParty) /\ IsMemberList(EmptyMap)
  BY NoMembers DEF IsParty, ZeroParty, NoParty
<1>2. /\ DOMAIN NoJob = Fields /\ NoJob.op = "none" /\ NoJob.pid = NoParty
      /\ NoJob.actor = NoCharacter /\ NoJob.chr = NoCharacter
      /\ NoJob.rec = ZeroCharacter /\ NoJob.fetched = ZeroCharacter
      /\ NoJob.party = ZeroParty /\ NoJob.todo = EmptyMap /\ NoJob.map = ZeroMap
      /\ NoJob.buf = <<>>
  BY DEF NoJob, Fields
<1>3. <<>> \in Seq(Events) /\ Len(<<>>) = 0
  OBVIOUS
<1> QED BY <1>1, <1>2, <1>3, ZeroCharacterTyped, PartyIdsAssumption
     DEF JobTyped, FieldsTyped, BufferFits

LEMMA EventTyped ==
  ASSUME NEW type \in EventTypes, NEW p \in PartyIds, NEW c \in Characters \cup {NoCharacter}
  PROVE  Event(type, p, c) \in Events
  BY DEF Event, Events

LEMMA TypedGoing ==
  ASSUME NEW j, FieldsTyped(j), NEW pc, BufferFits(j, pc)
  PROVE  JobTyped(Goto(j, pc))
<1>1. PICK k : k = Goto(j, pc)
  OBVIOUS
<1>2. /\ DOMAIN k = Fields /\ k.op = j.op /\ k.actor = j.actor /\ k.chr = j.chr
      /\ k.pid = j.pid /\ k.rec = j.rec /\ k.fetched = j.fetched /\ k.party = j.party
      /\ k.todo = j.todo /\ k.map = j.map /\ k.buf = j.buf /\ k.err = j.err /\ k.pc = pc
  BY <1>1 DEF FieldsTyped, Goto, Fields
<1>3. FieldsTyped(k)
  BY <1>2 DEF FieldsTyped
<1>4. BufferFits(k, k.pc)
  BY <1>2 DEF BufferFits
<1> QED BY <1>1, <1>3, <1>4 DEF JobTyped

\* Everywhere else the buffer is still empty.
LEMMA TypedMoved ==
  ASSUME NEW j, JobTyped(j), NEW pc,
         j.pc \notin AtMostOne \/ (j.pc \notin AtMostTwo /\ pc \in AtMostOne)
  PROVE  JobTyped(Goto(j, pc))
<1>1. Len(j.buf) \in Nat
  BY DEF JobTyped, FieldsTyped
<1>2. BufferFits(j, pc)
  BY <1>1 DEF JobTyped, BufferFits, AtMostTwo, AtMostOne
<1> QED BY <1>2, TypedGoing DEF JobTyped

LEMMA TypedBuffered ==
  ASSUME NEW j, FieldsTyped(j), NEW e \in Events
  PROVE  LET k == Buffered(j, e)
         IN  /\ FieldsTyped(k) /\ Len(k.buf) = Len(j.buf) + 1
             /\ k.op = j.op /\ k.pc = j.pc /\ k.err = j.err
<1>1. PICK k : k = Buffered(j, e)
  OBVIOUS
<1>2. /\ DOMAIN k = Fields /\ k.op = j.op /\ k.actor = j.actor /\ k.chr = j.chr
      /\ k.pid = j.pid /\ k.rec = j.rec /\ k.fetched = j.fetched /\ k.party = j.party
      /\ k.todo = j.todo /\ k.map = j.map /\ k.buf = Append(j.buf, e)
      /\ k.err = j.err /\ k.pc = j.pc
  BY <1>1 DEF FieldsTyped, Buffered, Fields
<1>3. Append(j.buf, e) \in Seq(Events) /\ Len(Append(j.buf, e)) = Len(j.buf) + 1
  BY DEF FieldsTyped
<1>4. FieldsTyped(k)
  BY <1>2, <1>3 DEF FieldsTyped
<1> QED BY <1>1, <1>2, <1>3, <1>4

LEMMA TypedNoted ==
  ASSUME NEW j, JobTyped(j)
  PROVE  /\ \A v : IsCharacter(v) => JobTyped([j EXCEPT !.rec = v]) /\ JobTyped([j EXCEPT !.fetched = v])
         /\ \A m : IsParty(m) => JobTyped([j EXCEPT !.party = m])
         /\ \A b : IsMemberList(b) => JobTyped([j EXCEPT !.todo = b])
         /\ \A p \in PartyIds : JobTyped([j EXCEPT !.pid = p])
         /\ \A d : JobTyped([j EXCEPT !.disband = d])
<1>1. ASSUME NEW v, IsCharacter(v) PROVE JobTyped([j EXCEPT !.rec = v])
  BY <1>1 DEF JobTyped, FieldsTyped, BufferFits, Fields
<1>2. ASSUME NEW v, IsCharacter(v) PROVE JobTyped([j EXCEPT !.fetched = v])
  BY <1>2 DEF JobTyped, FieldsTyped, BufferFits, Fields
<1>3. ASSUME NEW m, IsParty(m) PROVE JobTyped([j EXCEPT !.party = m])
  BY <1>3 DEF JobTyped, FieldsTyped, BufferFits, Fields
<1>4. ASSUME NEW b, IsMemberList(b) PROVE JobTyped([j EXCEPT !.todo = b])
  BY <1>4 DEF JobTyped, FieldsTyped, BufferFits, Fields
<1>5. ASSUME NEW p \in PartyIds PROVE JobTyped([j EXCEPT !.pid = p])
  BY DEF JobTyped, FieldsTyped, BufferFits, Fields
<1>6. ASSUME NEW d PROVE JobTyped([j EXCEPT !.disband = d])
  BY DEF JobTyped, FieldsTyped, BufferFits, Fields
<1> QED BY <1>1, <1>2, <1>3, <1>4, <1>5, <1>6

\* The two ways to end: with an event that is published, and with an error.
LEMMA TypedEnded ==
  ASSUME NEW j, JobTyped(j)
  PROVE  /\ JobTyped(Done(j)) /\ JobTyped(Refuse(j)) /\ JobTyped([Done(j) EXCEPT !.err = TRUE])
         /\ j.pc # "return" =>
              JobTyped(Fail(j)) /\ \A e \in Events : JobTyped(Done(Buffered(j, e)))
<1>0. /\ FieldsTyped(j) /\ Len(j.buf) \in Nat
      /\ j.pid \in PartyIds /\ j.chr \in Characters \cup {NoCharacter}
  BY DEF JobTyped, FieldsTyped
<1> DEFINE error == Event("ERROR", j.pid, j.chr)
<1>1. error \in Events
  BY <1>0, EventTyped DEF EventTypes
<1>2. JobTyped(Done(j))
  <2>1. BufferFits(j, "return")
    BY <1>0 DEF JobTyped, BufferFits, AtMostTwo, AtMostOne
  <2> QED BY <1>0, <2>1, TypedGoing DEF Done
<1>3. ASSUME NEW k, FieldsTyped(k)
      PROVE  JobTyped([Done(k) EXCEPT !.err = TRUE])
  <2>1. PICK d : d = [Done(k) EXCEPT !.err = TRUE]
    OBVIOUS
  <2>2. /\ DOMAIN d = Fields /\ d.op = k.op /\ d.actor = k.actor /\ d.chr = k.chr
        /\ d.pid = k.pid /\ d.rec = k.rec /\ d.fetched = k.fetched /\ d.party = k.party
        /\ d.todo = k.todo /\ d.map = k.map /\ d.buf = k.buf /\ d.err = TRUE /\ d.pc = "return"
    BY <1>3, <2>1 DEF FieldsTyped, Done, Goto, Fields
  <2>3. FieldsTyped(d)
    BY <1>3, <2>2 DEF FieldsTyped
  <2>4. BufferFits(d, d.pc)
    BY <2>2 DEF BufferFits, AtMostTwo, AtMostOne
  <2> QED BY <2>1, <2>3, <2>4 DEF JobTyped
<1>4. ASSUME j.pc # "return", NEW e \in Events
      PROVE  JobTyped(Done(Buffered(j, e)))
  <2>1. PICK k : k = Buffered(j, e)
    OBVIOUS
  <2>2. FieldsTyped(k) /\ Len(k.buf) = Len(j.buf) + 1 /\ k.err = j.err
    BY <1>0, <2>1, TypedBuffered
  <2>3. j.err \/ Len(j.buf) <= 2
    BY <1>4 DEF JobTyped, BufferFits
  <2>4. BufferFits(k, "return")
    BY <1>0, <2>2, <2>3 DEF BufferFits, AtMostTwo, AtMostOne
  <2> QED BY <2>1, <2>2, <2>4, TypedGoing DEF Done
<1>5. JobTyped(Refuse(j))
  BY <1>0, <1>1, <1>3, TypedBuffered DEF Refuse
<1>6. j.pc # "return" => JobTyped(Fail(j))
  BY <1>1, <1>4 DEF Fail
<1> QED BY <1>0, <1>2, <1>3, <1>4, <1>5, <1>6

LEMMA TypedCreateEnded ==
  ASSUME NEW j, JobTyped(j), j.pc \notin AtMostTwo
  PROVE  /\ \A m : IsParty(m) => JobTyped(CreateEnds(j, m))
         /\ JobTyped(FailCreate(j))
<1>0. FieldsTyped(j) /\ Len(j.buf) \in Nat /\ Len(j.buf) <= 1
  BY DEF JobTyped, FieldsTyped, BufferFits
<1>1. ASSUME NEW k, FieldsTyped(k), Len(k.buf) <= 2, NEW m, IsParty(m)
      PROVE  JobTyped(CreateEnds(k, m))
  <2>1. BufferFits(k, "invite.send") /\ BufferFits(k, "return")
    BY <1>1 DEF BufferFits, AtMostTwo, AtMostOne
  <2>2. JobTyped(Goto(k, "invite.send")) /\ JobTyped(Done(k))
    BY <1>1, <2>1, TypedGoing DEF Done
  <2>3. JobTyped([Goto(k, "invite.send") EXCEPT !.party = m])
    BY <1>1, <2>2, TypedNoted
  <2> QED BY <2>2, <2>3 DEF CreateEnds
<1>2. PICK k : k = Buffered(j, Event("ERROR", NoParty, j.actor))
  OBVIOUS
<1>3. Event("ERROR", NoParty, j.actor) \in Events
  BY <1>0, EventTyped, PartyIdsAssumption DEF EventTypes, FieldsTyped
<1>4. FieldsTyped(k) /\ Len(k.buf) <= 2
  <2>1. FieldsTyped(k) /\ Len(k.buf) = Len(j.buf) + 1
    BY <1>0, <1>2, <1>3, TypedBuffered
  <2> QED BY <1>0, <2>1
<1>5. IsParty(ZeroParty)
  BY NoMembers DEF IsParty, ZeroParty, NoParty
<1>6. JobTyped(FailCreate(j))
  BY <1>1, <1>2, <1>4, <1>5 DEF FailCreate
<1>7. Len(j.buf) <= 2
  BY <1>0
<1> QED BY <1>0, <1>1, <1>6, <1>7

\* The first event that is buffered on the way.
LEMMA TypedFirst ==
  ASSUME NEW j, JobTyped(j), j.pc \notin AtMostOne, NEW e \in Events, NEW pc \in AtMostOne
  PROVE  JobTyped(Buffered(Goto(j, pc), e)) /\ JobTyped(Goto(Buffered(j, e), pc))
<1>0. FieldsTyped(j) /\ Len(j.buf) = 0
  BY DEF JobTyped, BufferFits, FieldsTyped
<1>1. \A k : Len(k.buf) = 1 => BufferFits(k, pc)
  BY DEF BufferFits
<1>2. JobTyped(Goto(Buffered(j, e), pc))
  <2>1. PICK k : k = Buffered(j, e)
    OBVIOUS
  <2>2. FieldsTyped(k) /\ Len(k.buf) = Len(j.buf) + 1
    BY <1>0, <2>1, TypedBuffered
  <2>3. Len(k.buf) = 1
    BY <1>0, <2>2
  <2> QED BY <1>1, <2>1, <2>2, <2>3, TypedGoing
<1>3. JobTyped(Buffered(Goto(j, pc), e))
  <2>1. PICK g : g = Goto(j, pc)
    OBVIOUS
  <2>2. BufferFits(j, pc)
    BY <1>0 DEF BufferFits
  <2>3. JobTyped(g) /\ g.buf = j.buf /\ g.pc = pc
    BY <1>0, <2>1, <2>2, TypedGoing DEF Goto, FieldsTyped, Fields
  <2>4. PICK k : k = Buffered(g, e)
    OBVIOUS
  <2>5. FieldsTyped(k) /\ Len(k.buf) = Len(j.buf) + 1 /\ k.pc = pc
    <3>1. FieldsTyped(g) /\ Len(g.buf) = Len(j.buf)
      BY <2>3 DEF JobTyped
    <3> QED BY <2>3, <2>4, <3>1, TypedBuffered
  <2>6. Len(k.buf) = 1
    BY <1>0, <2>5
  <2> QED BY <1>1, <2>1, <2>4, <2>5, <2>6 DEF JobTyped
<1> QED BY <1>2, <1>3

-----------------------------------------------------------------------------
(* The steps the handlers share.                                           *)

LEMMA TypedRecords ==
  ASSUME TypedInv, NEW w \in Workers, NEW c
  PROVE  IsCharacter(Character(c)) /\ IsCharacter(Obtained(w, c)) /\ IsCharacter(Target(w))
<1>1. \A d : IsCharacter(Character(d))
  BY ZeroCharacterTyped DEF Character, Cached, TypedInv, CacheTyped
<1>2. IsCharacter(job[w].fetched)
  BY DEF TypedInv, JobsTyped, JobTyped, FieldsTyped
<1> QED BY <1>1, <1>2 DEF Obtained, Target

LEMMA TypedSetters ==
  ASSUME NEW m, IsCharacter(m)
  PROVE  /\ IsCharacter(LeaveParty(m))
         /\ \A p \in PartyIds : IsCharacter(JoinParty(m, p))
         /\ \A map \in Maps \cup {ZeroMap} : IsCharacter(ChangeMap(m, map))
  BY PartyIdsAssumption DEF IsCharacter, LeaveParty, JoinParty, ChangeMap

LEMMA TypedRemoved ==
  ASSUME NEW b, IsMemberList(b), NEW c \in DOMAIN b
  PROVE  IsMemberList(BagRemove(b, c))
<1>1. b[c] \in Nat \ {0}
  BY DEF IsMemberList
<1>2. CASE b[c] = 1
  BY <1>2 DEF IsMemberList, BagRemove
<1>3. CASE b[c] # 1
  <2>1. b[c] - 1 \in Nat \ {0}
    BY <1>1, <1>3
  <2> QED BY <1>3, <2>1 DEF IsMemberList, BagRemove
<1> QED BY <1>2, <1>3

LEMMA TypedBecame ==
  ASSUME TypedInv, NEW w \in Workers, NEW j, JobTyped(j), Become(w, j)
  PROVE  JobsTyped'
<1>1. DOMAIN job = Workers /\ job' = [job EXCEPT ![w] = j]
  BY DEF TypedInv, ServiceInv, JobsOK, Become
<1>2. \A v \in Workers : job'[v] = IF v = w THEN j ELSE job[v]
  BY <1>1
<1> QED BY <1>2 DEF TypedInv, JobsTyped

\* A step that touches neither the cache nor anybody outside.
LEMMA TypedPassed ==
  ASSUME TypedInv, NEW w \in Workers, NEW j, JobTyped(j), Become(w, j),
         UNCHANGED <<charReg, foreign, mirror>>
  PROVE  TypesKept
<1>1. CacheTyped' /\ PeersTyped'
  BY DEF TypedInv, CacheTyped, PeersTyped
<1> QED BY <1>1, TypedBecame DEF TypesKept

LEMMA TypedCached ==
  ASSUME TypedInv, NEW c \in Characters \cup {NoCharacter}, NEW m, IsCharacter(m),
         charReg' = Put(charReg, c, m)
  PROVE  CacheTyped'
  BY DEF TypedInv, CacheTyped, Put

LEMMA GetByIdTyped ==
  ASSUME TypedInv, NEW w \in Workers, NEW c \in Characters \cup {NoCharacter},
         NEW found, JobTyped(found), NEW failed, JobTyped(failed), GetById(w, c, found, failed)
  PROVE  TypesKept
<1>1. JobTyped(job[w])
  BY DEF TypedInv, JobsTyped
<1>2. \A map \in Maps \cup {ZeroMap} : IsCharacter(Fresh(c, map))
  BY PartyIdsAssumption DEF IsCharacter, Fresh
<1>3. UNCHANGED <<foreign, mirror>>
  BY DEF GetById
<1>4. CASE (Become(w, found) \/ Become(w, failed)) /\ UNCHANGED charReg
  BY <1>3, <1>4, TypedPassed
<1>5. CASE /\ \E map \in Maps : Become(w, [job[w] EXCEPT !.fetched = Fresh(c, map)])
           /\ UNCHANGED charReg
  <2>1. PICK map \in Maps : Become(w, [job[w] EXCEPT !.fetched = Fresh(c, map)])
    BY <1>5
  <2>2. JobTyped([job[w] EXCEPT !.fetched = Fresh(c, map)])
    BY <1>1, <1>2, TypedNoted
  <2> QED BY <1>3, <1>5, <2>1, <2>2, TypedPassed
<1>6. CASE /\ CreateCharacter(c, job[w].fetched.mapId)
           /\ Become(w, [found EXCEPT !.fetched = ZeroCharacter])
  <2>1. JobTyped([found EXCEPT !.fetched = ZeroCharacter])
    BY ZeroCharacterTyped, TypedNoted
  <2>2. JobsTyped'
    BY <1>6, <2>1, TypedBecame
  <2>3. job[w].fetched.mapId \in Maps \cup {ZeroMap}
    BY <1>1 DEF JobTyped, FieldsTyped, IsCharacter
  <2>4. CacheTyped'
    BY <1>2, <1>6, <2>3, TypedCached DEF CreateCharacter
  <2>5. PeersTyped'
    BY <1>3 DEF TypedInv, PeersTyped
  <2> QED BY <2>2, <2>4, <2>5 DEF TypesKept
<1> QED BY <1>4, <1>5, <1>6 DEF GetById

LEMMA GetCharacterTyped ==
  ASSUME TypedInv, NEW w \in Workers, NEW c, NEW found, JobTyped(found),
         NEW failed, JobTyped(failed), GetCharacter(w, c, found, failed)
  PROVE  TypesKept
<1>1. Become(w, found) \/ Become(w, failed)
  BY DEF GetCharacter
<1> QED BY <1>1, TypedPassed DEF GetCharacter

LEMMA GetPartyTyped ==
  ASSUME TypedInv, NEW w \in Workers, NEW p, NEW found, JobTyped(found),
         NEW failed, JobTyped(failed), GetParty(w, p, found, failed)
  PROVE  TypesKept
<1>1. Become(w, found) \/ Become(w, failed)
  BY DEF GetParty
<1> QED BY <1>1, TypedPassed DEF GetParty

LEMMA SetCharacterTyped ==
  ASSUME TypedInv, NEW w \in Workers, NEW updated, IsCharacter(updated),
         NEW j, JobTyped(j), SetCharacter(w, updated, j)
  PROVE  TypesKept
<1>1. job[w].rec.id \in Characters \cup {NoCharacter}
  BY DEF TypedInv, JobsTyped, JobTyped, FieldsTyped, IsCharacter
<1>2. CacheTyped'
  BY <1>1, TypedCached DEF SetCharacter, UpdateCharacter
<1>3. JobsTyped'
  BY TypedBecame DEF SetCharacter
<1> QED BY <1>2, <1>3 DEF TypesKept, SetCharacter, TypedInv, PeersTyped

LEMMA SetPartyTyped ==
  ASSUME TypedInv, NEW w \in Workers, NEW p, NEW u, NEW done, JobTyped(done),
         NEW refused, JobTyped(refused), SetParty(w, p, u, done, refused)
  PROVE  TypesKept
<1>1. Become(w, done) \/ Become(w, refused)
  BY DEF SetParty
<1> QED BY <1>1, TypedPassed DEF SetParty

\* What a handler holds, and the parties the registry answers it with.
LEMMA TypedWorking ==
  ASSUME TypedInv, NEW w \in Workers
  PROVE  /\ JobTyped(job[w]) /\ JobOK(job[w]) /\ RegistryInv
         /\ job[w].pid \in PartyIds /\ job[w].party.id \in PartyIds
         /\ {job[w].actor, job[w].chr} \subseteq Characters \cup {NoCharacter}
         /\ job[w].pc \notin Resting => job[w].chr \in Characters
         /\ job[w].map \in Maps \cup {ZeroMap}
         /\ IsParty(job[w].party) /\ IsMemberList(job[w].todo) /\ IsCharacter(job[w].rec)
<1>1. ServiceInv /\ JobTyped(job[w])
  BY DEF TypedInv, JobsTyped
<1>2. JobOK(job[w]) /\ RegistryInv
  BY <1>1, Working DEF ServiceInv
<1>3. job[w].pid \in PartyIds /\ job[w].party.id \in PartyIds
  BY <1>2 DEF JobOK
<1> QED BY <1>1, <1>2, <1>3, Working DEF JobTyped, FieldsTyped

LEMMA TypedParties ==
  ASSUME TypedInv, NEW p
  PROVE  /\ IsParty(Lookup(p)) /\ Lookup(p).id \in PartyIds
         /\ \A u \in Updaters : IsParty(Updated(p, u)) /\ Updated(p, u).id \in PartyIds
<1>1. RegistryInv /\ RegistryTypeOK
  BY DEF TypedInv, ServiceInv, RegistryInv
<1>2. IsParty(Lookup(p))
  BY <1>1, LookupParty
<1>3. ASSUME NEW u \in Updaters PROVE IsParty(Updated(p, u))
  BY <1>2, AppliedParty DEF Updated
<1> QED BY <1>1, <1>2, <1>3, LookedUp, UpdatedId

-----------------------------------------------------------------------------
(* One lemma per handler.                                                  *)

LEMMA CreateTyped ==
  ASSUME TypedInv, NEW w \in Workers, CreateSteps(w)
  PROVE  TypesKept
<1> DEFINE j == job[w]
<1>0. /\ JobTyped(j) /\ JobOK(j) /\ j.party.id \in PartyIds /\ IsParty(j.party)
      /\ {j.actor, j.chr} \subseteq Characters \cup {NoCharacter}
  BY TypedWorking
<1> DEFINE c == IF Joins(j) THEN j.chr ELSE j.actor
<1>1. c \in Characters \cup {NoCharacter}
  BY <1>0
<1>2. CASE CreateCheck(w)
  <2>1. j.pc \notin AtMostOne /\ j.pc \notin AtMostTwo
    BY <1>2 DEF CreateCheck, At, AtMostOne, AtMostTwo
  <2>2. JobTyped(Refuse(j)) /\ JobTyped(Goto(j, "create.alloc")) /\ JobTyped(FailCreate(j))
    BY <1>0, <2>1, TypedEnded, TypedMoved, TypedCreateEnded
  <2>3. PICK found : JobTyped(found) /\ GetById(w, j.actor, found, FailCreate(j))
    BY <1>2, <2>2 DEF CreateCheck
  <2> QED BY <1>0, <2>2, <2>3, GetByIdTyped
<1>3. CASE CreateAllocate(w)
  <2>1. j.pc = "create.alloc" /\ NextId \in PartyIds
    BY <1>3 DEF CreateAllocate, AllocatePartyId, At
  <2>2. j.actor \in Characters /\ NextId \in Nat
    BY <2>1, Working, PartyIdsAssumption DEF TypedInv, Creating
  <2>3. JobTyped(Goto(j, "create.store"))
    BY <1>0, <2>1, TypedMoved DEF AtMostOne, AtMostTwo
  <2> DEFINE k == [Goto(j, "create.store") EXCEPT !.party = NewParty(NextId, j.actor)]
  <2>4. JobTyped(k)
    BY <2>2, <2>3, CreatedParty, TypedNoted
  <2>5. Become(w, k) /\ UNCHANGED <<charReg, foreign, mirror>>
    BY <1>3 DEF CreateAllocate
  <2> HIDE DEF k
  <2> QED BY <2>4, <2>5, TypedPassed
<1>4. CASE CreateStore(w)
  <2>1. j.pc = "create.store"
    BY <1>4 DEF CreateStore, At
  <2> DEFINE e == Event("CREATED", j.party.id, j.actor)
  <2>2. e \in Events
    BY <1>0, EventTyped DEF EventTypes
  <2>3. /\ Become(w, Buffered(Goto(j, "enter"), e))
        /\ UNCHANGED <<charReg, foreign, mirror>>
    BY <1>4 DEF CreateStore
  <2>4. JobTyped(Buffered(Goto(j, "enter"), e))
    BY <1>0, <2>1, <2>2, TypedFirst DEF AtMostOne, AtMostTwo
  <2> QED BY <2>3, <2>4, TypedPassed
<1>5. CASE EnterCheck(w)
  <2>1. j.pc \notin AtMostTwo
    BY <1>5 DEF EnterCheck, At, AtMostTwo
  <2>2. JobTyped(Goto(j, "enter.set")) /\ JobTyped(Goto(j, "join.undo")) /\ JobTyped(FailCreate(j))
    BY <1>0, <2>1, TypedMoved, TypedCreateEnded DEF AtMostOne
  <2> DEFINE found == [Goto(j, "enter.set") EXCEPT !.rec = Obtained(w, c)]
             failed == IF Joins(j) THEN Goto(j, "join.undo") ELSE FailCreate(j)
  <2>3. JobTyped(found) /\ JobTyped(failed)
    BY <2>2, TypedRecords, TypedNoted
  <2>4. GetById(w, c, found, failed)
    BY <1>5 DEF EnterCheck
  <2> HIDE DEF c, found, failed
  <2> QED BY <1>1, <2>3, <2>4, GetByIdTyped
<1>6. CASE EnterSet(w)
  <2>1. j.pc \notin AtMostTwo
    BY <1>6 DEF EnterSet, At, AtMostTwo
  <2>2. Event("JOINED", j.party.id, j.chr) \in Events
    BY <1>0, EventTyped DEF EventTypes
  <2>3. /\ JobTyped(Done(Buffered(j, Event("JOINED", j.party.id, j.chr))))
        /\ JobTyped(CreateEnds(j, j.party))
    BY <1>0, <2>1, <2>2, TypedEnded, TypedCreateEnded DEF AtMostTwo
  <2>4. j.pid \in PartyIds
    BY TypedWorking
  <2> DEFINE k == IF Joins(j) THEN Done(Buffered(j, Event("JOINED", j.party.id, j.chr)))
                  ELSE CreateEnds(j, j.party)
             p == IF Joins(j) THEN j.pid ELSE j.party.id
  <2>5. JobTyped(k) /\ p \in PartyIds
    BY <1>0, <2>3, <2>4
  <2>6. SetCharacter(w, JoinParty(Target(w), p), k)
    BY <1>6 DEF EnterSet
  <2> HIDE DEF k, p
  <2>7. IsCharacter(JoinParty(Target(w), p))
    BY <2>5, TypedRecords, TypedSetters
  <2> QED BY <2>5, <2>6, <2>7, SetCharacterTyped
<1> QED BY <1>2, <1>3, <1>4, <1>5, <1>6 DEF CreateSteps

LEMMA JoinTyped ==
  ASSUME TypedInv, NEW w \in Workers, JoinSteps(w)
  PROVE  TypesKept
<1> DEFINE j == job[w]
<1>0. JobTyped(j) /\ j.chr \in Characters
  BY TypedWorking DEF JoinSteps, JoinCheck, JoinGetParty, JoinAdd, JoinUndo, At, Resting
<1>1. JobTyped(Refuse(j)) /\ JobTyped(Fail(j))
  BY <1>0, TypedEnded DEF JoinSteps, JoinCheck, JoinGetParty, JoinAdd, JoinUndo, At, AtMostTwo
<1>2. ~JoinUndo(w) => \A pc \in {"join.party", "join.add", "enter"} : JobTyped(Goto(j, pc))
  BY <1>0, TypedMoved
  DEF JoinSteps, JoinCheck, JoinGetParty, JoinAdd, At, AtMostOne, AtMostTwo
<1>3. CASE JoinCheck(w)
  <2>1. ~JoinUndo(w)
    BY <1>3 DEF JoinCheck, JoinUndo, At
  <2>2. PICK found : JobTyped(found) /\ GetById(w, j.chr, found, Fail(j))
    BY <1>1, <1>2, <1>3, <2>1 DEF JoinCheck
  <2> QED BY <1>0, <1>1, <2>2, GetByIdTyped
<1>4. CASE JoinGetParty(w)
  <2>1. ~JoinUndo(w)
    BY <1>4 DEF JoinGetParty, JoinUndo, At
  <2>2. PICK found : JobTyped(found) /\ GetParty(w, j.pid, found, Fail(j))
    BY <1>1, <1>2, <1>4, <2>1 DEF JoinGetParty
  <2> QED BY <1>1, <2>2, GetPartyTyped
<1>5. CASE JoinAdd(w)
  <2> DEFINE m == Updated(j.pid, Adding(j.chr))
             done == [Goto(j, "enter") EXCEPT !.party = m]
  <2>1. JobTyped(Goto(j, "enter"))
    BY <1>2, <1>5 DEF JoinAdd, JoinUndo, At
  <2>2. IsParty(m)
    BY <1>0, IsUpdater, TypedParties
  <2>3. JobTyped(done)
    BY <2>1, <2>2, TypedNoted
  <2>4. SetParty(w, j.pid, Adding(j.chr), done, Fail(j))
    BY <1>5 DEF JoinAdd
  <2> HIDE DEF done
  <2> QED BY <1>1, <2>3, <2>4, SetPartyTyped
<1>6. CASE JoinUndo(w)
  <2>1. SetParty(w, j.pid, Removing(j.chr), Fail(j), Fail(j))
    BY <1>6 DEF JoinUndo
  <2> QED BY <1>1, <2>1, SetPartyTyped
<1> QED BY <1>3, <1>4, <1>5, <1>6 DEF JoinSteps

LEMMA LeaveTyped ==
  ASSUME TypedInv, NEW w \in Workers, LeaveSteps(w)
  PROVE  TypesKept
<1> DEFINE j == job[w]
<1>0. /\ JobTyped(j) /\ j.chr \in Characters /\ JobOK(j)
      /\ j.pid \in PartyIds /\ j.party.id \in PartyIds
  BY TypedWorking
  DEF LeaveSteps, LeaveCheck, LeaveGetParty, LeaveRemove, LeaveGet, LeaveClear, LeaveUndo,
      At, Resting
<1>1. j.pc \notin AtMostOne /\ j.pc \notin AtMostTwo
  BY DEF LeaveSteps, LeaveCheck, LeaveGetParty, LeaveRemove, LeaveGet, LeaveClear, LeaveUndo,
         At, AtMostOne, AtMostTwo
<1>2. JobTyped(Refuse(j)) /\ JobTyped(Fail(j))
  BY <1>0, <1>1, TypedEnded DEF AtMostTwo
<1>3. \A pc : JobTyped(Goto(j, pc))
  BY <1>0, <1>1, TypedMoved
<1>4. CASE LeaveCheck(w)
  <2>1. PICK found : JobTyped(found) /\ GetById(w, j.chr, found, Fail(j))
    BY <1>2, <1>3, <1>4 DEF LeaveCheck
  <2> QED BY <1>0, <1>2, <2>1, GetByIdTyped
<1>5. CASE LeaveGetParty(w)
  <2> DEFINE found == [Goto(j, "leave.remove") EXCEPT
                         !.disband = j.op # "EXPEL" /\ Lookup(j.pid).leader = j.chr]
  <2>1. JobTyped(found)
    BY <1>3, TypedNoted
  <2>2. GetParty(w, j.pid, found, Fail(j))
    BY <1>5 DEF LeaveGetParty
  <2> HIDE DEF found
  <2> QED BY <1>2, <2>1, <2>2, GetPartyTyped
<1>6. CASE LeaveRemove(w)
  <2> DEFINE m == Updated(j.pid, Removing(j.chr))
             done == [Goto(j, "leave.get") EXCEPT !.party = m, !.todo = m.members]
  <2>1. IsParty(m) /\ IsMemberList(m.members)
    BY <1>0, IsUpdater, TypedParties DEF IsParty
  <2>2. SetParty(w, j.pid, Removing(j.chr), done, Fail(j))
    BY <1>6 DEF LeaveRemove
  <2> HIDE DEF m
  <2>3. JobTyped([Goto(j, "leave.get") EXCEPT !.party = m])
    BY <1>3, <2>1, TypedNoted
  <2>4. JobTyped(done)
    BY <2>1, <2>3, TypedNoted
  <2> HIDE DEF done
  <2> QED BY <1>2, <2>2, <2>4, SetPartyTyped
<1>7. CASE LeaveGet(w)
  <2> DEFINE found == [Goto(j, "leave.clear") EXCEPT !.rec = Character(j.chr)]
  <2>1. JobTyped(found)
    BY <1>3, TypedRecords, TypedNoted
  <2>2. GetCharacter(w, j.chr, found, Goto(j, "leave.undo"))
    BY <1>7 DEF LeaveGet
  <2> HIDE DEF found
  <2> QED BY <1>3, <2>1, <2>2, GetCharacterTyped
<1>8. CASE LeaveClear(w)
  <2>1. \A type \in EventTypes, p \in PartyIds : Event(type, p, j.chr) \in Events
    BY <1>0, EventTyped
  <2>2. \A e \in Events : /\ JobTyped(Done(Buffered(j, e)))
                          /\ JobTyped(Goto(Buffered(j, e), "expel.remove"))
    BY <1>0, <1>1, TypedEnded, TypedFirst DEF AtMostOne, AtMostTwo
  <2>3. PICK k : JobTyped(k) /\ SetCharacter(w, LeaveParty(Target(w)), k)
    BY <1>0, <1>3, <1>8, <2>1, <2>2 DEF LeaveClear, EventTypes
  <2>4. IsCharacter(LeaveParty(Target(w)))
    BY TypedRecords, TypedSetters
  <2> QED BY <2>3, <2>4, SetCharacterTyped
<1>9. CASE LeaveUndo(w)
  <2>1. SetParty(w, j.pid, Adding(j.chr), Fail(j), Fail(j))
    BY <1>9 DEF LeaveUndo
  <2> QED BY <1>2, <2>1, SetPartyTyped
<1> QED BY <1>4, <1>5, <1>6, <1>7, <1>8, <1>9 DEF LeaveSteps

LEMMA EndTyped ==
  ASSUME TypedInv, NEW w \in Workers, EndSteps(w)
  PROVE  TypesKept
<1> DEFINE j == job[w]
<1>0. /\ JobTyped(j) /\ j.pid \in PartyIds /\ IsMemberList(j.todo)
      /\ j.chr \in Characters \cup {NoCharacter}
  BY TypedWorking
<1>1. \/ j.pc \notin AtMostOne /\ j.pc \notin AtMostTwo
      \/ j.pc = "expel.remove"
  BY DEF EndSteps, DisbandGet, DisbandClear, RemoveDisbanded, RemoveEmptied, At, AtMostOne, AtMostTwo
<1>2. CASE DisbandGet(w)
  <2>1. PICK c \in DOMAIN j.todo :
          LET k == [j EXCEPT !.todo = BagRemove(j.todo, c)]
          IN  GetCharacter(w, c, [Goto(k, "disband.clear") EXCEPT !.rec = Character(c)], k)
    BY <1>2 DEF DisbandGet
  <2> DEFINE k == [j EXCEPT !.todo = BagRemove(j.todo, c)]
             found == [Goto(k, "disband.clear") EXCEPT !.rec = Character(c)]
  <2>2. IsMemberList(BagRemove(j.todo, c))
    BY <1>0, TypedRemoved
  <2>3. JobTyped(k)
    BY <1>0, <2>2, TypedNoted
  <2>4. k.pc = "disband"
    BY <1>0, <1>2 DEF DisbandGet, At, JobTyped, FieldsTyped, Fields
  <2>5. JobTyped(found)
    <3> HIDE DEF k
    <3>1. JobTyped(Goto(k, "disband.clear"))
      BY <2>3, <2>4, TypedMoved DEF AtMostOne, AtMostTwo
    <3> QED BY <3>1, TypedRecords, TypedNoted
  <2>6. GetCharacter(w, c, found, k)
    BY <2>1
  <2> HIDE DEF k, found
  <2> QED BY <2>3, <2>5, <2>6, GetCharacterTyped
<1>3. CASE DisbandClear(w)
  <2>1. JobTyped(Goto(j, "disband"))
    BY <1>0, <1>3, TypedMoved DEF DisbandClear, At, AtMostOne, AtMostTwo
  <2>2. SetCharacter(w, LeaveParty(Target(w)), Goto(j, "disband"))
    BY <1>3 DEF DisbandClear
  <2> QED BY <2>1, <2>2, TypedRecords, TypedSetters, SetCharacterTyped
<1>4. CASE RemoveDisbanded(w) \/ RemoveEmptied(w)
  <2> DEFINE e == Event("DISBAND", j.pid, j.chr)
  <2>1. e \in Events /\ j.pc \notin AtMostTwo
    BY <1>0, <1>1, EventTyped DEF EventTypes, AtMostOne, AtMostTwo
  <2>2. JobTyped(Done(Buffered(j, e))) /\ JobTyped(Done(j))
    BY <1>0, <2>1, TypedEnded DEF AtMostTwo
  <2>3. /\ Become(w, Done(Buffered(j, e))) \/ Become(w, Done(j))
        /\ UNCHANGED <<charReg, foreign, mirror>>
    BY <1>4 DEF RemoveDisbanded, RemoveEmptied
  <2> QED BY <2>2, <2>3, TypedPassed
<1> QED BY <1>2, <1>3, <1>4 DEF EndSteps

LEMMA LeadTyped ==
  ASSUME TypedInv, NEW w \in Workers, LeadSteps(w)
  PROVE  TypesKept
<1> DEFINE j == job[w]
<1>0. JobTyped(j) /\ j.chr \in Characters /\ j.pid \in PartyIds
  BY TypedWorking DEF LeadSteps, LeadGetActor, LeadCheck, LeadSet, At, Resting
<1>1. j.pc \notin AtMostOne /\ j.pc \notin AtMostTwo
  BY DEF LeadSteps, LeadGetActor, LeadCheck, LeadSet, At, AtMostOne, AtMostTwo
<1>2. JobTyped(Refuse(j)) /\ JobTyped(Fail(j))
  BY <1>0, <1>1, TypedEnded DEF AtMostTwo
<1>3. \A pc : JobTyped(Goto(j, pc))
  BY <1>0, <1>1, TypedMoved
<1>4. CASE LeadGetActor(w)
  <2> DEFINE found == [Goto(j, "lead.chr") EXCEPT !.rec = Obtained(w, j.chr)]
  <2>1. JobTyped(found)
    BY <1>3, TypedRecords, TypedNoted
  <2>2. GetById(w, j.chr, found, Fail(j))
    BY <1>4 DEF LeadGetActor
  <2> HIDE DEF found
  <2> QED BY <1>0, <1>2, <2>1, <2>2, GetByIdTyped
<1>5. CASE LeadCheck(w)
  <2>1. PICK found : JobTyped(found) /\ GetById(w, j.chr, found, Fail(j))
    BY <1>2, <1>3, <1>5 DEF LeadCheck
  <2> QED BY <1>0, <1>2, <2>1, GetByIdTyped
<1>6. CASE LeadSet(w)
  <2> DEFINE m == Updated(j.pid, Appointing(j.chr))
             lead(p) == Event("CHANGE_LEADER", p.id, j.chr)
             error == Event("ERROR", j.pid, j.chr)
  <2>1. lead(m) \in Events /\ lead(ZeroParty) \in Events /\ error \in Events
    <3>1. m.id \in PartyIds
      BY <1>0, IsUpdater, TypedParties
    <3>2. ZeroParty.id \in PartyIds
      BY PartyIdsAssumption DEF ZeroParty
    <3> QED BY <1>0, <3>1, <3>2, EventTyped DEF EventTypes
  <2>2. SetParty(w, j.pid, Appointing(j.chr), Done(Buffered(j, lead(m))),
                 Done(Buffered(Buffered(j, error), lead(ZeroParty))))
    BY <1>6 DEF LeadSet
  <2>3. JobTyped(Done(Buffered(j, lead(m))))
    BY <1>0, <1>1, <2>1, TypedEnded DEF AtMostTwo
  <2> HIDE DEF m, lead, error
  <2>4. JobTyped(Done(Buffered(Buffered(j, error), lead(ZeroParty))))
    <3>0. FieldsTyped(j) /\ Len(j.buf) = 0
      BY <1>0, <1>1 DEF JobTyped, BufferFits
    <3>1. PICK k : k = Buffered(j, error)
      OBVIOUS
    <3>2. FieldsTyped(k) /\ Len(k.buf) = Len(j.buf) + 1
      BY <2>1, <3>0, <3>1, TypedBuffered
    <3>3. PICK l : l = Buffered(k, lead(ZeroParty))
      OBVIOUS
    <3>4. FieldsTyped(l) /\ Len(l.buf) = Len(k.buf) + 1
      BY <2>1, <3>2, <3>3, TypedBuffered
    <3>5. Len(l.buf) = 2
      BY <3>0, <3>2, <3>4
    <3>6. BufferFits(l, "return")
      BY <3>5 DEF BufferFits, AtMostOne, AtMostTwo
    <3> QED BY <3>1, <3>3, <3>4, <3>6, TypedGoing DEF Done
  <2> QED BY <2>2, <2>3, <2>4, SetPartyTyped
<1> QED BY <1>4, <1>5, <1>6 DEF LeadSteps

LEMMA InviteTyped ==
  ASSUME TypedInv, NEW w \in Workers, InviteSteps(w)
  PROVE  TypesKept
<1> DEFINE j == job[w]
<1>0. /\ JobTyped(j) /\ j.chr \in Characters
      /\ j.actor \in Characters \cup {NoCharacter}
  BY TypedWorking
  DEF InviteSteps, InviteGetActor, InviteCheck, InviteGetParty, InviteSend, At, Resting
<1>1. /\ j.pc # "return"
      /\ ~InviteSend(w) => j.pc \notin AtMostOne /\ j.pc \notin AtMostTwo
  BY DEF InviteSteps, InviteGetActor, InviteCheck, InviteGetParty, InviteSend, At, AtMostOne,
         AtMostTwo
<1>2. /\ JobTyped(Refuse(j)) /\ JobTyped(Done(j)) /\ JobTyped([Done(j) EXCEPT !.err = TRUE])
      /\ JobTyped(Fail(j))
  BY <1>0, <1>1, TypedEnded
<1>3. ~InviteSend(w) => \A pc : JobTyped(Goto(j, pc))
  BY <1>0, <1>1, TypedMoved
<1>4. CASE InviteGetActor(w)
  <2>0. ~InviteSend(w)
    BY <1>4 DEF InviteGetActor, InviteSend, At
  <2> DEFINE found == [Goto(j, "invite.chr") EXCEPT !.rec = Obtained(w, j.actor)]
  <2>1. JobTyped(found)
    BY <1>3, <2>0, TypedRecords, TypedNoted
  <2>2. GetById(w, j.actor, found, Fail(j))
    BY <1>4 DEF InviteGetActor
  <2> HIDE DEF found
  <2> QED BY <1>0, <1>2, <2>0, <2>1, <2>2, GetByIdTyped
<1>5. CASE InviteCheck(w)
  <2>0. ~InviteSend(w)
    BY <1>5 DEF InviteCheck, InviteSend, At
  <2>1. PICK found : JobTyped(found) /\ GetById(w, j.chr, found, Fail(j))
    BY <1>2, <1>3, <1>5, <2>0 DEF InviteCheck
  <2> QED BY <1>0, <1>2, <2>0, <2>1, GetByIdTyped
<1>6. CASE InviteGetParty(w)
  <2>0. ~InviteSend(w)
    BY <1>6 DEF InviteGetParty, InviteSend, At
  <2> DEFINE found == [Goto(j, "invite.send") EXCEPT !.party = Lookup(j.rec.partyId)]
             failed == [Done(j) EXCEPT !.err = TRUE]
  <2>1. JobTyped(found) /\ JobTyped(failed)
    BY <1>2, <1>3, <2>0, TypedParties, TypedNoted
  <2>2. GetParty(w, j.rec.partyId, found, failed)
    BY <1>6 DEF InviteGetParty
  <2> HIDE DEF found, failed
  <2> QED BY <2>1, <2>2, GetPartyTyped
<1>7. CASE InviteSend(w)
  <2>1. /\ Become(w, Refuse(j)) \/ Become(w, Done(j)) \/ Become(w, Fail(j))
        /\ UNCHANGED <<charReg, foreign, mirror>>
    BY <1>7 DEF InviteSend
  <2> QED BY <1>2, <2>1, TypedPassed
<1> QED BY <1>4, <1>5, <1>6, <1>7 DEF InviteSteps

LEMMA DeletionTyped ==
  ASSUME TypedInv, NEW w \in Workers, DeletionSteps(w)
  PROVE  TypesKept
<1> DEFINE j == job[w]
<1>0. JobTyped(j) /\ j.chr \in Characters /\ RegistryInv
  BY TypedWorking
  DEF DeletionSteps, DeletedGetParty, DeleteGet, DeleteLeaveGet, DeleteLeaveClear, DeleteDrop,
      At, Resting
<1>1. \A pc : JobTyped(Goto(j, pc))
  BY <1>0, TypedMoved
  DEF DeletionSteps, DeletedGetParty, DeleteGet, DeleteLeaveGet, DeleteLeaveClear, DeleteDrop,
      At, AtMostOne, AtMostTwo
<1>2. ASSUME Forget(w), CacheTyped'
      PROVE  TypesKept
  <2>1. JobsTyped'
    BY <1>2, NoJobTyped, TypedBecame DEF Forget
  <2>2. foreign' \in [Characters -> {"alive", "deleting", "deleted"}] /\ mirror' = mirror
    BY <1>2 DEF Forget, TypedInv, PeersTyped
  <2> QED BY <1>2, <2>1, <2>2 DEF TypesKept, TypedInv, PeersTyped
<1>3. UNCHANGED charReg => CacheTyped'
  BY DEF TypedInv, CacheTyped
<1>4. CASE DeletedGetParty(w)
  <2> DEFINE p == PartyOf(j.chr).id
             k == [Goto(j, "leave") EXCEPT !.pid = p]
  <2>1. p \in PartyIds
    BY <1>0, LookedUp, PartyIdsAssumption DEF PartyOf, ZeroParty
  <2>2. Become(w, k) /\ UNCHANGED <<charReg, foreign, mirror>>
    BY <1>4 DEF DeletedGetParty
  <2> HIDE DEF p
  <2>3. JobTyped(k)
    BY <1>1, <2>1, TypedNoted
  <2> HIDE DEF k
  <2> QED BY <2>2, <2>3, TypedPassed
<1>5. CASE DeleteGet(w)
  <2>1. \/ Forget(w) /\ UNCHANGED charReg
        \/ \E pc : GetCharacter(w, j.chr, Goto(j, pc), j)
    BY <1>5 DEF DeleteGet
  <2> QED BY <1>0, <1>1, <1>2, <1>3, <2>1, GetCharacterTyped
<1>6. CASE DeleteLeaveGet(w)
  <2> DEFINE found == [Goto(j, "delete.clear") EXCEPT !.rec = Character(j.chr)]
  <2>1. JobTyped(found)
    BY <1>1, TypedRecords, TypedNoted
  <2>2. (Forget(w) /\ UNCHANGED charReg) \/ GetCharacter(w, j.chr, found, j)
    BY <1>6 DEF DeleteLeaveGet
  <2> HIDE DEF found
  <2> QED BY <1>0, <1>2, <1>3, <2>1, <2>2, GetCharacterTyped
<1>7. CASE DeleteLeaveClear(w)
  <2>1. SetCharacter(w, LeaveParty(Target(w)), Goto(j, "delete.drop"))
    BY <1>7 DEF DeleteLeaveClear
  <2> QED BY <1>1, <2>1, TypedRecords, TypedSetters, SetCharacterTyped
<1>8. CASE DeleteDrop(w)
  <2>1. Forget(w) /\ charReg' = DeleteKeys(charReg, {j.chr})
    BY <1>8 DEF DeleteDrop, DeleteCharacter
  <2>2. CacheTyped'
    BY <2>1 DEF TypedInv, CacheTyped, DeleteKeys
  <2> QED BY <1>2, <2>1, <2>2
<1> QED BY <1>4, <1>5, <1>6, <1>7, <1>8 DEF DeletionSteps

LEMMA TypedLists ==
  ASSUME TypedInv, NEW p,
         NEW list \in ViewParties \cup ViewParty(p) \cup ViewPartyMember(p)
  PROVE  IsMemberList(list)
<1>1. \A q : Members(Lookup(q)) \subseteq Characters /\ IsMemberList(Lookup(q).members)
  BY TypedParties DEF IsParty, IsMemberList, Members
<1>2. \A C : C \subseteq Characters => IsMemberList(ListOf(C))
  BY DEF IsMemberList, ListOf
<1>3. ASSUME NEW P \in SUBSET DOMAIN partyReg
      PROVE  IsMemberList(ListOfParties(P))
  <2>1. \A q \in P : Members(partyReg[q]) \subseteq Characters
    BY <1>1 DEF Lookup
  <2> QED BY <1>2, <2>1 DEF ListOfParties
<1>4. CASE list \in ViewParties
  BY <1>3, <1>4 DEF ViewParties
<1>5. CASE list \in ViewParty(p)
  BY <1>1, <1>5 DEF ViewParty
<1>6. CASE list \in ViewPartyMember(p)
  BY <1>1, <1>2, <1>6 DEF ViewPartyMember
<1> QED BY <1>4, <1>5, <1>6

-----------------------------------------------------------------------------
(* What a follower makes of the events of a buffer, in order.              *)

Follow(view, events) == FoldLeft(Learn, view, events)

LEMMA LearnTyped ==
  ASSUME NEW view \in [Characters -> PartyIds], NEW e \in Events
  PROVE  Learn(view, e) \in [Characters -> PartyIds]
<1>1. e.type \in EventTypes /\ e.pid \in PartyIds
  BY DEF Events
<1>2. CASE e.type \in {"CREATED", "JOINED"}
  BY <1>1, <1>2 DEF Learn
<1>3. CASE e.type \in {"LEFT", "EXPEL"}
  BY <1>3, PartyIdsAssumption DEF Learn
<1>4. CASE e.type = "DISBAND"
  BY <1>4, PartyIdsAssumption DEF Learn
<1>5. CASE e.type \in {"ERROR", "CHANGE_LEADER"}
  BY <1>5 DEF Learn
<1> QED BY <1>1, <1>2, <1>3, <1>4, <1>5 DEF EventTypes

LEMMA FollowTyped ==
  ASSUME NEW view \in [Characters -> PartyIds], NEW seq \in Seq(Events), Len(seq) <= 3
  PROVE  Follow(view, seq) \in [Characters -> PartyIds]
<1> DEFINE D == DOMAIN seq
           P(g) == g = [s \in SUBSET DOMAIN seq |->
                          IF s = {} THEN view ELSE Learn(g[s \ {Max(s)}], seq[Max(s)])]
           it == CHOOSE g : P(g)
<1>0. D \in {{}, {1}, {1, 2}, {1, 2, 3}} /\ \A i \in D : seq[i] \in Events
  <2>1. D = 1..Len(seq) /\ Len(seq) \in Nat /\ \A i \in D : seq[i] \in Events
    OBVIOUS
  <2>2. Len(seq) = 0 \/ Len(seq) = 1 \/ Len(seq) = 2 \/ Len(seq) = 3
    BY <2>1
  <2>3. 1..0 = {} /\ 1..1 = {1} /\ 1..2 = {1, 2} /\ 1..3 = {1, 2, 3}
    OBVIOUS
  <2> QED BY <2>1, <2>2, <2>3
<1>1. Follow(view, seq) = it[DOMAIN seq]
  BY DEF Follow, FoldLeft, MapThenFoldSet
<1>2. ASSUME NEW s \in SUBSET {1, 2, 3}
      PROVE  /\ 3 \in s => Max(s) = 3
             /\ 3 \notin s /\ 2 \in s => Max(s) = 2
             /\ 3 \notin s /\ 2 \notin s /\ 1 \in s => Max(s) = 1
  <2>1. ASSUME NEW i \in s, \A k \in s : i >= k
        PROVE  Max(s) = i
    <3>1. Max(s) \in s /\ \A k \in s : Max(s) >= k
      BY <2>1 DEF Max
    <3>2. PICK x \in {1, 2, 3} : x = Max(s) /\ x \in s /\ \A k \in s : x >= k
      BY <3>1
    <3>3. i \in {1, 2, 3} /\ i >= x /\ x >= i
      BY <2>1, <3>2
    <3> QED BY <3>2, <3>3
  <2>2. 3 \in s => \A k \in s : 3 >= k
    OBVIOUS
  <2>3. 3 \notin s => \A k \in s : 2 >= k
    OBVIOUS
  <2>4. 3 \notin s /\ 2 \notin s => \A k \in s : 1 >= k
    OBVIOUS
  <2> QED BY <2>1, <2>2, <2>3, <2>4
<1>4. \E g : P(g)
  <2> DEFINE first(s) == IF 1 \in s THEN Learn(view, seq[1]) ELSE view
             second(s) == IF 2 \in s THEN Learn(first(s), seq[2]) ELSE first(s)
             third(s) == IF 3 \in s THEN Learn(second(s), seq[3]) ELSE second(s)
             h == [s \in SUBSET DOMAIN seq |-> third(s)]
  <2>1. D \subseteq {1, 2, 3}
    BY <1>0
  <2>2. h = [s \in SUBSET DOMAIN seq |->
               IF s = {} THEN view ELSE Learn(h[s \ {Max(s)}], seq[Max(s)])]
    <3> SUFFICES ASSUME NEW s \in SUBSET DOMAIN seq
                 PROVE  h[s] = IF s = {} THEN view ELSE Learn(h[s \ {Max(s)}], seq[Max(s)])
      OBVIOUS
    <3>0. h[s] = third(s)
      OBVIOUS
    <3>1. CASE s = {}
      BY <3>0, <3>1
    <3>2. ASSUME NEW i \in {1, 2, 3}
          PROVE  h[s \ {i}] = third(s \ {i})
      <4>1. s \ {i} \in SUBSET DOMAIN seq
        OBVIOUS
      <4> QED BY <4>1
    <3>3. CASE 3 \in s
      <4>1. first(s \ {3}) = first(s)
        OBVIOUS
      <4>2. second(s \ {3}) = second(s)
        BY <4>1
      <4>3. third(s \ {3}) = second(s) /\ third(s) = Learn(second(s), seq[3])
        BY <3>3, <4>2
      <4>4. Max(s) = 3 /\ s # {}
        BY <1>2, <2>1, <3>3
      <4> QED BY <3>0, <3>2, <4>3, <4>4
    <3>4. CASE 3 \notin s /\ 2 \in s
      <4>1. first(s \ {2}) = first(s)
        OBVIOUS
      <4>2. second(s \ {2}) = first(s) /\ second(s) = Learn(first(s), seq[2])
        BY <3>4, <4>1
      <4>3. third(s \ {2}) = first(s) /\ third(s) = Learn(first(s), seq[2])
        BY <3>4, <4>2
      <4>4. Max(s) = 2 /\ s # {}
        BY <1>2, <2>1, <3>4
      <4> QED BY <3>0, <3>2, <4>3, <4>4
    <3>5. CASE 3 \notin s /\ 2 \notin s /\ 1 \in s
      <4>1. first(s \ {1}) = view /\ first(s) = Learn(view, seq[1])
        BY <3>5
      <4>2. second(s \ {1}) = view /\ second(s) = Learn(view, seq[1])
        BY <3>5, <4>1
      <4>3. third(s \ {1}) = view /\ third(s) = Learn(view, seq[1])
        BY <3>5, <4>2
      <4>4. Max(s) = 1 /\ s # {}
        BY <1>2, <2>1, <3>5
      <4> QED BY <3>0, <3>2, <4>3, <4>4
    <3> QED BY <2>1, <3>1, <3>3, <3>4, <3>5
  <2> QED BY <2>2
<1>5. P(it)
  BY <1>4
<1>6. PICK g : P(g) /\ Follow(view, seq) = g[DOMAIN seq]
  BY <1>1, <1>5
<1>7. g[{}] = view
  BY <1>6
<1>8. ASSUME NEW s \in SUBSET D, NEW i \in D, i \in s, Max(s) = i,
             g[s \ {i}] \in [Characters -> PartyIds]
      PROVE  g[s] \in [Characters -> PartyIds]
  <2>1. g[s] = Learn(g[s \ {Max(s)}], seq[Max(s)])
    BY <1>6, <1>8
  <2>2. g[s] = Learn(g[s \ {i}], seq[i])
    BY <1>8, <2>1
  <2>3. PICK e \in Events : e = seq[i]
    BY <1>0
  <2>4. PICK before \in [Characters -> PartyIds] : before = g[s \ {i}]
    BY <1>8
  <2>5. Learn(before, e) \in [Characters -> PartyIds]
    BY LearnTyped
  <2> QED BY <2>2, <2>3, <2>4, <2>5
<1>9. /\ Max({1}) = 1 /\ Max({1, 2}) = 2 /\ Max({1, 2, 3}) = 3
      /\ {1} \ {1} = {} /\ {1, 2} \ {2} = {1} /\ {1, 2, 3} \ {3} = {1, 2}
  BY DEF Max
<1>10. 1 \in D => g[{1}] \in [Characters -> PartyIds]
  BY <1>7, <1>8, <1>9
<1>11. {1, 2} \subseteq D => g[{1, 2}] \in [Characters -> PartyIds]
  BY <1>8, <1>9, <1>10
<1>12. {1, 2, 3} \subseteq D => g[{1, 2, 3}] \in [Characters -> PartyIds]
  BY <1>8, <1>9, <1>11
<1> QED BY <1>0, <1>6, <1>7, <1>10, <1>11, <1>12

LEMMA TypedNamed ==
  ASSUME NEW op \in Operations, NEW pc, NEW p \in PartyIds,
         NEW actor \in Characters \cup {NoCharacter}, NEW c \in Characters \cup {NoCharacter}
  PROVE  /\ JobTyped(Job(op, pc, actor, p, c))
         /\ \A m \in Maps : JobTyped([Job(op, pc, actor, p, c) EXCEPT !.map = m])
<1>1. ASSUME NEW m \in Maps \cup {ZeroMap}, NEW k, DOMAIN k = Fields,
             k.op = op, k.actor = actor, k.chr = c, k.pid = p, k.rec = NoJob.rec,
             k.fetched = NoJob.fetched, k.party = NoJob.party, k.todo = NoJob.todo,
             k.map = m, k.buf = NoJob.buf
      PROVE  JobTyped(k)
  <2>1. NoJob.buf = <<>> /\ Len(<<>>) = 0
    BY DEF NoJob
  <2>2. BufferFits(k, k.pc)
    BY <1>1, <2>1 DEF BufferFits
  <2> QED BY <1>1, <2>2, NoJobTyped DEF JobTyped, FieldsTyped
<1>2. PICK k : k = Job(op, pc, actor, p, c)
  OBVIOUS
<1>3. /\ DOMAIN k = Fields
      /\ k.op = op /\ k.actor = actor /\ k.chr = c /\ k.pid = p /\ k.rec = NoJob.rec
      /\ k.fetched = NoJob.fetched /\ k.party = NoJob.party /\ k.todo = NoJob.todo
      /\ k.map = ZeroMap /\ k.buf = NoJob.buf
  BY <1>2 DEF Job, NoJob, Fields
<1>4. ASSUME NEW m \in Maps
      PROVE  JobTyped([k EXCEPT !.map = m])
  <2>1. PICK l : l = [k EXCEPT !.map = m]
    OBVIOUS
  <2>2. /\ DOMAIN l = Fields
        /\ l.op = op /\ l.actor = actor /\ l.chr = c /\ l.pid = p /\ l.rec = NoJob.rec
        /\ l.fetched = NoJob.fetched /\ l.party = NoJob.party /\ l.todo = NoJob.todo
        /\ l.map = m /\ l.buf = NoJob.buf
    BY <1>3, <2>1 DEF Fields
  <2> QED BY <1>1, <2>1, <2>2
<1> QED BY <1>1, <1>2, <1>3, <1>4

LEMMA OtherTyped ==
  ASSUME TypedInv, NEW w \in Workers, OtherSteps(w)
  PROVE  TypesKept
<1> DEFINE j == job[w]
<1>0. /\ JobTyped(j) /\ JobOK(j) /\ j.map \in Maps \cup {ZeroMap} /\ IsMemberList(j.todo)
      /\ {j.actor, j.chr} \subseteq Characters \cup {NoCharacter} /\ j.pid \in PartyIds
  BY TypedWorking
<1>1. JobTyped(Done(j))
  BY <1>0, TypedEnded
<1>2. CASE MapGet(w)
  <2> DEFINE found == [Goto(j, "map.set") EXCEPT !.rec = Obtained(w, j.chr)]
  <2>1. JobTyped(Goto(j, "map.set"))
    BY <1>0, <1>2, TypedMoved DEF MapGet, At, AtMostOne, AtMostTwo
  <2>2. JobTyped(found)
    BY <2>1, TypedRecords, TypedNoted
  <2>3. GetById(w, j.chr, found, Done(j))
    BY <1>2 DEF MapGet
  <2> HIDE DEF found
  <2> QED BY <1>0, <1>1, <2>2, <2>3, GetByIdTyped
<1>3. CASE MapSet(w)
  <2>1. SetCharacter(w, ChangeMap(Target(w), j.map), Done(j))
    BY <1>3 DEF MapSet
  <2> QED BY <1>0, <1>1, <2>1, TypedRecords, TypedSetters, SetCharacterTyped
<1>4. CASE ViewGet(w)
  <2>1. PICK list \in ViewParties \cup ViewParty(j.pid) \cup ViewPartyMember(j.pid) :
          Become(w, IF list = EmptyMap THEN NoJob
                    ELSE [Goto(j, "view.member") EXCEPT !.todo = list])
    BY <1>4 DEF ViewGet
  <2>2. JobTyped(Goto(j, "view.member"))
    BY <1>0, <1>4, TypedMoved DEF ViewGet, At, AtMostOne, AtMostTwo
  <2>3. JobTyped([Goto(j, "view.member") EXCEPT !.todo = list])
    BY <2>2, TypedLists, TypedNoted
  <2>4. UNCHANGED <<charReg, foreign, mirror>>
    BY <1>4 DEF ViewGet
  <2> QED BY <2>1, <2>3, <2>4, NoJobTyped, TypedPassed
<1>5. CASE ViewMember(w)
  <2>1. PICK c \in DOMAIN j.todo :
          GetById(w, c, IF BagRemove(j.todo, c) = EmptyMap THEN NoJob
                        ELSE [j EXCEPT !.todo = BagRemove(j.todo, c)], NoJob)
    BY <1>5 DEF ViewMember
  <2>2. JobTyped([j EXCEPT !.todo = BagRemove(j.todo, c)])
    BY <1>0, TypedRemoved, TypedNoted
  <2>3. PICK found : JobTyped(found) /\ GetById(w, c, found, NoJob)
    BY <2>1, <2>2, NoJobTyped
  <2>4. c \in Characters
    BY <1>0 DEF IsMemberList
  <2> QED BY <2>3, <2>4, NoJobTyped, GetByIdTyped
<1>6. CASE Return(w)
  <2> DEFINE k == IF j.op = "DELETED" THEN Job("DELETED", "delete", j.actor, NoParty, j.chr)
                  ELSE NoJob
  <2>1. JobTyped(k)
    BY <1>0, NoJobTyped, TypedNamed, PartyIdsAssumption DEF Operations
  <2>2. Become(w, k) /\ UNCHANGED <<charReg, foreign>>
    BY <1>6 DEF Return
  <2> HIDE DEF k
  <2>3. mirror' = mirror \/ (~j.err /\ mirror' = Follow(mirror, j.buf))
    BY <1>6 DEF Return, Follow
  <2>4. ~j.err => j.buf \in Seq(Events) /\ Len(j.buf) <= 3
    BY <1>0 DEF JobTyped, FieldsTyped, BufferFits
  <2>5. mirror' \in [Characters -> PartyIds]
    BY <2>3, <2>4, FollowTyped DEF TypedInv, PeersTyped
  <2>6. JobsTyped'
    BY <2>1, <2>2, TypedBecame
  <2> QED BY <2>2, <2>5, <2>6 DEF TypesKept, TypedInv, PeersTyped, CacheTyped
<1> QED BY <1>2, <1>3, <1>4, <1>5, <1>6 DEF OtherSteps

LEMMA IncomingTyped ==
  ASSUME InvitesOK, NEW j \in Incoming
  PROVE  JobTyped(j)
<1> USE ServiceAssumption, PartyIdsAssumption DEF Operations
<1>1. CASE \E c \in Characters : j = PostParty(c)
  BY <1>1, TypedNamed DEF PostParty
<1>2. CASE \E p \in CommandIds, c \in Characters :
             j \in {PostMember(p, c), DeleteMember(p, c), Job("EXPEL", "leave", c, p, c),
                   PatchParty(p, c)}
  BY <1>2, TypedNamed DEF PostMember, DeleteMember, PatchParty
<1>3. CASE \E a \in Characters, p \in CommandIds, c \in Characters :
             j = Job("CHANGE_LEADER", "lead", a, p, c)
  BY <1>3, TypedNamed
<1>4. CASE \E p \in CommandIds : j = Job("VIEW", "view", NoCharacter, p, NoCharacter)
  BY <1>4, TypedNamed
<1>5. CASE \E a \in Characters, c \in Characters :
             j = Job("REQUEST_INVITE", "invite", a, NoParty, c)
  BY <1>5, TypedNamed
<1>6. CASE \E i \in invites : j = Job("ACCEPTED", "join", i.chr, i.pid, i.chr)
  <2>1. PICK i \in invites : j = Job("ACCEPTED", "join", i.chr, i.pid, i.chr)
    BY <1>6
  <2>2. i.pid \in PartyIds /\ i.chr \in Characters
    BY DEF InvitesOK
  <2> QED BY <2>1, <2>2, TypedNamed
<1>7. CASE \E c \in Characters : j = Job("DELETED", "deleted", c, NoParty, c)
  BY <1>7, TypedNamed
<1>8. CASE \E m \in Maps, c \in Characters :
             j = [Job("MAP_CHANGED", "map", c, NoParty, c) EXCEPT !.map = m]
  BY <1>8, TypedNamed
<1> QED BY <1>1, <1>2, <1>3, <1>4, <1>5, <1>6, <1>7, <1>8 DEF Incoming

LEMMA TypedInvariant == Spec => []TypedInv
<1>1. Init => JobsTyped /\ CacheTyped /\ PeersTyped
  BY NoJobTyped, PartyIdsAssumption DEF Init, JobsTyped, CacheTyped, PeersTyped, EmptyMap
<1>2. TypedInv /\ [Next]_vars => TypesKept
  <2> SUFFICES ASSUME TypedInv, [Next]_vars
               PROVE  TypesKept
    OBVIOUS
  <2>1. CASE \E w \in Workers : Work(w)
    <3>1. PICK w \in Workers : Work(w)
      BY <2>1
    <3>2. \/ CreateSteps(w) \/ JoinSteps(w) \/ LeaveSteps(w) \/ EndSteps(w) \/ LeadSteps(w)
          \/ InviteSteps(w) \/ DeletionSteps(w) \/ OtherSteps(w)
      BY <3>1 DEF Work, CreateSteps, JoinSteps, LeaveSteps, EndSteps, LeadSteps, InviteSteps,
                  DeletionSteps, OtherSteps
    <3> QED BY <3>2, CreateTyped, JoinTyped, LeaveTyped, EndTyped, LeadTyped, InviteTyped,
               DeletionTyped, OtherTyped
  <2>2. CASE \E w \in Workers : \E j \in Incoming : Receive(w, j)
    <3>1. PICK w \in Workers, j \in Incoming : Receive(w, j)
      BY <2>2
    <3>2. JobTyped(j)
      BY IncomingTyped DEF TypedInv, ServiceInv
    <3> QED BY <3>1, <3>2, TypedPassed DEF Receive
  <2>3. CASE \E c \in Mortal : Vanish(c)
    <3>1. PICK c \in Mortal : Vanish(c)
      BY <2>3
    <3>2. foreign' \in [Characters -> {"alive", "deleting", "deleted"}]
      BY <3>1 DEF Vanish, TypedInv, PeersTyped
    <3> QED BY <3>1, <3>2 DEF Vanish, TypesKept, TypedInv, JobsTyped, CacheTyped, PeersTyped
  <2>4. CASE Restart
    BY <2>4, NoJobTyped
    DEF Restart, TypesKept, TypedInv, JobsTyped, CacheTyped, PeersTyped, EmptyMap
  <2>5. CASE UNCHANGED vars
    BY <2>5 DEF vars, serviceVars, TypesKept, TypedInv, JobsTyped, CacheTyped, PeersTyped
  <2> QED BY <2>1, <2>2, <2>3, <2>4, <2>5 DEF Next
<1>3. Init /\ ServiceInv => TypedInv
  BY <1>1 DEF TypedInv
<1>4. TypesKept /\ ServiceInv' => TypedInv'
  BY DEF TypesKept, TypedInv
<1> QED BY <1>2, <1>3, <1>4, ServiceInvariant, PTL DEF Spec

\* The types of the whole service, with any number of handlers at work, crashes and a
\* broker that loses what it is given: every record a handler stores under a character is
\* a record of a character and a party it can be in, also the one that Update makes of
\* Model{} for an absent id (character/registry.go:86), and whoever follows the published
\* events never learns of anything but party ids.
THEOREM ServiceTyped == Spec => []TypeOK
<1>1. TypedInv => TypeOK
  <2> SUFFICES ASSUME TypedInv
               PROVE  TypeOK
    OBVIOUS
  <2>1. RegistryTypeOK /\ invites \subseteq [pid : PartyIds, chr : Characters] /\ DOMAIN job = Workers
    BY DEF TypedInv, ServiceInv, RegistryInv, InvitesOK, JobsOK
  <2>2. ASSUME NEW w \in Workers
        PROVE  /\ job[w].op \in Operations \cup {"none"}
               /\ {job[w].actor, job[w].chr} \subseteq Characters \cup {NoCharacter}
               /\ job[w].pid \in PartyIds
               /\ IsCharacter(job[w].rec) /\ IsCharacter(job[w].fetched)
               /\ IsParty(job[w].party)
               /\ IsMemberList(job[w].todo)
    BY DEF TypedInv, JobsTyped, JobTyped, FieldsTyped
  <2> QED BY <2>1, <2>2 DEF TypedInv, CacheTyped, PeersTyped, TypeOK
<1> QED BY <1>1, TypedInvariant, PTL

-----------------------------------------------------------------------------
(***************************************************************************)
(* Records of the living, for any number of workers: a fourth invariant.   *)
(* Records are dropped for characters that are gone, and a handler that    *)
(* updates a record has looked it up before, so the record is still there  *)
(* unless its character has gone meanwhile.                                *)
(***************************************************************************)
Alive(c) == c \in Characters /\ foreign[c] = "alive"

\* Where a handler looks a character up, and may hold what it was answered.
Asking == {"create", "join", "enter", "leave", "lead", "lead.chr", "invite", "invite.chr",
           "map", "view.member"}

\* Where the record it looked up is the one it updates, and where it updates.
Taking == {"enter", "map"}
Rewriting == {"enter.set", "leave.clear", "disband.clear", "map.set", "delete.clear"}
Deleting == {"deleted", "delete", "delete.get", "delete.clear", "delete.drop"}

Whose(j) == IF j.pc = "enter" /\ ~Joins(j) THEN j.actor ELSE j.chr

LivingOK(j) ==
  /\ j.fetched # ZeroCharacter => j.pc \in Asking
  /\ j.fetched # ZeroCharacter /\ j.pc \in Taking => j.fetched.id = Whose(j)
  /\ j.pc \in Rewriting => (Alive(j.rec.id) => Cached(j.rec.id))
  /\ j.op = "DELETED" => ~Alive(j.chr)
  /\ j.pc \in Deleting => j.op = "DELETED"

OwnRecords ==
  \A c \in DOMAIN charReg : /\ charReg[c].id \in {c, NoCharacter}
                            /\ Alive(c) => charReg[c].id = c

LivingInv == OwnRecords /\ \A w \in Workers : LivingOK(job[w])

\* Nobody comes to life, and nobody alive is dropped.
Enduring == \A c : Alive(c)' => Alive(c) /\ (Cached(c) => Cached(c)')

LEMMA NoJobLives == LivingOK(NoJob) /\ LivingOK(NoJob)'
  BY DEF LivingOK, NoJob, Asking, Taking, Rewriting, Deleting

LEMMA OthersLive ==
  ASSUME NEW j, LivingOK(j), Enduring
  PROVE  LivingOK(j)'
  BY DEF LivingOK, Enduring

LEMMA LivingLanded ==
  ASSUME TypedInv, LivingInv, Enduring, OwnRecords', NEW w \in Workers, NEW k, Become(w, k),
         LivingOK(k)'
  PROVE  LivingInv'
<1>1. /\ job'[w] = k /\ \A v \in Workers \ {w} : job'[v] = job[v]
  BY DEF Become, TypedInv, ServiceInv, JobsOK
<1>2. ASSUME NEW v \in Workers
      PROVE  LivingOK(job[v])'
  <2>1. CASE v = w
    BY <1>1, <2>1 DEF LivingOK, Alive, Cached
  <2>2. CASE v # w
    <3>1. PICK j : j = job[v] /\ j = job'[v]
      BY <1>1, <2>2
    <3>2. LivingOK(j)'
      BY <3>1, OthersLive DEF LivingInv
    <3> QED BY <3>1, <3>2 DEF LivingOK, Alive, Cached
  <2> QED BY <2>1, <2>2
<1> QED BY <1>2 DEF LivingInv

\* A job further on in its handler, with the answer it holds.
Carries(j, k, pc) == Heads(j, k, pc) /\ k.fetched = j.fetched

LEMMA Carried ==
  ASSUME NEW j, JobOK(j), NEW pc
  PROVE  /\ Carries(j, Goto(j, pc), pc)
         /\ \A v : /\ Carries(j, [Goto(j, pc) EXCEPT !.rec = v], pc)
                   /\ [Goto(j, pc) EXCEPT !.rec = v].rec = v
                   /\ Carries(j, [Goto(j, pc) EXCEPT !.party = v], pc)
                   /\ Carries(j, [Goto(j, pc) EXCEPT !.pid = v], pc)
                   /\ Carries(j, [Goto(j, pc) EXCEPT !.disband = v], pc)
                   /\ Carries(j, Buffered(Goto(j, pc), v), pc)
                   /\ Carries(j, Goto(Buffered(j, v), pc), pc)
                   /\ \A u : Carries(j, [Goto(j, pc) EXCEPT !.party = v, !.todo = u], pc)
  BY DEF Carries, Heads, Goto, Buffered, JobOK, Fields

LEMMA Carriedoff ==
  ASSUME NEW j, JobOK(j)
  PROVE  /\ Carries(j, Refuse(j), "return") /\ Carries(j, Fail(j), "return")
         /\ Carries(j, Done(j), "return")
         /\ Carries(j, [Done(j) EXCEPT !.err = TRUE], "return")
         /\ \A e : Carries(j, Done(Buffered(j, e)), "return")
         /\ \A e, f : Carries(j, Done(Buffered(Buffered(j, e), f)), "return")
         /\ \A m : \E pc \in {"return", "invite.send"} : Carries(j, CreateEnds(j, m), pc)
         /\ \E pc \in {"return", "invite.send"} : Carries(j, FailCreate(j), pc)
  BY DEF Carries, Heads, Goto, Buffered, JobOK, Fields, Refuse, Fail, Done, CreateEnds, FailCreate

LEMMA LivingTyped ==
  ASSUME TypedInv, NEW w \in Workers
  PROVE  /\ ServiceInv /\ JobOK(job[w])
         /\ DOMAIN foreign = Characters
         /\ \A c : IsCharacter(Character(c))
  BY Working, TypedRecords DEF TypedInv, PeersTyped

\* The record of a character that is alive is found under the id it carries.
LEMMA RecordHeld ==
  ASSUME LivingInv, NEW c, Cached(c)
  PROVE  Alive(Character(c).id) => Cached(Character(c).id)
  BY CharactersAssumption DEF LivingInv, OwnRecords, Character, Cached, Alive

LEMMA Unchanging ==
  ASSUME LivingInv, UNCHANGED <<charReg, foreign>>
  PROVE  /\ Enduring /\ OwnRecords'
         /\ \A c : (Alive(c)' <=> Alive(c)) /\ (Cached(c)' <=> Cached(c))
  BY DEF LivingInv, OwnRecords, Enduring, Alive, Cached

-----------------------------------------------------------------------------
(* The steps that touch no record, those that look one up, and those that  *)
(* update one.                                                             *)

LEMMA LivingPasses ==
  ASSUME TypedInv, LivingInv, NEW w \in Workers, NEW j, j = job[w], NEW k, Become(w, k),
         NEW pc, Carries(j, k, pc), j.pc \notin Asking, UNCHANGED <<charReg, foreign>>,
         pc \in Rewriting => (Alive(k.rec.id) => Cached(k.rec.id)),
         pc \in Deleting => j.op = "DELETED"
  PROVE  LivingInv'
<1>1. LivingOK(j)
  BY DEF LivingInv
<1>2. LivingOK(k)'
  BY <1>1, Unchanging DEF LivingOK, Carries, Heads
<1> QED BY <1>2, Unchanging, LivingLanded

LEMMA LivingLooks ==
  ASSUME TypedInv, LivingInv, NEW w \in Workers, NEW j, j = job[w], j.pc \in Asking,
         NEW c, j.pc \in Taking => c = Whose(j),
         NEW found, NEW pc, Carries(j, found, pc), pc \notin Deleting \cup Taking,
         pc \in Rewriting => j.pc \in Taking /\ found.rec = Obtained(w, c),
         NEW failed, NEW end, Carries(j, failed, end), end \notin Deleting \cup Rewriting \cup Taking,
         GetById(w, c, found, failed)
  PROVE  LivingInv'
<1>1. LivingOK(j) /\ JobOK(j)
  BY LivingTyped DEF LivingInv
<1>2. UNCHANGED foreign
  BY DEF GetById
<1>3. CASE ~Fetched(w) /\ Cached(c) /\ Become(w, found) /\ UNCHANGED charReg
  <2>1. j.fetched = ZeroCharacter
    BY <1>3 DEF Fetched
  <2>2. pc \in Rewriting => (Alive(found.rec.id) => Cached(found.rec.id))
    BY <1>3, RecordHeld DEF Obtained, Rewriting, Asking
  <2>3. LivingOK(found)'
    BY <1>1, <1>2, <1>3, <2>1, <2>2, Unchanging
    DEF LivingOK, Carries, Heads, Taking, Rewriting, Deleting, Asking
  <2> QED BY <1>2, <1>3, <2>3, Unchanging, LivingLanded
<1>4. CASE ~Fetched(w) /\ Become(w, failed) /\ UNCHANGED charReg
  <2>1. LivingOK(failed)'
    BY <1>1, <1>2, <1>4, Unchanging DEF LivingOK, Carries, Heads, Fetched
  <2> QED BY <1>2, <1>4, <2>1, Unchanging, LivingLanded
<1>5. CASE /\ \E map \in Maps : Become(w, [j EXCEPT !.fetched = Fresh(c, map)])
           /\ UNCHANGED charReg
  <2>1. PICK map \in Maps : Become(w, [j EXCEPT !.fetched = Fresh(c, map)])
    BY <1>5
  <2>2. PICK k : k = [j EXCEPT !.fetched = Fresh(c, map)]
    OBVIOUS
  <2>3. k.fetched.id = c /\ k.pc = j.pc /\ k.op = j.op /\ k.chr = j.chr /\ k.rec = j.rec /\ Whose(k) = Whose(j)
    BY <1>1, <2>2 DEF JobOK, Fields, Fresh, Whose, Joins
  <2>4. LivingOK(k)'
    BY <1>1, <1>2, <1>5, <2>3, Unchanging DEF LivingOK, Asking
  <2> QED BY <1>2, <1>5, <2>1, <2>2, <2>4, Unchanging, LivingLanded
<1>6. CASE /\ Fetched(w)
           /\ CreateCharacter(c, j.fetched.mapId)
           /\ Become(w, [found EXCEPT !.fetched = ZeroCharacter])
  <2>1. PICK k : k = [found EXCEPT !.fetched = ZeroCharacter]
    OBVIOUS
  <2>2. k.fetched = ZeroCharacter /\ k.pc = pc /\ k.op = j.op /\ k.chr = j.chr /\ k.rec = found.rec
    BY <2>1 DEF Carries, Heads, Fields
  <2>3. /\ charReg' = Put(charReg, c, Fresh(c, j.fetched.mapId))
        /\ Fresh(c, j.fetched.mapId).id = c
    BY <1>6 DEF CreateCharacter, Fresh
  <2>4. Cached(c)' /\ \A d : Cached(d) => Cached(d)'
    BY <2>3 DEF Cached, Put
  <2>5. \A d : Alive(d)' <=> Alive(d)
    BY <1>2 DEF Alive
  <2>6. OwnRecords'
    BY <2>3, <2>5 DEF LivingInv, OwnRecords, Put
  <2>7. pc \in Rewriting => k.rec.id = c
    BY <1>1, <1>6, <2>2 DEF LivingOK, Obtained, Fetched, Rewriting, Asking
  <2>8. LivingOK(k)'
    BY <1>1, <2>2, <2>4, <2>5, <2>7 DEF LivingOK, Rewriting, Deleting, Asking
  <2>9. Enduring
    BY <2>4, <2>5 DEF Enduring
  <2> QED BY <1>6, <2>1, <2>6, <2>8, <2>9, LivingLanded
<1> QED BY <1>3, <1>4, <1>5, <1>6 DEF GetById

LEMMA LivingSets ==
  ASSUME TypedInv, LivingInv, NEW w \in Workers, NEW j, j = job[w], j.pc \in Rewriting,
         NEW u, u.id = Target(w).id, NEW k, NEW pc, Carries(j, k, pc),
         pc \notin Rewriting, pc \in Deleting => j.op = "DELETED",
         SetCharacter(w, u, k)
  PROVE  LivingInv'
<1>1. LivingOK(j) /\ j.fetched = ZeroCharacter
  BY DEF LivingInv, LivingOK, Rewriting, Asking
<1>2. PICK r : r = j.rec.id
  OBVIOUS
<1>3. charReg' = Put(charReg, r, u) /\ UNCHANGED foreign /\ Become(w, k)
  BY <1>2 DEF SetCharacter, UpdateCharacter
<1>4. \A d : Alive(d)' <=> Alive(d)
  BY <1>3 DEF Alive
<1>5. Cached(r)' /\ \A d : Cached(d) => Cached(d)'
  BY <1>3 DEF Cached, Put
<1>6. u.id = IF Cached(r) THEN charReg[r].id ELSE NoCharacter
  BY <1>2 DEF Target, Character, ZeroCharacter
<1>7. u.id \in {r, NoCharacter} /\ (Alive(r) => u.id = r)
  BY <1>1, <1>2, <1>6 DEF LivingInv, OwnRecords, LivingOK, Cached
<1>8. OwnRecords'
  BY <1>3, <1>4, <1>7 DEF LivingInv, OwnRecords, Put
<1>9. Enduring
  BY <1>4, <1>5 DEF Enduring
<1>10. LivingOK(k)'
  BY <1>1, <1>4 DEF LivingOK, Carries, Heads
<1> QED BY <1>3, <1>8, <1>9, <1>10, LivingLanded

LEMMA SetterIds ==
  ASSUME TypedInv, NEW w \in Workers
  PROVE  /\ LeaveParty(Target(w)).id = Target(w).id
         /\ \A p : JoinParty(Target(w), p).id = Target(w).id
         /\ \A map : ChangeMap(Target(w), map).id = Target(w).id
<1>1. PICK m : m = Target(w) /\ IsCharacter(m)
  BY TypedRecords
<1> QED BY <1>1 DEF IsCharacter, LeaveParty, JoinParty, ChangeMap

-----------------------------------------------------------------------------
(* The steps of the handlers, by what they do to a record.                 *)

\* The steps that touch no record.
PlainSteps(w) ==
  \/ CreateAllocate(w) \/ CreateStore(w) \/ JoinGetParty(w) \/ JoinAdd(w) \/ JoinUndo(w)
  \/ LeaveGetParty(w) \/ LeaveRemove(w) \/ LeaveUndo(w) \/ RemoveDisbanded(w)
  \/ RemoveEmptied(w) \/ LeadSet(w) \/ InviteGetParty(w) \/ InviteSend(w)
  \/ DeletedGetParty(w)

LEMMA PlainLives ==
  ASSUME TypedInv, LivingInv, NEW w \in Workers, PlainSteps(w)
  PROVE  LivingInv'
<1> DEFINE j == job[w]
<1>0. JobOK(j)
  BY LivingTyped
<1>1. j.pc \notin Asking
  BY DEF PlainSteps, CreateAllocate, CreateStore, JoinGetParty, JoinAdd, JoinUndo, LeaveGetParty,
         LeaveRemove, LeaveUndo, RemoveDisbanded, RemoveEmptied, LeadSet, InviteGetParty,
         InviteSend, DeletedGetParty, At, Asking
<1>2. ASSUME NEW k, Become(w, k), NEW pc, pc \notin Rewriting \cup Deleting,
             Carries(j, k, pc), UNCHANGED <<charReg, foreign>>
      PROVE  LivingInv'
  BY <1>1, <1>2, LivingPasses
<1>3. CASE CreateAllocate(w)
  <2>1. PICK m : Become(w, [Goto(j, "create.store") EXCEPT !.party = m])
    BY <1>3 DEF CreateAllocate
  <2>2. Carries(j, [Goto(j, "create.store") EXCEPT !.party = m], "create.store")
    BY <1>0, Carried
  <2>3. UNCHANGED <<charReg, foreign>>
    BY <1>3 DEF CreateAllocate
  <2> QED BY <1>2, <2>1, <2>2, <2>3 DEF Rewriting, Deleting
<1>4. CASE CreateStore(w)
  <2>1. PICK e : Become(w, Buffered(Goto(j, "enter"), e))
    BY <1>4 DEF CreateStore
  <2>2. Carries(j, Buffered(Goto(j, "enter"), e), "enter")
    BY <1>0, Carried
  <2>3. UNCHANGED <<charReg, foreign>>
    BY <1>4 DEF CreateStore
  <2> QED BY <1>2, <2>1, <2>2, <2>3 DEF Rewriting, Deleting
<1>5. CASE JoinGetParty(w) \/ JoinAdd(w) \/ JoinUndo(w)
  <2>1. PICK m : \/ Become(w, Refuse(j)) \/ Become(w, Fail(j)) \/ Become(w, Goto(j, "join.add"))
                 \/ Become(w, [Goto(j, "enter") EXCEPT !.party = m])
    BY <1>5 DEF JoinGetParty, JoinAdd, JoinUndo, GetParty, SetParty
  <2>2. /\ Carries(j, Refuse(j), "return") /\ Carries(j, Fail(j), "return")
        /\ Carries(j, Goto(j, "join.add"), "join.add")
        /\ Carries(j, [Goto(j, "enter") EXCEPT !.party = m], "enter")
    BY <1>0, Carried, Carriedoff
  <2>3. UNCHANGED <<charReg, foreign>>
    BY <1>5 DEF JoinGetParty, JoinAdd, JoinUndo, GetParty, SetParty
  <2> QED BY <1>2, <2>1, <2>2, <2>3 DEF Rewriting, Deleting
<1>6. CASE LeaveGetParty(w) \/ LeaveRemove(w) \/ LeaveUndo(w)
  <2>1. PICK d, b : \/ Become(w, Fail(j))
                    \/ Become(w, [Goto(j, "leave.remove") EXCEPT !.disband = d])
                    \/ Become(w, [Goto(j, "leave.get") EXCEPT !.party = d, !.todo = b])
    BY <1>6 DEF LeaveGetParty, LeaveRemove, LeaveUndo, GetParty, SetParty
  <2>2. /\ Carries(j, Fail(j), "return")
        /\ Carries(j, [Goto(j, "leave.remove") EXCEPT !.disband = d], "leave.remove")
        /\ Carries(j, [Goto(j, "leave.get") EXCEPT !.party = d, !.todo = b], "leave.get")
    BY <1>0, Carried, Carriedoff
  <2>3. UNCHANGED <<charReg, foreign>>
    BY <1>6 DEF LeaveGetParty, LeaveRemove, LeaveUndo, GetParty, SetParty
  <2> QED BY <1>2, <2>1, <2>2, <2>3 DEF Rewriting, Deleting
<1>7. CASE RemoveDisbanded(w) \/ RemoveEmptied(w) \/ LeadSet(w)
  <2>1. PICK e, f : \/ Become(w, Done(j)) \/ Become(w, Done(Buffered(j, e)))
                    \/ Become(w, Done(Buffered(Buffered(j, e), f)))
    BY <1>7 DEF RemoveDisbanded, RemoveEmptied, LeadSet, SetParty
  <2>2. /\ Carries(j, Done(j), "return") /\ Carries(j, Done(Buffered(j, e)), "return")
        /\ Carries(j, Done(Buffered(Buffered(j, e), f)), "return")
    BY <1>0, Carriedoff
  <2>3. UNCHANGED <<charReg, foreign>>
    BY <1>7 DEF RemoveDisbanded, RemoveEmptied, LeadSet, SetParty
  <2> QED BY <1>2, <2>1, <2>2, <2>3 DEF Rewriting, Deleting
<1>8. CASE InviteGetParty(w) \/ InviteSend(w)
  <2>1. PICK m : \/ Become(w, Refuse(j)) \/ Become(w, Done(j)) \/ Become(w, Fail(j))
                 \/ Become(w, [Done(j) EXCEPT !.err = TRUE])
                 \/ Become(w, [Goto(j, "invite.send") EXCEPT !.party = m])
    BY <1>8 DEF InviteGetParty, InviteSend, GetParty
  <2>2. /\ Carries(j, Refuse(j), "return") /\ Carries(j, Done(j), "return")
        /\ Carries(j, Fail(j), "return") /\ Carries(j, [Done(j) EXCEPT !.err = TRUE], "return")
        /\ Carries(j, [Goto(j, "invite.send") EXCEPT !.party = m], "invite.send")
    BY <1>0, Carried, Carriedoff
  <2>3. UNCHANGED <<charReg, foreign>>
    BY <1>8 DEF InviteGetParty, InviteSend, GetParty
  <2> QED BY <1>2, <2>1, <2>2, <2>3 DEF Rewriting, Deleting
<1>9. CASE DeletedGetParty(w)
  <2>1. PICK p : Become(w, [Goto(j, "leave") EXCEPT !.pid = p])
    BY <1>9 DEF DeletedGetParty
  <2>2. Carries(j, [Goto(j, "leave") EXCEPT !.pid = p], "leave")
    BY <1>0, Carried
  <2>3. UNCHANGED <<charReg, foreign>>
    BY <1>9 DEF DeletedGetParty
  <2> QED BY <1>2, <2>1, <2>2, <2>3 DEF Rewriting, Deleting
<1> QED BY <1>3, <1>4, <1>5, <1>6, <1>7, <1>8, <1>9 DEF PlainSteps

LEMMA LookingLives ==
  ASSUME TypedInv, LivingInv, NEW w \in Workers,
         \/ CreateCheck(w) \/ JoinCheck(w) \/ LeaveCheck(w) \/ LeadGetActor(w) \/ LeadCheck(w)
         \/ InviteGetActor(w) \/ InviteCheck(w)
  PROVE  LivingInv'
<1> DEFINE j == job[w]
<1>0. JobOK(j)
  BY LivingTyped
<1>1. ASSUME NEW c, NEW found, NEW failed, GetById(w, c, found, failed), j.pc \in Asking \ Taking,
             NEW pc, pc \notin Rewriting \cup Deleting \cup Taking, Carries(j, found, pc),
             NEW end, end \notin Rewriting \cup Deleting \cup Taking, Carries(j, failed, end)
      PROVE  LivingInv'
  BY <1>1, LivingLooks
<1>2. CASE CreateCheck(w)
  <2>1. PICK found, failed, v :
          /\ GetById(w, j.actor, found, failed)
          /\ found \in {Refuse(j), Goto(j, "create.alloc")}
          /\ failed = FailCreate(j)
    BY <1>2 DEF CreateCheck
  <2>2. PICK pc \in {"return", "create.alloc"} : Carries(j, found, pc)
    <3>1. Carries(j, Goto(j, "create.alloc"), "create.alloc")
      BY <1>0, Carried
    <3> QED BY <1>0, <2>1, <3>1, Carriedoff
  <2>3. PICK end \in {"return", "invite.send"} : Carries(j, failed, end)
    BY <1>0, <2>1, Carriedoff
  <2>4. j.pc \in Asking \ Taking
    BY <1>2 DEF CreateCheck, At, Asking, Taking
  <2> QED BY <1>1, <2>1, <2>2, <2>3, <2>4 DEF Rewriting, Deleting, Taking
<1>3. CASE JoinCheck(w)
  <2>1. PICK found, failed, v :
          /\ GetById(w, j.chr, found, failed)
          /\ found \in {Refuse(j), Goto(j, "join.party")}
          /\ failed = Fail(j)
    BY <1>3 DEF JoinCheck
  <2>2. PICK pc \in {"return", "join.party"} : Carries(j, found, pc)
    <3>1. Carries(j, Goto(j, "join.party"), "join.party")
      BY <1>0, Carried
    <3> QED BY <1>0, <2>1, <3>1, Carriedoff
  <2>3. PICK end \in {"return"} : Carries(j, failed, end)
    BY <1>0, <2>1, Carriedoff
  <2>4. j.pc \in Asking \ Taking
    BY <1>3 DEF JoinCheck, At, Asking, Taking
  <2> QED BY <1>1, <2>1, <2>2, <2>3, <2>4 DEF Rewriting, Deleting, Taking
<1>4. CASE LeaveCheck(w)
  <2>1. PICK found, failed, v :
          /\ GetById(w, j.chr, found, failed)
          /\ found \in {Refuse(j), Goto(j, "leave.party")}
          /\ failed = Fail(j)
    BY <1>4 DEF LeaveCheck
  <2>2. PICK pc \in {"return", "leave.party"} : Carries(j, found, pc)
    <3>1. Carries(j, Goto(j, "leave.party"), "leave.party")
      BY <1>0, Carried
    <3> QED BY <1>0, <2>1, <3>1, Carriedoff
  <2>3. PICK end \in {"return"} : Carries(j, failed, end)
    BY <1>0, <2>1, Carriedoff
  <2>4. j.pc \in Asking \ Taking
    BY <1>4 DEF LeaveCheck, At, Asking, Taking
  <2> QED BY <1>1, <2>1, <2>2, <2>3, <2>4 DEF Rewriting, Deleting, Taking
<1>5. CASE LeadGetActor(w)
  <2>1. PICK found, failed, v :
          /\ GetById(w, j.chr, found, failed)
          /\ found = [Goto(j, "lead.chr") EXCEPT !.rec = v]
          /\ failed = Fail(j)
    BY <1>5 DEF LeadGetActor
  <2>2. PICK pc \in {"lead.chr"} : Carries(j, found, pc)
    BY <1>0, <2>1, Carried, Carriedoff
  <2>3. PICK end \in {"return"} : Carries(j, failed, end)
    BY <1>0, <2>1, Carriedoff
  <2>4. j.pc \in Asking \ Taking
    BY <1>5 DEF LeadGetActor, At, Asking, Taking
  <2> QED BY <1>1, <2>1, <2>2, <2>3, <2>4 DEF Rewriting, Deleting, Taking
<1>6. CASE LeadCheck(w)
  <2>1. PICK found, failed, v :
          /\ GetById(w, j.chr, found, failed)
          /\ found \in {Refuse(j), Goto(j, "lead.set")}
          /\ failed = Fail(j)
    BY <1>6 DEF LeadCheck
  <2>2. PICK pc \in {"return", "lead.set"} : Carries(j, found, pc)
    <3>1. Carries(j, Goto(j, "lead.set"), "lead.set")
      BY <1>0, Carried
    <3> QED BY <1>0, <2>1, <3>1, Carriedoff
  <2>3. PICK end \in {"return"} : Carries(j, failed, end)
    BY <1>0, <2>1, Carriedoff
  <2>4. j.pc \in Asking \ Taking
    BY <1>6 DEF LeadCheck, At, Asking, Taking
  <2> QED BY <1>1, <2>1, <2>2, <2>3, <2>4 DEF Rewriting, Deleting, Taking
<1>7. CASE InviteGetActor(w)
  <2>1. PICK found, failed, v :
          /\ GetById(w, j.actor, found, failed)
          /\ found = [Goto(j, "invite.chr") EXCEPT !.rec = v]
          /\ failed = Fail(j)
    BY <1>7 DEF InviteGetActor
  <2>2. PICK pc \in {"invite.chr"} : Carries(j, found, pc)
    BY <1>0, <2>1, Carried, Carriedoff
  <2>3. PICK end \in {"return"} : Carries(j, failed, end)
    BY <1>0, <2>1, Carriedoff
  <2>4. j.pc \in Asking \ Taking
    BY <1>7 DEF InviteGetActor, At, Asking, Taking
  <2> QED BY <1>1, <2>1, <2>2, <2>3, <2>4 DEF Rewriting, Deleting, Taking
<1>8. CASE InviteCheck(w)
  <2>1. PICK found, failed, v :
          /\ GetById(w, j.chr, found, failed)
          /\ found \in {Refuse(j), Goto(j, "create"), Goto(j, "invite.party")}
          /\ failed = Fail(j)
    BY <1>8 DEF InviteCheck
  <2>2. PICK pc \in {"return", "create", "invite.party"} : Carries(j, found, pc)
    <3>1. /\ Carries(j, Goto(j, "create"), "create")
        /\ Carries(j, Goto(j, "invite.party"), "invite.party")
      BY <1>0, Carried
    <3> QED BY <1>0, <2>1, <3>1, Carriedoff
  <2>3. PICK end \in {"return"} : Carries(j, failed, end)
    BY <1>0, <2>1, Carriedoff
  <2>4. j.pc \in Asking \ Taking
    BY <1>8 DEF InviteCheck, At, Asking, Taking
  <2> QED BY <1>1, <2>1, <2>2, <2>3, <2>4 DEF Rewriting, Deleting, Taking
<1> QED BY <1>2, <1>3, <1>4, <1>5, <1>6, <1>7, <1>8

\* The lookups that are followed by an update of the record they return.
LEMMA TakingLives ==
  ASSUME TypedInv, LivingInv, NEW w \in Workers, EnterCheck(w) \/ MapGet(w)
  PROVE  LivingInv'
<1> DEFINE j == job[w]
<1>0. JobOK(j)
  BY LivingTyped
<1>1. ASSUME NEW c, c = Whose(j), j.pc \in Taking, NEW found, NEW failed,
             GetById(w, c, found, failed), NEW pc, pc \in Rewriting \ Deleting,
             found = [Goto(j, pc) EXCEPT !.rec = Obtained(w, c)],
             NEW end, end \notin Rewriting \cup Deleting \cup Taking, Carries(j, failed, end)
      PROVE  LivingInv'
  <2>1. PICK r : r = Obtained(w, c)
    OBVIOUS
  <2>2. /\ Carries(j, [Goto(j, pc) EXCEPT !.rec = r], pc)
        /\ [Goto(j, pc) EXCEPT !.rec = r].rec = r
    BY <1>0, Carried
  <2>3. pc \notin Deleting \cup Taking /\ j.pc \in Asking
    BY <1>1 DEF Rewriting, Deleting, Taking, Asking
  <2>4. Carries(j, found, pc) /\ found.rec = Obtained(w, c)
    BY <1>1, <2>1, <2>2
  <2> QED BY <1>1, <2>3, <2>4, LivingLooks
<1>2. CASE EnterCheck(w)
  <2>1. PICK c, found, failed :
          /\ GetById(w, c, found, failed)
          /\ c = IF Joins(j) THEN j.chr ELSE j.actor
          /\ found = [Goto(j, "enter.set") EXCEPT !.rec = Obtained(w, c)]
          /\ failed \in {Goto(j, "join.undo"), FailCreate(j)}
    BY <1>2 DEF EnterCheck
  <2>2. PICK end \in {"join.undo", "return", "invite.send"} : Carries(j, failed, end)
    <3>1. Carries(j, Goto(j, "join.undo"), "join.undo")
      BY <1>0, Carried
    <3> QED BY <1>0, <2>1, <3>1, Carriedoff
  <2>3. j.pc = "enter" /\ c = Whose(j)
    BY <1>2, <2>1 DEF EnterCheck, At, Whose
  <2> QED BY <1>1, <2>1, <2>2, <2>3 DEF Rewriting, Deleting, Taking
<1>3. CASE MapGet(w)
  <2>1. PICK found, failed :
          /\ GetById(w, j.chr, found, failed)
          /\ found = [Goto(j, "map.set") EXCEPT !.rec = Obtained(w, j.chr)]
          /\ failed = Done(j)
    BY <1>3 DEF MapGet
  <2>2. Carries(j, failed, "return")
    BY <1>0, <2>1, Carriedoff
  <2>3. j.pc = "map" /\ j.chr = Whose(j)
    BY <1>3 DEF MapGet, At, Whose
  <2> QED BY <1>1, <2>1, <2>2, <2>3 DEF Rewriting, Deleting, Taking
<1> QED BY <1>2, <1>3

\* The handlers that read the record they update from the registry.
LEMMA GettingLives ==
  ASSUME TypedInv, LivingInv, NEW w \in Workers,
         LeaveGet(w) \/ DisbandGet(w)
           \/ (Cached(job[w].chr) /\ (DeleteGet(w) \/ DeleteLeaveGet(w)) /\ ~Forget(w))
  PROVE  LivingInv'
<1> DEFINE j == job[w]
<1>0. JobOK(j)
  BY LivingTyped
<1>1. /\ j.pc \in {"leave.get", "disband", "delete", "delete.get"}
      /\ j.pc \in Deleting => j.op = "DELETED"
  BY DEF LeaveGet, DisbandGet, DeleteGet, DeleteLeaveGet, At, LivingInv, LivingOK
<1>2. ASSUME NEW k, Become(w, k), UNCHANGED <<charReg, foreign>>,
             NEW pc, Carries(j, k, pc), pc \notin Rewriting,
             pc \in Deleting => j.op = "DELETED"
      PROVE  LivingInv'
  BY <1>1, <1>2, LivingPasses DEF Asking
<1>3. ASSUME NEW k, Become(w, k), UNCHANGED <<charReg, foreign>>,
             NEW pc, Carries(j, k, pc), pc \in Deleting => j.op = "DELETED",
             NEW c, Cached(c), k.rec = Character(c)
      PROVE  LivingInv'
  BY <1>1, <1>3, LivingPasses, RecordHeld DEF Asking
<1>4. CASE LeaveGet(w)
  <2>1. PICK r : r = Character(j.chr)
    OBVIOUS
  <2>2. /\ Carries(j, [Goto(j, "leave.clear") EXCEPT !.rec = r], "leave.clear")
        /\ [Goto(j, "leave.clear") EXCEPT !.rec = r].rec = r
        /\ Carries(j, Goto(j, "leave.undo"), "leave.undo")
    BY <1>0, Carried
  <2>3. /\ UNCHANGED <<charReg, foreign>>
        /\ \/ Cached(j.chr) /\ Become(w, [Goto(j, "leave.clear") EXCEPT !.rec = r])
           \/ Become(w, Goto(j, "leave.undo"))
    BY <1>4, <2>1 DEF LeaveGet, GetCharacter
  <2>4. CASE Cached(j.chr) /\ Become(w, [Goto(j, "leave.clear") EXCEPT !.rec = r])
    BY <1>3, <2>1, <2>2, <2>3, <2>4 DEF Deleting
  <2>5. CASE Become(w, Goto(j, "leave.undo"))
    BY <1>2, <2>2, <2>3, <2>5 DEF Deleting, Rewriting
  <2> QED BY <2>3, <2>4, <2>5
<1>5. CASE DisbandGet(w)
  <2>1. PICK c, r, b :
          /\ r = Character(c) /\ UNCHANGED <<charReg, foreign>> /\ j.pc = "disband"
          /\ \/ Cached(c) /\ Become(w, [Goto([j EXCEPT !.todo = b], "disband.clear") EXCEPT !.rec = r])
             \/ Become(w, [j EXCEPT !.todo = b])
    BY <1>5 DEF DisbandGet, GetCharacter, At
  <2>2. /\ Carries(j, [Goto([j EXCEPT !.todo = b], "disband.clear") EXCEPT !.rec = r], "disband.clear")
        /\ [Goto([j EXCEPT !.todo = b], "disband.clear") EXCEPT !.rec = r].rec = r
        /\ Carries(j, [j EXCEPT !.todo = b], "disband")
    BY <1>0, <2>1 DEF Carries, Heads, Goto, JobOK, Fields
  <2>3. CASE Cached(c) /\ Become(w, [Goto([j EXCEPT !.todo = b], "disband.clear") EXCEPT !.rec = r])
    BY <1>3, <2>1, <2>2, <2>3 DEF Deleting
  <2>4. CASE Become(w, [j EXCEPT !.todo = b])
    BY <1>2, <2>1, <2>2, <2>4 DEF Deleting, Rewriting
  <2> QED BY <2>1, <2>3, <2>4
<1>6. CASE DeleteGet(w) /\ Cached(j.chr)
  <2>1. /\ UNCHANGED <<charReg, foreign>> /\ j.pc = "delete"
        /\ Become(w, Goto(j, "delete.get")) \/ Become(w, Goto(j, "delete.drop"))
    BY <1>6 DEF DeleteGet, GetCharacter, At
  <2>2. /\ Carries(j, Goto(j, "delete.get"), "delete.get")
        /\ Carries(j, Goto(j, "delete.drop"), "delete.drop")
    BY <1>0, Carried
  <2>3. j.op = "DELETED"
    BY <1>1, <2>1 DEF Deleting
  <2> QED BY <1>2, <2>1, <2>2, <2>3 DEF Rewriting
<1>7. CASE DeleteLeaveGet(w) /\ Cached(j.chr)
  <2>1. PICK r : r = Character(j.chr)
    OBVIOUS
  <2>2. /\ UNCHANGED <<charReg, foreign>> /\ j.pc = "delete.get"
        /\ Become(w, [Goto(j, "delete.clear") EXCEPT !.rec = r])
    BY <1>7, <2>1 DEF DeleteLeaveGet, GetCharacter, At
  <2>3. /\ Carries(j, [Goto(j, "delete.clear") EXCEPT !.rec = r], "delete.clear")
        /\ [Goto(j, "delete.clear") EXCEPT !.rec = r].rec = r
    BY <1>0, Carried
  <2>4. j.op = "DELETED"
    BY <1>1, <2>2 DEF Deleting
  <2> QED BY <1>3, <1>7, <2>1, <2>2, <2>3, <2>4
<1> QED BY <1>4, <1>5, <1>6, <1>7

\* The handlers that update it.
LEMMA SettingLives ==
  ASSUME TypedInv, LivingInv, NEW w \in Workers,
         EnterSet(w) \/ LeaveClear(w) \/ DisbandClear(w) \/ MapSet(w) \/ DeleteLeaveClear(w)
  PROVE  LivingInv'
<1> DEFINE j == job[w]
<1>0. JobOK(j)
  BY LivingTyped
<1>1. /\ j.pc \in Rewriting
      /\ j.pc = "delete.clear" => j.op = "DELETED"
  BY DEF EnterSet, LeaveClear, DisbandClear, MapSet, DeleteLeaveClear, At, Rewriting, LivingInv,
         LivingOK, Deleting
<1>2. ASSUME NEW u, u.id = Target(w).id, NEW k, NEW pc, Carries(j, k, pc),
             pc \notin Rewriting, pc \in Deleting => j.op = "DELETED", SetCharacter(w, u, k)
      PROVE  LivingInv'
  BY <1>1, <1>2, LivingSets
<1>3. CASE EnterSet(w)
  <2>1. PICK p, k : /\ SetCharacter(w, JoinParty(Target(w), p), k)
                    /\ k = IF Joins(j) THEN Done(Buffered(j, Event("JOINED", j.party.id, j.chr)))
                           ELSE CreateEnds(j, j.party)
    BY <1>3 DEF EnterSet
  <2>2. PICK pc \in {"return", "invite.send"} : Carries(j, k, pc)
    BY <1>0, <2>1, Carriedoff
  <2>3. PICK u : u = JoinParty(Target(w), p) /\ u.id = Target(w).id
    BY SetterIds
  <2> QED BY <1>2, <2>1, <2>2, <2>3 DEF Rewriting, Deleting
<1>4. CASE LeaveClear(w)
  <2>1. PICK k, e : /\ SetCharacter(w, LeaveParty(Target(w)), k)
                    /\ k \in {Goto(j, "disband"), Goto(Buffered(j, e), "expel.remove"),
                              Done(Buffered(j, e))}
    BY <1>4 DEF LeaveClear
  <2>2. PICK pc \in {"disband", "expel.remove", "return"} : Carries(j, k, pc)
    <3>1. /\ Carries(j, Goto(j, "disband"), "disband")
          /\ Carries(j, Goto(Buffered(j, e), "expel.remove"), "expel.remove")
          /\ Carries(j, Done(Buffered(j, e)), "return")
      BY <1>0, Carried, Carriedoff
    <3> QED BY <2>1, <3>1
  <2>3. PICK u : u = LeaveParty(Target(w)) /\ u.id = Target(w).id
    BY SetterIds
  <2> QED BY <1>2, <2>1, <2>2, <2>3 DEF Rewriting, Deleting
<1>5. CASE DisbandClear(w)
  <2>1. Carries(j, Goto(j, "disband"), "disband")
    BY <1>0, Carried
  <2>2. PICK u : u = LeaveParty(Target(w)) /\ u.id = Target(w).id
    BY SetterIds
  <2> QED BY <1>2, <1>5, <2>1, <2>2 DEF DisbandClear, Rewriting, Deleting
<1>6. CASE MapSet(w)
  <2>1. Carries(j, Done(j), "return")
    BY <1>0, Carriedoff
  <2>2. PICK u : u = ChangeMap(Target(w), j.map) /\ u.id = Target(w).id
    BY SetterIds
  <2> QED BY <1>2, <1>6, <2>1, <2>2 DEF MapSet, Rewriting, Deleting
<1>7. CASE DeleteLeaveClear(w)
  <2>1. Carries(j, Goto(j, "delete.drop"), "delete.drop") /\ j.op = "DELETED"
    BY <1>0, <1>1, <1>7, Carried DEF DeleteLeaveClear, At
  <2>2. PICK u : u = LeaveParty(Target(w)) /\ u.id = Target(w).id
    BY SetterIds
  <2> QED BY <1>2, <1>7, <2>1, <2>2 DEF DeleteLeaveClear, Rewriting
<1> QED BY <1>3, <1>4, <1>5, <1>6, <1>7

\* The handler of a deletion drops the record of its character, which is gone.
LEMMA DroppingLives ==
  ASSUME TypedInv, LivingInv, NEW w \in Workers, job[w].pc \in Deleting, Forget(w),
         UNCHANGED charReg \/ DeleteCharacter(job[w].chr)
  PROVE  LivingInv'
<1>1. PICK c : c = job[w].chr /\ ~Alive(c)
  BY DEF LivingInv, LivingOK
<1>2. \A d : Alive(d)' => Alive(d)
  BY <1>1, LivingTyped DEF Forget, Alive
<1>3. \A d : Cached(d) /\ d # c => Cached(d)' /\ charReg'[d] = charReg[d]
  BY <1>1 DEF DeleteCharacter, DeleteKeys, Cached
<1>4. DOMAIN charReg' \subseteq DOMAIN charReg
  BY DEF DeleteCharacter, DeleteKeys
<1>5. \A d \in DOMAIN charReg' : charReg'[d] = charReg[d]
  BY <1>1 DEF DeleteCharacter, DeleteKeys
<1>6. OwnRecords'
  BY <1>2, <1>4, <1>5 DEF LivingInv, OwnRecords
<1>7. Enduring
  BY <1>1, <1>2, <1>3 DEF Enduring
<1> QED BY <1>6, <1>7, NoJobLives, LivingLanded DEF Forget

LEMMA DeletingLives ==
  ASSUME TypedInv, LivingInv, NEW w \in Workers,
         DeleteGet(w) \/ DeleteLeaveGet(w) \/ DeleteDrop(w)
  PROVE  LivingInv'
<1>1. job[w].pc \in Deleting
  BY DEF DeleteGet, DeleteLeaveGet, DeleteDrop, At, Deleting
<1>2. CASE Forget(w)
  BY <1>1, <1>2, DroppingLives
  DEF DeleteGet, DeleteLeaveGet, DeleteDrop, GetCharacter
<1>3. CASE ~Forget(w)
  BY <1>3, GettingLives DEF DeleteGet, DeleteLeaveGet, DeleteDrop
<1> QED BY <1>2, <1>3

LEMMA ReadingLives ==
  ASSUME TypedInv, KnownInv, LivingInv, NEW w \in Workers,
         ViewGet(w) \/ ViewMember(w) \/ Return(w)
  PROVE  LivingInv'
<1>1. UNCHANGED <<charReg, foreign>>
  BY ViewMoves DEF Return, TypedInv
<1>2. PICK k : Become(w, k) /\ LivingOK(k)
  <2>1. CASE ViewGet(w) \/ ViewMember(w)
    <3>1. PICK k : /\ Become(w, k)
                   /\ \/ k = NoJob
                      \/ k.op = "VIEW" /\ k.pc = "view.member" /\ k.fetched = ZeroCharacter
      BY <2>1, ViewMoves DEF TypedInv
    <3>2. CASE k = NoJob
      BY <3>1, <3>2, NoJobLives
    <3>3. CASE k.op = "VIEW" /\ k.pc = "view.member" /\ k.fetched = ZeroCharacter
      BY <3>1, <3>3 DEF LivingOK, Rewriting, Deleting
    <3> QED BY <3>1, <3>2, <3>3
  <2>2. CASE Return(w)
    <3>1. PICK j : j = job[w] /\ LivingOK(j)
      BY DEF LivingInv
    <3>2. PICK k : /\ Become(w, k)
                   /\ k = IF j.op = "DELETED" THEN Job("DELETED", "delete", j.actor, NoParty, j.chr)
                          ELSE NoJob
      BY <2>2, <3>1 DEF Return
    <3>3. CASE j.op = "DELETED"
      <4>1. /\ k.op = "DELETED" /\ k.pc = "delete" /\ k.fetched = ZeroCharacter
            /\ k.chr = j.chr
        BY <3>2, <3>3, JobFields DEF Job, NoJob
      <4> QED BY <3>1, <3>2, <3>3, <4>1 DEF LivingOK, Rewriting, Deleting
    <3>4. CASE j.op # "DELETED"
      BY <3>2, <3>4, NoJobLives
    <3> QED BY <3>3, <3>4
  <2> QED BY <2>1, <2>2
<1>3. LivingOK(k)'
  BY <1>1, <1>2, Unchanging DEF LivingOK
<1> QED BY <1>1, <1>2, <1>3, Unchanging, LivingLanded

LEMMA WorkLives ==
  ASSUME TypedInv, KnownInv, LivingInv, NEW w \in Workers, Work(w)
  PROVE  LivingInv'
BY PlainLives, LookingLives, TakingLives, GettingLives, SettingLives, DeletingLives, ReadingLives
DEF Work, PlainSteps

\* A DELETED event names a character that is gone.
LEMMA ReceiveLives ==
  ASSUME TypedInv, LivingInv, NEW w \in Workers, NEW j \in Incoming, Receive(w, j)
  PROVE  LivingInv'
<1>1. UNCHANGED <<charReg, foreign>> /\ Become(w, j)
  BY DEF Receive
<1>2. LivingOK(j)
  <2> DEFINE Pcs == {"create", "join", "leave", "lead", "view", "invite", "map"}
  <2>1. \/ \E op, a, p, c : \E pc \in Pcs : op # "DELETED" /\ j = Job(op, pc, a, p, c)
        \/ \E c \in Characters : foreign[c] # "alive" /\ j = Job("DELETED", "deleted", c, NoParty, c)
        \/ \E c, m : j = [Job("MAP_CHANGED", "map", c, NoParty, c) EXCEPT !.map = m]
    BY DEF Incoming, PostParty, PostMember, DeleteMember, PatchParty
  <2>2. CASE \E op, a, p, c : \E pc \in Pcs : op # "DELETED" /\ j = Job(op, pc, a, p, c)
    <3>1. j.pc \in Pcs /\ j.op # "DELETED" /\ j.fetched = ZeroCharacter
      BY <2>2, JobFields
    <3> QED BY <3>1 DEF LivingOK, Rewriting, Deleting
  <2>3. CASE \E c \in Characters :
               foreign[c] # "alive" /\ j = Job("DELETED", "deleted", c, NoParty, c)
    <3>1. PICK c \in Characters :
            foreign[c] # "alive" /\ j = Job("DELETED", "deleted", c, NoParty, c)
      BY <2>3
    <3>2. j.pc = "deleted" /\ j.op = "DELETED" /\ j.fetched = ZeroCharacter /\ j.chr = c
      BY <3>1, JobFields DEF Job, NoJob
    <3> QED BY <3>1, <3>2 DEF LivingOK, Rewriting, Alive
  <2>4. CASE \E c, m : j = [Job("MAP_CHANGED", "map", c, NoParty, c) EXCEPT !.map = m]
    <3>1. j.pc = "map" /\ j.op = "MAP_CHANGED" /\ j.fetched = ZeroCharacter
      <4>1. PICK c, m : j = [Job("MAP_CHANGED", "map", c, NoParty, c) EXCEPT !.map = m]
        BY <2>4
      <4> QED BY <4>1, JobFields DEF Job, NoJob
    <3> QED BY <3>1 DEF LivingOK, Rewriting, Deleting
  <2> QED BY <2>1, <2>2, <2>3, <2>4
<1>3. LivingOK(j)'
  BY <1>1, <1>2, Unchanging DEF LivingOK
<1> QED BY <1>1, <1>3, Unchanging, LivingLanded

LEMMA LivingInvariant == Spec => []LivingInv
<1>1. Init => LivingInv
  BY NoJobLives DEF Init, LivingInv, OwnRecords, EmptyMap
<1>2. TypedInv /\ KnownInv /\ LivingInv /\ [Next]_vars => LivingInv'
  <2> SUFFICES ASSUME TypedInv, KnownInv, LivingInv, [Next]_vars
               PROVE  LivingInv'
    OBVIOUS
  <2>1. CASE \E w \in Workers : Work(w)
    BY <2>1, WorkLives
  <2>2. CASE \E w \in Workers : \E j \in Incoming : Receive(w, j)
    BY <2>2, ReceiveLives
  <2>3. CASE \E c \in Mortal : Vanish(c)
    <3>1. PICK c \in Mortal : Vanish(c)
      BY <2>3
    <3>2. UNCHANGED charReg /\ UNCHANGED job /\ \A d : Alive(d)' => Alive(d)
      BY <3>1, LivingTyped DEF Vanish, Alive, TypedInv, PeersTyped
    <3>3. Enduring /\ OwnRecords'
      BY <3>2 DEF Enduring, Cached, LivingInv, OwnRecords
    <3>4. ASSUME NEW w \in Workers
          PROVE  LivingOK(job[w])'
      <4>1. PICK j : j = job[w] /\ j = job'[w]
        BY <3>2
      <4>2. LivingOK(j)'
        BY <3>3, <4>1, OthersLive DEF LivingInv
      <4> QED BY <4>1, <4>2 DEF LivingOK, Alive, Cached
    <3> QED BY <3>3, <3>4 DEF LivingInv
  <2>4. CASE Restart
    BY <2>4, NoJobLives DEF Restart, LivingInv, OwnRecords, EmptyMap
  <2>5. CASE UNCHANGED vars
    BY <2>5, Unchanging
    DEF vars, serviceVars, registryVars, LivingInv, OwnRecords, LivingOK, Alive, Cached
  <2> QED BY <2>1, <2>2, <2>3, <2>4, <2>5 DEF Next
<1> QED BY <1>1, <1>2, TypedInvariant, KnownInvariant, PTL DEF Spec

\* With any number of handlers at work, lookups that race deletions, redelivered events
\* and crashes: Update of an id that is no longer there stores a record of nobody
\* (character/registry.go:86), but under the id of a character that is alive there is
\* never a record of nobody, nor of somebody else.
THEOREM ServiceLivingKeepRecords == Spec => []LivingKeepRecords
<1>1. LivingInv => LivingKeepRecords
  BY DEF LivingInv, OwnRecords, LivingKeepRecords, Character, Cached, Alive
<1> QED BY <1>1, LivingInvariant, PTL

-----------------------------------------------------------------------------
(***************************************************************************)
(* Disbanded parties, for any number of workers: a fifth invariant.  What  *)
(* a handler holds, the registry stores or a record names is an old id:    *)
(* one that was handed out and that no Create is about to store a party    *)
(* under.  A party that is gone under an old id is gone for good.          *)
(***************************************************************************)
Old(p) == p = NoParty \/ (p \in StartPartyId..tenantPartyId /\ \A m \in creating : m.id # p)

\* Where a handler has found its party, and where it is about to enter one.
Past == {"join.add", "join.undo", "leave.remove", "leave.get", "leave.clear", "leave.undo",
         "disband", "disband.clear", "expel.remove", "lead.set"}
Arriving == {"create.store", "enter", "enter.set"}
Arrival(j) == IF Joins(j) THEN j.pid ELSE j.party.id

\* The parties whose disbanding a handler is about to announce.
Disbands(j) == {j.buf[i].pid : i \in {k \in DOMAIN j.buf : j.buf[k].type = "DISBAND"}}
Parting == {"return", "expel.remove"}

OldOK(j) ==
  /\ j.pc \in Past => Old(j.pid)
  /\ j.pc = "create.store" => ~Joins(j)
  /\ j.pc \in {"enter", "enter.set"} => Old(Arrival(j))
  /\ j.pc \in {"leave.get", "leave.clear"} => j.party.id \in {NoParty, j.pid}
  /\ j.fetched.partyId = NoParty
  /\ j.pc \notin Parting => Disbands(j) = {}
  /\ j.pc = "expel.remove" => Disbands(j) \subseteq {NoParty, j.pid}
  /\ j.pc = "return" => \A p \in Disbands(j) : Old(p) /\ p \notin Live

KeysOld == \A p \in DOMAIN partyReg : Old(p)
RecordsOld == \A c \in DOMAIN charReg : Old(charReg[c].partyId)

OldInv == KeysOld /\ RecordsOld /\ \A w \in Workers : OldOK(job[w])

\* What is old stays old, and what is gone stays gone.
Aging == \A p : Old(p) => Old(p)' /\ (p \notin Live => p \notin Live')

LEMMA RegistryAges ==
  ASSUME RegistryInv, [RegistryNext]_registryVars
  PROVE  Aging
<1>0. NoParty \notin Live /\ NoParty \notin Live'
  BY DEF Live
<1> SUFFICES ASSUME NEW p, Old(p), p # NoParty
             PROVE  Old(p)' /\ (p \notin Live => p \notin Live')
  BY <1>0 DEF Aging, Old
<1> USE DEF RegistryInv
<1>1. /\ p \in StartPartyId..tenantPartyId /\ \A m \in creating : m.id # p
      /\ tenantPartyId \in Nat /\ StartPartyId \in Nat
  BY PartyIdsAssumption DEF Old, RegistryTypeOK
<1>2. ASSUME NEW leader \in Characters, AllocatePartyId(leader)
      PROVE  Old(p)' /\ (p \notin Live => p \notin Live')
  <2>1. NextId \in Nat /\ NextId > tenantPartyId
    BY <1>1, PartyIdsAssumption DEF NextId
  <2>2. NewParty(NextId, leader).id = NextId
    BY DEF NewParty
  <2>3. tenantPartyId' = NextId /\ creating' = creating \cup {NewParty(NextId, leader)}
    BY <1>2 DEF AllocatePartyId
  <2>4. Old(p)'
    BY <1>1, <2>1, <2>2, <2>3 DEF Old
  <2>5. Live' \subseteq Live
    BY <1>2 DEF AllocatePartyId, Live, EmptyMap
  <2> QED BY <2>4, <2>5
<1>3. ASSUME NEW m \in creating, StoreParty(m)
      PROVE  Old(p)' /\ (p \notin Live => p \notin Live')
  BY <1>1, <1>3 DEF StoreParty, Put, Live, Old
<1>4. ASSUME NEW q \in PartyIds, NEW u \in Updaters, UpdateParty(q, u)
      PROVE  Old(p)' /\ (p \notin Live => p \notin Live')
  <2>1. Updated(q, u).id = Lookup(q).id
    BY LookupParty, AppliedParty DEF Updated
  <2> QED BY <1>1, <1>4, <2>1 DEF UpdateParty, Put, Live, Lookup, ZeroParty, Old
<1>5. ASSUME NEW q \in PartyIds, RemoveParty(q)
      PROVE  Old(p)' /\ (p \notin Live => p \notin Live')
  BY <1>1, <1>5 DEF RemoveParty, DeleteKeys, Live, Old
<1>6. CASE UNCHANGED registryVars
  BY <1>1, <1>6 DEF registryVars, Live, Old
<1> QED BY <1>2, <1>3, <1>4, <1>5, <1>6 DEF RegistryNext

LEMMA OthersOld ==
  ASSUME NEW j, OldOK(j), Aging
  PROVE  OldOK(j)'
  BY DEF OldOK, Aging, Arrival, Joins, Disbands

LEMMA OldLanded ==
  ASSUME TypedInv, OldInv, Aging, KeysOld', RecordsOld', NEW w \in Workers, NEW k,
         Become(w, k), OldOK(k)'
  PROVE  OldInv'
<1>1. /\ job'[w] = k /\ \A v \in Workers \ {w} : job'[v] = job[v]
  BY DEF Become, TypedInv, ServiceInv, JobsOK
<1>2. ASSUME NEW v \in Workers
      PROVE  OldOK(job[v])'
  <2>1. PICK j : j = job'[v] /\ OldOK(j)'
    <3>1. CASE v = w
      BY <1>1, <3>1
    <3>2. CASE v # w
      BY <1>1, <3>2, OthersOld DEF OldInv
    <3> QED BY <3>1, <3>2
  <2> QED BY <2>1 DEF OldOK, Old, Live, Arrival, Joins, Disbands
<1> QED BY <1>2 DEF OldInv

LEMMA NoJobOld == OldOK(NoJob) /\ OldOK(NoJob)'
  BY DEF OldOK, NoJob, Past, Arriving, Parting, Disbands, ZeroCharacter

-----------------------------------------------------------------------------
(* What is in a buffer after another event.                                *)

LEMMA EventFields ==
  ASSUME NEW type, NEW p, NEW c
  PROVE  \E e : e = Event(type, p, c) /\ e.type = type /\ e.pid = p
<1>1. PICK e : e = Event(type, p, c)
  OBVIOUS
<1> QED BY <1>1 DEF Event

LEMMA BufferGrows ==
  ASSUME NEW S, NEW j, j.buf \in Seq(S), NEW e, NEW k, k.buf = Append(j.buf, e)
  PROVE  /\ k.buf \in Seq(S \cup {e})
         /\ Disbands(k) \subseteq Disbands(j) \cup {e.pid}
         /\ e.type # "DISBAND" => Disbands(k) \subseteq Disbands(j)
<1>1. \A i \in DOMAIN k.buf : k.buf[i] = e \/ (i \in DOMAIN j.buf /\ k.buf[i] = j.buf[i])
  OBVIOUS
<1>2. \A p \in Disbands(k) : p \in Disbands(j) \/ (p = e.pid /\ e.type = "DISBAND")
  BY <1>1 DEF Disbands
<1> QED BY <1>2

\* A job further on in its handler, that announces no disbanding.
Onward(j, k, pc) ==
  k.op = j.op /\ k.pc = pc /\ k.pid = j.pid /\ k.fetched = j.fetched /\ Disbands(k) = {}

Silent(j) == DOMAIN j = Fields /\ (\E S : j.buf \in Seq(S)) /\ Disbands(j) = {}

LEMMA BufferSame ==
  ASSUME NEW j, Disbands(j) = {}, NEW k, k.buf = j.buf
  PROVE  Disbands(k) = {}
  BY DEF Disbands

LEMMA OneDisbanding ==
  ASSUME NEW j, Silent(j), NEW e, NEW k, k.buf = Append(j.buf, e)
  PROVE  Disbands(k) \subseteq {e.pid}
<1>1. PICK S : j.buf \in Seq(S)
  BY DEF Silent
<1> QED BY <1>1, BufferGrows DEF Silent

LEMMA WentOn ==
  ASSUME NEW j, Silent(j), NEW pc
  PROVE  /\ Onward(j, Goto(j, pc), pc)
         /\ \A v : /\ Onward(j, [Goto(j, pc) EXCEPT !.rec = v], pc)
                   /\ Onward(j, [Goto(j, pc) EXCEPT !.party = v], pc)
                   /\ Onward(j, [Goto(j, pc) EXCEPT !.disband = v], pc)
<1>1. ASSUME NEW k, k.op = j.op, k.pc = pc, k.pid = j.pid, k.fetched = j.fetched, k.buf = j.buf
      PROVE  Onward(j, k, pc)
  BY <1>1, BufferSame DEF Onward, Silent
<1>2. DOMAIN j = Fields
  BY DEF Silent
<1>3. Onward(j, Goto(j, pc), pc)
  <2>1. PICK k : k = Goto(j, pc)
    OBVIOUS
  <2> QED BY <1>1, <1>2, <2>1 DEF Goto, Fields
<1>4. ASSUME NEW v
      PROVE  Onward(j, [Goto(j, pc) EXCEPT !.rec = v], pc)
  <2>1. PICK k : k = [Goto(j, pc) EXCEPT !.rec = v]
    OBVIOUS
  <2> QED BY <1>1, <1>2, <2>1 DEF Goto, Fields
<1>5. ASSUME NEW v
      PROVE  Onward(j, [Goto(j, pc) EXCEPT !.party = v], pc)
  <2>1. PICK k : k = [Goto(j, pc) EXCEPT !.party = v]
    OBVIOUS
  <2> QED BY <1>1, <1>2, <2>1 DEF Goto, Fields
<1>6. ASSUME NEW v
      PROVE  Onward(j, [Goto(j, pc) EXCEPT !.disband = v], pc)
  <2>1. PICK k : k = [Goto(j, pc) EXCEPT !.disband = v]
    OBVIOUS
  <2> QED BY <1>1, <1>2, <2>1 DEF Goto, Fields
<1> QED BY <1>3, <1>4, <1>5, <1>6

LEMMA NotedSilently ==
  ASSUME NEW j, Silent(j), NEW e, e.type # "DISBAND"
  PROVE  /\ Silent(Buffered(j, e))
         /\ \A k, pc : Onward(Buffered(j, e), k, pc) => Onward(j, k, pc)
<1>1. PICK S : j.buf \in Seq(S)
  BY DEF Silent
<1>2. PICK k : k = Buffered(j, e)
  OBVIOUS
<1>3. /\ DOMAIN k = Fields /\ k.buf = Append(j.buf, e)
      /\ k.op = j.op /\ k.pid = j.pid /\ k.fetched = j.fetched
  BY <1>2 DEF Buffered, Silent, Fields
<1>4. k.buf \in Seq(S \cup {e}) /\ Disbands(k) = {}
  BY <1>1, <1>3, BufferGrows DEF Silent
<1> QED BY <1>2, <1>3, <1>4 DEF Silent, Onward

LEMMA Concluded ==
  ASSUME NEW j, Silent(j)
  PROVE  /\ Onward(j, Done(j), "return")
         /\ Onward(j, [Done(j) EXCEPT !.err = TRUE], "return")
         /\ \A m : \E pc \in {"return", "invite.send"} : Onward(j, CreateEnds(j, m), pc)
<1>1. Onward(j, Done(j), "return")
  BY WentOn DEF Done
<1>2. PICK k : k = [Done(j) EXCEPT !.err = TRUE]
  OBVIOUS
<1>3. k.op = j.op /\ k.pc = "return" /\ k.pid = j.pid /\ k.fetched = j.fetched /\ k.buf = j.buf
  BY <1>2 DEF Done, Goto, Silent, Fields
<1>4. Onward(j, k, "return")
  BY <1>3, BufferSame DEF Onward, Silent
<1>5. ASSUME NEW m
      PROVE  \E pc \in {"return", "invite.send"} : Onward(j, CreateEnds(j, m), pc)
  <2>1. Onward(j, [Goto(j, "invite.send") EXCEPT !.party = m], "invite.send")
    BY WentOn
  <2> QED BY <1>1, <2>1 DEF CreateEnds
<1> QED BY <1>1, <1>2, <1>4, <1>5

LEMMA ConcludedNoting ==
  ASSUME NEW j, Silent(j)
  PROVE  /\ Onward(j, Refuse(j), "return") /\ Onward(j, Fail(j), "return")
         /\ \E pc \in {"return", "invite.send"} : Onward(j, FailCreate(j), pc)
         /\ \A e : e.type # "DISBAND" => Onward(j, Done(Buffered(j, e)), "return")
         /\ \A e, f : e.type # "DISBAND" /\ f.type # "DISBAND"
                        => Onward(j, Done(Buffered(Buffered(j, e), f)), "return")
<1>1. \A p, c : Event("ERROR", p, c).type # "DISBAND"
  BY DEF Event
<1>2. ASSUME NEW e, e.type # "DISBAND"
      PROVE  Onward(j, Done(Buffered(j, e)), "return")
  BY <1>2, NotedSilently, Concluded
<1>3. ASSUME NEW e, NEW f, e.type # "DISBAND", f.type # "DISBAND"
      PROVE  Onward(j, Done(Buffered(Buffered(j, e), f)), "return")
  <2>1. PICK k : k = Buffered(j, e) /\ Silent(k)
    BY <1>3, NotedSilently
  <2>2. Onward(k, Done(Buffered(k, f)), "return")
    BY <1>3, <2>1, NotedSilently, Concluded
  <2> QED BY <1>3, <2>1, <2>2, NotedSilently
<1>4. Onward(j, Refuse(j), "return")
  <2>1. PICK e : e = Event("ERROR", j.pid, j.chr) /\ e.type # "DISBAND"
    BY <1>1
  <2>2. PICK k : k = Buffered(j, e) /\ Silent(k)
    BY <2>1, NotedSilently
  <2>3. Onward(k, [Done(k) EXCEPT !.err = TRUE], "return")
    BY <2>2, Concluded
  <2> QED BY <2>1, <2>2, <2>3, NotedSilently DEF Refuse
<1>5. Onward(j, Fail(j), "return")
  BY <1>1, <1>2 DEF Fail
<1>6. \E pc \in {"return", "invite.send"} : Onward(j, FailCreate(j), pc)
  <2>1. PICK e : e = Event("ERROR", NoParty, j.actor) /\ e.type # "DISBAND"
    BY <1>1
  <2>2. PICK k : k = Buffered(j, e) /\ Silent(k)
    BY <2>1, NotedSilently
  <2>3. PICK pc \in {"return", "invite.send"} : Onward(k, CreateEnds(k, ZeroParty), pc)
    BY <2>2, Concluded
  <2> QED BY <2>1, <2>2, <2>3, NotedSilently DEF FailCreate
<1> QED BY <1>2, <1>3, <1>4, <1>5, <1>6

-----------------------------------------------------------------------------
(* What a step leaves behind, by what it does to the registries.           *)

LEMMA OnwardOld ==
  ASSUME NEW j, OldOK(j), NEW k, NEW pc, Onward(j, k, pc),
         pc \in Past => Old(j.pid), pc = "create.store" => ~Joins(k),
         pc \in {"enter", "enter.set"} => Old(Arrival(k)),
         pc \in {"leave.get", "leave.clear"} => k.party.id \in {NoParty, j.pid}
  PROVE  OldOK(k)
  BY DEF OldOK, Onward

LEMMA OldTyped ==
  ASSUME TypedInv, OldInv, NEW w \in Workers
  PROVE  /\ ServiceInv /\ JobOK(job[w]) /\ OldOK(job[w])
         /\ job[w].pc \notin Parting => Silent(job[w])
<1>1. ServiceInv /\ JobOK(job[w]) /\ OldOK(job[w])
  BY Working DEF TypedInv, OldInv
<1>2. DOMAIN job[w] = Fields /\ job[w].buf \in Seq(Events)
  BY DEF TypedInv, JobsTyped, JobTyped, FieldsTyped
<1> QED BY <1>1, <1>2 DEF OldOK, Silent

\* A step that leaves the party registry alone.
LEMMA OldQuiet ==
  ASSUME TypedInv, OldInv, NEW w \in Workers, NEW k, Become(w, k), OldOK(k),
         UNCHANGED registryVars, RecordsOld'
  PROVE  OldInv'
<1>1. Aging
  BY DEF Aging, Old, Live, registryVars
<1>2. KeysOld'
  BY <1>1 DEF registryVars, OldInv, KeysOld, Aging
<1> QED BY <1>1, <1>2, OthersOld, OldLanded

LEMMA OldPassed ==
  ASSUME TypedInv, OldInv, NEW w \in Workers, NEW k, Become(w, k), OldOK(k),
         UNCHANGED registryVars, UNCHANGED charReg
  PROVE  OldInv'
<1>1. RecordsOld'
  BY DEF OldInv, RecordsOld, Old, registryVars
<1> QED BY <1>1, OldQuiet

\* A step that leaves the records alone.
LEMMA OldKept ==
  ASSUME TypedInv, OldInv, NEW w \in Workers, Work(w), NEW k, Become(w, k), OldOK(k)',
         UNCHANGED charReg, \A p \in DOMAIN partyReg' : p \in DOMAIN partyReg \/ Old(p)'
  PROVE  OldInv'
<1>1. Aging
  BY WorkOrderly, RegistryAges DEF TypedInv, ServiceInv, Orderly
<1>2. KeysOld'
  BY <1>1 DEF OldInv, KeysOld, Aging
<1>3. RecordsOld'
  BY <1>1 DEF OldInv, RecordsOld, Aging
<1> QED BY <1>1, <1>2, <1>3, OldLanded

\* The party that Get finds, and the one that Update stores.
LEMMA OldGets ==
  ASSUME TypedInv, OldInv, NEW w \in Workers, NEW p, NEW found, NEW failed,
         GetParty(w, p, found, failed), Old(p) => OldOK(found), OldOK(failed)
  PROVE  OldInv'
<1>1. p \in DOMAIN partyReg => Old(p)
  BY DEF OldInv, KeysOld
<1> QED BY <1>1, OldPassed DEF GetParty

LEMMA UpdatedOld ==
  ASSUME TypedInv, NEW p, NEW u \in Updaters
  PROVE  Updated(p, u).id \in {p, NoParty}
<1>1. Updated(p, u).id = Lookup(p).id
  BY LookupParty, AppliedParty DEF Updated, TypedInv, ServiceInv, RegistryInv
<1> QED BY <1>1 DEF Lookup, ZeroParty, TypedInv, ServiceInv, RegistryInv, StoredIds

LEMMA OldStores ==
  ASSUME TypedInv, OldInv, NEW w \in Workers, Work(w), NEW p, Old(p), NEW u, NEW done,
         NEW refused, SetParty(w, p, u, done, refused), OldOK(done), OldOK(refused)
  PROVE  OldInv'
<1>1. Aging
  BY WorkOrderly, RegistryAges DEF TypedInv, ServiceInv, Orderly
<1>2. PICK k : Become(w, k) /\ OldOK(k)
  BY DEF SetParty
<1>3. \A q \in DOMAIN partyReg' : q \in DOMAIN partyReg \/ Old(q)'
  BY <1>1 DEF SetParty, UpdateParty, Put, registryVars, Aging
<1> QED BY <1>1, <1>2, <1>3, OthersOld, OldKept DEF SetParty

\* Lookups: what the character service answers is a record in no party.
LEMMA ObtainedOld ==
  ASSUME OldInv, NEW w \in Workers, NEW c
  PROVE  Old(Obtained(w, c).partyId) /\ Old(Character(c).partyId)
<1>1. Old(Character(c).partyId)
  BY DEF OldInv, RecordsOld, Character, Cached, ZeroCharacter, Old
<1>2. Old(job[w].fetched.partyId)
  BY DEF OldInv, OldOK, Old
<1> QED BY <1>1, <1>2 DEF Obtained

LEMMA OldLooks ==
  ASSUME TypedInv, OldInv, NEW w \in Workers, job[w].pc \notin Parting \cup Past,
         NEW c, NEW found, NEW pc, Onward(job[w], found, pc), DOMAIN found = Fields,
         OldOK(found), NEW failed, OldOK(failed), GetById(w, c, found, failed)
  PROVE  OldInv'
<1> DEFINE j == job[w]
<1>0. UNCHANGED registryVars /\ OldOK(j) /\ JobOK(j)
  BY OldTyped DEF GetById
<1>1. CASE \/ Become(w, found) /\ UNCHANGED charReg
           \/ Become(w, failed) /\ UNCHANGED charReg
  BY <1>0, <1>1, OldPassed
<1>2. CASE /\ \E map \in Maps : Become(w, [j EXCEPT !.fetched = Fresh(c, map)])
           /\ UNCHANGED charReg
  <2>1. PICK map \in Maps : Become(w, [j EXCEPT !.fetched = Fresh(c, map)])
    BY <1>2
  <2>2. PICK k : k = [j EXCEPT !.fetched = Fresh(c, map)]
    OBVIOUS
  <2>3. /\ k.fetched.partyId = NoParty
        /\ k.pc = j.pc /\ k.op = j.op /\ k.pid = j.pid /\ k.party = j.party /\ k.buf = j.buf
    BY <1>0, <2>2 DEF JobOK, Fields, Fresh
  <2>4. Disbands(k) = {}
    BY <1>0, <2>3, BufferSame DEF OldOK
  <2>5. OldOK(k)
    BY <1>0, <2>3, <2>4 DEF OldOK, Arrival, Joins
  <2> QED BY <1>0, <1>2, <2>1, <2>2, <2>5, OldPassed
<1>3. CASE /\ CreateCharacter(c, j.fetched.mapId)
           /\ Become(w, [found EXCEPT !.fetched = ZeroCharacter])
  <2>1. PICK k : k = [found EXCEPT !.fetched = ZeroCharacter]
    OBVIOUS
  <2>2. /\ k.fetched.partyId = NoParty
        /\ k.pc = found.pc /\ k.op = found.op /\ k.pid = found.pid /\ k.party = found.party
        /\ k.buf = found.buf
    BY <2>1 DEF Fields, ZeroCharacter
  <2>3. Disbands(k) = {}
    BY <2>2, BufferSame DEF Onward
  <2>4. OldOK(k)
    BY <2>2, <2>3 DEF OldOK, Arrival, Joins
  <2>5. RecordsOld'
    BY <1>0, <1>3
    DEF CreateCharacter, Put, Fresh, OldInv, RecordsOld, Old, registryVars
  <2> QED BY <1>0, <1>3, <2>1, <2>4, <2>5, OldQuiet
<1> QED BY <1>1, <1>2, <1>3 DEF GetById

\* Updates of a record.
LEMMA OldSets ==
  ASSUME TypedInv, OldInv, NEW w \in Workers, NEW u, Old(u.partyId), NEW k, OldOK(k),
         SetCharacter(w, u, k)
  PROVE  OldInv'
<1>1. RecordsOld'
  BY DEF SetCharacter, UpdateCharacter, Put, OldInv, RecordsOld, Old, registryVars
<1> QED BY <1>1, OldQuiet DEF SetCharacter

LEMMA SetterParties ==
  ASSUME TypedInv, OldInv, NEW w \in Workers
  PROVE  /\ LeaveParty(Target(w)).partyId = NoParty
         /\ \A p : JoinParty(Target(w), p).partyId = p
         /\ \A map : Old(ChangeMap(Target(w), map).partyId)
<1>1. PICK m : m = Target(w) /\ IsCharacter(m) /\ Old(m.partyId)
  BY TypedRecords, ObtainedOld DEF Target
<1> QED BY <1>1 DEF IsCharacter, LeaveParty, JoinParty, ChangeMap

-----------------------------------------------------------------------------
(* The steps of the handlers, by what they do to the registries.           *)

LEMMA LookingOld ==
  ASSUME TypedInv, OldInv, NEW w \in Workers,
         \/ CreateCheck(w) \/ JoinCheck(w) \/ LeaveCheck(w) \/ LeadGetActor(w)
         \/ InviteGetActor(w) \/ InviteCheck(w) \/ MapGet(w)
  PROVE  OldInv'
<1> DEFINE j == job[w]
<1>0. OldOK(j) /\ JobOK(j)
  BY OldTyped
<1>1. Silent(j) /\ j.pc \notin Parting \cup Past
  BY OldTyped
  DEF CreateCheck, JoinCheck, LeaveCheck, LeadGetActor, InviteGetActor, InviteCheck, MapGet, At,
      Parting, Past
<1>2. ASSUME NEW c, NEW found, NEW failed, GetById(w, c, found, failed), DOMAIN found = Fields,
             NEW pc, pc \notin Past \cup Arriving, Onward(j, found, pc),
             NEW end, end \notin Past \cup Arriving, Onward(j, failed, end)
      PROVE  OldInv'
  <2>1. OldOK(found) /\ OldOK(failed)
    BY <1>0, <1>2, OnwardOld DEF Past, Arriving
  <2> QED BY <1>1, <1>2, <2>1, OldLooks
<1>3. CASE CreateCheck(w)
  <2>1. PICK found, failed, v :
          /\ GetById(w, j.actor, found, failed)
          /\ found \in {Refuse(j), Goto(j, "create.alloc")}
          /\ failed = FailCreate(j)
    BY <1>3 DEF CreateCheck
  <2>2. PICK pc \in {"return", "create.alloc"} : Onward(j, found, pc) /\ DOMAIN found = Fields
    <3>1. /\ Onward(j, Goto(j, "create.alloc"), "create.alloc") /\ DOMAIN Goto(j, "create.alloc") = Fields
      BY <1>0, <1>1, WentOn, Carried DEF Carries, Heads
    <3>2. DOMAIN Refuse(j) = Fields
      BY <1>0, Carriedoff DEF Carries, Heads
    <3> QED BY <1>1, <2>1, <3>1, <3>2, ConcludedNoting
  <2>3. PICK end \in {"return", "invite.send"} : Onward(j, failed, end)
    BY <1>1, <2>1, Concluded, ConcludedNoting
  <2> QED BY <1>2, <2>1, <2>2, <2>3 DEF Past, Arriving
<1>4. CASE JoinCheck(w)
  <2>1. PICK found, failed, v :
          /\ GetById(w, j.chr, found, failed)
          /\ found \in {Refuse(j), Goto(j, "join.party")}
          /\ failed = Fail(j)
    BY <1>4 DEF JoinCheck
  <2>2. PICK pc \in {"return", "join.party"} : Onward(j, found, pc) /\ DOMAIN found = Fields
    <3>1. /\ Onward(j, Goto(j, "join.party"), "join.party") /\ DOMAIN Goto(j, "join.party") = Fields
      BY <1>0, <1>1, WentOn, Carried DEF Carries, Heads
    <3>2. DOMAIN Refuse(j) = Fields
      BY <1>0, Carriedoff DEF Carries, Heads
    <3> QED BY <1>1, <2>1, <3>1, <3>2, ConcludedNoting
  <2>3. PICK end \in {"return"} : Onward(j, failed, end)
    BY <1>1, <2>1, Concluded, ConcludedNoting
  <2> QED BY <1>2, <2>1, <2>2, <2>3 DEF Past, Arriving
<1>5. CASE LeaveCheck(w)
  <2>1. PICK found, failed, v :
          /\ GetById(w, j.chr, found, failed)
          /\ found \in {Refuse(j), Goto(j, "leave.party")}
          /\ failed = Fail(j)
    BY <1>5 DEF LeaveCheck
  <2>2. PICK pc \in {"return", "leave.party"} : Onward(j, found, pc) /\ DOMAIN found = Fields
    <3>1. /\ Onward(j, Goto(j, "leave.party"), "leave.party") /\ DOMAIN Goto(j, "leave.party") = Fields
      BY <1>0, <1>1, WentOn, Carried DEF Carries, Heads
    <3>2. DOMAIN Refuse(j) = Fields
      BY <1>0, Carriedoff DEF Carries, Heads
    <3> QED BY <1>1, <2>1, <3>1, <3>2, ConcludedNoting
  <2>3. PICK end \in {"return"} : Onward(j, failed, end)
    BY <1>1, <2>1, Concluded, ConcludedNoting
  <2> QED BY <1>2, <2>1, <2>2, <2>3 DEF Past, Arriving
<1>6. CASE LeadGetActor(w)
  <2>1. PICK found, failed, v :
          /\ GetById(w, j.chr, found, failed)
          /\ found = [Goto(j, "lead.chr") EXCEPT !.rec = v]
          /\ failed = Fail(j)
    BY <1>6 DEF LeadGetActor
  <2>2. PICK pc \in {"lead.chr"} : Onward(j, found, pc) /\ DOMAIN found = Fields
    <3>1. /\ \A u : /\ Onward(j, [Goto(j, "lead.chr") EXCEPT !.rec = u], "lead.chr")
                    /\ DOMAIN [Goto(j, "lead.chr") EXCEPT !.rec = u] = Fields
      BY <1>0, <1>1, WentOn, Carried DEF Carries, Heads
    <3>2. DOMAIN Refuse(j) = Fields
      BY <1>0, Carriedoff DEF Carries, Heads
    <3> QED BY <1>1, <2>1, <3>1, <3>2, ConcludedNoting
  <2>3. PICK end \in {"return"} : Onward(j, failed, end)
    BY <1>1, <2>1, Concluded, ConcludedNoting
  <2> QED BY <1>2, <2>1, <2>2, <2>3 DEF Past, Arriving
<1>7. CASE InviteGetActor(w)
  <2>1. PICK found, failed, v :
          /\ GetById(w, j.actor, found, failed)
          /\ found = [Goto(j, "invite.chr") EXCEPT !.rec = v]
          /\ failed = Fail(j)
    BY <1>7 DEF InviteGetActor
  <2>2. PICK pc \in {"invite.chr"} : Onward(j, found, pc) /\ DOMAIN found = Fields
    <3>1. /\ \A u : /\ Onward(j, [Goto(j, "invite.chr") EXCEPT !.rec = u], "invite.chr")
                    /\ DOMAIN [Goto(j, "invite.chr") EXCEPT !.rec = u] = Fields
      BY <1>0, <1>1, WentOn, Carried DEF Carries, Heads
    <3>2. DOMAIN Refuse(j) = Fields
      BY <1>0, Carriedoff DEF Carries, Heads
    <3> QED BY <1>1, <2>1, <3>1, <3>2, ConcludedNoting
  <2>3. PICK end \in {"return"} : Onward(j, failed, end)
    BY <1>1, <2>1, Concluded, ConcludedNoting
  <2> QED BY <1>2, <2>1, <2>2, <2>3 DEF Past, Arriving
<1>8. CASE InviteCheck(w)
  <2>1. PICK found, failed, v :
          /\ GetById(w, j.chr, found, failed)
          /\ found \in {Refuse(j), Goto(j, "create"), Goto(j, "invite.party")}
          /\ failed = Fail(j)
    BY <1>8 DEF InviteCheck
  <2>2. PICK pc \in {"return", "create", "invite.party"} : Onward(j, found, pc) /\ DOMAIN found = Fields
    <3>1. /\ Onward(j, Goto(j, "create"), "create") /\ DOMAIN Goto(j, "create") = Fields
          /\ Onward(j, Goto(j, "invite.party"), "invite.party") /\ DOMAIN Goto(j, "invite.party") = Fields
      BY <1>0, <1>1, WentOn, Carried DEF Carries, Heads
    <3>2. DOMAIN Refuse(j) = Fields
      BY <1>0, Carriedoff DEF Carries, Heads
    <3> QED BY <1>1, <2>1, <3>1, <3>2, ConcludedNoting
  <2>3. PICK end \in {"return"} : Onward(j, failed, end)
    BY <1>1, <2>1, Concluded, ConcludedNoting
  <2> QED BY <1>2, <2>1, <2>2, <2>3 DEF Past, Arriving
<1>9. CASE MapGet(w)
  <2>1. PICK found, failed, v :
          /\ GetById(w, j.chr, found, failed)
          /\ found = [Goto(j, "map.set") EXCEPT !.rec = v]
          /\ failed = Done(j)
    BY <1>9 DEF MapGet
  <2>2. PICK pc \in {"map.set"} : Onward(j, found, pc) /\ DOMAIN found = Fields
    <3>1. /\ \A u : /\ Onward(j, [Goto(j, "map.set") EXCEPT !.rec = u], "map.set")
                    /\ DOMAIN [Goto(j, "map.set") EXCEPT !.rec = u] = Fields
      BY <1>0, <1>1, WentOn, Carried DEF Carries, Heads
    <3>2. DOMAIN Refuse(j) = Fields
      BY <1>0, Carriedoff DEF Carries, Heads
    <3> QED BY <1>1, <2>1, <3>1, <3>2, ConcludedNoting
  <2>3. PICK end \in {"return"} : Onward(j, failed, end)
    BY <1>1, <2>1, Concluded, ConcludedNoting
  <2> QED BY <1>2, <2>1, <2>2, <2>3 DEF Past, Arriving
<1> QED BY <1>3, <1>4, <1>5, <1>6, <1>7, <1>8, <1>9

\* The lookups before a party is entered and before a leader is appointed.
LEMMA EnterCheckOld ==
  ASSUME TypedInv, OldInv, NEW w \in Workers, EnterCheck(w)
  PROVE  OldInv'
<1> DEFINE j == job[w]
<1>0. OldOK(j) /\ JobOK(j) /\ j.pc = "enter"
  BY OldTyped DEF EnterCheck, At
<1>1. Silent(j) /\ j.pc \notin Parting \cup Past
  BY <1>0, OldTyped DEF Parting, Past
<1>2. PICK c, found, failed, r :
        /\ GetById(w, c, found, failed)
        /\ found = [Goto(j, "enter.set") EXCEPT !.rec = r]
        /\ failed = IF Joins(j) THEN Goto(j, "join.undo") ELSE FailCreate(j)
  BY DEF EnterCheck
<1>3. Onward(j, found, "enter.set") /\ found.party = j.party /\ DOMAIN found = Fields
  <2>1. Onward(j, found, "enter.set") /\ found.party = j.party
    BY <1>1, <1>2, BufferSame DEF Onward, Silent, Goto, Fields
  <2>2. DOMAIN [Goto(j, "enter.set") EXCEPT !.rec = r] = Fields
    BY <1>0, Carried DEF Carries, Heads
  <2> QED BY <1>2, <2>1, <2>2
<1>4. Old(Arrival(j)) /\ Arrival(found) = Arrival(j)
  BY <1>0, <1>3 DEF OldOK, Arriving, Arrival, Joins, Onward
<1>5. OldOK(found)
  BY <1>0, <1>3, <1>4, OnwardOld DEF Past
<1>6. OldOK(failed)
  <2>1. CASE Joins(j)
    <3>1. Onward(j, failed, "join.undo")
      BY <1>1, <1>2, <2>1, WentOn
    <3>2. Old(j.pid)
      BY <1>4, <2>1 DEF Arrival
    <3> QED BY <1>0, <3>1, <3>2, OnwardOld DEF Arriving
  <2>2. CASE ~Joins(j)
    <3>1. PICK pc \in {"return", "invite.send"} : Onward(j, failed, pc)
      BY <1>1, <1>2, <2>2, ConcludedNoting
    <3> QED BY <1>0, <3>1, OnwardOld DEF Past, Arriving
  <2> QED BY <2>1, <2>2
<1> QED BY <1>1, <1>2, <1>3, <1>5, <1>6, OldLooks

LEMMA LeadCheckOld ==
  ASSUME TypedInv, OldInv, NEW w \in Workers, LeadCheck(w)
  PROVE  OldInv'
<1> DEFINE j == job[w]
<1>0. OldOK(j) /\ JobOK(j) /\ j.pc = "lead.chr"
  BY OldTyped DEF LeadCheck, At
<1>1. Silent(j) /\ j.pc \notin Parting \cup Past
  BY <1>0, OldTyped DEF Parting, Past
<1>2. PICK c : c = Obtained(w, j.chr) /\ Old(c.partyId)
  BY ObtainedOld
<1>3. PICK found :
        /\ GetById(w, j.chr, found, Fail(j))
        /\ found = IF c.partyId # j.pid \/ j.rec.partyId # c.partyId \/ j.rec.mapId # c.mapId
                   THEN Refuse(j) ELSE Goto(j, "lead.set")
  BY <1>2 DEF LeadCheck
<1>4. PICK pc \in {"return", "lead.set"} :
        Onward(j, found, pc) /\ DOMAIN found = Fields /\ (pc = "lead.set" => Old(j.pid))
  <2>1. Onward(j, Goto(j, "lead.set"), "lead.set") /\ DOMAIN Goto(j, "lead.set") = Fields
    BY <1>0, <1>1, WentOn, Carried DEF Carries, Heads
  <2>2. Onward(j, Refuse(j), "return") /\ DOMAIN Refuse(j) = Fields
    BY <1>0, <1>1, ConcludedNoting, Carriedoff DEF Carries, Heads
  <2>3. CASE c.partyId # j.pid \/ j.rec.partyId # c.partyId \/ j.rec.mapId # c.mapId
    BY <1>3, <2>2, <2>3
  <2>4. CASE ~(c.partyId # j.pid \/ j.rec.partyId # c.partyId \/ j.rec.mapId # c.mapId)
    BY <1>2, <1>3, <2>1, <2>4
  <2> QED BY <2>3, <2>4
<1>5. OldOK(found)
  BY <1>0, <1>4, OnwardOld DEF Past, Arriving
<1>6. OldOK(Fail(j))
  BY <1>0, <1>1, ConcludedNoting, OnwardOld DEF Past, Arriving
<1> QED BY <1>1, <1>3, <1>4, <1>5, <1>6, OldLooks

\* The steps that find a party.
LEMMA GettingOld ==
  ASSUME TypedInv, OldInv, NEW w \in Workers,
         JoinGetParty(w) \/ LeaveGetParty(w) \/ InviteGetParty(w)
  PROVE  OldInv'
<1> DEFINE j == job[w]
<1>0. OldOK(j) /\ Silent(j)
  BY OldTyped DEF JoinGetParty, LeaveGetParty, InviteGetParty, At, Parting
<1>1. OldOK(Fail(j)) /\ OldOK(Refuse(j)) /\ OldOK([Done(j) EXCEPT !.err = TRUE])
  BY <1>0, Concluded, ConcludedNoting, OnwardOld DEF Past, Arriving
<1>2. CASE JoinGetParty(w)
  <2>1. PICK found : GetParty(w, j.pid, found, Fail(j)) /\ found \in {Refuse(j), Goto(j, "join.add")}
    BY <1>2 DEF JoinGetParty
  <2>2. Old(j.pid) => OldOK(Goto(j, "join.add"))
    BY <1>0, WentOn, OnwardOld DEF Arriving
  <2> QED BY <1>1, <2>1, <2>2, OldGets
<1>3. CASE LeaveGetParty(w)
  <2>1. PICK found, d : /\ GetParty(w, j.pid, found, Fail(j))
                        /\ found = [Goto(j, "leave.remove") EXCEPT !.disband = d]
    BY <1>3 DEF LeaveGetParty
  <2>2. Onward(j, found, "leave.remove")
    BY <1>0, <2>1, WentOn
  <2>3. Old(j.pid) => OldOK(found)
    BY <1>0, <2>2, OnwardOld DEF Arriving
  <2> QED BY <1>1, <2>1, <2>3, OldGets
<1>4. CASE InviteGetParty(w)
  <2>1. PICK p, found, m : /\ GetParty(w, p, found, [Done(j) EXCEPT !.err = TRUE])
                           /\ found = [Goto(j, "invite.send") EXCEPT !.party = m]
    BY <1>4 DEF InviteGetParty
  <2>2. Onward(j, found, "invite.send")
    BY <1>0, <2>1, WentOn
  <2>3. OldOK(found)
    BY <1>0, <2>2, OnwardOld DEF Past, Arriving
  <2> QED BY <1>1, <2>1, <2>3, OldGets
<1> QED BY <1>2, <1>3, <1>4

\* The updates of a party.
LEMMA StoringOld ==
  ASSUME TypedInv, OldInv, NEW w \in Workers, Work(w),
         JoinAdd(w) \/ JoinUndo(w) \/ LeaveRemove(w) \/ LeaveUndo(w) \/ LeadSet(w)
  PROVE  OldInv'
<1> DEFINE j == job[w]
<1>0. OldOK(j) /\ Silent(j) /\ Old(j.pid) /\ j.chr \in Characters
  <2>1. j.pc \in Past /\ j.pc \notin Parting /\ j.pc \notin Resting
    BY DEF JoinAdd, JoinUndo, LeaveRemove, LeaveUndo, LeadSet, At, Past, Parting, Resting
  <2> QED BY <2>1, OldTyped, Working DEF OldOK
<1>1. OldOK(Fail(j))
  BY <1>0, ConcludedNoting, OnwardOld DEF Past, Arriving
<1>2. ASSUME NEW u \in Updaters, NEW done, OldOK(done), NEW refused, OldOK(refused),
             SetParty(w, j.pid, u, done, refused)
      PROVE  OldInv'
  BY <1>0, <1>2, OldStores
<1>3. Adding(j.chr) \in Updaters /\ Removing(j.chr) \in Updaters /\ Appointing(j.chr) \in Updaters
  BY <1>0 DEF Adding, Removing, Appointing, Updaters
<1>4. CASE JoinAdd(w)
  <2>1. PICK done, m :
          /\ SetParty(w, j.pid, Adding(j.chr), done, Fail(j))
          /\ done = [Goto(j, "enter") EXCEPT !.party = m]
          /\ m.id \in {j.pid, NoParty}
    BY <1>3, <1>4, UpdatedOld DEF JoinAdd
  <2>2. Onward(j, done, "enter") /\ done.party = m
    BY <1>0, <2>1, BufferSame DEF Onward, Silent, Goto, Fields
  <2>3. Old(Arrival(done))
    BY <1>0, <2>1, <2>2 DEF Arrival, Onward, Old
  <2>4. OldOK(done)
    BY <1>0, <2>2, <2>3, OnwardOld
  <2> QED BY <1>1, <1>2, <1>3, <2>1, <2>4
<1>5. CASE JoinUndo(w) \/ LeaveUndo(w)
  BY <1>1, <1>2, <1>3, <1>5 DEF JoinUndo, LeaveUndo
<1>6. CASE LeaveRemove(w)
  <2>1. PICK done, m, b :
          /\ SetParty(w, j.pid, Removing(j.chr), done, Fail(j))
          /\ done = [Goto(j, "leave.get") EXCEPT !.party = m, !.todo = b]
          /\ m.id \in {j.pid, NoParty}
    BY <1>3, <1>6, UpdatedOld DEF LeaveRemove
  <2>2. Onward(j, done, "leave.get") /\ done.party = m
    BY <1>0, <2>1, BufferSame DEF Onward, Silent, Goto, Fields
  <2>3. OldOK(done)
    BY <1>0, <2>1, <2>2, OnwardOld DEF Arriving
  <2> QED BY <1>1, <1>2, <1>3, <2>1, <2>3
<1>7. CASE LeadSet(w)
  <2>1. PICK done, refused, e, f, g :
          /\ SetParty(w, j.pid, Appointing(j.chr), done, refused)
          /\ done = Done(Buffered(j, e)) /\ refused = Done(Buffered(Buffered(j, f), g))
          /\ e.type # "DISBAND" /\ f.type # "DISBAND" /\ g.type # "DISBAND"
    BY <1>7 DEF LeadSet, Event
  <2>2. Onward(j, done, "return") /\ Onward(j, refused, "return")
    BY <1>0, <2>1, ConcludedNoting
  <2>3. OldOK(done) /\ OldOK(refused)
    BY <1>0, <2>2, OnwardOld DEF Past, Arriving
  <2> QED BY <1>2, <1>3, <2>1, <2>3
<1> QED BY <1>4, <1>5, <1>6, <1>7

\* Create: the id it was given gets old the moment its party is stored.
LEMMA CreatingOld ==
  ASSUME TypedInv, OldInv, NEW w \in Workers, Work(w), CreateAllocate(w) \/ CreateStore(w)
  PROVE  OldInv'
<1> DEFINE j == job[w]
<1>0. OldOK(j) /\ Silent(j)
  BY OldTyped DEF CreateAllocate, CreateStore, At, Parting
<1>1. Aging
  BY WorkOrderly, RegistryAges DEF TypedInv, ServiceInv, Orderly
<1>2. CASE CreateAllocate(w)
  <2>1. PICK k, m : Become(w, k) /\ k = [Goto(j, "create.store") EXCEPT !.party = m]
    BY <1>2 DEF CreateAllocate
  <2>2. Onward(j, k, "create.store")
    BY <1>0, <2>1, WentOn
  <2>0. ~Joins(k)
    BY <1>2, <2>2, Working DEF CreateAllocate, At, Joins, Creators, Creating, Onward, TypedInv
  <2>3. OldOK(k)
    BY <1>0, <2>0, <2>2, OnwardOld DEF Past
  <2>4. \A p \in DOMAIN partyReg' : p \in DOMAIN partyReg
    BY <1>2 DEF CreateAllocate, AllocatePartyId, EmptyMap
  <2> QED BY <1>1, <1>2, <2>1, <2>3, <2>4, OthersOld, OldKept DEF CreateAllocate
<1>3. CASE CreateStore(w)
  <2>1. PICK m : m = j.party /\ m \in creating /\ StoreParty(m) /\ UNCHANGED charReg
    BY <1>3 DEF CreateStore, StoreParty
  <2>2. PICK g : g = Goto(j, "enter")
    OBVIOUS
  <2>3. /\ Silent(g) /\ g.pc = "enter" /\ g.op = j.op /\ g.pid = j.pid
        /\ g.fetched = j.fetched /\ g.party = j.party
    BY <1>0, <2>2, BufferSame DEF Silent, Goto, Fields
  <2>4. PICK k : /\ Become(w, k)
                 /\ k = Buffered(g, Event("CREATED", m.id, j.actor))
    BY <1>3, <2>1, <2>2 DEF CreateStore
  <2>5. Silent(k)
    BY <2>3, <2>4, NotedSilently DEF Event
  <2>6. /\ k.pc = "enter" /\ k.op = j.op /\ k.pid = j.pid /\ k.fetched = j.fetched
        /\ k.party = m
    BY <2>1, <2>3, <2>4 DEF Buffered, Silent, Fields
  <2>7. Old(m.id)'
    <3>1. m.id \in StartPartyId..tenantPartyId /\ \A n \in creating : n.id = m.id => n = m
      BY <2>1 DEF TypedInv, ServiceInv, RegistryInv, UniqueIds
    <3> QED BY <2>1, <3>1 DEF StoreParty, Old
  <2>8. ~Joins(k)
    BY <1>0, <1>3, <2>6 DEF OldOK, CreateStore, At, Joins
  <2>9. OldOK(k)'
    BY <1>0, <2>5, <2>6, <2>7, <2>8
    DEF OldOK, Silent, Past, Arriving, Parting, Arrival, Joins, Disbands
  <2>10. \A p \in DOMAIN partyReg' : p \in DOMAIN partyReg \/ p = m.id
    BY <2>1 DEF StoreParty, Put
  <2> QED BY <2>1, <2>4, <2>7, <2>9, <2>10, OldKept
<1> QED BY <1>2, <1>3

\* The updates of records.
LEMMA SettingOld ==
  ASSUME TypedInv, OldInv, NEW w \in Workers,
         EnterSet(w) \/ LeaveClear(w) \/ DisbandClear(w) \/ MapSet(w) \/ DeleteLeaveClear(w)
  PROVE  OldInv'
<1> DEFINE j == job[w]
<1>0. OldOK(j) /\ Silent(j)
  BY OldTyped DEF EnterSet, LeaveClear, DisbandClear, MapSet, DeleteLeaveClear, At, Parting
<1>1. Old(NoParty)
  BY DEF Old
<1>2. ASSUME NEW u, Old(u.partyId), NEW k, NEW pc, Onward(j, k, pc), pc \notin Arriving,
             pc \in Past => Old(j.pid), pc \notin {"leave.get", "leave.clear"},
             SetCharacter(w, u, k)
      PROVE  OldInv'
  <2>1. OldOK(k)
    BY <1>0, <1>2, OnwardOld DEF Arriving
  <2> QED BY <1>2, <2>1, OldSets
<1>3. CASE EnterSet(w)
  <2>1. PICK p, k : /\ SetCharacter(w, JoinParty(Target(w), p), k)
                    /\ p = Arrival(j)
                    /\ k = IF Joins(j) THEN Done(Buffered(j, Event("JOINED", j.party.id, j.chr)))
                           ELSE CreateEnds(j, j.party)
    BY <1>3 DEF EnterSet, Arrival
  <2>2. PICK e : e = Event("JOINED", j.party.id, j.chr) /\ e.type # "DISBAND"
    BY EventFields
  <2>3. PICK pc \in {"return", "invite.send"} : Onward(j, k, pc)
    BY <1>0, <2>1, <2>2, Concluded, ConcludedNoting
  <2>4. PICK u : u = JoinParty(Target(w), p) /\ u.partyId = p
    BY SetterParties
  <2>5. Old(p)
    BY <1>0, <1>3, <2>1 DEF OldOK, EnterSet, At, Arriving
  <2> QED BY <1>2, <2>1, <2>3, <2>4, <2>5 DEF Past, Arriving
<1>4. PICK u : u = LeaveParty(Target(w)) /\ u.partyId = NoParty
  BY SetterParties
<1>5. CASE LeaveClear(w)
  <2>0. Old(j.pid) /\ j.party.id \in {NoParty, j.pid}
    BY <1>0, <1>5 DEF OldOK, LeaveClear, At, Past
  <2>1. PICK k, e, d :
          /\ SetCharacter(w, u, k)
          /\ k \in {Goto(j, "disband"), Goto(Buffered(j, d), "expel.remove"), Done(Buffered(j, e))}
          /\ e.type # "DISBAND" /\ d.pid = j.party.id
    <3>1. PICK d : d = Event("DISBAND", j.party.id, j.chr) /\ d.pid = j.party.id
      BY EventFields
    <3>2. PICK e : e = Event("EXPEL", j.party.id, j.chr) /\ e.type # "DISBAND"
      BY EventFields
    <3>3. PICK f : f = Event("LEFT", j.pid, j.chr) /\ f.type # "DISBAND"
      BY EventFields
    <3>4. PICK k : /\ SetCharacter(w, u, k)
                   /\ k \in {Goto(j, "disband"), Goto(Buffered(j, d), "expel.remove"),
                             Done(Buffered(j, e)), Done(Buffered(j, f))}
      BY <1>4, <1>5, <3>1, <3>2, <3>3 DEF LeaveClear
    <3> QED BY <3>1, <3>2, <3>3, <3>4
  <2>2. CASE k = Goto(j, "disband")
    <3>1. Onward(j, k, "disband")
      BY <1>0, <2>2, WentOn
    <3> QED BY <1>1, <1>2, <1>4, <2>0, <2>1, <3>1 DEF Arriving
  <2>3. CASE k = Done(Buffered(j, e))
    <3>1. Onward(j, k, "return")
      BY <1>0, <2>1, <2>3, ConcludedNoting
    <3> QED BY <1>1, <1>2, <1>4, <2>1, <3>1 DEF Past, Arriving
  <2>4. CASE k = Goto(Buffered(j, d), "expel.remove")
    <3>1. /\ k.pc = "expel.remove" /\ k.pid = j.pid /\ k.fetched = j.fetched
          /\ k.buf = Append(j.buf, d)
      BY <1>0, <2>4 DEF Goto, Buffered, Silent, Fields
    <3>2. k.buf = Append(j.buf, d)
      BY <3>1
    <3>3. Disbands(k) \subseteq {d.pid}
      BY <1>0, <3>2, OneDisbanding
    <3>4. OldOK(k)
      BY <1>0, <2>0, <2>1, <3>1, <3>3 DEF OldOK, Arriving, Parting
    <3> QED BY <1>1, <1>4, <2>1, <3>4, OldSets
  <2> QED BY <2>1, <2>2, <2>3, <2>4
<1>6. CASE DisbandClear(w)
  <2>1. Onward(j, Goto(j, "disband"), "disband") /\ Old(j.pid)
    BY <1>0, <1>6, WentOn DEF OldOK, DisbandClear, At, Past
  <2> QED BY <1>1, <1>2, <1>4, <1>6, <2>1 DEF DisbandClear, Arriving
<1>7. CASE MapSet(w)
  <2>1. Onward(j, Done(j), "return")
    BY <1>0, Concluded
  <2>2. PICK v : v = ChangeMap(Target(w), j.map) /\ Old(v.partyId)
    BY SetterParties
  <2> QED BY <1>2, <1>7, <2>1, <2>2 DEF MapSet, Past, Arriving
<1>8. CASE DeleteLeaveClear(w)
  <2>1. Onward(j, Goto(j, "delete.drop"), "delete.drop")
    BY <1>0, WentOn
  <2> QED BY <1>1, <1>2, <1>4, <1>8, <2>1 DEF DeleteLeaveClear, Past, Arriving
<1> QED BY <1>3, <1>5, <1>6, <1>7, <1>8

\* The steps that read a record, or nothing.
LEMMA ReadingOld ==
  ASSUME TypedInv, OldInv, NEW w \in Workers,
         \/ LeaveGet(w) \/ DisbandGet(w) \/ InviteSend(w) \/ DeletedGetParty(w)
         \/ DeleteGet(w) \/ DeleteLeaveGet(w) \/ DeleteDrop(w)
  PROVE  OldInv'
<1> DEFINE j == job[w]
<1>0. OldOK(j) /\ Silent(j) /\ UNCHANGED registryVars
  BY OldTyped
  DEF LeaveGet, DisbandGet, InviteSend, DeletedGetParty, DeleteGet, DeleteLeaveGet, DeleteDrop, At,
      Parting, GetCharacter, Forget
<1>1. RecordsOld'
  <2>1. UNCHANGED charReg \/ \E c : charReg' = DeleteKeys(charReg, {c})
    BY DEF LeaveGet, DisbandGet, InviteSend, DeletedGetParty, DeleteGet, DeleteLeaveGet, DeleteDrop,
           GetCharacter, DeleteCharacter
  <2> QED BY <1>0, <2>1 DEF DeleteKeys, OldInv, RecordsOld, Old, registryVars
<1>2. ASSUME NEW k, Become(w, k), NEW pc, Onward(j, k, pc), pc \notin Arriving,
             pc \in Past => Old(j.pid),
             pc \in {"leave.get", "leave.clear"} => k.party.id \in {NoParty, j.pid}
      PROVE  OldInv'
  BY <1>0, <1>1, <1>2, OnwardOld, OldQuiet DEF Arriving
<1>3. CASE Forget(w)
  BY <1>0, <1>1, <1>3, NoJobOld, OldQuiet DEF Forget
<1>4. CASE LeaveGet(w)
  <2>1. Old(j.pid) /\ j.party.id \in {NoParty, j.pid}
    BY <1>0, <1>4 DEF OldOK, LeaveGet, At, Past
  <2>2. PICK r, k :
          /\ Become(w, k)
          /\ k = [Goto(j, "leave.clear") EXCEPT !.rec = r] \/ k = Goto(j, "leave.undo")
    BY <1>4 DEF LeaveGet, GetCharacter
  <2>3. CASE k = [Goto(j, "leave.clear") EXCEPT !.rec = r]
    <3>1. Onward(j, k, "leave.clear") /\ k.party = j.party
      BY <1>0, <2>3, BufferSame DEF Onward, Silent, Goto, Fields
    <3> QED BY <1>2, <2>1, <2>2, <3>1 DEF Arriving
  <2>4. CASE k = Goto(j, "leave.undo")
    <3>1. Onward(j, k, "leave.undo")
      BY <1>0, <2>4, WentOn
    <3> QED BY <1>2, <2>1, <2>2, <3>1 DEF Arriving
  <2> QED BY <2>2, <2>3, <2>4
<1>5. CASE DisbandGet(w)
  <2>1. Old(j.pid) /\ j.pc = "disband"
    BY <1>0, <1>5 DEF OldOK, DisbandGet, At, Past
  <2>2. PICK r, b, i, k :
          /\ Become(w, k) /\ i = [j EXCEPT !.todo = b]
          /\ k = [Goto(i, "disband.clear") EXCEPT !.rec = r] \/ k = i
    BY <1>5 DEF DisbandGet, GetCharacter
  <2>3. /\ Silent(i) /\ Onward(j, i, "disband")
    BY <1>0, <2>1, <2>2, BufferSame DEF Onward, Silent, Fields
  <2>4. CASE k = [Goto(i, "disband.clear") EXCEPT !.rec = r]
    <3>1. Onward(i, k, "disband.clear")
      BY <2>3, <2>4, WentOn
    <3>2. Onward(j, k, "disband.clear")
      BY <2>3, <3>1 DEF Onward
    <3> QED BY <1>2, <2>1, <2>2, <3>2 DEF Arriving
  <2>5. CASE k = i
    BY <1>2, <2>1, <2>2, <2>3, <2>5 DEF Arriving
  <2> QED BY <2>2, <2>4, <2>5
<1>6. CASE InviteSend(w)
  <2>1. PICK k : Become(w, k) /\ k \in {Refuse(j), Done(j), Fail(j)}
    BY <1>6 DEF InviteSend
  <2>2. Onward(j, k, "return")
    BY <1>0, <2>1, Concluded, ConcludedNoting
  <2> QED BY <1>2, <2>1, <2>2 DEF Past, Arriving
<1>7. CASE DeletedGetParty(w)
  <2>1. PICK p, k : Become(w, k) /\ k = [Goto(j, "leave") EXCEPT !.pid = p]
    BY <1>7 DEF DeletedGetParty
  <2>2. k.pc = "leave" /\ k.fetched = j.fetched /\ k.buf = j.buf
    BY <1>0, <2>1 DEF Goto, Silent, Fields
  <2>3. Disbands(k) = {}
    BY <1>0, <2>2, BufferSame DEF Silent
  <2>4. OldOK(k)
    BY <1>0, <2>2, <2>3 DEF OldOK, Past, Arriving, Parting
  <2> QED BY <1>0, <1>1, <2>1, <2>4, OldQuiet
<1>8. CASE DeleteGet(w) /\ ~Forget(w)
  <2>1. PICK k : Become(w, k) /\ k \in {Goto(j, "delete.get"), Goto(j, "delete.drop"), j}
    BY <1>8 DEF DeleteGet, GetCharacter
  <2>2. Onward(j, Goto(j, "delete.get"), "delete.get") /\ Onward(j, Goto(j, "delete.drop"), "delete.drop")
    BY <1>0, WentOn
  <2>3. CASE k = j
    BY <1>0, <1>1, <2>1, <2>3, OldQuiet
  <2>4. CASE k # j
    BY <1>2, <2>1, <2>2, <2>4 DEF Past, Arriving
  <2> QED BY <2>3, <2>4
<1>9. CASE DeleteLeaveGet(w) /\ ~Forget(w)
  <2>1. PICK k, r : Become(w, k) /\ (k = [Goto(j, "delete.clear") EXCEPT !.rec = r] \/ k = j)
    BY <1>9 DEF DeleteLeaveGet, GetCharacter
  <2>2. CASE k = j
    BY <1>0, <1>1, <2>1, <2>2, OldQuiet
  <2>3. CASE k = [Goto(j, "delete.clear") EXCEPT !.rec = r]
    <3>1. Onward(j, k, "delete.clear")
      BY <1>0, <2>3, WentOn
    <3> QED BY <1>2, <2>1, <3>1 DEF Past, Arriving
  <2> QED BY <2>1, <2>2, <2>3
<1> QED BY <1>3, <1>4, <1>5, <1>6, <1>7, <1>8, <1>9 DEF DeleteDrop

\* The steps that end a party: it is gone when its end is announced.
LEMMA RemovingOld ==
  ASSUME TypedInv, OldInv, NEW w \in Workers, Work(w), RemoveDisbanded(w) \/ RemoveEmptied(w)
  PROVE  OldInv'
<1>a. PICK j : j = job[w]
  OBVIOUS
<1>0. /\ OldOK(j) /\ DOMAIN j = Fields /\ j.buf \in Seq(Events)
      /\ j.pc \in {"disband", "expel.remove"}
  BY <1>a, OldTyped DEF RemoveDisbanded, RemoveEmptied, At, TypedInv, JobsTyped, JobTyped, FieldsTyped
<1>1. Old(j.pid) /\ Aging
  BY <1>0, WorkOrderly, RegistryAges DEF OldOK, Past, TypedInv, ServiceInv, Orderly
<1>2. RemoveParty(j.pid) /\ UNCHANGED charReg
  BY <1>a DEF RemoveDisbanded, RemoveEmptied
<1>3. j.pid \notin Live' /\ NoParty \notin Live' /\ DOMAIN partyReg' \subseteq DOMAIN partyReg
  BY <1>2 DEF RemoveParty, DeleteKeys, Live
<1>4. Old(j.pid)' /\ Old(NoParty)'
  <2>1. Old(NoParty)
    BY DEF Old
  <2> QED BY <1>1, <2>1 DEF Aging
<1>5. PICK k : /\ Become(w, k) /\ k.pc = "return" /\ k.fetched = j.fetched
               /\ Disbands(k) \subseteq {NoParty, j.pid}
  <2>1. CASE RemoveDisbanded(w)
    <3>1. PICK e : e = Event("DISBAND", j.pid, j.chr) /\ e.pid = j.pid
      BY EventFields
    <3>2. PICK k : Become(w, k) /\ k = Done(Buffered(j, e))
      BY <1>a, <2>1, <3>1 DEF RemoveDisbanded
    <3>3. k.pc = "return" /\ k.fetched = j.fetched /\ k.buf = Append(j.buf, e)
      BY <1>0, <3>2 DEF Done, Goto, Buffered, Fields
    <3>4. Silent(j)
      BY <1>a, <1>0, <2>1 DEF OldOK, RemoveDisbanded, At, Parting, Silent
    <3>5. k.buf = Append(j.buf, e)
      BY <3>3
    <3>6. Disbands(k) \subseteq {e.pid}
      BY <3>4, <3>5, OneDisbanding
    <3> QED BY <3>1, <3>2, <3>3, <3>6
  <2>2. CASE RemoveEmptied(w)
    <3>1. PICK k : Become(w, k) /\ k = Done(j)
      BY <1>a, <2>2 DEF RemoveEmptied
    <3>2. k.pc = "return" /\ k.fetched = j.fetched /\ k.buf = j.buf
      BY <1>0, <3>1 DEF Done, Goto, Fields
    <3>3. Disbands(j) \subseteq {NoParty, j.pid} /\ Disbands(k) = Disbands(j)
      BY <1>a, <1>0, <2>2, <3>2 DEF OldOK, RemoveEmptied, At, Disbands
    <3> QED BY <3>1, <3>2, <3>3
  <2> QED BY <2>1, <2>2
<1>6. OldOK(k)'
  <2>1. k.fetched.partyId = NoParty
    BY <1>0, <1>5 DEF OldOK
  <2>2. \A p \in Disbands(k) : Old(p)' /\ p \notin Live'
    BY <1>3, <1>4, <1>5
  <2>3. k.pc \notin Past \cup Arriving
    BY <1>5 DEF Past, Arriving
  <2>4. \A p \in Disbands(k)' : Old(p)' /\ p \notin Live'
    BY <2>2 DEF Disbands
  <2> QED BY <1>5, <2>1, <2>3, <2>4 DEF OldOK, Arriving, Parting
<1> QED BY <1>2, <1>3, <1>5, <1>6, OldKept

LEMMA JobOld ==
  ASSUME NEW op, NEW pc, NEW a, NEW p, NEW c, pc \notin Past \cup Arriving \cup Parting
  PROVE  /\ OldOK(Job(op, pc, a, p, c))
         /\ \A m : OldOK([Job(op, pc, a, p, c) EXCEPT !.map = m])
<1>1. ASSUME NEW j, j.pc = pc, j.fetched = ZeroCharacter, j.buf = <<>>
      PROVE  OldOK(j)
  BY <1>1 DEF OldOK, Past, Arriving, Parting, Disbands, ZeroCharacter
<1>2. PICK j : j = Job(op, pc, a, p, c)
  OBVIOUS
<1>3. /\ DOMAIN j = Fields /\ j.pc = pc /\ j.fetched = ZeroCharacter /\ j.buf = <<>>
  BY <1>2 DEF Job, NoJob, Fields
<1>4. ASSUME NEW m
      PROVE  OldOK([j EXCEPT !.map = m])
  <2>1. PICK k : k = [j EXCEPT !.map = m]
    OBVIOUS
  <2>2. k.pc = pc /\ k.fetched = ZeroCharacter /\ k.buf = <<>>
    BY <1>3, <2>1 DEF Fields
  <2> QED BY <1>1, <2>1, <2>2
<1> QED BY <1>1, <1>2, <1>3, <1>4

LEMMA EndingOld ==
  ASSUME TypedInv, KnownInv, OldInv, NEW w \in Workers,
         ViewGet(w) \/ ViewMember(w) \/ Return(w)
  PROVE  OldInv'
<1>1. UNCHANGED <<registryVars, charReg>>
  BY ViewMoves DEF TypedInv, Return
<1>2. CASE ViewGet(w) \/ ViewMember(w)
  <2>1. PICK k : /\ Become(w, k)
                 /\ \/ k = NoJob
                    \/ k.pc = "view.member" /\ k.fetched = ZeroCharacter /\ k.buf = job[w].buf
    BY <1>2, ViewMoves DEF TypedInv
  <2>2. CASE k = NoJob
    BY <1>1, <2>1, <2>2, NoJobOld, OldPassed
  <2>3. CASE k # NoJob
    <3>1. PICK j : j = job[w] /\ Silent(j)
      BY <1>2, OldTyped DEF ViewGet, ViewMember, At, Parting
    <3>2. Disbands(k) = {}
      BY <2>1, <2>3, <3>1, BufferSame DEF Silent
    <3>3. OldOK(k)
      BY <2>1, <2>3, <3>2 DEF OldOK, Past, Arriving, Parting, ZeroCharacter
    <3> QED BY <1>1, <2>1, <3>3, OldPassed
  <2> QED BY <2>2, <2>3
<1>3. CASE Return(w)
  <2>1. PICK k : /\ Become(w, k)
                 /\ k = NoJob \/ \E a, c : k = Job("DELETED", "delete", a, NoParty, c)
    BY <1>3 DEF Return
  <2>2. OldOK(k)
    BY <2>1, NoJobOld, JobOld DEF Past, Arriving, Parting
  <2> QED BY <1>1, <2>1, <2>2, OldPassed
<1> QED BY <1>2, <1>3

LEMMA WorkOld ==
  ASSUME TypedInv, KnownInv, OldInv, NEW w \in Workers, Work(w)
  PROVE  OldInv'
BY LookingOld, EnterCheckOld, LeadCheckOld, GettingOld, StoringOld, CreatingOld, SettingOld,
   ReadingOld, RemovingOld, EndingOld
DEF Work

LEMMA ReceiveOld ==
  ASSUME TypedInv, OldInv, NEW w \in Workers, NEW j \in Incoming, Receive(w, j)
  PROVE  OldInv'
<1>1. OldOK(j)
  <2> DEFINE Pcs == {"create", "join", "leave", "lead", "view", "invite", "map", "deleted"}
  <2>1. \/ \E op, a, p, c : \E pc \in Pcs : j = Job(op, pc, a, p, c)
        \/ \E c, m : j = [Job("MAP_CHANGED", "map", c, NoParty, c) EXCEPT !.map = m]
    BY DEF Incoming, PostParty, PostMember, DeleteMember, PatchParty
  <2>2. Pcs \cap (Past \cup Arriving \cup Parting) = {}
    BY DEF Past, Arriving, Parting
  <2>3. CASE \E op, a, p, c : \E pc \in Pcs : j = Job(op, pc, a, p, c)
    BY <2>2, <2>3, JobOld
  <2>4. CASE \E c, m : j = [Job("MAP_CHANGED", "map", c, NoParty, c) EXCEPT !.map = m]
    <3>1. PICK c, m : j = [Job("MAP_CHANGED", "map", c, NoParty, c) EXCEPT !.map = m]
      BY <2>4
    <3>2. "map" \in Pcs
      OBVIOUS
    <3> QED BY <2>2, <3>1, <3>2, JobOld
  <2> QED BY <2>1, <2>3, <2>4
<1> QED BY <1>1, OldPassed DEF Receive

LEMMA OldInvariant == Spec => []OldInv
<1>1. Init => OldInv
  BY NoJobOld DEF Init, RegistryInit, OldInv, KeysOld, RecordsOld, EmptyMap
<1>2. TypedInv /\ KnownInv /\ OldInv /\ [Next]_vars => OldInv'
  <2> SUFFICES ASSUME TypedInv, KnownInv, OldInv, [Next]_vars
               PROVE  OldInv'
    OBVIOUS
  <2>1. CASE \E w \in Workers : Work(w)
    BY <2>1, WorkOld
  <2>2. CASE \E w \in Workers : \E j \in Incoming : Receive(w, j)
    BY <2>2, ReceiveOld
  <2>3. CASE (\E c \in Mortal : Vanish(c)) \/ UNCHANGED vars
    <3>1. UNCHANGED <<registryVars, charReg, job>>
      BY <2>3 DEF Vanish, vars, serviceVars
    <3>2. /\ UNCHANGED <<partyReg, tenantPartyId, creating>>
          /\ charReg' = charReg /\ job' = job
      BY <3>1 DEF registryVars
    <3>3. Aging
      BY <3>2 DEF Aging, Old, Live
    <3>4. KeysOld' /\ RecordsOld'
      BY <3>2 DEF OldInv, KeysOld, RecordsOld, Old
    <3>5. ASSUME NEW w \in Workers
          PROVE  OldOK(job[w])'
      <4>1. PICK j : j = job[w] /\ j = job'[w]
        BY <3>2
      <4>2. OldOK(j)'
        BY <3>3, <4>1, OthersOld DEF OldInv
      <4> QED BY <4>1, <4>2 DEF OldOK, Old, Live, Arrival, Joins, Disbands
    <3> QED BY <3>4, <3>5 DEF OldInv
  <2>4. CASE Restart
    <3>1. KeysOld' /\ RecordsOld'
      BY <2>4 DEF Restart, KeysOld, RecordsOld, EmptyMap
    <3>2. \A w \in Workers : OldOK(job[w])'
      BY <2>4, NoJobOld DEF Restart, OldOK, Old, Live, Arrival, Joins, Disbands
    <3> QED BY <3>1, <3>2 DEF OldInv
  <2> QED BY <2>1, <2>2, <2>3, <2>4 DEF Next
<1> QED BY <1>1, <1>2, TypedInvariant, KnownInvariant, PTL DEF Spec

\* With any number of handlers at work, crashes between any two of their steps, and a
\* Leave of the leader that disbands a party others are joining: when the disbanding is
\* published the party is gone, and nobody has brought it back since it was removed.
THEOREM ServiceDisbandedGone == Spec => []DisbandedAreGone
<1>1. OldInv => DisbandedAreGone
  <2> SUFFICES ASSUME OldInv, NEW w \in Workers, At(w, "return"),
                      NEW i \in DOMAIN job[w].buf, job[w].buf[i].type = "DISBAND"
               PROVE  job[w].buf[i].pid \notin Live
    BY DEF DisbandedAreGone
  <2>1. job[w].buf[i].pid \in Disbands(job[w])
    BY DEF Disbands
  <2>2. OldOK(job[w]) /\ job[w].pc = "return"
    BY DEF OldInv, At
  <2> QED BY <2>1, <2>2 DEF OldOK
<1> QED BY <1>1, OldInvariant, PTL

=============================================================================
