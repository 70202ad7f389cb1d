---------------------------- MODULE PartyService ----------------------------
(***************************************************************************)
(* The handlers of the service at work on the two registries: the five     *)
(* commands of the party topic, the ACCEPTED events of the invite topic,   *)
(* the DELETED and MAP_CHANGED events of the character topic, and the      *)
(* queries of the REST resource (party/processor.go, party/resource.go,    *)
(* character/processor.go, kafka/consumer).                                *)
(*                                                                         *)
(* A worker is a goroutine that runs one handler at a time; the consumers  *)
(* of the three topics run side by side, so there are at least three.      *)
(* Between two calls to a registry a handler holds no lock: each call is a *)
(* step of its own, and the checks a handler makes on what a call returned *)
(* belong to the step of that call.                                        *)
(*                                                                         *)
(* Left out: the branches taken when Buffer.Put fails (it marshals a value *)
(* of the service's own and cannot), log lines, and the world-and-channel  *)
(* test of ChangeLeader, which asks for two different worlds of one        *)
(* character (processor.go:526).                                           *)
(***************************************************************************)
EXTENDS PartyRegistry, CharacterRegistry, SequencesExt

CONSTANTS
  Workers,      \* the goroutines that run handlers
  Serves,       \* which operations each of them is handed
  CommandIds,   \* party ids that occur in commands; nothing refuses the zero id
  Mortal,       \* the characters that may be deleted
  LossyBroker,  \* whether producing to the broker can fail
  Restarts      \* whether the process may be killed and started again

Operations ==
  {"CREATE", "JOIN", "LEAVE", "EXPEL", "CHANGE_LEADER", "REQUEST_INVITE",
   "ACCEPTED", "DELETED", "MAP_CHANGED", "VIEW"}

ASSUME ServiceAssumption ==
  /\ Serves \in [Workers -> SUBSET Operations]
  /\ CommandIds \subseteq PartyIds
  /\ Mortal \subseteq Characters
  /\ {LossyBroker, Restarts} \subseteq BOOLEAN

VARIABLES
  job,      \* what each worker is doing
  foreign,  \* the character service's view: alive, deleting (the DELETED event
            \* is on its way) or deleted (it has been handled)
  invites,  \* invitations handed to the invite service
  mirror    \* membership as a consumer of the published events holds it

serviceVars == <<job, foreign, invites, mirror>>
vars == <<registryVars, charReg, serviceVars>>

NoJob == [op |-> "none", pc |-> "idle", actor |-> NoCharacter, chr |-> NoCharacter,
          pid |-> NoParty, fetched |-> ZeroCharacter, rec |-> ZeroCharacter,
          party |-> ZeroParty, disband |-> FALSE, todo |-> EmptyMap,
          map |-> ZeroMap, buf |-> <<>>, err |-> FALSE]

Idle(w) == job[w] = NoJob
AllIdle == \A w \in Workers : Idle(w)
At(w, pc) == job[w].pc = pc

Init ==
  /\ RegistryInit
  /\ charReg = EmptyMap
  /\ job = [w \in Workers |-> NoJob]
  /\ foreign = [c \in Characters |-> "alive"]
  /\ invites = {}
  /\ mirror = [c \in Characters |-> NoParty]

-----------------------------------------------------------------------------
(* What the next step of a handler's job is.                               *)

Event(type, p, c) == [type |-> type, pid |-> p, chr |-> c]

Goto(j, pc) == [j EXCEPT !.pc = pc]
Buffered(j, e) == [j EXCEPT !.buf = Append(j.buf, e)]

\* return party, nil: what is buffered will be published.
Done(j) == Goto(j, "return")

\* return Model{}, ErrX: Emit discards what is buffered.
Refuse(j) == [Done(Buffered(j, Event("ERROR", j.pid, j.chr))) EXCEPT !.err = TRUE]

\* err = mb.Put(...); return Model{}, err.  Put has overwritten the error with
\* nil, so the ERROR event goes out.
Fail(j) == Done(Buffered(j, Event("ERROR", j.pid, j.chr)))

\* A slip: "party, err :=" in the block of RequestInvite hides the outer party.
CreateEndsShadowed(j, party) ==
  IF j.op = "REQUEST_INVITE" THEN [Goto(j, "invite.send") EXCEPT !.party = ZeroParty]
  ELSE Done(j)

\* End of Create, which RequestInvite continues from unless it returned an error.
CreateEnds(j, party) ==
  IF j.op = "REQUEST_INVITE" THEN [Goto(j, "invite.send") EXCEPT !.party = party]
  ELSE Done(j)

FailCreate(j) == CreateEnds(Buffered(j, Event("ERROR", NoParty, j.actor)), ZeroParty)

-----------------------------------------------------------------------------
(* The steps the handlers share.                                           *)

Become(w, j) == job' = [job EXCEPT ![w] = j]

\* The record GetById(c) returns: the answer of the character service, if the
\* record was not cached, and the cached one otherwise.
Fetched(w) == job[w].fetched # ZeroCharacter
Obtained(w, c) == IF Fetched(w) THEN job[w].fetched ELSE Character(c)

\* GetById(c): on a miss the character service is asked, and Create stores its
\* answer.  Other workers may run between the answer and Create.
GetById(w, c, found, failed) ==
  /\ UNCHANGED <<registryVars, foreign, invites, mirror>>
  /\ \/ /\ ~Fetched(w) /\ Cached(c)
        /\ Become(w, found)
        /\ UNCHANGED charReg
     \/ /\ ~Fetched(w) /\ ~Cached(c)
        /\ Become(w, failed)
        /\ UNCHANGED charReg
     \/ /\ ~Fetched(w) /\ ~Cached(c) /\ foreign[c] = "alive"
        /\ \E map \in Maps : Become(w, [job[w] EXCEPT !.fetched = Fresh(c, map)])
        /\ UNCHANGED charReg
     \/ /\ Fetched(w)
        /\ CreateCharacter(c, job[w].fetched.mapId)
        /\ Become(w, [found EXCEPT !.fetched = ZeroCharacter])

\* character.Registry.Get(c), without the fall back to the character service:
\* found is the job once Character(c) is there.
GetCharacter(w, c, found, failed) ==
  /\ Become(w, IF Cached(c) THEN found ELSE failed)
  /\ UNCHANGED <<registryVars, charReg, foreign, invites, mirror>>

\* character.Registry.Update(c.Id(), ...) for the record c the step before got.
Target(w) == Character(job[w].rec.id)
SetCharacter(w, updated, j) ==
  /\ UpdateCharacter(job[w].rec.id, updated)
  /\ Become(w, j)
  /\ UNCHANGED <<registryVars, foreign, invites, mirror>>

\* party.Registry.Get(p): found is the job once Lookup(p) is there.
GetParty(w, p, found, failed) ==
  /\ Become(w, IF p \in DOMAIN partyReg THEN found ELSE failed)
  /\ UNCHANGED <<registryVars, charReg, foreign, invites, mirror>>

\* party.Registry.Update(p, u): the new model Updated(p, u), or ErrAtCapacity.
SetParty(w, p, u, done, refused) ==
  /\ \/ UpdateParty(p, u) /\ Become(w, done)
     \/ ~Fits(Updated(p, u)) /\ Become(w, refused) /\ UNCHANGED registryVars
  /\ UNCHANGED <<charReg, foreign, invites, mirror>>

-----------------------------------------------------------------------------
(* Create, also as the automatic part of RequestInvite.                    *)

CreateCheck(w) ==
  /\ At(w, "create")
  /\ \E barred \in BOOLEAN :  \* a beginner or a GM
       GetById(w, job[w].actor,
               IF Obtained(w, job[w].actor).partyId # NoParty \/ barred
               THEN Refuse(job[w]) ELSE Goto(job[w], "create.alloc"),
               FailCreate(job[w]))

CreateAllocate(w) ==
  /\ At(w, "create.alloc")
  /\ AllocatePartyId(job[w].actor)
  /\ Become(w, [Goto(job[w], "create.store") EXCEPT !.party = NewParty(NextId, job[w].actor)])
  /\ UNCHANGED <<charReg, foreign, invites, mirror>>

CreateStore(w) ==
  /\ At(w, "create.store")
  /\ StoreParty(job[w].party)
  /\ Become(w, Buffered(Goto(job[w], "enter"), Event("CREATED", job[w].party.id, job[w].actor)))
  /\ UNCHANGED <<charReg, foreign, invites, mirror>>

-----------------------------------------------------------------------------
(* Join, for a JOIN command and for an accepted invitation.                *)

\* Slips: the character is not looked up before it is added; the test whether it
\* is in a party already is missing.
JoinCheckBlindly(w) ==
  /\ At(w, "join")
  /\ Become(w, Goto(job[w], "join.party"))
  /\ UNCHANGED <<registryVars, charReg, foreign, invites, mirror>>

JoinCheckAnyone(w) ==
  /\ At(w, "join")
  /\ GetById(w, job[w].chr, Goto(job[w], "join.party"), Fail(job[w]))

JoinCheck(w) ==
  /\ At(w, "join")
  /\ GetById(w, job[w].chr,
             IF Obtained(w, job[w].chr).partyId # NoParty
             THEN Refuse(job[w]) ELSE Goto(job[w], "join.party"),
             Fail(job[w]))

JoinGetParty(w) ==
  /\ At(w, "join.party")
  /\ GetParty(w, job[w].pid,
              IF Size(Lookup(job[w].pid)) >= Capacity
              THEN Refuse(job[w]) ELSE Goto(job[w], "join.add"),
              Fail(job[w]))

JoinAdd(w) ==
  /\ At(w, "join.add")
  /\ SetParty(w, job[w].pid, Adding(job[w].chr),
              [Goto(job[w], "enter") EXCEPT !.party = Updated(job[w].pid, Adding(job[w].chr))],
              Fail(job[w]))

\* cp.JoinParty of the character that creates or joins, GetById and Update.
Joins(j) == j.op \in {"JOIN", "ACCEPTED"}

\* A slip: the automatic Create of an invitation enters the invited character.
EnterCheckTarget(w) ==
  /\ At(w, "enter")
  /\ GetById(w, job[w].chr,
             [Goto(job[w], "enter.set") EXCEPT !.rec = Obtained(w, job[w].chr)],
             IF Joins(job[w]) THEN Goto(job[w], "join.undo") ELSE FailCreate(job[w]))

EnterCheck(w) ==
  LET c == IF Joins(job[w]) THEN job[w].chr ELSE job[w].actor
  IN  /\ At(w, "enter")
      /\ GetById(w, c,
                 [Goto(job[w], "enter.set") EXCEPT !.rec = Obtained(w, c)],
                 IF Joins(job[w]) THEN Goto(job[w], "join.undo") ELSE FailCreate(job[w]))

EnterSet(w) ==
  LET j == job[w]
      p == IF Joins(j) THEN j.pid ELSE j.party.id
  IN  /\ At(w, "enter.set")
      /\ SetCharacter(w, JoinParty(Target(w), p),
                      IF Joins(j) THEN Done(Buffered(j, Event("JOINED", j.party.id, j.chr)))
                      ELSE CreateEnds(j, j.party))

JoinUndo(w) ==
  /\ At(w, "join.undo")
  /\ SetParty(w, job[w].pid, Removing(job[w].chr), Fail(job[w]), Fail(job[w]))

-----------------------------------------------------------------------------
(* Leave, for a LEAVE command and for a deletion, and Expel, for a LEAVE   *)
(* command with the force flag: the two differ in what follows the removal *)
(* of the character.                                                       *)

LeaveCheck(w) ==
  /\ At(w, "leave")
  /\ GetById(w, job[w].chr,
             IF Obtained(w, job[w].chr).partyId # job[w].pid
             THEN Refuse(job[w]) ELSE Goto(job[w], "leave.party"),
             Fail(job[w]))

\* A slip: nobody looks whether the leader is leaving.
LeaveNeverDisbands(w) ==
  /\ At(w, "leave.party")
  /\ GetParty(w, job[w].pid, Goto(job[w], "leave.remove"), Fail(job[w]))

LeaveGetParty(w) ==
  /\ At(w, "leave.party")
  /\ GetParty(w, job[w].pid,
              [Goto(job[w], "leave.remove") EXCEPT
                 !.disband = job[w].op # "EXPEL" /\ Lookup(job[w].pid).leader = job[w].chr],
              Fail(job[w]))

\* A slip: the remaining members are not kept for the disband loop.
LeaveRemoveNoMembers(w) ==
  /\ At(w, "leave.remove")
  /\ LET p == Updated(job[w].pid, Removing(job[w].chr))
     IN  SetParty(w, job[w].pid, Removing(job[w].chr),
                  [Goto(job[w], "leave.get") EXCEPT !.party = p], Fail(job[w]))

LeaveRemove(w) ==
  /\ At(w, "leave.remove")
  /\ LET p == Updated(job[w].pid, Removing(job[w].chr))
     IN  SetParty(w, job[w].pid, Removing(job[w].chr),
                  [Goto(job[w], "leave.get") EXCEPT !.party = p, !.todo = p.members],
                  Fail(job[w]))

\* cp.LeaveParty of the character itself, Get and Update.
LeaveGet(w) ==
  /\ At(w, "leave.get")
  /\ GetCharacter(w, job[w].chr,
                  [Goto(job[w], "leave.clear") EXCEPT !.rec = Character(job[w].chr)],
                  Goto(job[w], "leave.undo"))

LeaveClear(w) ==
  LET j == job[w]
      emptied == j.op = "EXPEL" /\ Members(j.party) = {}
  IN  /\ At(w, "leave.clear")
      /\ SetCharacter(w, LeaveParty(Target(w)),
           IF j.disband THEN Goto(j, "disband")
           ELSE IF emptied THEN Goto(Buffered(j, Event("DISBAND", j.party.id, j.chr)), "expel.remove")
           ELSE IF j.op = "EXPEL" THEN Done(Buffered(j, Event("EXPEL", j.party.id, j.chr)))
           ELSE Done(Buffered(j, Event("LEFT", j.pid, j.chr))))

LeaveUndo(w) ==
  /\ At(w, "leave.undo")
  /\ SetParty(w, job[w].pid, Adding(job[w].chr),
              Fail(job[w]), Fail(job[w]))

\* A slip: the loop starts over instead of moving on.
DisbandGetAgain(w) ==
  /\ At(w, "disband")
  /\ \E c \in DOMAIN job[w].todo :
       GetCharacter(w, c, [Goto(job[w], "disband.clear") EXCEPT !.rec = Character(c)], job[w])

\* The disband loop: cp.LeaveParty of each member of the model the removal of
\* the leader returned, in no particular order.
DisbandGet(w) ==
  /\ At(w, "disband")
  /\ \E c \in DOMAIN job[w].todo :
       LET j == [job[w] EXCEPT !.todo = BagRemove(job[w].todo, c)]
       IN  GetCharacter(w, c, [Goto(j, "disband.clear") EXCEPT !.rec = Character(c)], j)

DisbandClear(w) ==
  /\ At(w, "disband.clear")
  /\ SetCharacter(w, LeaveParty(Target(w)), Goto(job[w], "disband"))

\* A slip: no DISBAND event.
RemoveDisbandedSilently(w) ==
  /\ At(w, "disband") /\ job[w].todo = EmptyMap
  /\ RemoveParty(job[w].pid)
  /\ Become(w, Done(job[w]))
  /\ UNCHANGED <<charReg, foreign, invites, mirror>>

RemoveDisbanded(w) ==
  /\ At(w, "disband") /\ job[w].todo = EmptyMap
  /\ RemoveParty(job[w].pid)
  /\ Become(w, Done(Buffered(job[w], Event("DISBAND", job[w].pid, job[w].chr))))
  /\ UNCHANGED <<charReg, foreign, invites, mirror>>

RemoveEmptied(w) ==
  /\ At(w, "expel.remove")
  /\ RemoveParty(job[w].pid)
  /\ Become(w, Done(job[w]))
  /\ UNCHANGED <<charReg, foreign, invites, mirror>>

-----------------------------------------------------------------------------
(* ChangeLeader.  The actor's record is looked up under the id of the      *)
(* character that is to lead (processor.go:488).                           *)

\* A slip: the lookup of the actor, as it was meant.  PATCH names none.
LeadGetActorAsNamed(w) ==
  /\ At(w, "lead")
  /\ \/ /\ job[w].actor = NoCharacter
        /\ Become(w, Fail(job[w]))
        /\ UNCHANGED <<registryVars, charReg, foreign, invites, mirror>>
     \/ /\ job[w].actor # NoCharacter
        /\ GetById(w, job[w].actor,
                   [Goto(job[w], "lead.chr") EXCEPT !.rec = Obtained(w, job[w].actor)],
                   Fail(job[w]))

LeadGetActor(w) ==
  /\ At(w, "lead")
  /\ GetById(w, job[w].chr,
             [Goto(job[w], "lead.chr") EXCEPT !.rec = Obtained(w, job[w].chr)],
             Fail(job[w]))

LeadCheck(w) ==
  /\ At(w, "lead.chr")
  /\ LET a == job[w].rec
         c == Obtained(w, job[w].chr)
     IN  GetById(w, job[w].chr,
                 IF \/ c.partyId # job[w].pid
                    \/ a.partyId # c.partyId
                    \/ a.mapId # c.mapId
                 THEN Refuse(job[w]) ELSE Goto(job[w], "lead.set"),
                 Fail(job[w]))

\* On ErrAtCapacity the handler goes on, with the zero model.
LeadSet(w) ==
  LET announced(j, p) == Done(Buffered(j, Event("CHANGE_LEADER", p.id, job[w].chr)))
  IN  /\ At(w, "lead.set")
      /\ SetParty(w, job[w].pid, Appointing(job[w].chr),
                  announced(job[w], Updated(job[w].pid, Appointing(job[w].chr))),
                  announced(Buffered(job[w], Event("ERROR", job[w].pid, job[w].chr)), ZeroParty))

-----------------------------------------------------------------------------
(* RequestInvite                                                           *)

InviteGetActor(w) ==
  /\ At(w, "invite")
  /\ GetById(w, job[w].actor,
             [Goto(job[w], "invite.chr") EXCEPT !.rec = Obtained(w, job[w].actor)],
             Fail(job[w]))

InviteCheck(w) ==
  /\ At(w, "invite.chr")
  /\ GetById(w, job[w].chr,
             IF Obtained(w, job[w].chr).partyId # NoParty THEN Refuse(job[w])
             ELSE IF job[w].rec.partyId = NoParty THEN Goto(job[w], "create")
             ELSE Goto(job[w], "invite.party"),
             Fail(job[w]))

\* A failing GetById of the party is returned as it is, with no ERROR event.
InviteGetParty(w) ==
  /\ At(w, "invite.party")
  /\ GetParty(w, job[w].rec.partyId,
              [Goto(job[w], "invite.send") EXCEPT !.party = Lookup(job[w].rec.partyId)],
              [Done(job[w]) EXCEPT !.err = TRUE])

\* ip.Create produces at once, while a CREATED event is still in the buffer.  When
\* it fails, Put overwrites its error: CREATED goes out, with an ERROR behind it.
InviteSend(w) ==
  LET j == job[w]
  IN  /\ At(w, "invite.send")
      /\ \/ /\ Size(j.party) >= Capacity
            /\ Become(w, Refuse(j)) /\ UNCHANGED invites
         \/ /\ Size(j.party) < Capacity
            /\ Become(w, Done(j))
            /\ invites' = invites \cup {[pid |-> j.party.id, chr |-> j.chr]}
         \/ /\ Size(j.party) < Capacity /\ LossyBroker
            /\ Become(w, Fail(j)) /\ UNCHANGED invites
      /\ UNCHANGED <<registryVars, charReg, foreign, mirror>>

-----------------------------------------------------------------------------
(* MapChange, and the deletion of a character: GetByCharacter, Leave of    *)
(* the party found, then Delete, whether or not Leave succeeded.           *)

MapGet(w) ==
  /\ At(w, "map")
  /\ GetById(w, job[w].chr,
             [Goto(job[w], "map.set") EXCEPT !.rec = Obtained(w, job[w].chr)],
             Done(job[w]))

MapSet(w) ==
  /\ At(w, "map.set")
  /\ SetCharacter(w, ChangeMap(Target(w), job[w].map), Done(job[w]))

\* Slips: the handler returns when no party is found (consumer.go:181); it
\* leaves the party to Delete.
DeletedReturnsEarly(w) ==
  /\ At(w, "deleted")
  /\ LET p == PartyOf(job[w].chr).id
     IN  Become(w, IF p = NoParty THEN NoJob ELSE [Goto(job[w], "leave") EXCEPT !.pid = p])
  /\ UNCHANGED <<registryVars, charReg, foreign, invites, mirror>>

DeletedSkipsLeave(w) ==
  /\ At(w, "deleted")
  /\ Become(w, Goto(job[w], "delete"))
  /\ UNCHANGED <<registryVars, charReg, foreign, invites, mirror>>

DeletedGetParty(w) ==
  /\ At(w, "deleted")
  /\ Become(w, [Goto(job[w], "leave") EXCEPT !.pid = PartyOf(job[w].chr).id])
  /\ UNCHANGED <<registryVars, charReg, foreign, invites, mirror>>

\* End of the deletion's handler.
Forget(w) ==
  /\ Become(w, NoJob)
  /\ foreign' = [foreign EXCEPT ![job[w].chr] = "deleted"]
  /\ UNCHANGED <<registryVars, invites, mirror>>

DeleteGet(w) ==
  LET c == job[w].chr
  IN  /\ At(w, "delete")
      /\ \/ ~Cached(c) /\ Forget(w) /\ UNCHANGED charReg
         \/ Cached(c) /\ GetCharacter(w, c,
                           Goto(job[w], IF Character(c).partyId # NoParty
                                        THEN "delete.get" ELSE "delete.drop"),
                           job[w])

DeleteLeaveGet(w) ==
  LET c == job[w].chr
  IN  /\ At(w, "delete.get")
      /\ \/ ~Cached(c) /\ Forget(w) /\ UNCHANGED charReg
         \/ Cached(c) /\ GetCharacter(w, c,
                           [Goto(job[w], "delete.clear") EXCEPT !.rec = Character(c)],
                           job[w])

DeleteLeaveClear(w) ==
  /\ At(w, "delete.clear")
  /\ SetCharacter(w, LeaveParty(Target(w)), Goto(job[w], "delete.drop"))

\* Delete of an absent id returns ErrNotFound, which is logged.
DeleteDrop(w) ==
  /\ At(w, "delete.drop")
  /\ DeleteCharacter(job[w].chr)
  /\ Forget(w)

-----------------------------------------------------------------------------
(* The GET requests of the REST resource.  They read a party, or all of    *)
(* them, and look up each member, or the one asked for, by GetById, which  *)
(* on a miss would write to the cache.                                     *)

\* The list that a request looks up, for each route: all parties or those of one
\* member, one party or its members, one member.
ListOf(C) == [c \in C |-> 1]
ListOfParties(P) == ListOf(UNION {Members(partyReg[q]) : q \in P})
ViewParties ==
  {ListOfParties(DOMAIN partyReg)}
  \cup {ListOfParties({q \in DOMAIN partyReg : c \in Members(partyReg[q])}) : c \in Characters}
ViewParty(p) == {Lookup(p).members}
ViewPartyMember(p) == {ListOf({c}) : c \in Members(Lookup(p))}

ViewGet(w) ==
  /\ At(w, "view")
  /\ \E list \in ViewParties \cup ViewParty(job[w].pid) \cup ViewPartyMember(job[w].pid) :
       Become(w, IF list = EmptyMap THEN NoJob
                 ELSE [Goto(job[w], "view.member") EXCEPT !.todo = list])
  /\ UNCHANGED <<registryVars, charReg, foreign, invites, mirror>>

\* TransformMember of one member; a failing one fails the request.
ViewMember(w) ==
  /\ At(w, "view.member")
  /\ \E c \in DOMAIN job[w].todo :
       LET rest == BagRemove(job[w].todo, c)
       IN  /\ Fetched(w) => c = job[w].fetched.id
           /\ GetById(w, c, IF rest = EmptyMap THEN NoJob ELSE [job[w] EXCEPT !.todo = rest],
                      NoJob)

-----------------------------------------------------------------------------
(* Messages in and out.                                                    *)

Job(op, pc, actor, p, c) ==
  [NoJob EXCEPT !.op = op, !.pc = pc, !.actor = actor, !.pid = p, !.chr = c]

\* Bound: a Create is only begun while an id is left for it, and so is an
\* invitation by a character in no party.
IdsLeft ==
  NextId + Cardinality({w \in Workers : job[w].op \in {"CREATE", "REQUEST_INVITE"}}) \in PartyIds

\* The commands the REST resource sends.  PATCH sends its own when the leader it
\* has read is not the one requested; by the time it is handled either may have
\* changed.  It knows of no actor.
PostParty(c)       == Job("CREATE", "create", c, NoParty, c)
PostMember(p, c)   == Job("JOIN", "join", c, p, c)
DeleteMember(p, c) == Job("LEAVE", "leave", c, p, c)
PatchParty(p, c)   == Job("CHANGE_LEADER", "lead", NoCharacter, p, c)

\* The messages of the three topics and the GET requests.  A DELETED event follows
\* the deletion in the character service, once or, redelivered, more often.
Incoming ==
  LET C == Characters
  IN  {PostParty(c) : c \in {d \in C : IdsLeft}}
      \cup {PostMember(p, c) : p \in CommandIds, c \in C}
      \cup {DeleteMember(p, c) : p \in CommandIds, c \in C}
      \cup {Job("EXPEL", "leave", c, p, c) : p \in CommandIds, c \in C}
      \cup {PatchParty(p, c) : p \in CommandIds, c \in C}
      \cup {Job("CHANGE_LEADER", "lead", a, p, c) : a \in C, p \in CommandIds, c \in C}
      \cup {Job("VIEW", "view", NoCharacter, p, NoCharacter) : p \in CommandIds}
      \cup {Job("REQUEST_INVITE", "invite", a, NoParty, c) :
              a \in {d \in C : IdsLeft \/ Character(d).partyId # NoParty}, c \in C}
      \cup {Job("ACCEPTED", "join", i.chr, i.pid, i.chr) : i \in invites}
      \cup {Job("DELETED", "deleted", c, NoParty, c) : c \in {d \in C : foreign[d] # "alive"}}
      \cup {[Job("MAP_CHANGED", "map", c, NoParty, c) EXCEPT !.map = m] : m \in Maps, c \in C}

Receive(w, j) ==
  /\ Idle(w)
  /\ j.op \in Serves[w]
  /\ Become(w, j)
  /\ UNCHANGED <<registryVars, charReg, foreign, invites, mirror>>

\* What a consumer of the published events makes of one of them.
Learn(view, e) ==
  CASE e.type \in {"CREATED", "JOINED"} -> [view EXCEPT ![e.chr] = e.pid]
    [] e.type \in {"LEFT", "EXPEL"}     -> [view EXCEPT ![e.chr] = NoParty]
    [] e.type = "DISBAND" ->
         [c \in Characters |-> IF view[c] = e.pid THEN NoParty ELSE view[c]]
    [] OTHER -> view

\* message.Emit: the buffer is published when the handler returned no error.
\* The handler of a DELETED event goes on to Delete.
Return(w) ==
  LET j == job[w]
  IN  /\ At(w, "return")
      /\ \/ j.err /\ UNCHANGED mirror
         \/ ~j.err /\ mirror' = FoldLeft(Learn, mirror, j.buf)
         \/ ~j.err /\ LossyBroker /\ UNCHANGED mirror
      /\ Become(w, IF j.op = "DELETED" THEN Job("DELETED", "delete", j.actor, NoParty, j.chr)
                   ELSE NoJob)
      /\ UNCHANGED <<registryVars, charReg, foreign, invites>>

\* A character is deleted in the character service.
Vanish(c) ==
  /\ foreign[c] = "alive"
  /\ foreign' = [foreign EXCEPT ![c] = "deleting"]
  /\ UNCHANGED <<registryVars, charReg, job, invites, mirror>>

\* The process is killed and started again: nothing is persisted, so the
\* registries, the id counter and the handlers' work are gone, while invitations,
\* the character service and who followed the events keep what they know.
Restart ==
  /\ Restarts
  /\ partyReg' = EmptyMap /\ charToParty' = EmptyMap
  /\ tenantPartyId' = 0 /\ creating' = {}
  /\ charReg' = EmptyMap
  /\ job' = [w \in Workers |-> NoJob]
  /\ UNCHANGED <<foreign, invites, mirror>>

Work(w) ==
  \/ CreateCheck(w) \/ CreateAllocate(w) \/ CreateStore(w)
  \/ JoinCheck(w) \/ JoinGetParty(w) \/ JoinAdd(w) \/ JoinUndo(w)
  \/ EnterCheck(w) \/ EnterSet(w)
  \/ LeaveCheck(w) \/ LeaveGetParty(w) \/ LeaveRemove(w)
  \/ LeaveGet(w) \/ LeaveClear(w) \/ LeaveUndo(w)
  \/ DisbandGet(w) \/ DisbandClear(w) \/ RemoveDisbanded(w) \/ RemoveEmptied(w)
  \/ LeadGetActor(w) \/ LeadCheck(w) \/ LeadSet(w)
  \/ InviteGetActor(w) \/ InviteCheck(w) \/ InviteGetParty(w) \/ InviteSend(w)
  \/ MapGet(w) \/ MapSet(w)
  \/ DeletedGetParty(w) \/ DeleteGet(w) \/ DeleteLeaveGet(w) \/ DeleteLeaveClear(w)
  \/ DeleteDrop(w)
  \/ ViewGet(w) \/ ViewMember(w)
  \/ Return(w)

Next ==
  \/ \E w \in Workers : Work(w)
  \/ \E w \in Workers : \E j \in Incoming : Receive(w, j)
  \/ \E c \in Mortal : Vanish(c)
  \/ Restart

Spec == Init /\ [][Next]_vars

\* Each worker finishes what it has begun, and a DELETED event is delivered in
\* the end although other messages keep coming in: the broker hands the messages
\* of a topic over in order.
ReceiveDeletion(c) == \E w \in Workers : Receive(w, Job("DELETED", "deleted", c, NoParty, c))

LiveSpec ==
  /\ Spec
  /\ \A w \in Workers : WF_vars(Work(w))
  /\ \A c \in Characters : SF_vars(foreign[c] = "deleting" /\ ReceiveDeletion(c))

-----------------------------------------------------------------------------
(* Properties of any number of workers.                                    *)

IsCharacter(m) ==
  m \in [id : Characters \cup {NoCharacter}, partyId : PartyIds, mapId : Maps \cup {ZeroMap}]

TypeOK ==
  /\ RegistryTypeOK
  /\ DOMAIN charReg \subseteq Characters \cup {NoCharacter}
  /\ \A c \in DOMAIN charReg : IsCharacter(charReg[c])
  /\ foreign \in [Characters -> {"alive", "deleting", "deleted"}]
  /\ invites \subseteq [pid : PartyIds, chr : Characters]
  /\ mirror \in [Characters -> PartyIds]
  /\ DOMAIN job = Workers
  /\ \A w \in Workers :
       /\ job[w].op \in Operations \cup {"none"}
       /\ {job[w].actor, job[w].chr} \subseteq Characters \cup {NoCharacter}
       /\ job[w].pid \in PartyIds
       /\ IsCharacter(job[w].rec) /\ IsCharacter(job[w].fetched)
       /\ IsParty(job[w].party)
       /\ IsMemberList(job[w].todo)

\* Every handler comes to its end, whatever the others do in between: no retry,
\* lock or loop keeps one from returning (the loop of processor.go:441 walks a
\* list that was read once).
HandlersReturn == \A w \in Workers : ~Idle(w) ~> Idle(w)

\* A GET request only reads: what it lists is cached, although its lookups would
\* store the records they miss (party/rest.go:142) and although members join, leave
\* and are deleted between its reads of the two registries.  A fill would put a
\* record in no party over that of a member.
ViewsChangeNothing ==
  [][\A w \in Workers : job[w].op = "VIEW" /\ job'[w] # job[w]
       => UNCHANGED <<registryVars, charReg>>]_vars

\* Whoever is told that a party was disbanded never finds it again: when the handler
\* publishes the event, the party is gone, and neither a join or an undo that comes
\* too late (processor.go:235, 245 and 429) nor another Create has brought it back.
DisbandedAreGone ==
  \A w \in Workers : At(w, "return") /\ ~job[w].err =>
    \A i \in DOMAIN job[w].buf : job[w].buf[i].type = "DISBAND" => job[w].buf[i].pid \notin Live

\* An update of a record that was deleted since it was read stores a record of nobody
\* (character/registry.go:86).  That happens to deleted characters only: a character
\* that is alive keeps its own record, whoever else is deleted meanwhile.
LivingKeepRecords ==
  \A c \in Characters : foreign[c] = "alive" /\ Cached(c) => Character(c).id = c

-----------------------------------------------------------------------------
(* Properties of one worker, when it is between two messages.  They hold   *)
(* for all commands, until a CHANGE_LEADER command names party 0 and a     *)
(* character in no party: processor.go:508 compares zero with zero, and    *)
(* Update stores a party under id 0, which characters then join while      *)
(* their records say that they are in none.                                *)

\* No party is stored under id 0.
ZeroVacant == NoParty \notin DOMAIN partyReg

MemberOf(c, p) == p \in Live /\ c \in Members(partyReg[p])

\* The two registries agree: a character's record names the party whose member
\* list names the character, although no lock spans the two updates.
RecordsAgree ==
  AllIdle => \A c \in Characters, p \in PartyIds \ {NoParty} :
               MemberOf(c, p) <=> Character(c).partyId = p

\* The character index finds the party of every character that is in one:
\* the deletion of a character depends on it (consumer.go:180).
IndexExact == AllIdle => \A c \in Characters : PartyOf(c).id = Character(c).partyId

\* Who follows the published events knows the membership: no change goes
\* unannounced and none is announced that did not happen.
MirrorAgrees == AllIdle => \A c \in Characters : mirror[c] = PartyOf(c).id

\* A character whose deletion has been handled is in no party and not cached,
\* and stays away, whatever commands and redelivered events still name it.
DeletedAreGone ==
  AllIdle => \A c \in Characters : foreign[c] = "deleted" =>
               ~Cached(c) /\ \A p \in Live : ~MemberOf(c, p)

\* An invitation could be accepted the moment it is sent, before the buffered CREATED
\* event of its party is published (processor.go:625): the party is stored, with room
\* in it, the inviter is a member and the invited character in no party, unless the
\* two are the same.  So it never names the zero party of a Create that failed (604).
InvitationsAcceptable ==
  [][\A w \in Workers :
       LET j == job[w]
       IN  At(w, "invite.send") /\ job'[w] = Done(j) =>
             /\ j.actor # NoCharacter /\ MemberOf(j.actor, j.party.id)
             /\ Size(Lookup(j.party.id)) < Capacity
             /\ j.chr # j.actor => PartyOf(j.chr).id = NoParty]_vars

\* PATCH sends its command in the name of actor 0, whom no lookup finds
\* (resource.go:124).  It appoints a member all the same, because ChangeLeader looks
\* up the new leader where it means the actor (processor.go:488).
PatchAppoints ==
  \A w \in Workers :
    LET j == job[w]
    IN  j.op = "CHANGE_LEADER" /\ j.actor = NoCharacter /\ At(w, "return") /\ MemberOf(j.chr, j.pid)
          => partyReg[j.pid].leader = j.chr

\* Without forced leaves every stored party is one the builder would build.
PartiesBuildable == AllIdle => \A p \in Live : Buildable(partyReg[p])

\* What is put into the buffer of a DELETED event's handler goes on: once
\* announced by the character service, a deletion is carried out.
DeletionsComplete == \A c \in Characters : foreign[c] = "deleting" ~> foreign[c] = "deleted"

-----------------------------------------------------------------------------
(* What documentation, comments and messages of the service say of it, and *)
(* the code does not do: each of these fails.                              *)

\* README.md:13: a new leader is elected when the leader is deleted.  So a
\* deletion disbands no party that has members left.
DeletionKeepsOthersTogether ==
  \A w \in Workers :
    job[w].op = "DELETED" /\ At(w, "return") /\ job[w].disband => Members(job[w].party) = {}

\* README.md:14: a party is disbanded when its last member is deleted.
DeletionDisbandsEmpty ==
  \A w \in Workers :
    job[w].op = "DELETED" /\ At(w, "return") /\ job[w].pid \in Live
      => Members(partyReg[job[w].pid]) # {}

\* processor.go:518: only someone of the same party makes a character leader.
LeaderAppointedFromWithin ==
  \A w \in Workers : At(w, "lead.set") => Character(job[w].actor).partyId = job[w].pid

\* processor.go:510: who is in no party cannot become a leader.
LeadersInAParty ==
  \A w \in Workers : At(w, "lead.set") => Character(job[w].chr).partyId # NoParty

\* processor.go:132: a refused request is announced to the requester.
RefusalsAnnounced == \A w \in Workers : At(w, "return") /\ job[w].buf # <<>> => ~job[w].err

\* README.md:12: a deleted character is removed from any party it belongs to.
DeletedInNoParty ==
  AllIdle => \A c \in Characters, p \in Live : foreign[c] = "deleted" => ~MemberOf(c, p)

-----------------------------------------------------------------------------
\* The handlers implement the roster of the abstract specification.  What ends a
\* party, Leave of its leader or Expel of its last member, takes effect when the
\* character is removed from it (processor.go:417 and 315), every other command
\* with its one update of the party.
Ending(j) ==
  /\ j.disband \/ (j.op = "EXPEL" /\ Members(j.party) = {})
  /\ j.pc \in {"leave.get", "leave.clear", "disband", "disband.clear", "expel.remove"}

Listed == {p \in Live : \A w \in Workers : ~(job[w].pid = p /\ Ending(job[w]))}

Promise == INSTANCE Roster WITH
  roster <- [p \in Listed |-> [leader |-> partyReg[p].leader, members |-> Members(partyReg[p])]],
  used <- StartPartyId..tenantPartyId \ {m.id : m \in creating}

ImplementsRoster == Promise!RosterSpec

=============================================================================
