----------------------- MODULE CharacterServiceProofs -----------------------
(***************************************************************************)
(* The cached records, for any number of workers, of characters, parties   *)
(* and events, with restarts: no handler undoes the membership another one *)
(* has written; records hold values of their own kind; and, where one      *)
(* worker reads the topic, they end up with what the character service     *)
(* holds, and the fellows of a member with what its record says.           *)
(***************************************************************************)
EXTENDS CharacterService, FiniteSetTheorems, TLAPS

-----------------------------------------------------------------------------
(***************************************************************************)
(* Memberships, the first invariant.  A handler that is about to update    *)
(* finds its record, because nothing but a restart removes one here, and a *)
(* restart ends the handler as well; so an update always starts from the   *)
(* record as it is.  Beside MembershipKept that leaves the cache fill: it  *)
(* can write a record in no party only where there is none, and a          *)
(* character without a record is in no party.                              *)
(***************************************************************************)
JobFields == {"op", "pc", "chr", "party", "event", "answer", "asOf", "rec"}

\* About to update the record.
Updating(j) == j.pc \in {"set", "enter", "leave.set"}

JobsOK ==
  /\ DOMAIN job = Workers
  /\ \A w \in Workers : DOMAIN job[w] = JobFields /\ (Updating(job[w]) => Cached(job[w].chr))

RecordsOK == \A c \in DOMAIN charReg : "partyId" \in DOMAIN charReg[c]

LateOK == late \subseteq DOMAIN charReg

MembershipInv ==
  /\ JobsOK
  /\ RecordsOK
  /\ LateOK
  /\ DOMAIN member = Characters
  /\ MembershipKept

LEMMA Became ==
  ASSUME JobsOK, NEW w \in Workers, NEW j, Become(w, j), DOMAIN j = JobFields,
         Updating(j) => j.chr \in DOMAIN charReg', DOMAIN charReg \subseteq DOMAIN charReg'
  PROVE  JobsOK'
<1>1. job' = [job EXCEPT ![w] = j]
  BY DEF Become
<1>2. DOMAIN job' = Workers
  BY <1>1 DEF JobsOK
<1>3. ASSUME NEW v \in Workers
      PROVE  DOMAIN job'[v] = JobFields /\ (Updating(job'[v]) => job'[v].chr \in DOMAIN charReg')
  <2>1. CASE v = w
    BY <1>1, <2>1 DEF JobsOK
  <2>2. CASE v # w
    BY <1>1, <2>2 DEF JobsOK, Cached
  <2> QED BY <2>1, <2>2
<1> QED BY <1>2, <1>3 DEF JobsOK, Updating, Cached

LEMMA NoJobOK == DOMAIN NoJob = JobFields /\ ~Updating(NoJob)
  BY DEF NoJob, JobFields, Updating

-----------------------------------------------------------------------------
(* The three ways in which records and histories change.                   *)

\* Nothing but jobs, the topic and what is told.
LEMMA RecordsUntouched ==
  ASSUME MembershipInv, UNCHANGED <<charReg, member, late>>, JobsOK'
  PROVE  MembershipInv'
  BY DEF MembershipInv, RecordsOK, LateOK, MembershipKept, Cached

\* An update of a present record that leaves its party alone.
LEMMA UpdatedRecord ==
  ASSUME MembershipInv, NEW c \in DOMAIN charReg, NEW record,
         "partyId" \in DOMAIN record, record.partyId = charReg[c].partyId,
         charReg' = Put(charReg, c, record), UNCHANGED <<member, late>>, JobsOK'
  PROVE  MembershipInv'
  BY DEF MembershipInv, RecordsOK, LateOK, MembershipKept, Cached, Put

\* JoinParty and LeaveParty.
LEMMA MovedMember ==
  ASSUME MembershipInv, NEW c \in DOMAIN charReg, NEW record,
         "partyId" \in DOMAIN record,
         charReg' = Put(charReg, c, record),
         member' = [member EXCEPT ![c] = record.partyId], UNCHANGED late, JobsOK'
  PROVE  MembershipInv'
  BY DEF MembershipInv, RecordsOK, LateOK, MembershipKept, Cached, Put

\* A cache fill.
LEMMA Filled ==
  ASSUME MembershipInv, NEW w \in Workers, NEW record, NEW j,
         "partyId" \in DOMAIN record, record.partyId = NoParty,
         StoreAnswer(w, record, j), JobsOK'
  PROVE  MembershipInv'
<1> DEFINE c == job[w].chr
<1>1. /\ charReg' = Put(charReg, c, record)
      /\ late' = late \cup {c} \/ (c \notin DOMAIN charReg /\ late' = late \ {c})
      /\ UNCHANGED member
  BY DEF StoreAnswer, Cached
<1> QED BY <1>1 DEF MembershipInv, RecordsOK, LateOK, MembershipKept, Cached, Put

-----------------------------------------------------------------------------
(* The steps of a handler.                                                 *)

LEMMA Moving ==
  ASSUME JobsOK, NEW w \in Workers, NEW pc
  PROVE  /\ DOMAIN Goto(job[w], pc) = JobFields
         /\ Goto(job[w], pc).chr = job[w].chr /\ Goto(job[w], pc).pc = pc
  BY DEF JobsOK, JobFields, Goto

\* The character service's answer changes no record.
LEMMA LookedUp ==
  ASSUME MembershipInv, NEW w \in Workers, NEW answered, NEW failed,
         DOMAIN answered = JobFields, ~Updating(answered),
         DOMAIN failed = JobFields, ~Updating(failed),
         Lookup(w, answered, failed)
  PROVE  MembershipInv'
<1>1. PICK j : DOMAIN j = JobFields /\ ~Updating(j) /\ Become(w, j)
  <2> DEFINE a == [answered EXCEPT !.answer = source[job[w].chr], !.asOf = emitted]
  <2>1. DOMAIN a = JobFields /\ ~Updating(a)
    BY DEF JobFields, Updating
  <2>2. Become(w, failed) \/ Become(w, a)
    BY DEF Lookup
  <2> QED BY <2>1, <2>2
<1>2. UNCHANGED <<charReg, member, late>>
  BY DEF Lookup, historyVars
<1>3. JobsOK'
  BY <1>1, <1>2, Became DEF MembershipInv
<1> QED BY <1>2, <1>3, RecordsUntouched

\* An answer stored, whatever the job goes on with.
LEMMA AnswerStored ==
  ASSUME MembershipInv, NEW w \in Workers, NEW pc,
         NEW fm, NEW map, NEW channel,
         StoreAnswer(w, Fresh(fm, map, channel), Goto(job[w], pc))
  PROVE  MembershipInv'
<1> DEFINE record == Fresh(fm, map, channel)
           j == [Goto(job[w], pc) EXCEPT !.answer = None, !.asOf = 0, !.rec = record]
<1>1. "partyId" \in DOMAIN record /\ record.partyId = NoParty
  BY DEF Fresh
<1>2. StoreAnswer(w, record, Goto(job[w], pc))
  OBVIOUS
<1>3. Become(w, j) /\ charReg' = Put(charReg, job[w].chr, record)
  BY DEF StoreAnswer
<1> HIDE DEF record
<1>4. DOMAIN j = JobFields /\ j.chr = job[w].chr
  BY Moving DEF MembershipInv, JobFields
<1>5. job[w].chr \in DOMAIN charReg' /\ DOMAIN charReg \subseteq DOMAIN charReg'
  BY <1>3 DEF Put
<1> HIDE DEF j
<1>6. JobsOK'
  BY <1>3, <1>4, <1>5, Became DEF MembershipInv
<1> QED BY <1>1, <1>2, <1>6, Filled

LEMMA BeginInv ==
  ASSUME MembershipInv, NEW w \in Workers, Begin(w)
  PROVE  MembershipInv'
<1> DEFINE j == job[w]
           next == IF j.op = "JOIN" THEN "enter" ELSE "set"
           failed == IF j.op = "LOGIN" THEN Goto(j, "login.fetch") ELSE NoJob
<1>0. JobsOK /\ DOMAIN j = JobFields /\ ~Updating(j)
  BY DEF Begin, At, Updating, MembershipInv, JobsOK
<1>1. DOMAIN failed = JobFields /\ ~Updating(failed)
  BY <1>0, NoJobOK, Moving DEF Updating
<1>2. GetById(w, Goto(j, next), failed)
  BY DEF Begin
<1> HIDE DEF next, failed
<1>3. CASE /\ Cached(j.chr)
           /\ Become(w, [Goto(j, next) EXCEPT !.rec = charReg[j.chr]])
           /\ UNCHANGED <<sourceVars, charReg, historyVars>>
  <2> DEFINE k == [Goto(j, next) EXCEPT !.rec = charReg[j.chr]]
  <2>1. DOMAIN k = JobFields /\ k.chr = j.chr
    BY <1>0, Moving DEF JobFields
  <2>2. Become(w, k) /\ UNCHANGED <<charReg, member, late>> /\ j.chr \in DOMAIN charReg
    BY <1>3 DEF historyVars, Cached
  <2> HIDE DEF k
  <2>3. JobsOK'
    BY <1>0, <2>1, <2>2, Became
  <2> QED BY <2>2, <2>3, RecordsUntouched
<1>4. CASE Lookup(w, j, failed)
  BY <1>0, <1>1, <1>4, LookedUp
<1>5. CASE StoreAnswer(w, Fresh(j.answer, j.answer.mapId, NoChannel), Goto(j, next))
  BY <1>5, AnswerStored
<1> QED BY <1>2, <1>3, <1>4, <1>5 DEF GetById

LEMMA LoginInv ==
  ASSUME MembershipInv, NEW w \in Workers, LoginFetch(w) \/ LoginCreate(w)
  PROVE  MembershipInv'
<1>1. CASE LoginFetch(w)
  <2>1. /\ DOMAIN Goto(job[w], "login.create") = JobFields
        /\ ~Updating(Goto(job[w], "login.create"))
    BY Moving DEF MembershipInv, Updating
  <2> QED BY <1>1, <2>1, NoJobOK, LookedUp DEF LoginFetch
<1>2. CASE LoginCreate(w)
  BY <1>2, AnswerStored DEF LoginCreate
<1> QED BY <1>1, <1>2

\* The six updates of an attribute.
AttributeSet(w) ==
  \/ LoginSet(w) \/ LogoutSet(w) \/ ChannelChangeSet(w)
  \/ MapChangeSet(w) \/ LevelChangeSet(w) \/ JobChangeSet(w)

SameParty(k, m) == "partyId" \in DOMAIN k /\ k.partyId = m.partyId

LEMMA SettersKeepParty ==
  ASSUME NEW m, "partyId" \in DOMAIN m, NEW v
  PROVE  /\ SameParty(Login(m), m) /\ SameParty(Logout(m), m)
         /\ SameParty(ChangeChannel(m, v), m) /\ SameParty(ChangeChannel(Login(m), v), m)
         /\ SameParty(ChangeMap(m, v), m)
         /\ SameParty(ChangeLevel(m, v), m) /\ SameParty(ChangeJob(m, v), m)
  BY DEF Login, Logout, ChangeChannel, ChangeMap, ChangeLevel, ChangeJob, SameParty

LEMMA AttributeSetInv ==
  ASSUME MembershipInv, NEW w \in Workers, AttributeSet(w)
  PROVE  MembershipInv'
<1> DEFINE c == job[w].chr
<1>1. c \in DOMAIN charReg /\ "partyId" \in DOMAIN Stored(w)
  <2>1. Updating(job[w])
    BY DEF AttributeSet, LoginSet, LogoutSet, ChannelChangeSet, MapChangeSet, LevelChangeSet,
           JobChangeSet, Handling, At, Updating
  <2> QED BY <2>1 DEF MembershipInv, JobsOK, RecordsOK, Cached, Stored
<1>2. PICK record :
        /\ SetRecord(w, record)
        /\ SameParty(record, Stored(w))
  BY <1>1, SettersKeepParty
  DEF AttributeSet, LoginSet, LogoutSet, ChannelChangeSet, MapChangeSet, LevelChangeSet,
      JobChangeSet
<1>3. charReg' = Put(charReg, c, record) /\ UNCHANGED <<member, late>>
  BY <1>2 DEF SetRecord, historyVars
<1>4. Become(w, Goto(job[w], "emit")) \/ Become(w, NoJob)
  BY <1>2 DEF SetRecord
<1>5. DOMAIN charReg \subseteq DOMAIN charReg'
  BY <1>3 DEF Put
<1>6. DOMAIN Goto(job[w], "emit") = JobFields /\ ~Updating(Goto(job[w], "emit"))
  BY Moving DEF MembershipInv, Updating
<1>7. JobsOK'
  BY <1>4, <1>5, <1>6, NoJobOK, Became DEF MembershipInv
<1> QED BY <1>1, <1>2, <1>3, <1>7, UpdatedRecord DEF Stored, SameParty

MembershipSet(w) == JoinPartySet(w) \/ LeavePartySet(w)

LEMMA MembershipSetInv ==
  ASSUME MembershipInv, NEW w \in Workers, MembershipSet(w)
  PROVE  MembershipInv'
<1> DEFINE c == job[w].chr
<1>1. c \in DOMAIN charReg /\ "partyId" \in DOMAIN Stored(w)
  <2>1. Updating(job[w])
    BY DEF MembershipSet, JoinPartySet, LeavePartySet, At, Updating
  <2> QED BY <2>1 DEF MembershipInv, JobsOK, RecordsOK, Cached, Stored
<1>2. PICK record : Membership(w, record) /\ "partyId" \in DOMAIN record
  BY <1>1 DEF MembershipSet, JoinPartySet, LeavePartySet, JoinParty, LeaveParty
<1>3. /\ charReg' = Put(charReg, c, record)
      /\ member' = [member EXCEPT ![c] = record.partyId]
      /\ late' = late /\ Become(w, NoJob)
  BY <1>2 DEF Membership
<1>4. DOMAIN charReg \subseteq DOMAIN charReg'
  BY <1>3 DEF Put
<1>5. JobsOK'
  BY <1>3, <1>4, NoJobOK, Became DEF MembershipInv
<1> QED BY <1>1, <1>2, <1>3, <1>5, MovedMember

\* The steps that touch no record.
LEMMA OtherInv ==
  ASSUME MembershipInv, NEW w \in Workers,
         EventEmit(w) \/ LeavePartyGet(w) \/ ReceiveEvent(w) \/ ReceiveCommand(w)
  PROVE  MembershipInv'
<1>1. UNCHANGED <<charReg, member, late>>
  BY DEF EventEmit, LeavePartyGet, ReceiveEvent, ReceiveCommand, historyVars
<1>2. PICK j : /\ Become(w, j) /\ DOMAIN j = JobFields
               /\ Updating(j) => j.chr \in DOMAIN charReg
  <2>1. CASE EventEmit(w)
    BY <2>1, NoJobOK DEF EventEmit
  <2>2. CASE LeavePartyGet(w)
    BY <2>2, NoJobOK, Moving DEF LeavePartyGet, MembershipInv, Cached
  <2>3. CASE ReceiveEvent(w)
    <3> DEFINE e == Head(topic)
               j == [NoJob EXCEPT !.op = e.type, !.pc = "get", !.chr = e.chr, !.event = e]
    <3>1. Become(w, j)
      BY <2>3 DEF ReceiveEvent
    <3> HIDE DEF e
    <3>2. DOMAIN j = JobFields /\ ~Updating(j)
      BY DEF NoJob, JobFields, Updating
    <3> QED BY <3>1, <3>2
  <2>4. CASE ReceiveCommand(w)
    <3>1. CASE \E c \in Characters, p \in Parties :
                 Become(w, [NoJob EXCEPT !.op = "JOIN", !.pc = "get", !.chr = c, !.party = p])
      <4>1. PICK c, p :
              Become(w, [NoJob EXCEPT !.op = "JOIN", !.pc = "get", !.chr = c, !.party = p])
        BY <3>1
      <4> DEFINE j == [NoJob EXCEPT !.op = "JOIN", !.pc = "get", !.chr = c, !.party = p]
      <4>2. DOMAIN j = JobFields /\ ~Updating(j)
        BY DEF NoJob, JobFields, Updating
      <4> QED BY <4>1, <4>2
    <3>2. CASE \E c \in Characters :
                 Become(w, [NoJob EXCEPT !.op = "LEAVE", !.pc = "leave", !.chr = c])
      <4>1. PICK c : Become(w, [NoJob EXCEPT !.op = "LEAVE", !.pc = "leave", !.chr = c])
        BY <3>2
      <4> DEFINE j == [NoJob EXCEPT !.op = "LEAVE", !.pc = "leave", !.chr = c]
      <4>2. DOMAIN j = JobFields /\ ~Updating(j)
        BY DEF NoJob, JobFields, Updating
      <4> QED BY <4>1, <4>2
    <3> QED BY <2>4, <3>1, <3>2 DEF ReceiveCommand
  <2> QED BY <2>1, <2>2, <2>3, <2>4
<1>3. JobsOK'
  BY <1>1, <1>2, Became DEF MembershipInv
<1> QED BY <1>1, <1>3, RecordsUntouched

-----------------------------------------------------------------------------

LEMMA MembershipInit == Init => MembershipInv
<1> SUFFICES ASSUME Init PROVE MembershipInv
  OBVIOUS
<1>1. DOMAIN charReg = {} /\ late = {} /\ member = [c \in Characters |-> NoParty]
  BY DEF Init, EmptyMap
<1>2. JobsOK
  BY NoJobOK DEF Init, JobsOK
<1> QED BY <1>1, <1>2 DEF MembershipInv, RecordsOK, LateOK, MembershipKept, Cached

LEMMA MembershipNext == MembershipInv /\ [Next]_vars => MembershipInv'
<1> SUFFICES ASSUME MembershipInv, [Next]_vars
             PROVE  MembershipInv'
  OBVIOUS
<1>1. CASE \E w \in Workers : Work(w) \/ ReceiveEvent(w) \/ ReceiveCommand(w)
  <2>1. PICK w \in Workers : Work(w) \/ ReceiveEvent(w) \/ ReceiveCommand(w)
    BY <1>1
  <2>2. \/ Begin(w) \/ LoginFetch(w) \/ LoginCreate(w) \/ AttributeSet(w) \/ MembershipSet(w)
        \/ EventEmit(w) \/ LeavePartyGet(w) \/ ReceiveEvent(w) \/ ReceiveCommand(w)
    BY <2>1 DEF Work, AttributeSet, MembershipSet
  <2> QED BY <2>2, BeginInv, LoginInv, AttributeSetInv, MembershipSetInv, OtherInv
<1>2. CASE \E c \in Characters : SourceChanges(c)
  <2>1. UNCHANGED <<charReg, job, member, late>>
    BY <1>2 DEF SourceChanges, Change, historyVars
  <2>2. JobsOK'
    BY <2>1 DEF MembershipInv, JobsOK, Cached
  <2> QED BY <2>1, <2>2, RecordsUntouched
<1>3. CASE Restart
  <2>1. DOMAIN charReg' = {} /\ late' = {} /\ member' = [c \in Characters |-> NoParty]
    BY <1>3 DEF Restart, EmptyMap
  <2>2. JobsOK'
    BY <1>3, NoJobOK DEF Restart, JobsOK
  <2> QED BY <2>1, <2>2 DEF MembershipInv, RecordsOK, LateOK, MembershipKept, Cached
<1>4. CASE UNCHANGED vars
  <2>1. UNCHANGED <<charReg, job, member, late>>
    BY <1>4 DEF vars, historyVars
  <2>2. JobsOK'
    BY <2>1 DEF MembershipInv, JobsOK, Cached
  <2> QED BY <2>1, <2>2, RecordsUntouched
<1> QED BY <1>1, <1>2, <1>3, <1>4 DEF Next

\* A record keeps the party JoinParty or LeaveParty wrote last, although any number of
\* attribute handlers, lookups and membership changes of the character overlap between
\* their reads and their writes (character/processor.go:79 and its kind): only a fill
\* that another handler has overtaken (line 265) can undo it.
THEOREM MembershipsSurvive == Spec => []MembershipKept
<1>1. MembershipInv => MembershipKept
  BY DEF MembershipInv
<1> QED BY <1>1, MembershipInit, MembershipNext, PTL DEF Spec

-----------------------------------------------------------------------------
(***************************************************************************)
(* The second invariant, types: what jobs, events and answers hold.        *)
(***************************************************************************)

\* An event holds the session as the change it announces has left it.
EventOK(e) ==
  /\ e \in [type : EventTypes, chr : Characters, body : Session]
  /\ e.type \in {"LOGIN", "CHANNEL_CHANGED"} => e.body.online
  /\ e.type = "LOGOUT" => ~e.body.online

\* The handlers that put an event of their own into the buffer.
Announced == {"LOGIN", "LOGOUT", "LEVEL_CHANGED", "JOB_CHANGED"}

EventPcs == {"get", "login.fetch", "login.create", "set", "emit"}

JobOK(j) ==
  /\ DOMAIN j = JobFields
  /\ j = NoJob \/ j.chr \in Characters
  /\ j.party \in Parties \cup {NoParty}
  /\ j.answer \in Session \cup {None}
  /\ j.asOf \in 0..emitted
  /\ IF j.event = None
     THEN /\ j.op \notin EventTypes
          /\ j.pc \in {"idle", "get", "enter", "leave", "leave.set"}
          /\ j.pc = "get" => j.op = "JOIN"
     ELSE /\ EventOK(j.event) /\ j.op = j.event.type /\ j.chr = j.event.chr
          /\ j.pc \in EventPcs
          /\ j.pc \in {"login.fetch", "login.create"} => j.op = "LOGIN"
          /\ j.pc = "login.create" => j.answer # None
          /\ j.pc = "emit" => j.op \in Announced

Events == {e \in [type : EventTypes, chr : Characters, body : Session] : EventOK(e)}

\* The events taken and not finished with.
InFlight == {w \in Workers : job[w].event # None}

TypeInv ==
  /\ MembershipInv
  /\ source \in [Characters -> Session]
  /\ topic \in Seq(Events)
  /\ emitted \in 0..MaxEvents
  /\ IsFiniteSet(InFlight)
  /\ Cardinality(InFlight) + Len(topic) <= emitted
  /\ DOMAIN charReg \subseteq Characters
  /\ \A c \in DOMAIN charReg : charReg[c] \in Character
  /\ member \in [Characters -> Parties \cup {NoParty}]
  /\ DOMAIN told = Characters
  /\ \A c \in Characters : told[c] \in Fellow \cup {None}
  /\ \A w \in Workers : JobOK(job[w])

-----------------------------------------------------------------------------
(***************************************************************************)
(* What is on its way: a third invariant, for one consumer of the topic.   *)
(***************************************************************************)
OneConsumer == \A v, w \in Consuming : v = w

\* What the events of the character service are about.
Attributes == {"map", "level", "job"}
Aspects == Attributes \cup {"presence"}

Touching(a) ==
  CASE a = "map"      -> {"MAP_CHANGED"}
    [] a = "level"    -> {"LEVEL_CHANGED"}
    [] a = "job"      -> {"JOB_CHANGED"}
    [] a = "presence" -> {"LOGIN", "LOGOUT", "CHANNEL_CHANGED"}

Part(s, a) ==
  CASE a = "map"      -> s.mapId
    [] a = "level"    -> s.level
    [] a = "job"      -> s.jobId
    [] a = "presence" -> <<s.online, s.channelId>>

About(e, c, a) == e.chr = c /\ e.type \in Touching(a)

\* A change of c that a handler has still to take, and one it has taken and not yet applied.
Due(c, a) == \E i \in DOMAIN topic : About(topic[i], c, a)
Applying(j) == j.event # None /\ j.pc # "emit"
Pending(c, a) == Due(c, a) \/ \E w \in Workers : Applying(job[w]) /\ About(job[w].event, c, a)

\* What an event says is true, or an event behind it says what is.
TopicOK ==
  \A i \in DOMAIN topic, a \in Aspects :
    LET e == topic[i]
    IN  \/ Part(e.body, a) = Part(source[e.chr], a)
        \/ \E k \in DOMAIN topic : k > i /\ About(topic[k], e.chr, a)

FlightOK(w) ==
  LET e == job[w].event
  IN  e # None =>
        /\ w \in Consuming
        /\ \A a \in Aspects : Part(e.body, a) = Part(source[e.chr], a) \/ Due(e.chr, a)

\* What was answered is true, or an event published since then says what is.
AnswerOK(j) ==
  j.answer # None /\ j.asOf >= Taken =>
    \A a \in Attributes :
      \/ Part(j.answer, a) = Part(source[j.chr], a)
      \/ \E i \in DOMAIN topic : Taken + i > j.asOf /\ About(topic[i], j.chr, a)

\* What is cached is true, or an event says what is.
Current(c) == \A a \in Attributes : Part(charReg[c], a) = Part(source[c], a) \/ Pending(c, a)
Present(c) ==
  charReg[c].online => Part(charReg[c], "presence") = Part(source[c], "presence") \/ Pending(c, "presence")

\* A login whose character was not cached finds nobody online.
LoginOK(j) == j.pc = "login.fetch" /\ Cached(j.chr) => ~charReg[j.chr].online

FlowInv ==
  /\ TopicOK
  /\ \A w \in Workers : FlightOK(w) /\ AnswerOK(job[w]) /\ LoginOK(job[w])
  /\ \A c \in DOMAIN charReg \ late : Current(c)
  /\ \A c \in DOMAIN charReg : Present(c)

-----------------------------------------------------------------------------
(* What the fellows of a member know: a fourth invariant.                  *)

\* The field of the record that an event about to be announced has changed.
Told(e, f) ==
  \/ e.type \in {"LOGIN", "LOGOUT"} /\ f = "online"
  \/ e.type = "LEVEL_CHANGED" /\ f = "level"
  \/ e.type = "JOB_CHANGED" /\ f = "jobId"

Emitting(c, f) == \E w \in Workers : At(w, "emit") /\ job[w].chr = c /\ Told(job[w].event, f)

Fields == {"online", "level", "jobId"}
Field(m, f) == CASE f = "online" -> m.online [] f = "level" -> m.level [] f = "jobId" -> m.jobId

\* The record says what the event is about to announce.
Announces(e, m) ==
  /\ e.type \in {"LOGIN", "LOGOUT"} => m.online = (e.type = "LOGIN")
  /\ e.type = "LEVEL_CHANGED" => m.level = e.body.level
  /\ e.type = "JOB_CHANGED" => m.jobId = e.body.jobId

\* A fellow knows the field, or has missed what was announced of it.
Knows(known, m, f) == Field(known, f) \in {Field(m, f), Unheard}

FellowOK(c) ==
  /\ member[c] # NoParty =>
       /\ told[c] # None
       /\ \A f \in Fields : Knows(told[c], charReg[c], f) \/ Emitting(c, f)
  /\ \A w \in Workers :
       At(w, "emit") /\ job[w].chr = c => Cached(c) /\ Announces(job[w].event, charReg[c])

FellowsInv == \A c \in Characters \ late : FellowOK(c)


-----------------------------------------------------------------------------
(* Types.                                                                  *)

LEMMA NothingThere ==
  None \notin Session /\ None \notin Character /\ None \notin Fellow /\ ~EventOK(None)
<1>1. DOMAIN None = {"none"}
  BY DEF None
<1>2. \A s \in Session : "mapId" \in DOMAIN s
  BY DEF Session
<1>3. \A m \in Character : "mapId" \in DOMAIN m
  BY DEF Character
<1>5. \A m \in Fellow : "mapId" \in DOMAIN m
  BY DEF Fellow
<1>4. \A e \in [type : EventTypes, chr : Characters, body : Session] : "type" \in DOMAIN e
  OBVIOUS
<1> QED BY <1>1, <1>2, <1>3, <1>4, <1>5 DEF EventOK

LEMMA RecordsTold == Character \subseteq Fellow
  BY DEF Character, Fellow

LEMMA SettersTyped ==
  ASSUME NEW m \in Character
  PROVE  /\ Login(m) \in Character /\ Logout(m) \in Character
         /\ \A p \in Parties \cup {NoParty} : JoinParty(m, p) \in Character
         /\ LeaveParty(m) \in Character
         /\ \A map \in Maps : ChangeMap(m, map) \in Character
         /\ \A ch \in Channels : /\ ChangeChannel(m, ch) \in Character
                                 /\ ChangeChannel(Login(m), ch) \in Character
         /\ \A l \in Levels : ChangeLevel(m, l) \in Character
         /\ \A id \in JobIds : ChangeJob(m, id) \in Character
  BY DEF Character, Login, Logout, JoinParty, LeaveParty, ChangeMap, ChangeChannel, ChangeLevel,
         ChangeJob

LEMMA FillTyped ==
  ASSUME NEW fm \in Session, NEW map \in Maps, NEW ch \in Channels \cup {NoChannel}
  PROVE  Fresh(fm, map, ch) \in Character
  BY DEF Fresh, Session, Character

LEMMA NoJobTyped == TypeInv => JobOK(NoJob) /\ NoJob.event = None
<1> SUFFICES ASSUME TypeInv PROVE JobOK(NoJob) /\ NoJob.event = None
  OBVIOUS
<1>1. emitted \in Nat
  BY AttributesAssumption DEF TypeInv
<1>2. /\ NoJob.op = "none" /\ NoJob.pc = "idle" /\ NoJob.event = None /\ NoJob.answer = None
      /\ NoJob.asOf = 0 /\ NoJob.party = NoParty
  BY DEF NoJob
<1> QED BY <1>1, <1>2, NoJobOK DEF JobOK, EventTypes

\* A job further on in its handler.
Follows(j, k, pc) ==
  /\ DOMAIN k = JobFields /\ k.pc = pc
  /\ k.op = j.op /\ k.chr = j.chr /\ k.party = j.party /\ k.event = j.event

LEMMA Going ==
  ASSUME NEW j, DOMAIN j = JobFields, NEW pc, NEW k, k = Goto(j, pc)
  PROVE  Follows(j, k, pc) /\ k.answer = j.answer /\ k.asOf = j.asOf
  BY DEF Follows, Goto, JobFields

\* A step of a worker.
LEMMA StepTyped ==
  ASSUME TypeInv, MembershipInv', NEW w \in Workers, NEW k, Become(w, k), JobOK(k),
         k.event # None => job[w].event # None, UNCHANGED sourceVars,
         DOMAIN charReg' \subseteq Characters,
         \A c \in DOMAIN charReg' : charReg'[c] \in Character,
         member' \in [Characters -> Parties \cup {NoParty}],
         DOMAIN told' = Characters, \A c \in Characters : told'[c] \in Fellow \cup {None}
  PROVE  TypeInv'
<1>1. /\ source' = source /\ topic' = topic /\ emitted' = emitted
  BY DEF sourceVars
<1>2. \A v \in Workers : job'[v] = IF v = w THEN k ELSE job[v]
  BY DEF Become, TypeInv, MembershipInv, JobsOK
<1>3. InFlight' \subseteq InFlight
  BY <1>2 DEF InFlight
<1>4. IsFiniteSet(InFlight') /\ Cardinality(InFlight') <= Cardinality(InFlight)
  BY <1>3, FS_Subset DEF TypeInv
<1>5. Cardinality(InFlight') + Len(topic') <= emitted'
  <2>1. Cardinality(InFlight) \in Nat /\ Cardinality(InFlight') \in Nat
    BY <1>4, FS_CardinalityType DEF TypeInv
  <2>2. Len(topic) \in Nat /\ emitted \in Nat
    BY DEF TypeInv
  <2>3. Cardinality(InFlight) + Len(topic) <= emitted
    BY DEF TypeInv
  <2> QED BY <1>1, <1>4, <2>1, <2>2, <2>3
<1>6. \A v \in Workers : JobOK(job[v])'
  BY <1>1, <1>2 DEF TypeInv, JobOK
<1> QED BY <1>1, <1>4, <1>5, <1>6 DEF TypeInv

\* A step of a worker that changes no record and no history.
LEMMA QuietTyped ==
  ASSUME TypeInv, MembershipInv', NEW w \in Workers, NEW k, Become(w, k), JobOK(k),
         k.event # None => job[w].event # None, UNCHANGED <<sourceVars, charReg, member, told>>
  PROVE  TypeInv'
  BY StepTyped DEF TypeInv

LEMMA PutTyped ==
  ASSUME TypeInv, NEW c \in Characters, NEW record \in Character,
         charReg' = Put(charReg, c, record)
  PROVE  /\ DOMAIN charReg' \subseteq Characters
         /\ \A d \in DOMAIN charReg' : charReg'[d] \in Character
  BY DEF TypeInv, Put

LEMMA LookupTyped ==
  ASSUME TypeInv, MembershipInv', NEW w \in Workers, NEW j, j = job[w], j.chr \in Characters,
         NEW failed, JobOK(failed), failed.event # None => j.event # None,
         NEW answered,
         \A a \in Session : /\ JobOK([answered EXCEPT !.answer = a, !.asOf = emitted])
                            /\ [answered EXCEPT !.answer = a, !.asOf = emitted].event = j.event,
         Lookup(w, answered, failed)
  PROVE  TypeInv'
<1>1. UNCHANGED <<sourceVars, charReg, member, told>>
  BY DEF Lookup, historyVars
<1>2. source[j.chr] \in Session
  BY DEF TypeInv
<1>3. PICK k : k = [answered EXCEPT !.answer = source[j.chr], !.asOf = emitted]
  OBVIOUS
<1>4. JobOK(k) /\ k.event = j.event
  BY <1>2, <1>3
<1>5. CASE Become(w, failed)
  BY <1>1, <1>5, QuietTyped
<1>6. CASE Become(w, k)
  BY <1>1, <1>4, <1>6, QuietTyped
<1> QED BY <1>3, <1>5, <1>6 DEF Lookup

LEMMA StoreTyped ==
  ASSUME TypeInv, MembershipInv', NEW w \in Workers, NEW j, j = job[w], j.chr \in Characters,
         NEW record \in Character, NEW pc,
         \A k : Follows(j, k, pc) /\ k.answer = None /\ k.asOf = 0 => JobOK(k),
         StoreAnswer(w, record, Goto(j, pc))
  PROVE  TypeInv'
<1>1. /\ charReg' = Put(charReg, j.chr, record)
      /\ UNCHANGED <<sourceVars, member, told>>
  BY DEF StoreAnswer
<1>2. PICK k : k = [Goto(j, pc) EXCEPT !.answer = None, !.asOf = 0, !.rec = record]
  OBVIOUS
<1>3. Become(w, k)
  BY <1>2 DEF StoreAnswer
<1>4. DOMAIN j = JobFields
  BY DEF TypeInv, JobOK
<1>5. Follows(j, k, pc) /\ k.answer = None /\ k.asOf = 0
  BY <1>2, <1>4 DEF Follows, Goto, JobFields
<1>6. JobOK(k) /\ k.event = j.event
  BY <1>5 DEF Follows
<1>7. /\ DOMAIN charReg' \subseteq Characters
      /\ \A d \in DOMAIN charReg' : charReg'[d] \in Character
  BY <1>1, PutTyped
<1> QED BY <1>1, <1>3, <1>6, <1>7, StepTyped DEF TypeInv

LEMMA BeginTyped ==
  ASSUME TypeInv, MembershipInv', NEW w \in Workers, Begin(w)
  PROVE  TypeInv'
<1> DEFINE j == job[w]
           next == IF j.op = "JOIN" THEN "enter" ELSE "set"
           failed == IF j.op = "LOGIN" THEN Goto(j, "login.fetch") ELSE NoJob
<1>1. JobOK(j) /\ j.pc = "get"
  BY DEF TypeInv, Begin, At
<1>2. j.chr \in Characters
  BY <1>1 DEF JobOK, NoJob
<1>3. "JOIN" \notin EventTypes /\ "LOGIN" \in EventTypes
  BY DEF EventTypes
<1>4. ASSUME NEW k, Follows(j, k, next), k.answer \in Session \cup {None}, k.asOf \in 0..emitted
      PROVE  JobOK(k)
  <2>1. j.event = None <=> next = "enter"
    BY <1>1, <1>3 DEF JobOK, EventOK
  <2>2. k # NoJob => k.chr \in Characters
    BY <1>2, <1>4 DEF Follows
  <2> QED BY <1>1, <1>3, <1>4, <2>1, <2>2 DEF JobOK, Follows, EventPcs
<1>5. 0 \in 0..emitted
  BY AttributesAssumption DEF TypeInv
<1>6. DOMAIN j = JobFields /\ j.answer \in Session \cup {None} /\ j.asOf \in 0..emitted
  BY <1>1 DEF JobOK
<1>7. JobOK(failed) /\ (failed.event # None => j.event # None)
  <2>1. CASE j.op = "LOGIN"
    <3>1. j.event # None
      BY <1>1, <1>3, <2>1 DEF JobOK
    <3>2. PICK k : k = Goto(j, "login.fetch")
      OBVIOUS
    <3>3. Follows(j, k, "login.fetch") /\ k.answer = j.answer /\ k.asOf = j.asOf
      BY <1>6, <3>2, Going
    <3>4. JobOK(k)
      BY <1>1, <1>2, <2>1, <3>1, <3>3 DEF JobOK, Follows, EventPcs
    <3> QED BY <2>1, <3>1, <3>2, <3>4
  <2>2. CASE j.op # "LOGIN"
    BY <2>2, NoJobTyped
  <2> QED BY <2>1, <2>2
<1>8. GetById(w, Goto(j, next), failed)
  BY DEF Begin
<1> HIDE DEF next, failed
<1>9. CASE Become(w, [Goto(j, next) EXCEPT !.rec = charReg[j.chr]])
           /\ UNCHANGED <<sourceVars, charReg, historyVars>>
  <2>1. PICK k : k = [Goto(j, next) EXCEPT !.rec = charReg[j.chr]]
    OBVIOUS
  <2>2. Follows(j, k, next) /\ k.answer = j.answer /\ k.asOf = j.asOf
    BY <1>6, <2>1 DEF Follows, Goto, JobFields
  <2>3. JobOK(k) /\ k.event = j.event
    BY <1>4, <1>6, <2>2 DEF Follows
  <2> QED BY <1>9, <2>1, <2>3, QuietTyped DEF historyVars
<1>10. CASE Lookup(w, j, failed)
  <2>1. ASSUME NEW a \in Session
        PROVE  /\ JobOK([j EXCEPT !.answer = a, !.asOf = emitted])
               /\ [j EXCEPT !.answer = a, !.asOf = emitted].event = j.event
    <3>1. PICK k : k = [j EXCEPT !.answer = a, !.asOf = emitted]
      OBVIOUS
    <3>2. Follows(j, k, j.pc) /\ k.answer = a /\ k.asOf = emitted
      BY <1>6, <3>1 DEF Follows, JobFields
    <3>3. emitted \in 0..emitted
      BY AttributesAssumption DEF TypeInv
    <3>4. JobOK(k)
      BY <1>1, <1>2, <3>2, <3>3 DEF JobOK, Follows
    <3> QED BY <3>1, <3>2, <3>4 DEF Follows
  <2> QED BY <1>2, <1>7, <1>10, <2>1, LookupTyped
<1>11. CASE j.answer # None /\ StoreAnswer(w, Fresh(j.answer, j.answer.mapId, NoChannel), Goto(j, next))
  <2>1. j.answer \in Session /\ j.answer.mapId \in Maps
    BY <1>6, <1>11 DEF Session
  <2>2. Fresh(j.answer, j.answer.mapId, NoChannel) \in Character
    BY <2>1, FillTyped
  <2>3. \A k : Follows(j, k, next) /\ k.answer = None /\ k.asOf = 0 => JobOK(k)
    BY <1>4, <1>5
  <2> QED BY <1>2, <1>11, <2>2, <2>3, StoreTyped
<1> QED BY <1>8, <1>9, <1>10, <1>11 DEF GetById

LEMMA LoginTyped ==
  ASSUME TypeInv, MembershipInv', NEW w \in Workers, LoginFetch(w) \/ LoginCreate(w)
  PROVE  TypeInv'
<1> DEFINE j == job[w]
<1>1. JobOK(j) /\ j.pc \in {"login.fetch", "login.create"} /\ j.event # None
  BY DEF TypeInv, LoginFetch, LoginCreate, At, JobOK
<1>2. /\ j.chr \in Characters /\ j.op = "LOGIN" /\ EventOK(j.event) /\ DOMAIN j = JobFields
      /\ 0 \in 0..emitted /\ emitted \in 0..emitted
  BY <1>1, AttributesAssumption DEF JobOK, NoJob, TypeInv
<1>3. CASE LoginFetch(w)
  <2>1. ASSUME NEW a \in Session
        PROVE  /\ JobOK([Goto(j, "login.create") EXCEPT !.answer = a, !.asOf = emitted])
               /\ [Goto(j, "login.create") EXCEPT !.answer = a, !.asOf = emitted].event = j.event
    <3>1. PICK k : k = [Goto(j, "login.create") EXCEPT !.answer = a, !.asOf = emitted]
      OBVIOUS
    <3>2. Follows(j, k, "login.create") /\ k.answer = a /\ k.asOf = emitted
      BY <1>2, <3>1 DEF Follows, Goto, JobFields
    <3>3. JobOK(k)
      BY <1>1, <1>2, <3>2, NothingThere DEF JobOK, Follows, EventPcs
    <3> QED BY <3>1, <3>2, <3>3 DEF Follows
  <2>2. Lookup(w, Goto(j, "login.create"), NoJob)
    BY <1>3 DEF LoginFetch
  <2> QED BY <1>2, <2>1, <2>2, NoJobTyped, LookupTyped
<1>4. CASE LoginCreate(w)
  <2>1. j.answer \in Session
    BY <1>1, <1>4 DEF JobOK, LoginCreate, At
  <2>2. Body(w).mapId \in Maps /\ Body(w).channelId \in Channels
    BY <1>2 DEF Body, EventOK, Session
  <2>3. Fresh(j.answer, Body(w).mapId, Body(w).channelId) \in Character
    BY <2>1, <2>2, FillTyped
  <2>4. \A k : Follows(j, k, "set") /\ k.answer = None /\ k.asOf = 0 => JobOK(k)
    BY <1>1, <1>2 DEF JobOK, Follows, EventPcs
  <2> QED BY <1>2, <1>4, <2>3, <2>4, StoreTyped DEF LoginCreate
<1> QED BY <1>3, <1>4

LEMMA AttributeSetTyped ==
  ASSUME TypeInv, MembershipInv', NEW w \in Workers, AttributeSet(w)
  PROVE  TypeInv'
<1> DEFINE j == job[w]
           c == j.chr
<1>1. j.pc = "set" /\ JobOK(j)
  BY DEF TypeInv, AttributeSet, LoginSet, LogoutSet, ChannelChangeSet, MapChangeSet, LevelChangeSet,
         JobChangeSet, Handling, At
<1>2. /\ c \in Characters /\ j.event # None /\ EventOK(j.event) /\ j.op = j.event.type
      /\ DOMAIN j = JobFields
  BY <1>1 DEF JobOK, NoJob
<1>3. Stored(w) \in Character
  <2>1. Updating(j)
    BY <1>1 DEF Updating
  <2> QED BY <2>1 DEF TypeInv, MembershipInv, JobsOK, Cached, Stored
<1>4. Body(w) \in Session
  BY <1>2 DEF Body, EventOK
<1>5. /\ Body(w).mapId \in Maps /\ Body(w).channelId \in Channels /\ Body(w).level \in Levels
      /\ Body(w).jobId \in JobIds
  BY <1>4 DEF Session
<1>6. PICK record : SetRecord(w, record) /\ record \in Character
  BY <1>3, <1>5, SettersTyped
  DEF AttributeSet, LoginSet, LogoutSet, ChannelChangeSet, MapChangeSet, LevelChangeSet,
      JobChangeSet
<1>7. charReg' = Put(charReg, c, record) /\ UNCHANGED <<sourceVars, member, told>>
  BY <1>6 DEF SetRecord, historyVars
<1>8. PICK k : /\ Become(w, k)
               /\ \/ k = NoJob
                  \/ /\ k = Goto(j, "emit")
                     /\ j.event.type \notin {"MAP_CHANGED", "CHANNEL_CHANGED"}
  BY <1>6 DEF SetRecord
<1>9. JobOK(k) /\ (k.event # None => j.event # None)
  <2>1. CASE k = NoJob
    BY <1>2, <2>1, NoJobTyped
  <2>2. CASE k = Goto(j, "emit") /\ j.event.type \notin {"MAP_CHANGED", "CHANNEL_CHANGED"}
    <3>1. j.event.type \in Announced
      BY <1>2, <2>2 DEF EventOK, EventTypes, Announced
    <3>2. Follows(j, k, "emit") /\ k.answer = j.answer /\ k.asOf = j.asOf
      BY <1>2, <2>2, Going
    <3> QED BY <1>1, <1>2, <3>1, <3>2 DEF JobOK, Follows, EventPcs
  <2> QED BY <1>8, <2>1, <2>2
<1>10. /\ DOMAIN charReg' \subseteq Characters
       /\ \A d \in DOMAIN charReg' : charReg'[d] \in Character
  BY <1>2, <1>6, <1>7, PutTyped
<1> QED BY <1>7, <1>8, <1>9, <1>10, StepTyped DEF TypeInv

LEMMA MembershipSetTyped ==
  ASSUME TypeInv, MembershipInv', NEW w \in Workers, MembershipSet(w)
  PROVE  TypeInv'
<1> DEFINE j == job[w]
           c == j.chr
<1>1. j.pc \in {"enter", "leave.set"} /\ JobOK(j)
  BY DEF TypeInv, MembershipSet, JoinPartySet, LeavePartySet, At
<1>2. c \in Characters /\ j.party \in Parties \cup {NoParty}
  BY <1>1 DEF JobOK, NoJob
<1>3. Stored(w) \in Character
  <2>1. Updating(j)
    BY <1>1 DEF Updating
  <2> QED BY <2>1 DEF TypeInv, MembershipInv, JobsOK, Cached, Stored
<1>4. PICK record : Membership(w, record) /\ record \in Character
  BY <1>2, <1>3, SettersTyped
  DEF MembershipSet, JoinPartySet, LeavePartySet
<1>5. /\ charReg' = Put(charReg, c, record) /\ UNCHANGED <<sourceVars, late>>
      /\ member' = [member EXCEPT ![c] = record.partyId]
      /\ told' = [told EXCEPT ![c] = IF record.partyId = NoParty THEN None ELSE record]
      /\ Become(w, NoJob)
  BY <1>4 DEF Membership
<1>6. member' \in [Characters -> Parties \cup {NoParty}]
  BY <1>4, <1>5 DEF TypeInv, Character
<1>7. DOMAIN told' = Characters /\ \A d \in Characters : told'[d] \in Fellow \cup {None}
  BY <1>2, <1>4, <1>5, RecordsTold DEF TypeInv
<1>8. /\ DOMAIN charReg' \subseteq Characters
      /\ \A d \in DOMAIN charReg' : charReg'[d] \in Character
  BY <1>2, <1>4, <1>5, PutTyped
<1> QED BY <1>5, <1>6, <1>7, <1>8, NoJobTyped, StepTyped

LEMMA TellingTyped ==
  ASSUME NEW known \in Fellow
  PROVE  /\ Login(known) \in Fellow /\ Logout(known) \in Fellow
         /\ \A l \in Levels : ChangeLevel(known, l) \in Fellow
         /\ \A id \in JobIds : ChangeJob(known, id) \in Fellow
  BY DEF Fellow, Login, Logout, ChangeLevel, ChangeJob

LEMMA MissingTyped ==
  ASSUME NEW known \in Fellow
  PROVE  /\ [known EXCEPT !.online = Unheard] \in Fellow
         /\ [known EXCEPT !.level = Unheard] \in Fellow
         /\ [known EXCEPT !.jobId = Unheard] \in Fellow
  BY DEF Fellow

LEMMA LearnTyped ==
  ASSUME NEW known \in Fellow \cup {None}, NEW e, EventOK(e), e.type \in Announced
  PROVE  /\ Learn(known, MemberEvent(e)) \in Fellow \cup {None}
         /\ Miss(known, MemberEvent(e)) \in Fellow \cup {None}
<1>0. PICK m : m = MemberEvent(e)
  OBVIOUS
<1>1. /\ e.body.level \in Levels /\ e.body.jobId \in JobIds
  BY DEF EventOK, Session
<1>2. /\ m.type = e.type
      /\ e.type = "LEVEL_CHANGED" => m.newLevel = e.body.level
      /\ e.type = "JOB_CHANGED" => m.newJobId = e.body.jobId
  BY <1>0 DEF MemberEvent, Announced
<1>3. CASE known = None
  <2>1. /\ Login(known) = known /\ Logout(known) = known
        /\ \A l : ChangeLevel(known, l) = known
        /\ \A id : ChangeJob(known, id) = known
    BY <1>3 DEF None, Login, Logout, ChangeLevel, ChangeJob
  <2>2. /\ [known EXCEPT !.online = Unheard] = known /\ [known EXCEPT !.level = Unheard] = known
        /\ [known EXCEPT !.jobId = Unheard] = known
    BY <1>3 DEF None
  <2> QED BY <1>0, <1>2, <1>3, <2>1, <2>2 DEF Learn, Miss, Announced
<1>4. CASE known \in Fellow /\ known # None
  <2>1. /\ Login(known) \in Fellow /\ Logout(known) \in Fellow
        /\ ChangeLevel(known, e.body.level) \in Fellow
        /\ ChangeJob(known, e.body.jobId) \in Fellow
    BY <1>1, <1>4, TellingTyped
  <2>2. /\ [known EXCEPT !.online = Unheard] \in Fellow
        /\ [known EXCEPT !.level = Unheard] \in Fellow
        /\ [known EXCEPT !.jobId = Unheard] \in Fellow
    BY <1>4, MissingTyped
  <2>3. Learn(known, m) \in Fellow
    BY <1>2, <1>4, <2>1 DEF Learn, Announced
  <2>4. Miss(known, m) \in Fellow
    BY <1>2, <1>4, <2>2 DEF Miss, Announced
  <2> QED BY <1>0, <2>3, <2>4
<1> QED BY <1>3, <1>4

LEMMA EmitTyped ==
  ASSUME TypeInv, MembershipInv', NEW w \in Workers, EventEmit(w)
  PROVE  TypeInv'
<1> DEFINE j == job[w]
           c == j.chr
<1>1. j.pc = "emit" /\ JobOK(j)
  BY DEF TypeInv, EventEmit, At
<1>2. c \in Characters /\ j.event # None /\ EventOK(j.event) /\ j.event.type \in Announced
  BY <1>1 DEF JobOK, NoJob
<1>3. /\ \/ told' = [told EXCEPT ![c] = Learn(told[c], MemberEvent(j.event))]
         \/ told' = [told EXCEPT ![c] = Miss(told[c], MemberEvent(j.event))]
      /\ Become(w, NoJob) /\ UNCHANGED <<sourceVars, charReg, member>>
  BY DEF EventEmit
<1>4. /\ Learn(told[c], MemberEvent(j.event)) \in Fellow \cup {None}
      /\ Miss(told[c], MemberEvent(j.event)) \in Fellow \cup {None}
  BY <1>2, LearnTyped DEF TypeInv
<1>5. DOMAIN told' = Characters /\ \A d \in Characters : told'[d] \in Fellow \cup {None}
  BY <1>2, <1>3, <1>4 DEF TypeInv
<1> QED BY <1>3, <1>5, NoJobTyped, StepTyped DEF TypeInv

LEMMA CommandTyped ==
  ASSUME TypeInv, MembershipInv', NEW w \in Workers, LeavePartyGet(w) \/ ReceiveCommand(w)
  PROVE  TypeInv'
<1> DEFINE j == job[w]
<1>1. UNCHANGED <<sourceVars, charReg, member, told>>
  BY DEF LeavePartyGet, ReceiveCommand, historyVars
<1>2. 0 \in 0..emitted
  BY AttributesAssumption DEF TypeInv
<1>3. PICK k : Become(w, k) /\ JobOK(k) /\ (k.event # None => j.event # None)
  <2>1. CASE LeavePartyGet(w)
    <3>1. j.pc = "leave" /\ JobOK(j)
      BY <2>1 DEF TypeInv, LeavePartyGet, At
    <3>2. j.event = None /\ j.chr \in Characters /\ DOMAIN j = JobFields
      BY <3>1 DEF JobOK, EventPcs, NoJob
    <3>3. PICK k : k = Goto(j, "leave.set")
      OBVIOUS
    <3>4. Follows(j, k, "leave.set") /\ k.answer = j.answer /\ k.asOf = j.asOf
      BY <3>2, <3>3, Going
    <3>5. JobOK(k) /\ k.event = None
      BY <3>1, <3>2, <3>4 DEF JobOK, Follows
    <3>6. Become(w, k) \/ Become(w, NoJob)
      BY <2>1, <3>3 DEF LeavePartyGet
    <3> QED BY <3>5, <3>6, NoJobTyped
  <2>2. CASE ReceiveCommand(w)
    <3>1. CASE \E c \in Characters, p \in Parties :
                 Become(w, [NoJob EXCEPT !.op = "JOIN", !.pc = "get", !.chr = c, !.party = p])
      <4>1. PICK c \in Characters, p \in Parties :
              Become(w, [NoJob EXCEPT !.op = "JOIN", !.pc = "get", !.chr = c, !.party = p])
        BY <3>1
      <4>2. PICK k : k = [NoJob EXCEPT !.op = "JOIN", !.pc = "get", !.chr = c, !.party = p]
        OBVIOUS
      <4>3. /\ DOMAIN k = JobFields /\ k.op = "JOIN" /\ k.pc = "get" /\ k.chr = c /\ k.party = p
            /\ k.event = None /\ k.answer = None /\ k.asOf = 0
        BY <4>2 DEF NoJob, JobFields
      <4>4. JobOK(k)
        BY <1>2, <4>3 DEF JobOK, EventTypes
      <4> QED BY <4>1, <4>2, <4>3, <4>4
    <3>2. CASE \E c \in Characters :
                 Become(w, [NoJob EXCEPT !.op = "LEAVE", !.pc = "leave", !.chr = c])
      <4>1. PICK c \in Characters : Become(w, [NoJob EXCEPT !.op = "LEAVE", !.pc = "leave", !.chr = c])
        BY <3>2
      <4>2. PICK k : k = [NoJob EXCEPT !.op = "LEAVE", !.pc = "leave", !.chr = c]
        OBVIOUS
      <4>3. /\ DOMAIN k = JobFields /\ k.op = "LEAVE" /\ k.pc = "leave" /\ k.chr = c
            /\ k.party = NoParty /\ k.event = None /\ k.answer = None /\ k.asOf = 0
        BY <4>2 DEF NoJob, JobFields
      <4>4. JobOK(k)
        BY <1>2, <4>3 DEF JobOK, EventTypes
      <4> QED BY <4>1, <4>2, <4>3, <4>4
    <3> QED BY <2>2, <3>1, <3>2 DEF ReceiveCommand
  <2> QED BY <2>1, <2>2
<1> QED BY <1>1, <1>3, QuietTyped

\* An event taken is one more in flight and one less in the topic.
LEMMA ReceivedEvent ==
  ASSUME TypeInv, NEW w \in Workers, ReceiveEvent(w)
  PROVE  /\ w \in Consuming /\ job[w] = NoJob
         /\ Len(topic) \in Nat \ {0} /\ topic[1] \in Events /\ topic' = Tail(topic)
         /\ UNCHANGED <<source, emitted, charReg, member, late, told>>
         /\ \A v \in Workers : v # w => job'[v] = job[v]
         /\ DOMAIN job'[w] = JobFields
         /\ job'[w].op = topic[1].type /\ job'[w].pc = "get" /\ job'[w].chr = topic[1].chr
         /\ job'[w].event = topic[1] /\ job'[w].party = NoParty /\ job'[w].answer = None
         /\ job'[w].asOf = 0
<1>1. /\ w \in Consuming /\ job[w] = NoJob /\ topic # <<>> /\ topic' = Tail(topic)
      /\ UNCHANGED <<source, emitted, charReg, member, late, told>>
  BY DEF ReceiveEvent, Idle, historyVars
<1>2. Len(topic) \in Nat \ {0} /\ topic[1] \in Events /\ Head(topic) = topic[1]
  BY <1>1 DEF TypeInv
<1>3. PICK e : e = topic[1]
  OBVIOUS
<1>4. PICK k : k = [NoJob EXCEPT !.op = e.type, !.pc = "get", !.chr = e.chr, !.event = e]
  OBVIOUS
<1>5. Become(w, k)
  BY <1>2, <1>3, <1>4 DEF ReceiveEvent
<1>6. /\ DOMAIN k = JobFields
      /\ k.op = e.type /\ k.pc = "get" /\ k.chr = e.chr /\ k.event = e /\ k.party = NoParty
      /\ k.answer = None /\ k.asOf = 0
  BY <1>4 DEF NoJob, JobFields
<1>7. \A v \in Workers : job'[v] = IF v = w THEN k ELSE job[v]
  BY <1>5 DEF Become, TypeInv, MembershipInv, JobsOK
<1> QED BY <1>1, <1>2, <1>3, <1>6, <1>7

LEMMA ReceiveTyped ==
  ASSUME TypeInv, MembershipInv', NEW w \in Workers, ReceiveEvent(w)
  PROVE  TypeInv'
<1>1. /\ w \in Workers /\ job[w] = NoJob
      /\ Len(topic) \in Nat \ {0} /\ topic[1] \in Events /\ topic' = Tail(topic)
      /\ UNCHANGED <<source, emitted, charReg, member, late, told>>
      /\ \A v \in Workers : v # w => job'[v] = job[v]
  BY ReceivedEvent
<1>2. JobOK(job'[w])
  <2>1. EventOK(topic[1]) /\ topic[1].type \in EventTypes /\ topic[1].chr \in Characters
    BY <1>1 DEF Events
  <2>2. /\ DOMAIN job'[w] = JobFields
        /\ job'[w].op = topic[1].type /\ job'[w].pc = "get" /\ job'[w].chr = topic[1].chr
        /\ job'[w].event = topic[1] /\ job'[w].party = NoParty /\ job'[w].answer = None
        /\ job'[w].asOf = 0
    BY ReceivedEvent
  <2>3. 0 \in 0..emitted /\ topic[1] # None
    BY <2>1, NothingThere, AttributesAssumption DEF TypeInv
  <2> QED BY <2>1, <2>2, <2>3 DEF JobOK, EventPcs
<1>3. \A v \in Workers : JobOK(job[v])'
  BY <1>1, <1>2 DEF TypeInv, JobOK
<1>4. InFlight' \subseteq InFlight \cup {w}
  BY <1>1 DEF InFlight
<1>5. w \notin InFlight
  BY <1>1, NoJobTyped DEF InFlight
<1>6. IsFiniteSet(InFlight \cup {w}) /\ Cardinality(InFlight \cup {w}) = Cardinality(InFlight) + 1
  BY <1>5, FS_AddElement DEF TypeInv
<1>7. IsFiniteSet(InFlight') /\ Cardinality(InFlight') <= Cardinality(InFlight) + 1
  BY <1>4, <1>6, FS_Subset
<1>8. topic' \in Seq(Events) /\ Len(topic') = Len(topic) - 1
  BY <1>1 DEF TypeInv
<1>9. Cardinality(InFlight') + Len(topic') <= emitted'
  <2>1. Cardinality(InFlight) \in Nat /\ Cardinality(InFlight') \in Nat
    BY <1>7, FS_CardinalityType DEF TypeInv
  <2>2. emitted \in Nat /\ Cardinality(InFlight) + Len(topic) <= emitted
    BY DEF TypeInv
  <2> QED BY <1>1, <1>7, <1>8, <2>1, <2>2
<1> QED BY <1>1, <1>3, <1>7, <1>8, <1>9 DEF TypeInv

\* What a change of the character service does: the topic grows by its event.
LEMMA SourceChanged ==
  ASSUME TypeInv, NEW c \in Characters, SourceChanges(c)
  PROVE  \E e \in Events :
           /\ e.chr = c
           /\ topic' = Append(topic, e) /\ emitted < MaxEvents /\ emitted' = emitted + 1
           /\ source' = [source EXCEPT ![c] = e.body]
           /\ UNCHANGED <<charReg, job, member, late, told>>
           /\ \A a \in Aspects : Part(e.body, a) = Part(source[c], a) \/ e.type \in Touching(a)
<1> DEFINE s == source[c]
<1>1. s \in Session
  BY DEF TypeInv
<1>2. ASSUME NEW type \in EventTypes, NEW held \in Session, Change(type, c, held),
             type \in {"LOGIN", "CHANNEL_CHANGED"} => held.online,
             type = "LOGOUT" => ~held.online,
             \A a \in Aspects : Part(held, a) = Part(s, a) \/ type \in Touching(a)
      PROVE  \E e \in Events :
               /\ e.chr = c
               /\ topic' = Append(topic, e) /\ emitted < MaxEvents /\ emitted' = emitted + 1
               /\ source' = [source EXCEPT ![c] = e.body]
               /\ UNCHANGED <<charReg, job, member, late, told>>
               /\ \A a \in Aspects : Part(e.body, a) = Part(s, a) \/ e.type \in Touching(a)
  <2>1. PICK e : e = Event(type, c, held)
    OBVIOUS
  <2>2. e \in Events /\ e.chr = c /\ e.body = held /\ e.type = type
    BY <1>2, <2>1 DEF Event, Events, EventOK
  <2>3. /\ topic' = Append(topic, e) /\ emitted < MaxEvents /\ emitted' = emitted + 1
        /\ source' = [source EXCEPT ![c] = e.body]
        /\ UNCHANGED <<charReg, job, member, late, told>>
    BY <1>2, <2>1, <2>2 DEF Change, historyVars
  <2> QED BY <1>2, <2>2, <2>3
<1>3. CASE \E ch \in Channels : ~s.online /\ Change("LOGIN", c, [s EXCEPT !.online = TRUE, !.channelId = ch])
  <2>1. PICK ch \in Channels : Change("LOGIN", c, [s EXCEPT !.online = TRUE, !.channelId = ch])
    BY <1>3
  <2>2. PICK held : held = [s EXCEPT !.online = TRUE, !.channelId = ch]
    OBVIOUS
  <2>3. /\ held \in Session /\ held.online
        /\ held.mapId = s.mapId /\ held.level = s.level /\ held.jobId = s.jobId
    BY <1>1, <2>2 DEF Session
  <2>4. \A a \in Aspects : Part(held, a) = Part(s, a) \/ "LOGIN" \in Touching(a)
    BY <2>3 DEF Aspects, Attributes, Part, Touching
  <2>5. Change("LOGIN", c, held)
    BY <2>1, <2>2
  <2> QED BY <1>2, <2>3, <2>4, <2>5 DEF EventTypes
<1>4. CASE s.online /\ Change("LOGOUT", c, [s EXCEPT !.online = FALSE])
  <2>2. PICK held : held = [s EXCEPT !.online = FALSE]
    OBVIOUS
  <2>3. /\ held \in Session /\ ~held.online
        /\ held.mapId = s.mapId /\ held.level = s.level /\ held.jobId = s.jobId
    BY <1>1, <2>2 DEF Session
  <2>4. \A a \in Aspects : Part(held, a) = Part(s, a) \/ "LOGOUT" \in Touching(a)
    BY <2>3 DEF Aspects, Attributes, Part, Touching
  <2>5. Change("LOGOUT", c, held)
    BY <1>4, <2>2
  <2> QED BY <1>2, <2>3, <2>4, <2>5 DEF EventTypes
<1>5. CASE \E ch \in Channels \ {s.channelId} :
             s.online /\ Change("CHANNEL_CHANGED", c, [s EXCEPT !.channelId = ch])
  <2>1. PICK ch \in Channels : s.online /\ Change("CHANNEL_CHANGED", c, [s EXCEPT !.channelId = ch])
    BY <1>5
  <2>2. PICK held : held = [s EXCEPT !.channelId = ch]
    OBVIOUS
  <2>3. /\ held \in Session /\ held.online
        /\ held.mapId = s.mapId /\ held.level = s.level /\ held.jobId = s.jobId
    BY <1>1, <2>1, <2>2 DEF Session
  <2>4. \A a \in Aspects : Part(held, a) = Part(s, a) \/ "CHANNEL_CHANGED" \in Touching(a)
    BY <2>3 DEF Aspects, Attributes, Part, Touching
  <2>5. Change("CHANNEL_CHANGED", c, held)
    BY <2>1, <2>2
  <2> QED BY <1>2, <2>3, <2>4, <2>5 DEF EventTypes
<1>6. CASE \E m \in Maps \ {s.mapId} : Change("MAP_CHANGED", c, [s EXCEPT !.mapId = m])
  <2>1. PICK m \in Maps : Change("MAP_CHANGED", c, [s EXCEPT !.mapId = m])
    BY <1>6
  <2>2. PICK held : held = [s EXCEPT !.mapId = m]
    OBVIOUS
  <2>3. /\ held \in Session /\ held.online = s.online /\ held.channelId = s.channelId
        /\ held.level = s.level /\ held.jobId = s.jobId
    BY <1>1, <2>2 DEF Session
  <2>4. \A a \in Aspects : Part(held, a) = Part(s, a) \/ "MAP_CHANGED" \in Touching(a)
    BY <2>3 DEF Aspects, Attributes, Part, Touching
  <2>5. Change("MAP_CHANGED", c, held)
    BY <2>1, <2>2
  <2> QED BY <1>2, <2>3, <2>4, <2>5 DEF EventTypes
<1>7. CASE \E l \in Levels \ {s.level} : Change("LEVEL_CHANGED", c, [s EXCEPT !.level = l])
  <2>1. PICK l \in Levels : Change("LEVEL_CHANGED", c, [s EXCEPT !.level = l])
    BY <1>7
  <2>2. PICK held : held = [s EXCEPT !.level = l]
    OBVIOUS
  <2>3. /\ held \in Session /\ held.online = s.online /\ held.channelId = s.channelId
        /\ held.mapId = s.mapId /\ held.jobId = s.jobId
    BY <1>1, <2>2 DEF Session
  <2>4. \A a \in Aspects : Part(held, a) = Part(s, a) \/ "LEVEL_CHANGED" \in Touching(a)
    BY <2>3 DEF Aspects, Attributes, Part, Touching
  <2>5. Change("LEVEL_CHANGED", c, held)
    BY <2>1, <2>2
  <2> QED BY <1>2, <2>3, <2>4, <2>5 DEF EventTypes
<1>8. CASE \E id \in JobIds \ {s.jobId} : Change("JOB_CHANGED", c, [s EXCEPT !.jobId = id])
  <2>1. PICK id \in JobIds : Change("JOB_CHANGED", c, [s EXCEPT !.jobId = id])
    BY <1>8
  <2>2. PICK held : held = [s EXCEPT !.jobId = id]
    OBVIOUS
  <2>3. /\ held \in Session /\ held.online = s.online /\ held.channelId = s.channelId
        /\ held.mapId = s.mapId /\ held.level = s.level
    BY <1>1, <2>2 DEF Session
  <2>4. \A a \in Aspects : Part(held, a) = Part(s, a) \/ "JOB_CHANGED" \in Touching(a)
    BY <2>3 DEF Aspects, Attributes, Part, Touching
  <2>5. Change("JOB_CHANGED", c, held)
    BY <2>1, <2>2
  <2> QED BY <1>2, <2>3, <2>4, <2>5 DEF EventTypes
<1> QED BY <1>3, <1>4, <1>5, <1>6, <1>7, <1>8 DEF SourceChanges

LEMMA SourceTyped ==
  ASSUME TypeInv, MembershipInv', NEW c \in Characters, SourceChanges(c)
  PROVE  TypeInv'
<1>1. PICK e \in Events :
        /\ e.chr = c
        /\ topic' = Append(topic, e) /\ emitted < MaxEvents /\ emitted' = emitted + 1
        /\ source' = [source EXCEPT ![c] = e.body]
        /\ UNCHANGED <<charReg, job, member, late, told>>
  BY SourceChanged
<1>2. e.body \in Session
  BY DEF Events
<1>3. source' \in [Characters -> Session]
  BY <1>1, <1>2 DEF TypeInv
<1>4. topic' \in Seq(Events) /\ Len(topic') = Len(topic) + 1
  BY <1>1 DEF TypeInv
<1>5. emitted' \in 0..MaxEvents /\ emitted' = emitted + 1 /\ emitted \in Nat
  BY <1>1, AttributesAssumption DEF TypeInv
<1>6. InFlight' = InFlight
  BY <1>1 DEF InFlight
<1>7. Cardinality(InFlight') + Len(topic') <= emitted'
  <2>1. Cardinality(InFlight) \in Nat /\ Len(topic) \in Nat
    BY FS_CardinalityType DEF TypeInv
  <2>2. Cardinality(InFlight) + Len(topic) <= emitted
    BY DEF TypeInv
  <2> QED BY <1>4, <1>5, <1>6, <2>1, <2>2
<1>8. \A w \in Workers : JobOK(job[w])'
  <2>1. \A n \in 0..emitted : n \in 0..emitted'
    BY <1>5
  <2> QED BY <1>1, <2>1 DEF TypeInv, JobOK
<1> QED BY <1>1, <1>3, <1>4, <1>5, <1>6, <1>7, <1>8 DEF TypeInv

\* A restart puts at most one event back.
LEMMA RestartTyped ==
  ASSUME TypeInv, MembershipInv', Restart
  PROVE  TypeInv'
<1>1. /\ DOMAIN charReg' = {} /\ job' = [w \in Workers |-> NoJob]
      /\ member' = [c \in Characters |-> NoParty] /\ told' = [c \in Characters |-> None]
      /\ source' = source /\ emitted' = emitted
  BY DEF Restart, EmptyMap
<1>2. JobOK(NoJob)' /\ NoJob.event = None
  <2>1. JobOK(NoJob) /\ NoJob.event = None
    BY NoJobTyped
  <2> QED BY <1>1, <2>1 DEF JobOK
<1>3. InFlight' = {}
  BY <1>1, <1>2 DEF InFlight
<1>4. IsFiniteSet(InFlight') /\ Cardinality(InFlight') = 0
  BY <1>3, FS_EmptySet
<1>5. topic' \in Seq(Events) /\ Len(topic') <= emitted'
  <2>1. Len(topic) \in Nat /\ emitted \in Nat /\ Cardinality(InFlight) \in Nat
        /\ Cardinality(InFlight) + Len(topic) <= emitted
    BY FS_CardinalityType DEF TypeInv
  <2>2. CASE topic' = topic
    BY <1>1, <2>1, <2>2 DEF TypeInv
  <2>3. CASE \E w \in Workers : job[w].event # None /\ topic' = <<job[w].event>> \o topic
    <3>1. PICK w \in Workers : job[w].event # None /\ topic' = <<job[w].event>> \o topic
      BY <2>3
    <3>2. job[w].event \in Events
      BY <3>1 DEF TypeInv, JobOK, EventOK, Events
    <3>3. <<job[w].event>> \in Seq(Events) /\ Len(<<job[w].event>>) = 1
      BY <3>2
    <3>4. topic' \in Seq(Events) /\ Len(topic') = 1 + Len(topic)
      BY <3>1, <3>3 DEF TypeInv
    <3>5. Cardinality(InFlight) # 0
      <4>1. w \in InFlight /\ IsFiniteSet(InFlight)
        BY <3>1 DEF InFlight, TypeInv
      <4> QED BY <4>1, FS_EmptySet
    <3> QED BY <1>1, <2>1, <3>4, <3>5
  <2> QED BY <2>2, <2>3 DEF Restart
<1>6. member' \in [Characters -> Parties \cup {NoParty}]
  BY <1>1
<1>7. \A w \in Workers : JobOK(job[w])'
  BY <1>1, <1>2
<1>8. Cardinality(InFlight') + Len(topic') <= emitted'
  <2>1. Len(topic') \in Nat
    BY <1>5
  <2> QED BY <1>4, <1>5, <2>1
<1> QED BY <1>1, <1>4, <1>5, <1>6, <1>7, <1>8 DEF TypeInv

LEMMA TypeInit == Init => TypeInv
<1> SUFFICES ASSUME Init PROVE TypeInv
  OBVIOUS
<1>1. /\ source \in [Characters -> Session] /\ topic = <<>> /\ emitted = 0 /\ DOMAIN charReg = {}
      /\ job = [w \in Workers |-> NoJob] /\ member = [c \in Characters |-> NoParty]
      /\ told = [c \in Characters |-> None]
  BY DEF Init, EmptyMap
<1>2. MembershipInv
  BY MembershipInit
<1>3. /\ NoJob.op = "none" /\ NoJob.pc = "idle" /\ NoJob.event = None /\ NoJob.answer = None
      /\ NoJob.asOf = 0 /\ NoJob.party = NoParty
  BY DEF NoJob
<1>4. JobOK(NoJob)
  BY <1>1, <1>3, NoJobOK DEF JobOK, EventTypes
<1>5. InFlight = {}
  BY <1>1, <1>3 DEF InFlight
<1>6. IsFiniteSet(InFlight) /\ Cardinality(InFlight) = 0
  BY <1>5, FS_EmptySet
<1>7. topic \in Seq(Events) /\ Len(topic) = 0 /\ emitted \in 0..MaxEvents
  BY <1>1, AttributesAssumption
<1> QED BY <1>1, <1>2, <1>4, <1>6, <1>7 DEF TypeInv

LEMMA TypeNext == TypeInv /\ [Next]_vars => TypeInv'
<1> SUFFICES ASSUME TypeInv, [Next]_vars
             PROVE  TypeInv'
  OBVIOUS
<1>0. MembershipInv'
  BY MembershipNext DEF TypeInv
<1>1. CASE \E w \in Workers : Work(w) \/ ReceiveEvent(w) \/ ReceiveCommand(w)
  <2>1. PICK w \in Workers : Work(w) \/ ReceiveEvent(w) \/ ReceiveCommand(w)
    BY <1>1
  <2>2. \/ Begin(w) \/ LoginFetch(w) \/ LoginCreate(w) \/ AttributeSet(w) \/ MembershipSet(w)
        \/ EventEmit(w) \/ LeavePartyGet(w) \/ ReceiveEvent(w) \/ ReceiveCommand(w)
    BY <2>1 DEF Work, AttributeSet, MembershipSet
  <2> QED BY <1>0, <2>2, BeginTyped, LoginTyped, AttributeSetTyped, MembershipSetTyped, EmitTyped,
             CommandTyped, ReceiveTyped
<1>2. CASE \E c \in Characters : SourceChanges(c)
  BY <1>0, <1>2, SourceTyped
<1>3. CASE Restart
  BY <1>0, <1>3, RestartTyped
<1>4. CASE UNCHANGED vars
  BY <1>0, <1>4 DEF vars, sourceVars, historyVars, TypeInv, InFlight, JobOK
<1> QED BY <1>1, <1>2, <1>3, <1>4 DEF Next

\* Events, jobs and records hold values of their own kind, however many workers read the
\* topic: no setter, no fill and no overtaken answer leaves a zero value in a record
\* (character/model.go, character/processor.go:265).
THEOREM RecordsTyped == Spec => []TypeOK
<1>1. TypeInv => TypeOK
  <2> SUFFICES ASSUME TypeInv PROVE TypeOK
    OBVIOUS
  <2>1. Len(topic) \in 0..emitted
    <3>1. Cardinality(InFlight) \in Nat /\ Len(topic) \in Nat /\ emitted \in Nat
      BY FS_CardinalityType DEF TypeInv
    <3> QED BY <3>1 DEF TypeInv
  <2>2. \A w \in Workers : Idle(w) \/ job[w].chr \in Characters
    BY DEF TypeInv, JobOK, Idle
  <2>3. late \subseteq DOMAIN charReg
    BY DEF TypeInv, MembershipInv, LateOK
  <2> QED BY <2>1, <2>2, <2>3 DEF TypeInv, TypeOK
<1> QED BY <1>1, TypeInit, TypeNext, PTL DEF Spec

-----------------------------------------------------------------------------
(* What is on its way: the steps of workers.                               *)

\* An event, or an answer, that says what is due goes on doing so.
LEMMA StillPending ==
  ASSUME TypeInv, NEW w \in Workers, NEW k, Become(w, k), UNCHANGED sourceVars, NEW c, NEW a,
         Pending(c, a),
         Applying(job[w]) /\ About(job[w].event, c, a) => Applying(k) /\ k.event = job[w].event
  PROVE  Pending(c, a)'
<1>1. topic' = topic
  BY DEF sourceVars
<1>2. \A v \in Workers : job'[v] = IF v = w THEN k ELSE job[v]
  BY DEF Become, TypeInv, MembershipInv, JobsOK
<1>3. CASE Due(c, a)
  BY <1>1, <1>3 DEF Pending, Due
<1>4. CASE \E v \in Workers : Applying(job[v]) /\ About(job[v].event, c, a)
  <2>1. PICK v \in Workers : Applying(job[v]) /\ About(job[v].event, c, a)
    BY <1>4
  <2>2. Applying(job'[v]) /\ About(job'[v].event, c, a)
    BY <1>2, <2>1
  <2> QED BY <2>2 DEF Pending, Applying
<1> QED BY <1>3, <1>4 DEF Pending

LEMMA FlowStep ==
  ASSUME TypeInv, FlowInv, NEW w \in Workers, NEW k, Become(w, k), UNCHANGED sourceVars,
         k.event = None \/ k.event = job[w].event, AnswerOK(k),
         \A v \in Workers : LoginOK(job[v])',
         \A c \in DOMAIN charReg' \ late' : Current(c)',
         \A c \in DOMAIN charReg' : Present(c)'
  PROVE  FlowInv'
<1>1. source' = source /\ topic' = topic /\ emitted' = emitted /\ Taken' = Taken
  BY DEF sourceVars, Taken
<1>2. \A v \in Workers : job'[v] = IF v = w THEN k ELSE job[v]
  BY DEF Become, TypeInv, MembershipInv, JobsOK
<1>3. TopicOK'
  BY <1>1 DEF FlowInv, TopicOK
<1>4. ASSUME NEW v \in Workers
      PROVE  FlightOK(v)' /\ AnswerOK(job[v])'
  <2>1. FlightOK(v)'
    BY <1>1, <1>2 DEF FlowInv, FlightOK, Due
  <2>2. AnswerOK(job[v])'
    BY <1>1, <1>2 DEF FlowInv, AnswerOK
  <2> QED BY <2>1, <2>2
<1> QED BY <1>3, <1>4 DEF FlowInv

\* A step that changes no record.  It gives an event up only where nothing is cached, or
\* where nobody is shown online whom the event says is.
LEMMA FlowQuiet ==
  ASSUME TypeInv, FlowInv, NEW w \in Workers, NEW k, Become(w, k),
         UNCHANGED <<sourceVars, charReg, late>>,
         k.event = None \/ k.event = job[w].event, AnswerOK(k), LoginOK(k),
         Applying(job[w]) => \/ Applying(k) /\ k.event = job[w].event
                             \/ ~Cached(job[w].chr)
                             \/ job[w].op = "LOGIN" /\ ~charReg[job[w].chr].online
  PROVE  FlowInv'
<1>1. source' = source /\ charReg' = charReg /\ late' = late /\ UNCHANGED sourceVars
  BY DEF sourceVars
<1>2. \A v \in Workers : job'[v] = IF v = w THEN k ELSE job[v]
  BY DEF Become, TypeInv, MembershipInv, JobsOK
<1>3. \A v \in Workers : LoginOK(job[v])'
  BY <1>1, <1>2 DEF FlowInv, LoginOK, Cached
<1>4. job[w].event # None => /\ job[w].chr = job[w].event.chr
                             /\ job[w].op = job[w].event.type
  BY DEF TypeInv, JobOK
<1>5. ASSUME NEW c \in DOMAIN charReg, NEW a \in Aspects, Pending(c, a), ~Pending(c, a)'
      PROVE  a = "presence" /\ ~charReg[c].online
  <2>1. Applying(job[w]) /\ About(job[w].event, c, a) /\ ~(Applying(k) /\ k.event = job[w].event)
    BY <1>1, <1>5, StillPending
  <2>2. job[w].chr = c
    BY <1>4, <2>1 DEF About, Applying
  <2>3. job[w].op = "LOGIN" /\ ~charReg[c].online
    BY <2>1, <2>2 DEF Cached
  <2>4. "LOGIN" \in Touching(a)
    BY <1>4, <2>1, <2>3 DEF About, Applying
  <2> QED BY <2>3, <2>4 DEF Touching, Aspects, Attributes
<1>6. \A c \in DOMAIN charReg' \ late' : Current(c)'
  <2>1. ASSUME NEW c \in DOMAIN charReg' \ late', NEW a \in Attributes
        PROVE  Part(charReg[c], a)' = Part(source[c], a)' \/ Pending(c, a)'
    <3>1. Part(charReg[c], a) = Part(source[c], a) \/ Pending(c, a)
      BY <1>1, <2>1 DEF FlowInv, Current
    <3>2. a \in Aspects /\ a # "presence"
      BY DEF Aspects, Attributes
    <3> QED BY <1>1, <1>5, <3>1, <3>2 DEF Part
  <2> QED BY <2>1 DEF Current
<1>7. \A c \in DOMAIN charReg' : Present(c)'
  <2>1. ASSUME NEW c \in DOMAIN charReg', charReg'[c].online
        PROVE  Part(charReg[c], "presence")' = Part(source[c], "presence")' \/ Pending(c, "presence")'
    <3>1. Part(charReg[c], "presence") = Part(source[c], "presence") \/ Pending(c, "presence")
      BY <1>1, <2>1 DEF FlowInv, Present
    <3> QED BY <1>1, <1>5, <2>1, <3>1 DEF Part, Aspects
  <2> QED BY <2>1 DEF Present
<1> QED BY <1>1, <1>3, <1>6, <1>7, FlowStep

\* A step that writes the record of its character.
LEMMA FlowPut ==
  ASSUME TypeInv, FlowInv, NEW w \in Workers, NEW k, Become(w, k), UNCHANGED sourceVars,
         NEW c, c = job[w].chr, NEW record, charReg' = Put(charReg, c, record), late \ {c} \subseteq late',
         k.event = None \/ k.event = job[w].event, AnswerOK(k), k.pc # "login.fetch",
         c \notin late' => Current(c)', Present(c)',
         \A v \in Workers : v # w /\ job[v].pc = "login.fetch" /\ job[v].chr = c => ~record.online
  PROVE  FlowInv'
<1>1. /\ source' = source
      /\ DOMAIN charReg' = DOMAIN charReg \cup {c} /\ charReg'[c] = record
      /\ \A d \in DOMAIN charReg : d # c => charReg'[d] = charReg[d]
  BY DEF sourceVars, Put
<1>2. \A v \in Workers : job'[v] = IF v = w THEN k ELSE job[v]
  BY DEF Become, TypeInv, MembershipInv, JobsOK
<1>3. \A v \in Workers : LoginOK(job[v])'
  BY <1>1, <1>2 DEF FlowInv, LoginOK, Cached
<1>4. ASSUME NEW d, d # c, NEW a, Pending(d, a)
      PROVE  Pending(d, a)'
  <2>1. ~(Applying(job[w]) /\ About(job[w].event, d, a))
    BY <1>4 DEF TypeInv, JobOK, About, Applying
  <2> QED BY <1>4, <2>1, StillPending
<1>5. \A d \in DOMAIN charReg' \ late' : Current(d)'
  <2>1. ASSUME NEW d \in DOMAIN charReg' \ late', d # c, NEW a \in Attributes
        PROVE  Part(charReg[d], a)' = Part(source[d], a)' \/ Pending(d, a)'
    <3>1. Part(charReg[d], a) = Part(source[d], a) \/ Pending(d, a)
      BY <1>1, <2>1 DEF FlowInv, Current
    <3> QED BY <1>1, <1>4, <2>1, <3>1 DEF Part
  <2> QED BY <2>1 DEF Current
<1>6. \A d \in DOMAIN charReg' : Present(d)'
  <2>1. ASSUME NEW d \in DOMAIN charReg', d # c, charReg'[d].online
        PROVE  Part(charReg[d], "presence")' = Part(source[d], "presence")' \/ Pending(d, "presence")'
    <3>1. Part(charReg[d], "presence") = Part(source[d], "presence") \/ Pending(d, "presence")
      BY <1>1, <2>1 DEF FlowInv, Present
    <3> QED BY <1>1, <1>4, <2>1, <3>1 DEF Part
  <2> QED BY <2>1 DEF Present
<1> QED BY <1>3, <1>5, <1>6, FlowStep

\* An event is worked on by one worker.
LEMMA OneAtWork ==
  ASSUME OneConsumer, FlowInv, NEW v \in Workers, NEW w \in Workers,
         job[v].event # None, job[w].event # None
  PROVE  v = w
  BY DEF OneConsumer, FlowInv, FlightOK

LEMMA NoJobFlows == TypeInv => AnswerOK(NoJob) /\ LoginOK(NoJob) /\ NoJob.event = None /\ ~Applying(NoJob)
  BY DEF NoJob, AnswerOK, LoginOK, Applying

\* An answer that no handler has overtaken says what is, or an event does.
LEMMA AnswerCurrent ==
  ASSUME TypeInv, FlowInv, NEW w \in Workers, NEW a \in Attributes, job[w].answer # None,
         ~(job[w].asOf < Taken)
  PROVE  Part(job[w].answer, a) = Part(source[job[w].chr], a) \/ Due(job[w].chr, a)
<1>1. job[w].asOf \in Int /\ Taken \in Int
  BY DEF TypeInv, JobOK, Taken
<1>2. job[w].asOf >= Taken
  BY <1>1
<1>3. AnswerOK(job[w])
  BY DEF FlowInv
<1> QED BY <1>2, <1>3 DEF AnswerOK, Due

LEMMA FlowStore ==
  ASSUME OneConsumer, TypeInv, FlowInv, NEW w \in Workers, NEW c, c = job[w].chr, job[w].answer # None,
         NEW map, NEW ch, NEW pc, pc \notin {"login.fetch", "emit"},
         \/ map = job[w].answer.mapId
         \/ map = source[c].mapId \/ Due(c, "map"),
         StoreAnswer(w, Fresh(job[w].answer, map, ch), Goto(job[w], pc))
  PROVE  FlowInv'
<1>1. PICK record : record = Fresh(job[w].answer, map, ch)
  OBVIOUS
<1>2. /\ charReg' = Put(charReg, c, record) /\ UNCHANGED sourceVars /\ topic' = topic
      /\ source' = source
      /\ late' = IF Cached(c) \/ job[w].asOf < Taken THEN late \cup {c} ELSE late \ {c}
  BY <1>1 DEF StoreAnswer, sourceVars
<1>3. /\ ~record.online /\ record.mapId = map /\ record.level = job[w].answer.level
      /\ record.jobId = job[w].answer.jobId
  BY <1>1 DEF Fresh
<1>4. PICK k : k = [Goto(job[w], pc) EXCEPT !.answer = None, !.asOf = 0, !.rec = record]
  OBVIOUS
<1>5. Become(w, k)
  BY <1>1, <1>4 DEF StoreAnswer
<1>6. Follows(job[w], k, pc) /\ k.answer = None
  BY <1>4 DEF TypeInv, JobOK, Follows, Goto, JobFields
<1>7. AnswerOK(k) /\ k.event = job[w].event /\ k.pc # "login.fetch"
  BY <1>6 DEF AnswerOK, Follows
<1>8. c \in DOMAIN charReg' /\ charReg'[c] = record
  BY <1>2 DEF Put
<1>9. Present(c)'
  BY <1>3, <1>8 DEF Present
<1>10. ASSUME c \notin late'
       PROVE  Current(c)'
  <2>1. ~(job[w].asOf < Taken)
    BY <1>2, <1>10
  <2>2. ASSUME NEW a \in Attributes
        PROVE  Part(record, a) = Part(source[c], a) \/ Due(c, a)
    <3>1. Part(job[w].answer, a) = Part(source[c], a) \/ Due(c, a)
      BY <2>1, AnswerCurrent
    <3>2. CASE a = "map"
      BY <1>3, <3>1, <3>2 DEF Part
    <3>3. CASE a \in {"level", "job"}
      BY <1>3, <3>1, <3>3 DEF Part
    <3> QED BY <3>2, <3>3 DEF Attributes
  <2>3. \A a \in Attributes : Due(c, a) => Pending(c, a)'
    BY <1>2 DEF Due, Pending
  <2>4. \A a \in Attributes : Part(charReg'[c], a) = Part(source'[c], a) \/ Pending(c, a)'
    BY <1>2, <1>8, <2>2, <2>3
  <2> QED BY <2>4 DEF Current, Part
<1>11. late \ {c} \subseteq late'
  BY <1>2
<1> QED BY <1>2, <1>3, <1>5, <1>7, <1>9, <1>10, <1>11, FlowPut

-----------------------------------------------------------------------------
(* The handlers, one by one.                                               *)

\* What was answered just now is what the character service holds.
LEMMA JustAnswered ==
  ASSUME NEW k, NEW c, k.chr = c, k.answer = source[c]
  PROVE  AnswerOK(k)
  BY DEF AnswerOK

LEMMA BeginFlows ==
  ASSUME OneConsumer, TypeInv, FlowInv, NEW w \in Workers, Begin(w)
  PROVE  FlowInv'
<1> DEFINE j == job[w]
           next == IF j.op = "JOIN" THEN "enter" ELSE "set"
           failed == IF j.op = "LOGIN" THEN Goto(j, "login.fetch") ELSE NoJob
<1>1. j.pc = "get" /\ DOMAIN j = JobFields /\ AnswerOK(j) /\ next \in {"enter", "set"}
  BY DEF Begin, At, TypeInv, JobOK, FlowInv
<1>2. GetById(w, Goto(j, next), failed)
  BY DEF Begin
<1> HIDE DEF next
<1>3. CASE /\ j.answer = None
           /\ Become(w, [Goto(j, next) EXCEPT !.rec = charReg[j.chr]])
           /\ UNCHANGED <<sourceVars, charReg, historyVars>>
  <2>1. PICK k : k = [Goto(j, next) EXCEPT !.rec = charReg[j.chr]]
    OBVIOUS
  <2>2. Follows(j, k, next) /\ k.answer = None
    BY <1>1, <1>3, <2>1 DEF Follows, Goto, JobFields
  <2>3. AnswerOK(k) /\ LoginOK(k) /\ k.event = j.event /\ (Applying(j) => Applying(k))
    BY <1>1, <2>2 DEF AnswerOK, LoginOK, Follows, Applying
  <2> QED BY <1>3, <2>1, <2>3, FlowQuiet DEF historyVars
<1>4. CASE j.answer = None /\ ~Cached(j.chr) /\ Lookup(w, j, failed)
  <2>1. UNCHANGED <<sourceVars, charReg, late>>
    BY <1>4 DEF Lookup, historyVars
  <2>2. CASE Become(w, failed)
    <3>1. AnswerOK(failed) /\ LoginOK(failed) /\ (failed.event = None \/ failed.event = j.event)
      <4>1. CASE j.op = "LOGIN"
        <5>1. PICK k : k = Goto(j, "login.fetch")
          OBVIOUS
        <5>2. Follows(j, k, "login.fetch") /\ k.answer = j.answer
          BY <1>1, <5>1, Going
        <5> QED BY <1>4, <4>1, <5>1, <5>2 DEF AnswerOK, LoginOK, Follows
      <4>2. CASE j.op # "LOGIN"
        BY <4>2, NoJobFlows
      <4> QED BY <4>1, <4>2
    <3> QED BY <1>4, <2>1, <2>2, <3>1, FlowQuiet
  <2>3. CASE Become(w, [j EXCEPT !.answer = source[j.chr], !.asOf = emitted])
    <3>1. PICK k : k = [j EXCEPT !.answer = source[j.chr], !.asOf = emitted]
      OBVIOUS
    <3>2. Follows(j, k, "get") /\ k.answer = source[j.chr]
      BY <1>1, <3>1 DEF Follows, JobFields
    <3>3. AnswerOK(k) /\ LoginOK(k) /\ k.event = j.event
      BY <3>2, JustAnswered DEF LoginOK, Follows
    <3> QED BY <1>4, <2>1, <2>3, <3>1, <3>3, FlowQuiet
  <2> QED BY <1>4, <2>2, <2>3 DEF Lookup
<1>5. CASE j.answer # None /\ StoreAnswer(w, Fresh(j.answer, j.answer.mapId, NoChannel), Goto(j, next))
  BY <1>1, <1>5, FlowStore
<1> QED BY <1>2, <1>3, <1>4, <1>5 DEF GetById

\* A login whose two lookups fail is lost with its event: nobody is shown online by it.
LEMMA LoginFlows ==
  ASSUME OneConsumer, TypeInv, FlowInv, NEW w \in Workers, LoginFetch(w) \/ LoginCreate(w)
  PROVE  FlowInv'
<1> DEFINE j == job[w]
<1>1. JobOK(j) /\ DOMAIN j = JobFields
  BY DEF TypeInv, JobOK
<1>2. CASE LoginFetch(w)
  <2>1. j.pc = "login.fetch" /\ Lookup(w, Goto(j, "login.create"), NoJob)
    BY <1>2 DEF LoginFetch, At
  <2>2. UNCHANGED <<sourceVars, charReg, late>>
    BY <2>1 DEF Lookup, historyVars
  <2>3. j.event # None /\ j.op = "LOGIN"
    BY <1>1, <2>1 DEF JobOK
  <2>4. CASE Become(w, NoJob)
    <3>1. ~Cached(j.chr) \/ (j.op = "LOGIN" /\ ~charReg[j.chr].online)
      BY <2>1, <2>3 DEF FlowInv, LoginOK
    <3> QED BY <2>2, <2>4, <3>1, NoJobFlows, FlowQuiet
  <2>5. CASE Become(w, [Goto(j, "login.create") EXCEPT !.answer = source[j.chr], !.asOf = emitted])
    <3>1. PICK k : k = [Goto(j, "login.create") EXCEPT !.answer = source[j.chr], !.asOf = emitted]
      OBVIOUS
    <3>2. Follows(j, k, "login.create") /\ k.answer = source[j.chr]
      BY <1>1, <3>1 DEF Follows, Goto, JobFields
    <3>3. AnswerOK(k) /\ LoginOK(k) /\ k.event = j.event /\ Applying(k)
      BY <2>3, <3>2, JustAnswered DEF LoginOK, Follows, Applying
    <3> QED BY <2>2, <2>5, <3>1, <3>3, FlowQuiet
  <2> QED BY <2>1, <2>4, <2>5 DEF Lookup
<1>3. CASE LoginCreate(w)
  <2>1. /\ j.pc = "login.create" /\ j.answer # None /\ j.event # None /\ j.chr = j.event.chr
        /\ StoreAnswer(w, Fresh(j.answer, Body(w).mapId, Body(w).channelId), Goto(j, "set"))
    BY <1>1, <1>3 DEF LoginCreate, At, JobOK
  <2>2. Part(j.event.body, "map") = Part(source[j.chr], "map") \/ Due(j.chr, "map")
    BY <2>1 DEF FlowInv, FlightOK, Aspects, Attributes
  <2>3. Body(w).mapId = source[j.chr].mapId \/ Due(j.chr, "map")
    BY <2>2 DEF Part, Body
  <2>4. PICK c, map, ch : c = j.chr /\ map = Body(w).mapId /\ ch = Body(w).channelId
    OBVIOUS
  <2>5. PICK pc : pc = "set"
    OBVIOUS
  <2>6. /\ c = job[w].chr /\ job[w].answer # None /\ pc \notin {"login.fetch", "emit"}
        /\ map = source[c].mapId \/ Due(c, "map")
        /\ StoreAnswer(w, Fresh(job[w].answer, map, ch), Goto(job[w], pc))
    BY <2>1, <2>3, <2>4, <2>5
  <2> QED BY <2>6, FlowStore
<1> QED BY <1>2, <1>3

\* What a setter makes of the aspect its event is about, and of the others.
Sets(e, record, old) ==
  /\ \A a \in Attributes : IF e.type \in Touching(a) THEN Part(record, a) = Part(e.body, a)
                           ELSE Part(record, a) = Part(old, a)
  /\ record.online =>
       IF e.type \in Touching("presence") THEN Part(record, "presence") = Part(e.body, "presence")
       ELSE old.online /\ Part(record, "presence") = Part(old, "presence")

LEMMA SettersSet ==
  ASSUME NEW m \in Character, NEW e, EventOK(e)
  PROVE  /\ e.type = "LOGIN" => Sets(e, ChangeChannel(Login(m), e.body.channelId), m)
         /\ e.type = "LOGOUT" => Sets(e, Logout(m), m)
         /\ e.type = "CHANNEL_CHANGED" => Sets(e, ChangeChannel(m, e.body.channelId), m)
         /\ e.type = "MAP_CHANGED" => Sets(e, ChangeMap(m, e.body.mapId), m)
         /\ e.type = "LEVEL_CHANGED" => Sets(e, ChangeLevel(m, e.body.level), m)
         /\ e.type = "JOB_CHANGED" => Sets(e, ChangeJob(m, e.body.jobId), m)
<1>0. m.online \in BOOLEAN /\ e.body.online \in BOOLEAN
  BY DEF Character, EventOK, Session
<1>1. ASSUME e.type = "LOGIN" PROVE Sets(e, ChangeChannel(Login(m), e.body.channelId), m)
  <2>1. PICK r : r = ChangeChannel(Login(m), e.body.channelId)
    OBVIOUS
  <2>2. /\ r.mapId = m.mapId /\ r.level = m.level /\ r.jobId = m.jobId
        /\ r.online = TRUE /\ r.channelId = e.body.channelId /\ e.body.online = TRUE
    BY <1>0, <1>1, <2>1 DEF EventOK, Character, ChangeChannel, Login
  <2> QED BY <1>1, <2>1, <2>2 DEF Sets, Attributes, Touching, Part
<1>2. ASSUME e.type = "LOGOUT" PROVE Sets(e, Logout(m), m)
  <2>1. PICK r : r = Logout(m)
    OBVIOUS
  <2>2. r.mapId = m.mapId /\ r.level = m.level /\ r.jobId = m.jobId /\ ~r.online
    BY <2>1 DEF Character, Logout
  <2> QED BY <1>2, <2>1, <2>2 DEF Sets, Attributes, Touching, Part
<1>3. ASSUME e.type = "CHANNEL_CHANGED" PROVE Sets(e, ChangeChannel(m, e.body.channelId), m)
  <2>1. PICK r : r = ChangeChannel(m, e.body.channelId)
    OBVIOUS
  <2>2. /\ r.mapId = m.mapId /\ r.level = m.level /\ r.jobId = m.jobId
        /\ r.online = m.online /\ r.channelId = e.body.channelId /\ e.body.online = TRUE
    BY <1>0, <1>3, <2>1 DEF EventOK, Character, ChangeChannel
  <2> QED BY <1>0, <1>3, <2>1, <2>2 DEF Sets, Attributes, Touching, Part
<1>4. ASSUME e.type = "MAP_CHANGED" PROVE Sets(e, ChangeMap(m, e.body.mapId), m)
  <2>1. PICK r : r = ChangeMap(m, e.body.mapId)
    OBVIOUS
  <2>2. /\ r.mapId = e.body.mapId /\ r.level = m.level /\ r.jobId = m.jobId
        /\ r.online = m.online /\ r.channelId = m.channelId
    BY <2>1 DEF Character, ChangeMap
  <2> QED BY <1>4, <2>1, <2>2 DEF Sets, Attributes, Touching, Part
<1>5. ASSUME e.type = "LEVEL_CHANGED" PROVE Sets(e, ChangeLevel(m, e.body.level), m)
  <2>1. PICK r : r = ChangeLevel(m, e.body.level)
    OBVIOUS
  <2>2. /\ r.mapId = m.mapId /\ r.level = e.body.level /\ r.jobId = m.jobId
        /\ r.online = m.online /\ r.channelId = m.channelId
    BY <2>1 DEF Character, ChangeLevel
  <2> QED BY <1>5, <2>1, <2>2 DEF Sets, Attributes, Touching, Part
<1>6. ASSUME e.type = "JOB_CHANGED" PROVE Sets(e, ChangeJob(m, e.body.jobId), m)
  <2>1. PICK r : r = ChangeJob(m, e.body.jobId)
    OBVIOUS
  <2>2. /\ r.mapId = m.mapId /\ r.level = m.level /\ r.jobId = e.body.jobId
        /\ r.online = m.online /\ r.channelId = m.channelId
    BY <2>1 DEF Character, ChangeJob
  <2> QED BY <1>6, <2>1, <2>2 DEF Sets, Attributes, Touching, Part
<1> QED BY <1>1, <1>2, <1>3, <1>4, <1>5, <1>6

\* What an attribute handler that updates knows and does.
LEMMA AttributeSetStep ==
  ASSUME TypeInv, NEW w \in Workers, AttributeSet(w)
  PROVE  /\ job[w].pc = "set" /\ DOMAIN job[w] = JobFields
         /\ job[w].event # None /\ EventOK(job[w].event)
         /\ job[w].op = job[w].event.type /\ job[w].chr = job[w].event.chr
         /\ job[w].chr \in DOMAIN charReg /\ charReg[job[w].chr] \in Character
         /\ \E record : /\ SetRecord(w, record)
                        /\ Sets(job[w].event, record, charReg[job[w].chr])
<1>1. job[w].pc = "set" /\ JobOK(job[w])
  BY DEF TypeInv, AttributeSet, LoginSet, LogoutSet, ChannelChangeSet, MapChangeSet, LevelChangeSet,
         JobChangeSet, Handling, At
<1>2. /\ job[w].event # None /\ EventOK(job[w].event) /\ DOMAIN job[w] = JobFields
      /\ job[w].op = job[w].event.type /\ job[w].chr = job[w].event.chr
  BY <1>1 DEF JobOK
<1>3. job[w].chr \in DOMAIN charReg /\ charReg[job[w].chr] \in Character
  BY <1>1 DEF TypeInv, MembershipInv, JobsOK, Cached, Updating
<1>4. \E record : SetRecord(w, record) /\ Sets(job[w].event, record, charReg[job[w].chr])
  BY <1>2, <1>3, SettersSet
  DEF AttributeSet, LoginSet, LogoutSet, ChannelChangeSet, MapChangeSet, LevelChangeSet,
      JobChangeSet, Handling, Body, Stored
<1> QED BY <1>1, <1>2, <1>3, <1>4

LEMMA AttributeSetFlows ==
  ASSUME OneConsumer, TypeInv, FlowInv, NEW w \in Workers, AttributeSet(w)
  PROVE  FlowInv'
<1> DEFINE j == job[w]
<1>0. PICK c, e : c = j.chr /\ e = j.event
  OBVIOUS
<1>1. /\ j.pc = "set" /\ DOMAIN j = JobFields
      /\ e # None /\ EventOK(e) /\ j.op = e.type /\ c = e.chr
      /\ c \in DOMAIN charReg /\ charReg[c] \in Character
  BY <1>0, AttributeSetStep
<1>2. PICK record : SetRecord(w, record) /\ Sets(e, record, charReg[c])
  BY <1>0, AttributeSetStep
<1>3. /\ charReg' = Put(charReg, c, record) /\ late' = late /\ UNCHANGED sourceVars
      /\ source' = source /\ topic' = topic
  BY <1>0, <1>2 DEF SetRecord, historyVars, sourceVars
<1>4. PICK k : /\ Become(w, k)
               /\ k = NoJob \/ k = Goto(j, "emit")
  BY <1>2 DEF SetRecord
<1>5. AnswerOK(k) /\ (k.event = None \/ k.event = e) /\ k.pc # "login.fetch"
  <2>1. CASE k = NoJob
    BY <2>1, NoJobFlows DEF NoJob
  <2>2. CASE k = Goto(j, "emit")
    <3>1. Follows(j, k, "emit") /\ k.answer = j.answer /\ k.asOf = j.asOf
      BY <1>1, <2>2, Going
    <3>2. AnswerOK(j)
      BY DEF FlowInv
    <3> QED BY <1>0, <3>1, <3>2 DEF Follows, AnswerOK
  <2> QED BY <1>4, <2>1, <2>2
<1>6. c \in DOMAIN charReg' /\ charReg'[c] = record
  BY <1>3 DEF Put
<1>7. \A a \in Aspects : e.type \in Touching(a) => Part(e.body, a) = Part(source[c], a) \/ Due(c, a)
  BY <1>0, <1>1 DEF FlowInv, FlightOK
<1>8. \A a \in Aspects : Due(c, a) => Pending(c, a)'
  BY <1>3 DEF Due, Pending
<1>9. ASSUME NEW a \in Aspects, e.type \notin Touching(a), Pending(c, a)
      PROVE  Pending(c, a)'
  BY <1>0, <1>3, <1>4, <1>9, StillPending DEF About
<1>10. ASSUME c \notin late'
       PROVE  Current(c)'
  <2>1. ASSUME NEW a \in Attributes
        PROVE  Part(charReg'[c], a) = Part(source'[c], a) \/ Pending(c, a)'
    <3>1. a \in Aspects
      BY DEF Aspects
    <3>2. CASE e.type \in Touching(a)
      BY <1>2, <1>3, <1>6, <1>7, <1>8, <3>1, <3>2 DEF Sets
    <3>3. CASE e.type \notin Touching(a)
      <4>1. Part(charReg[c], a) = Part(source[c], a) \/ Pending(c, a)
        BY <1>1, <1>3, <1>10 DEF FlowInv, Current
      <4> QED BY <1>2, <1>3, <1>6, <1>9, <3>1, <3>3, <4>1 DEF Sets
    <3> QED BY <3>2, <3>3
  <2> QED BY <2>1 DEF Current, Part
<1>11. Present(c)'
  <2>1. ASSUME charReg'[c].online
        PROVE  Part(charReg'[c], "presence") = Part(source'[c], "presence") \/ Pending(c, "presence")'
    <3>1. "presence" \in Aspects
      BY DEF Aspects
    <3>2. CASE e.type \in Touching("presence")
      BY <1>2, <1>3, <1>6, <1>7, <1>8, <2>1, <3>1, <3>2 DEF Sets
    <3>3. CASE e.type \notin Touching("presence")
      <4>1. charReg[c].online /\ Part(record, "presence") = Part(charReg[c], "presence")
        BY <1>2, <1>6, <2>1, <3>3 DEF Sets
      <4>2. Part(charReg[c], "presence") = Part(source[c], "presence") \/ Pending(c, "presence")
        BY <1>1, <4>1 DEF FlowInv, Present
      <4> QED BY <1>3, <1>6, <1>9, <3>1, <3>3, <4>1, <4>2
    <3> QED BY <3>2, <3>3
  <2> QED BY <2>1 DEF Present, Part
<1>12. ASSUME NEW v \in Workers, v # w, job[v].pc = "login.fetch", job[v].chr = c
       PROVE  ~record.online
  <2>1. job[v].event # None
    BY <1>12 DEF TypeInv, JobOK
  <2> QED BY <1>0, <1>1, <1>12, <2>1, OneAtWork
<1> QED BY <1>0, <1>3, <1>4, <1>5, <1>10, <1>11, <1>12, FlowPut

\* JoinParty and LeaveParty touch no attribute.
LEMMA MembershipSetFlows ==
  ASSUME OneConsumer, TypeInv, FlowInv, NEW w \in Workers, MembershipSet(w)
  PROVE  FlowInv'
<1> DEFINE j == job[w]
<1>0. PICK c : c = j.chr
  OBVIOUS
<1>1. j.pc \in {"enter", "leave.set"} /\ JobOK(j)
  BY DEF TypeInv, MembershipSet, JoinPartySet, LeavePartySet, At
<1>2. j.event = None /\ c \in DOMAIN charReg /\ charReg[c] \in Character
  BY <1>0, <1>1 DEF JobOK, EventPcs, TypeInv, MembershipInv, JobsOK, Cached, Updating
<1>3. PICK record :
        /\ Membership(w, record)
        /\ record.mapId = charReg[c].mapId /\ record.level = charReg[c].level
        /\ record.jobId = charReg[c].jobId /\ record.online = charReg[c].online
        /\ record.channelId = charReg[c].channelId
  <2>1. \A p : /\ JoinParty(charReg[c], p).mapId = charReg[c].mapId
               /\ JoinParty(charReg[c], p).level = charReg[c].level
               /\ JoinParty(charReg[c], p).jobId = charReg[c].jobId
               /\ JoinParty(charReg[c], p).online = charReg[c].online
               /\ JoinParty(charReg[c], p).channelId = charReg[c].channelId
    BY <1>2 DEF JoinParty, Character
  <2>2. LeaveParty(charReg[c]) = JoinParty(charReg[c], NoParty)
    BY DEF LeaveParty, JoinParty
  <2>3. \E p : Membership(w, JoinParty(charReg[c], p))
    BY <1>0, <2>2 DEF MembershipSet, JoinPartySet, LeavePartySet, Stored
  <2> QED BY <2>1, <2>3
<1>4. /\ charReg' = Put(charReg, c, record) /\ late' = late /\ UNCHANGED sourceVars
      /\ source' = source /\ Become(w, NoJob)
  BY <1>0, <1>3 DEF Membership, sourceVars
<1>5. c \in DOMAIN charReg' /\ charReg'[c] = record
  BY <1>4 DEF Put
<1>6. \A a \in Aspects : Part(charReg'[c], a) = Part(charReg[c], a)
  BY <1>3, <1>5 DEF Aspects, Attributes, Part
<1>7. \A a \in Aspects : Pending(c, a) => Pending(c, a)'
  BY <1>2, <1>4, StillPending DEF Applying
<1>8. c \notin late' => Current(c)'
  <2>1. ASSUME c \notin late', NEW a \in Attributes
        PROVE  Part(charReg'[c], a) = Part(source'[c], a) \/ Pending(c, a)'
    <3>1. Part(charReg[c], a) = Part(source[c], a) \/ Pending(c, a)
      BY <1>2, <1>4, <2>1 DEF FlowInv, Current
    <3> QED BY <1>4, <1>6, <1>7, <3>1 DEF Aspects
  <2> QED BY <2>1 DEF Current, Part
<1>9. Present(c)'
  <2>1. ASSUME charReg'[c].online
        PROVE  Part(charReg'[c], "presence") = Part(source'[c], "presence") \/ Pending(c, "presence")'
    <3>1. Part(charReg[c], "presence") = Part(source[c], "presence") \/ Pending(c, "presence")
      BY <1>2, <1>3, <1>5, <2>1 DEF FlowInv, Present
    <3> QED BY <1>4, <1>6, <1>7, <3>1 DEF Aspects
  <2> QED BY <2>1 DEF Present, Part
<1>10. ASSUME NEW v \in Workers, job[v].pc = "login.fetch", job[v].chr = c
       PROVE  ~record.online
  BY <1>2, <1>3, <1>10 DEF FlowInv, LoginOK, Cached
<1>11. NoJob.pc # "login.fetch"
  BY DEF NoJob
<1> QED BY <1>0, <1>4, <1>8, <1>9, <1>10, <1>11, NoJobFlows, FlowPut

\* Publishing a buffer, and the steps of commands that write nothing.
LEMMA OtherFlows ==
  ASSUME OneConsumer, TypeInv, FlowInv, NEW w \in Workers,
         EventEmit(w) \/ LeavePartyGet(w) \/ ReceiveCommand(w)
  PROVE  FlowInv'
<1> DEFINE j == job[w]
<1>1. UNCHANGED <<sourceVars, charReg, late>>
  BY DEF EventEmit, LeavePartyGet, ReceiveCommand, historyVars
<1>2. CASE EventEmit(w)
  <2>1. ~Applying(j) /\ Become(w, NoJob)
    BY <1>2 DEF EventEmit, At, Applying
  <2> QED BY <1>1, <2>1, NoJobFlows, FlowQuiet
<1>3. CASE LeavePartyGet(w)
  <2>1. j.pc = "leave" /\ JobOK(j)
    BY <1>3 DEF TypeInv, LeavePartyGet, At
  <2>2. j.event = None /\ DOMAIN j = JobFields /\ ~Applying(j) /\ AnswerOK(j)
    BY <2>1 DEF JobOK, EventPcs, Applying, FlowInv
  <2>3. PICK k : k = Goto(j, "leave.set")
    OBVIOUS
  <2>4. Follows(j, k, "leave.set") /\ k.answer = j.answer /\ k.asOf = j.asOf
    BY <2>2, <2>3, Going
  <2>5. AnswerOK(k) /\ LoginOK(k) /\ k.event = None
    BY <2>2, <2>4 DEF AnswerOK, LoginOK, Follows
  <2>6. Become(w, k) \/ Become(w, NoJob)
    BY <1>3, <2>3 DEF LeavePartyGet
  <2> QED BY <1>1, <2>2, <2>5, <2>6, NoJobFlows, FlowQuiet
<1>4. CASE ReceiveCommand(w)
  <2>1. j = NoJob /\ ~Applying(j)
    BY <1>4, NoJobFlows DEF ReceiveCommand, Idle
  <2>2. CASE \E c \in Characters, p \in Parties :
               Become(w, [NoJob EXCEPT !.op = "JOIN", !.pc = "get", !.chr = c, !.party = p])
    <3>1. PICK c \in Characters, p \in Parties :
            Become(w, [NoJob EXCEPT !.op = "JOIN", !.pc = "get", !.chr = c, !.party = p])
      BY <2>2
    <3>2. PICK k : k = [NoJob EXCEPT !.op = "JOIN", !.pc = "get", !.chr = c, !.party = p]
      OBVIOUS
    <3>3. k.pc = "get" /\ k.event = None /\ k.answer = None
      BY <3>2 DEF NoJob
    <3>4. AnswerOK(k) /\ LoginOK(k)
      BY <3>3 DEF AnswerOK, LoginOK
    <3> QED BY <1>1, <2>1, <3>1, <3>2, <3>3, <3>4, FlowQuiet
  <2>3. CASE \E c \in Characters :
               Become(w, [NoJob EXCEPT !.op = "LEAVE", !.pc = "leave", !.chr = c])
    <3>1. PICK c \in Characters : Become(w, [NoJob EXCEPT !.op = "LEAVE", !.pc = "leave", !.chr = c])
      BY <2>3
    <3>2. PICK k : k = [NoJob EXCEPT !.op = "LEAVE", !.pc = "leave", !.chr = c]
      OBVIOUS
    <3>3. k.pc = "leave" /\ k.event = None /\ k.answer = None
      BY <3>2 DEF NoJob
    <3>4. AnswerOK(k) /\ LoginOK(k)
      BY <3>3 DEF AnswerOK, LoginOK
    <3> QED BY <1>1, <2>1, <3>1, <3>2, <3>3, <3>4, FlowQuiet
  <2> QED BY <1>4, <2>2, <2>3 DEF ReceiveCommand
<1> QED BY <1>2, <1>3, <1>4

-----------------------------------------------------------------------------
(* The topic shrinks at its head and grows at its end.                     *)

\* The event taken is at work: all that was due is pending still.
LEMMA ReceiveFlows ==
  ASSUME OneConsumer, TypeInv, FlowInv, NEW w \in Workers, ReceiveEvent(w)
  PROVE  FlowInv'
<1>1. /\ w \in Consuming /\ job[w] = NoJob
      /\ Len(topic) \in Nat \ {0} /\ topic[1] \in Events /\ topic' = Tail(topic)
      /\ source' = source /\ charReg' = charReg /\ late' = late /\ emitted' = emitted
      /\ \A v \in Workers : v # w => job'[v] = job[v]
      /\ job'[w].pc = "get" /\ job'[w].event = topic[1] /\ job'[w].answer = None
  BY ReceivedEvent
<1>2. /\ DOMAIN topic = 1..Len(topic) /\ DOMAIN topic' = 1..(Len(topic) - 1)
      /\ Len(topic') = Len(topic) - 1
      /\ \A i \in DOMAIN topic' : i + 1 \in DOMAIN topic /\ topic'[i] = topic[i + 1]
  BY <1>1 DEF TypeInv
<1>3. \A i \in DOMAIN topic : i # 1 => i - 1 \in DOMAIN topic' /\ topic'[i - 1] = topic[i]
  <2>1. ASSUME NEW i \in DOMAIN topic, i # 1
        PROVE  i - 1 \in DOMAIN topic' /\ topic'[i - 1] = topic[i]
    <3>1. i \in Int /\ i - 1 \in DOMAIN topic'
      BY <1>1, <1>2, <2>1
    <3>2. (i - 1) + 1 = i
      BY <3>1
    <3> QED BY <1>2, <3>1, <3>2
  <2> QED BY <2>1
<1>4. job[w].event = None /\ topic[1] # None
  BY <1>1, NoJobFlows, NothingThere DEF Events
<1>5. \A c, a : Due(c, a) => About(topic[1], c, a) \/ Due(c, a)'
  BY <1>3 DEF Due
<1>6. \A c, a : Pending(c, a) => Pending(c, a)'
  <2>1. ASSUME NEW c, NEW a, Due(c, a)
        PROVE  Pending(c, a)'
    <3>1. CASE About(topic[1], c, a)
      BY <1>1, <1>4, <3>1 DEF Pending, Applying
    <3> QED BY <1>5, <2>1, <3>1 DEF Pending
  <2>2. ASSUME NEW c, NEW a, NEW v \in Workers, Applying(job[v]), About(job[v].event, c, a)
        PROVE  Pending(c, a)'
    <3>1. v # w
      BY <1>4, <2>2 DEF Applying
    <3>2. Applying(job'[v]) /\ About(job'[v].event, c, a)
      BY <1>1, <2>2, <3>1
    <3> QED BY <3>2 DEF Pending, Applying
  <2> QED BY <2>1, <2>2 DEF Pending
<1>7. TopicOK'
  <2>1. ASSUME NEW i \in DOMAIN topic', NEW a \in Aspects
        PROVE  \/ Part(topic'[i].body, a) = Part(source'[topic'[i].chr], a)
               \/ \E n \in DOMAIN topic' : n > i /\ About(topic'[n], topic'[i].chr, a)
    <3>1. i + 1 \in DOMAIN topic /\ topic'[i] = topic[i + 1] /\ i \in Nat
      BY <1>2
    <3>2. CASE \E n \in DOMAIN topic : n > i + 1 /\ About(topic[n], topic[i + 1].chr, a)
      <4>1. PICK n \in DOMAIN topic : n > i + 1 /\ About(topic[n], topic[i + 1].chr, a)
        BY <3>2
      <4>2. n # 1 /\ n \in Int /\ n - 1 > i
        BY <1>2, <3>1, <4>1
      <4>3. n - 1 \in DOMAIN topic' /\ topic'[n - 1] = topic[n]
        BY <1>3, <4>2
      <4> QED BY <3>1, <4>1, <4>2, <4>3
    <3>3. CASE Part(topic[i + 1].body, a) = Part(source[topic[i + 1].chr], a)
      BY <1>1, <3>1, <3>3
    <3> QED BY <3>1, <3>2, <3>3 DEF FlowInv, TopicOK
  <2> QED BY <2>1 DEF TopicOK, Part
<1>8. ASSUME NEW v \in Workers
      PROVE  FlightOK(v)'
  <2>1. CASE v = w
    <3>1. PICK e : e = topic[1]
      OBVIOUS
    <3>2. ASSUME NEW a \in Aspects, ~(Part(e.body, a) = Part(source'[e.chr], a))
          PROVE  Due(e.chr, a)'
      <4>1. 1 \in DOMAIN topic
        BY <1>1, <1>2
      <4>2. PICK n \in DOMAIN topic : n > 1 /\ About(topic[n], e.chr, a)
        BY <1>1, <3>1, <3>2, <4>1 DEF FlowInv, TopicOK
      <4>3. n - 1 \in DOMAIN topic' /\ topic'[n - 1] = topic[n]
        BY <1>3, <4>2
      <4> QED BY <4>2, <4>3 DEF Due
    <3> QED BY <1>1, <2>1, <3>1, <3>2 DEF FlightOK, Part
  <2>2. CASE v # w
    BY <1>1, <2>2 DEF FlowInv, FlightOK, OneConsumer
  <2> QED BY <2>1, <2>2
<1>9. ASSUME NEW v \in Workers
      PROVE  AnswerOK(job[v])'
  <2>1. CASE v = w
    BY <1>1, <2>1 DEF AnswerOK
  <2>2. CASE v # w
    <3>1. Taken' = Taken + 1 /\ Taken \in Int /\ job[v].asOf \in Int
      BY <1>1, <1>2 DEF Taken, TypeInv, JobOK
    <3>2. ASSUME NEW a \in Attributes, job[v].answer # None, job[v].asOf >= Taken + 1,
                 ~(Part(job[v].answer, a) = Part(source[job[v].chr], a))
          PROVE  \E i \in DOMAIN topic' : (Taken + 1) + i > job[v].asOf /\ About(topic'[i], job[v].chr, a)
      <4>1. job[v].asOf >= Taken
        BY <3>1, <3>2
      <4>2. PICK i \in DOMAIN topic : Taken + i > job[v].asOf /\ About(topic[i], job[v].chr, a)
        BY <3>2, <4>1 DEF FlowInv, AnswerOK
      <4>3. i \in Int /\ i # 1
        BY <1>2, <3>1, <3>2, <4>2
      <4>4. i - 1 \in DOMAIN topic' /\ topic'[i - 1] = topic[i]
        BY <1>3, <4>3
      <4>5. (Taken + 1) + (i - 1) > job[v].asOf
        BY <3>1, <4>2, <4>3
      <4> QED BY <4>2, <4>4, <4>5
    <3> QED BY <1>1, <2>2, <3>1, <3>2 DEF AnswerOK, Part
  <2> QED BY <2>1, <2>2
<1>10. \A v \in Workers : LoginOK(job[v])'
  BY <1>1 DEF FlowInv, LoginOK, Cached
<1>11. \A c \in DOMAIN charReg' \ late' : Current(c)'
  <2>1. \A c \in DOMAIN charReg' \ late', a \in Attributes :
          Part(charReg[c], a)' = Part(source[c], a)' \/ Pending(c, a)'
    <3>1. ASSUME NEW c \in DOMAIN charReg' \ late', NEW a \in Attributes
          PROVE  Part(charReg'[c], a) = Part(source'[c], a) \/ Pending(c, a)'
      BY <1>1, <1>6, <3>1 DEF FlowInv, Current
    <3> QED BY <3>1 DEF Part
  <2> QED BY <2>1 DEF Current
<1>12. \A c \in DOMAIN charReg' : Present(c)'
  <2>1. \A c \in DOMAIN charReg' : charReg'[c].online =>
          Part(charReg[c], "presence")' = Part(source[c], "presence")' \/ Pending(c, "presence")'
    BY <1>1, <1>6 DEF FlowInv, Present, Part
  <2> QED BY <2>1 DEF Present
<1> QED BY <1>7, <1>8, <1>9, <1>10, <1>11, <1>12 DEF FlowInv

\* What the change has made untrue, the event at the end of the topic says anew.
LEMMA SourceFlows ==
  ASSUME TypeInv, FlowInv, NEW c \in Characters, SourceChanges(c)
  PROVE  FlowInv'
<1>1. PICK e \in Events :
        /\ e.chr = c
        /\ topic' = Append(topic, e) /\ emitted < MaxEvents /\ emitted' = emitted + 1
        /\ source' = [source EXCEPT ![c] = e.body]
        /\ UNCHANGED <<charReg, job, member, late, told>>
        /\ \A a \in Aspects : Part(e.body, a) = Part(source[c], a) \/ e.type \in Touching(a)
  BY SourceChanged
<1>2. PICK n : n = Len(topic) + 1
  OBVIOUS
<1>3. /\ DOMAIN topic = 1..(n - 1) /\ DOMAIN topic' = 1..n /\ n \in Nat \ {0}
      /\ topic'[n] = e /\ \A i \in DOMAIN topic : i \in DOMAIN topic' /\ topic'[i] = topic[i] /\ n > i
  BY <1>1, <1>2 DEF TypeInv
<1>4. /\ source'[c] = e.body
      /\ \A d \in Characters : d # c => source'[d] = source[d]
  BY <1>1 DEF TypeInv
<1>5. n \in DOMAIN topic' /\ emitted \in Nat /\ Len(topic) \in Nat
      /\ Taken' = Taken /\ Taken \in Int /\ Taken + n = emitted + 1
  BY <1>1, <1>2, <1>3 DEF Taken, TypeInv
\* Who is no longer told the truth is told it by the new event.
<1>6. ASSUME NEW d \in Characters, NEW a \in Aspects, ~About(e, d, a)
      PROVE  Part(source'[d], a) = Part(source[d], a)
  BY <1>1, <1>4, <1>6 DEF About
<1>7. \A d, a : Due(d, a) \/ About(e, d, a) => Due(d, a)'
  BY <1>3, <1>5 DEF Due
<1>8. \A d, a : Pending(d, a) => Pending(d, a)'
  BY <1>1, <1>7 DEF Pending, Applying
<1>9. TopicOK'
  <2>1. ASSUME NEW i \in DOMAIN topic', NEW a \in Aspects
        PROVE  \/ Part(topic'[i].body, a) = Part(source'[topic'[i].chr], a)
               \/ \E k \in DOMAIN topic' : k > i /\ About(topic'[k], topic'[i].chr, a)
    <3>1. CASE i = n
      BY <1>1, <1>3, <1>4, <3>1
    <3>2. CASE i \in DOMAIN topic /\ About(e, topic[i].chr, a)
      BY <1>3, <1>5, <3>2
    <3>3. CASE i \in DOMAIN topic /\ ~About(e, topic[i].chr, a)
      <4>1. topic[i].chr \in Characters
        BY <3>3 DEF TypeInv, Events
      <4>2. Part(source'[topic[i].chr], a) = Part(source[topic[i].chr], a)
        BY <1>6, <3>3, <4>1
      <4>3. \/ Part(topic[i].body, a) = Part(source[topic[i].chr], a)
            \/ \E k \in DOMAIN topic : k > i /\ About(topic[k], topic[i].chr, a)
        BY <3>3 DEF FlowInv, TopicOK
      <4> QED BY <1>3, <3>3, <4>2, <4>3
    <3> QED BY <1>3, <2>1, <3>1, <3>2, <3>3
  <2> QED BY <2>1 DEF TopicOK, Part
<1>10. ASSUME NEW v \in Workers
       PROVE  FlightOK(v)'
  <2>1. ASSUME job[v].event # None, NEW a \in Aspects
        PROVE  Part(job[v].event.body, a) = Part(source'[job[v].event.chr], a) \/ Due(job[v].event.chr, a)'
    <3>1. PICK g : g = job[v].event /\ g = job'[v].event
      BY <1>1
    <3>2. g.chr \in Characters
      BY <2>1, <3>1 DEF TypeInv, JobOK, EventOK
    <3>3. Part(g.body, a) = Part(source[g.chr], a) \/ Due(g.chr, a)
      BY <2>1, <3>1 DEF FlowInv, FlightOK
    <3>4. Part(g.body, a) = Part(source'[g.chr], a) \/ Due(g.chr, a)'
      BY <1>6, <1>7, <3>2, <3>3
    <3> QED BY <1>1, <3>1, <3>4 DEF Due
  <2>2. job[v].event # None => v \in Consuming
    BY DEF FlowInv, FlightOK
  <2> QED BY <1>1, <2>1, <2>2 DEF FlightOK, Part, Due
<1>11. ASSUME NEW v \in Workers
       PROVE  AnswerOK(job[v])'
  <2> DEFINE j == job[v]
  <2>1. ASSUME j.answer # None, j.asOf >= Taken, NEW a \in Attributes,
               ~(Part(j.answer, a) = Part(source'[j.chr], a))
        PROVE  \E i \in DOMAIN topic' : Taken + i > j.asOf /\ About(topic'[i], j.chr, a)
    <3>1. JobOK(j) /\ j.chr \in Characters
      BY <2>1 DEF TypeInv, JobOK, NoJob
    <3>2. CASE About(e, j.chr, a)
      <4>1. Taken + n > j.asOf
        BY <1>5, <3>1 DEF JobOK
      <4> QED BY <1>3, <1>5, <3>2, <4>1
    <3>3. CASE ~About(e, j.chr, a)
      <4>1. ~(Part(j.answer, a) = Part(source[j.chr], a))
        BY <1>6, <2>1, <3>1, <3>3 DEF Aspects
      <4>2. PICK i \in DOMAIN topic : Taken + i > j.asOf /\ About(topic[i], j.chr, a)
        BY <2>1, <4>1 DEF FlowInv, AnswerOK
      <4> QED BY <1>3, <4>2
    <3> QED BY <3>2, <3>3
  <2> QED BY <1>1, <1>5, <2>1 DEF AnswerOK, Part
<1>12. \A v \in Workers : LoginOK(job[v])'
  BY <1>1 DEF FlowInv, LoginOK, Cached
<1>13. \A d \in DOMAIN charReg' \ late' : Current(d)'
  <2>1. ASSUME NEW d \in DOMAIN charReg' \ late', NEW a \in Attributes
        PROVE  Part(charReg'[d], a) = Part(source'[d], a) \/ Pending(d, a)'
    <3>1. d \in Characters /\ a \in Aspects
      BY <1>1, <2>1 DEF TypeInv, Aspects
    <3>2. Part(charReg[d], a) = Part(source[d], a) \/ Pending(d, a)
      BY <1>1, <2>1 DEF FlowInv, Current
    <3> QED BY <1>1, <1>6, <1>7, <1>8, <3>1, <3>2 DEF Pending
  <2> QED BY <2>1 DEF Current, Part
<1>14. \A d \in DOMAIN charReg' : Present(d)'
  <2>1. ASSUME NEW d \in DOMAIN charReg', charReg'[d].online
        PROVE  Part(charReg'[d], "presence") = Part(source'[d], "presence") \/ Pending(d, "presence")'
    <3>1. d \in Characters /\ "presence" \in Aspects
      BY <1>1, <2>1 DEF TypeInv, Aspects
    <3>2. Part(charReg[d], "presence") = Part(source[d], "presence") \/ Pending(d, "presence")
      BY <1>1, <2>1 DEF FlowInv, Present
    <3> QED BY <1>1, <1>6, <1>7, <1>8, <3>1, <3>2 DEF Pending
  <2> QED BY <2>1 DEF Present, Part
<1> QED BY <1>9, <1>10, <1>11, <1>12, <1>13, <1>14 DEF FlowInv

\* Nothing is cached, and the event put back was true or had one behind it.
LEMMA RestartFlows ==
  ASSUME TypeInv, FlowInv, Restart
  PROVE  FlowInv'
<1>1. /\ DOMAIN charReg' = {} /\ job' = [w \in Workers |-> NoJob] /\ source' = source
  BY DEF Restart, EmptyMap
<1>2. NoJob.event = None /\ NoJob.answer = None /\ NoJob.pc # "login.fetch"
  BY DEF NoJob
<1>3. \A w \in Workers : FlightOK(w)' /\ AnswerOK(job[w])' /\ LoginOK(job[w])'
  BY <1>1, <1>2 DEF FlightOK, AnswerOK, LoginOK
<1>4. TopicOK'
  <2>1. CASE topic' = topic
    BY <1>1, <2>1 DEF FlowInv, TopicOK
  <2>2. CASE \E w \in Workers : job[w].event # None /\ topic' = <<job[w].event>> \o topic
    <3>1. PICK w \in Workers : job[w].event # None /\ topic' = <<job[w].event>> \o topic
      BY <2>2
    <3>2. PICK e : e = job[w].event
      OBVIOUS
    <3>3. e \in Events
      BY <3>1, <3>2 DEF TypeInv, JobOK, EventOK, Events
    <3>4. <<e>> \in Seq(Events) /\ Len(<<e>>) = 1 /\ <<e>>[1] = e
      BY <3>3
    <3>5. /\ topic'[1] = e
          /\ \A i \in DOMAIN topic' : i \in Int /\ (i # 1 => i - 1 \in DOMAIN topic /\ topic'[i] = topic[i - 1])
          /\ \A i \in DOMAIN topic : i \in Int /\ i + 1 \in DOMAIN topic' /\ topic'[i + 1] = topic[i]
                                     /\ i + 1 > 1
      BY <3>1, <3>2, <3>4 DEF TypeInv
    <3>6. ASSUME NEW i \in DOMAIN topic', NEW a \in Aspects
          PROVE  \/ Part(topic'[i].body, a) = Part(source'[topic'[i].chr], a)
                 \/ \E k \in DOMAIN topic' : k > i /\ About(topic'[k], topic'[i].chr, a)
      <4>1. CASE i = 1
        <5>1. Part(e.body, a) = Part(source[e.chr], a) \/ Due(e.chr, a)
          BY <3>1, <3>2 DEF FlowInv, FlightOK
        <5> QED BY <1>1, <3>5, <4>1, <5>1 DEF Due
      <4>2. CASE i # 1
        <5>1. PICK n \in DOMAIN topic : n = i - 1 /\ topic'[i] = topic[n]
          BY <3>5, <4>2
        <5>2. CASE \E k \in DOMAIN topic : k > n /\ About(topic[k], topic[n].chr, a)
          <6>1. PICK k \in DOMAIN topic : k > n /\ About(topic[k], topic[n].chr, a)
            BY <5>2
          <6>2. k + 1 \in DOMAIN topic' /\ topic'[k + 1] = topic[k] /\ k + 1 > i
            BY <3>5, <5>1, <6>1
          <6> QED BY <5>1, <6>1, <6>2
        <5>3. CASE Part(topic[n].body, a) = Part(source[topic[n].chr], a)
          BY <1>1, <5>1, <5>3
        <5> QED BY <5>2, <5>3 DEF FlowInv, TopicOK
      <4> QED BY <4>1, <4>2
    <3> QED BY <3>6 DEF TopicOK, Part
  <2> QED BY <2>1, <2>2 DEF Restart
<1> QED BY <1>1, <1>3, <1>4 DEF FlowInv

LEMMA FlowInit == Init => FlowInv
<1> SUFFICES ASSUME Init PROVE FlowInv
  OBVIOUS
<1>1. topic = <<>> /\ job = [w \in Workers |-> NoJob] /\ DOMAIN charReg = {}
  BY DEF Init, EmptyMap
<1>2. NoJob.event = None /\ NoJob.answer = None /\ NoJob.pc # "login.fetch"
  BY DEF NoJob
<1>3. DOMAIN topic = {}
  BY <1>1
<1>4. TopicOK
  BY <1>3 DEF TopicOK
<1> QED BY <1>1, <1>2, <1>4 DEF FlowInv, FlightOK, AnswerOK, LoginOK

LEMMA FlowNext == OneConsumer /\ TypeInv /\ FlowInv /\ [Next]_vars => FlowInv'
<1> SUFFICES ASSUME OneConsumer, TypeInv, FlowInv, [Next]_vars
             PROVE  FlowInv'
  OBVIOUS
<1>1. CASE \E w \in Workers : Work(w) \/ ReceiveEvent(w) \/ ReceiveCommand(w)
  <2>1. PICK w \in Workers : Work(w) \/ ReceiveEvent(w) \/ ReceiveCommand(w)
    BY <1>1
  <2>2. \/ Begin(w) \/ LoginFetch(w) \/ LoginCreate(w) \/ AttributeSet(w) \/ MembershipSet(w)
        \/ EventEmit(w) \/ LeavePartyGet(w) \/ ReceiveEvent(w) \/ ReceiveCommand(w)
    BY <2>1 DEF Work, AttributeSet, MembershipSet
  <2> QED BY <2>2, BeginFlows, LoginFlows, AttributeSetFlows, MembershipSetFlows, OtherFlows,
             ReceiveFlows
<1>2. CASE \E c \in Characters : SourceChanges(c)
  BY <1>2, SourceFlows
<1>3. CASE Restart
  BY <1>3, RestartFlows
<1>4. CASE UNCHANGED vars
  <2>1. UNCHANGED <<source, topic, emitted, charReg, job, late>>
    BY <1>4 DEF vars, sourceVars, historyVars
  <2>2. \A c, a : Due(c, a)' <=> Due(c, a)
    BY <2>1 DEF Due
  <2>3. \A c, a : Pending(c, a)' <=> Pending(c, a)
    BY <2>1, <2>2 DEF Pending, Applying
  <2>4. TopicOK'
    BY <2>1 DEF FlowInv, TopicOK
  <2>5. \A w \in Workers : FlightOK(w)'
    BY <2>1 DEF FlowInv, FlightOK, Due
  <2>6. \A w \in Workers : AnswerOK(job[w])' /\ LoginOK(job[w])'
    BY <2>1 DEF FlowInv, AnswerOK, LoginOK, Taken, Cached
  <2>7. \A c \in DOMAIN charReg' \ late' : Current(c)'
    BY <2>1, <2>3 DEF FlowInv, Current, Part
  <2>8. \A c \in DOMAIN charReg' : Present(c)'
    BY <2>1, <2>3 DEF FlowInv, Present, Part
  <2> QED BY <2>4, <2>5, <2>6, <2>7, <2>8 DEF FlowInv
<1> QED BY <1>1, <1>2, <1>3, <1>4 DEF Next

LEMMA FlowAlways ==
  ASSUME OneConsumer
  PROVE  Spec => [](TypeInv /\ FlowInv)
<1>1. Init => TypeInv /\ FlowInv
  BY TypeInit, FlowInit
<1>2. TypeInv /\ FlowInv /\ [Next]_vars => TypeInv' /\ FlowInv'
  BY TypeNext, FlowNext
<1> QED BY <1>1, <1>2, PTL DEF Spec

\* Nothing is pending where nothing is at work.
LEMMA SettledMeansDone ==
  ASSUME Settled, NEW c, NEW a
  PROVE  ~Pending(c, a)
<1>1. DOMAIN topic = {}
  BY DEF Settled
<1>2. \A w \in Workers : ~Applying(job[w])
  BY DEF Settled, AllIdle, Idle, Applying, NoJob
<1> QED BY <1>1, <1>2 DEF Pending, Due

\* Once the events have been worked off, a cached record holds the attributes the
\* character service holds, for any number of characters, of command workers and of
\* changes, whatever lookup ran ahead of which event and whatever a restart lost or
\* brought again, if one worker reads the topic (kafka/consumer/character): the only
\* exception is a fill that another handler has overtaken (character/processor.go:265).
THEOREM AttributesSettle ==
  ASSUME OneConsumer
  PROVE  Spec => []AttributesCurrent
<1>1. TypeInv /\ FlowInv => AttributesCurrent
  <2> SUFFICES ASSUME FlowInv, Settled, NEW c \in DOMAIN charReg \ late
               PROVE  /\ charReg[c].mapId = source[c].mapId
                      /\ charReg[c].level = source[c].level
                      /\ charReg[c].jobId = source[c].jobId
    BY DEF AttributesCurrent
  <2>1. \A a \in Attributes : Part(charReg[c], a) = Part(source[c], a)
    BY SettledMeansDone DEF FlowInv, Current
  <2> QED BY <2>1 DEF Attributes, Part
<1> QED BY <1>1, FlowAlways, PTL

\* Nobody is shown online who is not, nor on a channel that was left, not even by a fill
\* that was overtaken, for any number of characters and changes, if one worker reads the
\* topic (character/processor.go:66-205).
THEOREM GhostsGone ==
  ASSUME OneConsumer
  PROVE  Spec => []NoGhostPresence
<1>1. TypeInv /\ FlowInv => NoGhostPresence
  <2> SUFFICES ASSUME TypeInv, FlowInv, Settled, NEW c \in DOMAIN charReg, charReg[c].online
               PROVE  source[c].online /\ charReg[c].channelId = source[c].channelId
    BY DEF NoGhostPresence
  <2>1. Part(charReg[c], "presence") = Part(source[c], "presence")
    BY SettledMeansDone DEF FlowInv, Present
  <2>2. charReg[c].online = source[c].online /\ charReg[c].channelId = source[c].channelId
    BY <2>1 DEF Part
  <2> QED BY <2>2
<1> QED BY <1>1, FlowAlways, PTL

-----------------------------------------------------------------------------
(* What the fellows know.                                                  *)

\* A step after which a character is as before, and which publishes nothing about it.
LEMMA FellowKept ==
  ASSUME TypeInv, NEW w \in Workers, NEW k, Become(w, k), NEW c, FellowOK(c),
         member'[c] = member[c], told'[c] = told[c],
         Cached(c) => c \in DOMAIN charReg' /\ charReg'[c] = charReg[c],
         member[c] # NoParty => Cached(c),
         job[w].pc = "emit" => job[w].chr # c, k.pc = "emit" => k.chr # c
  PROVE  FellowOK(c)'
<1>1. \A v \in Workers : job'[v] = IF v = w THEN k ELSE job[v]
  BY DEF Become, TypeInv, MembershipInv, JobsOK
<1>2. \A f : Emitting(c, f) => Emitting(c, f)'
  BY <1>1 DEF Emitting, At
<1>3. member'[c] # NoParty =>
        /\ told'[c] # None
        /\ \A f \in Fields : Knows(told'[c], charReg'[c], f) \/ Emitting(c, f)'
  BY <1>2 DEF FellowOK
<1>4. ASSUME NEW v \in Workers, At(v, "emit")', job'[v].chr = c
      PROVE  Cached(c)' /\ Announces(job'[v].event, charReg'[c])
  <2>1. v # w /\ At(v, "emit") /\ job[v].chr = c /\ job'[v] = job[v]
    BY <1>1, <1>4 DEF At
  <2>2. Cached(c) /\ Announces(job[v].event, charReg[c])
    BY <2>1 DEF FellowOK
  <2> QED BY <2>1, <2>2 DEF Cached
<1> QED BY <1>3, <1>4 DEF FellowOK, Knows, Field, Announces

\* Who is in a party is cached, unless a fill was overtaken.
LEMMA MembersCached ==
  ASSUME TypeInv, NEW c \in Characters \ late, member[c] # NoParty
  PROVE  Cached(c) /\ charReg[c].partyId = member[c]
  BY DEF TypeInv, MembershipInv, MembershipKept

\* A step that changes no record and publishes nothing.
LEMMA FellowsQuiet ==
  ASSUME TypeInv, FellowsInv, NEW w \in Workers, NEW k, Become(w, k),
         UNCHANGED <<charReg, member, late, told>>, job[w].pc # "emit", k.pc # "emit"
  PROVE  FellowsInv'
<1>1. ASSUME NEW c \in Characters \ late'
      PROVE  FellowOK(c)'
  <2>1. FellowOK(c) /\ (member[c] # NoParty => Cached(c))
    BY MembersCached DEF FellowsInv
  <2> QED BY <2>1, FellowKept DEF Cached
<1> QED BY <1>1 DEF FellowsInv

LEMMA StoreFellows ==
  ASSUME TypeInv, FellowsInv, NEW w \in Workers, NEW record, NEW pc, NEW j, j = job[w],
         j.pc # "emit", pc # "emit", StoreAnswer(w, record, Goto(j, pc))
  PROVE  FellowsInv'
<1>0. PICK c : c = j.chr
  OBVIOUS
<1>1. /\ charReg' = Put(charReg, c, record) /\ member' = member /\ told' = told
      /\ late' = IF Cached(c) \/ j.asOf < Taken THEN late \cup {c} ELSE late \ {c}
  BY <1>0 DEF StoreAnswer
<1>2. PICK k : k = [Goto(j, pc) EXCEPT !.answer = None, !.asOf = 0, !.rec = record]
  OBVIOUS
<1>3. Become(w, k)
  BY <1>2 DEF StoreAnswer
<1>4. k.pc = pc
  BY <1>2 DEF TypeInv, JobOK, Goto, JobFields
<1>5. ASSUME NEW d \in Characters \ late'
      PROVE  FellowOK(d)'
  <2>1. d \notin late
    BY <1>1, <1>5 DEF TypeInv, MembershipInv, LateOK, Cached
  <2>2. FellowOK(d) /\ (member[d] # NoParty => Cached(d))
    BY <2>1, MembersCached DEF FellowsInv
  <2>3. Cached(d) => d # c
    BY <1>1, <1>5
  <2>4. Cached(d) => d \in DOMAIN charReg' /\ charReg'[d] = charReg[d]
    BY <1>1, <2>3 DEF Put, Cached
  <2>5. member'[d] = member[d] /\ told'[d] = told[d]
    BY <1>1
  <2> QED BY <1>3, <1>4, <2>2, <2>4, <2>5, FellowKept
<1> QED BY <1>5 DEF FellowsInv

\* Looking a character up.
LEMMA LookupFellows ==
  ASSUME TypeInv, FellowsInv, NEW w \in Workers, Begin(w) \/ LoginFetch(w) \/ LoginCreate(w)
  PROVE  FellowsInv'
<1>0. PICK j : j = job[w]
  OBVIOUS
<1>1. DOMAIN j = JobFields /\ j.pc # "emit"
  BY <1>0 DEF TypeInv, JobOK, Begin, LoginFetch, LoginCreate, At
<1>2. ASSUME NEW answered, NEW failed, DOMAIN answered = JobFields, answered.pc # "emit",
             failed.pc # "emit", Lookup(w, answered, failed)
      PROVE  FellowsInv'
  <2>1. UNCHANGED <<charReg, member, late, told>>
    BY <1>2 DEF Lookup, historyVars
  <2>2. PICK k : k = [answered EXCEPT !.answer = source[j.chr], !.asOf = emitted]
    OBVIOUS
  <2>3. k.pc # "emit"
    BY <1>2, <2>2 DEF JobFields
  <2>4. Become(w, failed) \/ Become(w, k)
    BY <1>0, <1>2, <2>2 DEF Lookup
  <2> QED BY <1>0, <1>1, <1>2, <2>1, <2>3, <2>4, FellowsQuiet
<1>3. \A pc : DOMAIN Goto(j, pc) = JobFields /\ Goto(j, pc).pc = pc
  BY <1>1 DEF Goto, JobFields
<1>4. NoJob.pc # "emit"
  BY DEF NoJob
<1>5. CASE Begin(w)
  <2>0. PICK next \in {"enter", "set"} : \E failed :
          /\ GetById(w, Goto(j, next), failed)
          /\ failed = NoJob \/ failed = Goto(j, "login.fetch")
    BY <1>0, <1>5 DEF Begin
  <2>1. PICK failed :
          /\ GetById(w, Goto(j, next), failed)
          /\ failed = NoJob \/ failed = Goto(j, "login.fetch")
    BY <2>0
  <2>2. failed.pc # "emit"
    BY <1>3, <1>4, <2>1
  <2>3. CASE /\ Become(w, [Goto(j, next) EXCEPT !.rec = charReg[j.chr]])
             /\ UNCHANGED <<sourceVars, charReg, historyVars>>
    <3>1. PICK k : k = [Goto(j, next) EXCEPT !.rec = charReg[j.chr]]
      OBVIOUS
    <3>2. k.pc # "emit"
      BY <1>1, <2>0, <3>1 DEF Goto, JobFields
    <3>3. UNCHANGED <<charReg, member, late, told>>
      BY <2>3 DEF historyVars
    <3> QED BY <1>0, <1>1, <2>3, <3>1, <3>2, <3>3, FellowsQuiet
  <2>4. CASE Lookup(w, j, failed)
    BY <1>1, <1>2, <2>2, <2>4
  <2>5. CASE StoreAnswer(w, Fresh(j.answer, j.answer.mapId, NoChannel), Goto(j, next))
    BY <1>0, <1>1, <2>0, <2>5, StoreFellows
  <2> QED BY <1>0, <2>1, <2>3, <2>4, <2>5 DEF GetById
<1>6. CASE LoginFetch(w)
  <2>1. Lookup(w, Goto(j, "login.create"), NoJob)
    BY <1>0, <1>6 DEF LoginFetch
  <2> QED BY <1>2, <1>3, <1>4, <2>1
<1>7. CASE LoginCreate(w)
  <2>1. PICK record : StoreAnswer(w, record, Goto(j, "set"))
    BY <1>0, <1>7 DEF LoginCreate
  <2>2. PICK pc : pc = "set"
    OBVIOUS
  <2> QED BY <1>0, <1>1, <2>1, <2>2, StoreFellows
<1> QED BY <1>5, <1>6, <1>7

\* What a setter makes of the field its event announces, and of the others.
SetsField(e, record, old) ==
  /\ Announces(e, record)
  /\ \A f \in Fields : Told(e, f) \/ Field(record, f) = Field(old, f)
  /\ record.partyId = old.partyId

LEMMA SettersAnnounce ==
  ASSUME NEW m \in Character, NEW e, EventOK(e)
  PROVE  /\ e.type = "LOGIN" => SetsField(e, ChangeChannel(Login(m), e.body.channelId), m)
         /\ e.type = "LOGOUT" => SetsField(e, Logout(m), m)
         /\ e.type = "CHANNEL_CHANGED" => SetsField(e, ChangeChannel(m, e.body.channelId), m)
         /\ e.type = "MAP_CHANGED" => SetsField(e, ChangeMap(m, e.body.mapId), m)
         /\ e.type = "LEVEL_CHANGED" => SetsField(e, ChangeLevel(m, e.body.level), m)
         /\ e.type = "JOB_CHANGED" => SetsField(e, ChangeJob(m, e.body.jobId), m)
<1>1. ASSUME e.type = "LOGIN" PROVE SetsField(e, ChangeChannel(Login(m), e.body.channelId), m)
  <2>1. PICK r : r = ChangeChannel(Login(m), e.body.channelId)
    OBVIOUS
  <2>2. /\ r.partyId = m.partyId /\ r.level = m.level /\ r.jobId = m.jobId /\ r.online = TRUE
    BY <2>1 DEF Character, ChangeChannel, Login
  <2> QED BY <1>1, <2>1, <2>2 DEF SetsField, Announces, Told, Fields, Field
<1>2. ASSUME e.type = "LOGOUT" PROVE SetsField(e, Logout(m), m)
  <2>1. PICK r : r = Logout(m)
    OBVIOUS
  <2>2. r.partyId = m.partyId /\ r.level = m.level /\ r.jobId = m.jobId /\ r.online = FALSE
    BY <2>1 DEF Character, Logout
  <2> QED BY <1>2, <2>1, <2>2 DEF SetsField, Announces, Told, Fields, Field
<1>3. ASSUME e.type = "CHANNEL_CHANGED" PROVE SetsField(e, ChangeChannel(m, e.body.channelId), m)
  <2>1. PICK r : r = ChangeChannel(m, e.body.channelId)
    OBVIOUS
  <2>2. r.partyId = m.partyId /\ r.level = m.level /\ r.jobId = m.jobId /\ r.online = m.online
    BY <2>1 DEF Character, ChangeChannel
  <2> QED BY <1>3, <2>1, <2>2 DEF SetsField, Announces, Told, Fields, Field
<1>4. ASSUME e.type = "MAP_CHANGED" PROVE SetsField(e, ChangeMap(m, e.body.mapId), m)
  <2>1. PICK r : r = ChangeMap(m, e.body.mapId)
    OBVIOUS
  <2>2. r.partyId = m.partyId /\ r.level = m.level /\ r.jobId = m.jobId /\ r.online = m.online
    BY <2>1 DEF Character, ChangeMap
  <2> QED BY <1>4, <2>1, <2>2 DEF SetsField, Announces, Told, Fields, Field
<1>5. ASSUME e.type = "LEVEL_CHANGED" PROVE SetsField(e, ChangeLevel(m, e.body.level), m)
  <2>1. PICK r : r = ChangeLevel(m, e.body.level)
    OBVIOUS
  <2>2. r.partyId = m.partyId /\ r.level = e.body.level /\ r.jobId = m.jobId /\ r.online = m.online
    BY <2>1 DEF Character, ChangeLevel
  <2> QED BY <1>5, <2>1, <2>2 DEF SetsField, Announces, Told, Fields, Field
<1>6. ASSUME e.type = "JOB_CHANGED" PROVE SetsField(e, ChangeJob(m, e.body.jobId), m)
  <2>1. PICK r : r = ChangeJob(m, e.body.jobId)
    OBVIOUS
  <2>2. r.partyId = m.partyId /\ r.level = m.level /\ r.jobId = e.body.jobId /\ r.online = m.online
    BY <2>1 DEF Character, ChangeJob
  <2> QED BY <1>6, <2>1, <2>2 DEF SetsField, Announces, Told, Fields, Field
<1> QED BY <1>1, <1>2, <1>3, <1>4, <1>5, <1>6

\* A handler's update is announced, if the record it has left is in a party.
LEMMA AttributeSetFellows ==
  ASSUME OneConsumer, TypeInv, FlowInv, FellowsInv, NEW w \in Workers, AttributeSet(w)
  PROVE  FellowsInv'
<1> DEFINE j == job[w]
<1>0. PICK c, e : c = j.chr /\ e = j.event
  OBVIOUS
<1>1. /\ j.pc = "set" /\ DOMAIN j = JobFields
      /\ e # None /\ EventOK(e) /\ j.op = e.type /\ c = e.chr
      /\ c \in DOMAIN charReg /\ charReg[c] \in Character
  BY <1>0, AttributeSetStep
<1>2. PICK record : SetRecord(w, record) /\ SetsField(e, record, charReg[c])
  BY <1>0, <1>1, SettersAnnounce
  DEF AttributeSet, LoginSet, LogoutSet, ChannelChangeSet, MapChangeSet, LevelChangeSet,
      JobChangeSet, Handling, Body, Stored
<1>3. /\ charReg' = Put(charReg, c, record) /\ late' = late /\ member' = member /\ told' = told
  BY <1>0, <1>2 DEF SetRecord, historyVars
<1>4. PICK k :
        /\ Become(w, k)
        /\ \/ k = NoJob /\ (record.partyId = NoParty \/ e.type \in {"MAP_CHANGED", "CHANNEL_CHANGED"})
           \/ k = Goto(j, "emit")
  BY <1>0, <1>2 DEF SetRecord
<1>5. k.pc = "emit" => k.chr = c /\ k.event = e
  <2>1. NoJob.pc # "emit"
    BY DEF NoJob
  <2>2. CASE k = Goto(j, "emit")
    <3>1. Follows(j, k, "emit")
      BY <1>1, <2>2, Going
    <3> QED BY <1>0, <3>1 DEF Follows
  <2> QED BY <1>4, <2>1, <2>2
<1>6. \A v \in Workers : job'[v] = IF v = w THEN k ELSE job[v]
  BY <1>4 DEF Become, TypeInv, MembershipInv, JobsOK
<1>7. c \in DOMAIN charReg' /\ charReg'[c] = record
      /\ \A d : d # c /\ Cached(d) => d \in DOMAIN charReg' /\ charReg'[d] = charReg[d]
  BY <1>3 DEF Put, Cached
<1>8. ASSUME NEW d \in Characters \ late', d # c
      PROVE  FellowOK(d)'
  <2>1. FellowOK(d) /\ (member[d] # NoParty => Cached(d))
    BY <1>3, MembersCached DEF FellowsInv
  <2> QED BY <1>0, <1>1, <1>3, <1>4, <1>5, <1>7, <1>8, <2>1, FellowKept
<1>9. ASSUME c \in Characters \ late'
      PROVE  FellowOK(c)'
  <2>1. FellowOK(c) /\ (member[c] # NoParty => charReg[c].partyId = member[c])
    BY <1>3, <1>9, MembersCached DEF FellowsInv
  <2>2. ASSUME member[c] # NoParty
        PROVE  /\ told[c] # None
               /\ \A f \in Fields : Knows(told[c], record, f) \/ Emitting(c, f)'
    <3>1. record.partyId # NoParty
      BY <1>2, <2>1, <2>2 DEF SetsField
    <3>2. ASSUME NEW f \in Fields, Told(e, f)
          PROVE  Emitting(c, f)'
      <4>1. e.type \notin {"MAP_CHANGED", "CHANNEL_CHANGED"}
        BY <3>2 DEF Told
      <4>2. k = Goto(j, "emit")
        BY <1>4, <3>1, <4>1
      <4>3. job'[w].pc = "emit" /\ job'[w].chr = c /\ job'[w].event = e
        BY <1>1, <1>5, <1>6, <4>2 DEF Goto, JobFields
      <4> QED BY <3>2, <4>3 DEF Emitting, At
    <3>3. ASSUME NEW f \in Fields, ~Told(e, f)
          PROVE  Knows(told[c], record, f) \/ Emitting(c, f)'
      <4>1. Field(record, f) = Field(charReg[c], f)
        BY <1>2, <3>3 DEF SetsField
      <4>2. Emitting(c, f) => Emitting(c, f)'
        BY <1>1, <1>6 DEF Emitting, At
      <4> QED BY <2>1, <2>2, <4>1, <4>2 DEF FellowOK, Knows
    <3> QED BY <2>1, <2>2, <3>2, <3>3 DEF FellowOK
  <2>3. ASSUME NEW v \in Workers, At(v, "emit")', job'[v].chr = c
        PROVE  Cached(c)' /\ Announces(job'[v].event, record)
    <3>1. v = w
      <4>1. ASSUME v # w PROVE FALSE
        <5>1. job[v].pc = "emit"
          BY <1>6, <2>3, <4>1 DEF At
        <5>2. job[v].event # None
          BY <5>1 DEF TypeInv, JobOK
        <5> QED BY <1>0, <1>1, <4>1, <5>2, OneAtWork
      <4> QED BY <4>1
    <3>2. job'[v].event = e
      BY <1>5, <1>6, <2>3, <3>1 DEF At
    <3> QED BY <1>2, <1>7, <3>2 DEF SetsField, Cached
  <2>4. member'[c] # NoParty =>
          /\ told'[c] # None
          /\ \A f \in Fields : Knows(told'[c], charReg'[c], f) \/ Emitting(c, f)'
    BY <1>3, <1>7, <2>2
  <2> QED BY <1>7, <2>3, <2>4 DEF FellowOK, Knows, Field, Announces
<1>10. c \in Characters
  BY <1>1 DEF EventOK
<1> QED BY <1>8, <1>9 DEF FellowsInv

\* JOINED tells the record as it is, LEFT ends the matter.
LEMMA MembershipSetFellows ==
  ASSUME TypeInv, FellowsInv, NEW w \in Workers, MembershipSet(w)
  PROVE  FellowsInv'
<1> DEFINE j == job[w]
<1>0. PICK c : c = j.chr
  OBVIOUS
<1>1. j.pc \in {"enter", "leave.set"} /\ JobOK(j)
  BY DEF TypeInv, MembershipSet, JoinPartySet, LeavePartySet, At
<1>2. c \in Characters /\ c \in DOMAIN charReg /\ charReg[c] \in Character
  BY <1>0, <1>1 DEF JobOK, NoJob, TypeInv, MembershipInv, JobsOK, Cached, Updating
<1>3. PICK record :
        /\ Membership(w, record)
        /\ record \in Character
        /\ record.level = charReg[c].level /\ record.jobId = charReg[c].jobId
        /\ record.online = charReg[c].online
  <2>1. \A p \in Parties \cup {NoParty} :
               /\ JoinParty(charReg[c], p) \in Character
               /\ JoinParty(charReg[c], p).level = charReg[c].level
               /\ JoinParty(charReg[c], p).jobId = charReg[c].jobId
               /\ JoinParty(charReg[c], p).online = charReg[c].online
    BY <1>2 DEF JoinParty, Character
  <2>2. LeaveParty(charReg[c]) = JoinParty(charReg[c], NoParty)
    BY DEF LeaveParty, JoinParty
  <2>3. \E p \in Parties \cup {NoParty} : Membership(w, JoinParty(charReg[c], p))
    BY <1>0, <1>1, <2>2 DEF MembershipSet, JoinPartySet, LeavePartySet, Stored, JobOK
  <2> QED BY <2>1, <2>3
<1>4. /\ charReg' = Put(charReg, c, record) /\ late' = late /\ Become(w, NoJob)
      /\ member' = [member EXCEPT ![c] = record.partyId]
      /\ told' = [told EXCEPT ![c] = IF record.partyId = NoParty THEN None ELSE record]
  BY <1>0, <1>3 DEF Membership
<1>5. NoJob.pc # "emit" /\ j.pc # "emit"
  BY <1>1 DEF NoJob
<1>6. c \in DOMAIN charReg' /\ charReg'[c] = record
      /\ \A d : d # c /\ Cached(d) => d \in DOMAIN charReg' /\ charReg'[d] = charReg[d]
  BY <1>4 DEF Put, Cached
<1>7. ASSUME NEW d \in Characters \ late', d # c
      PROVE  FellowOK(d)'
  <2>1. FellowOK(d) /\ (member[d] # NoParty => Cached(d))
    BY <1>4, MembersCached DEF FellowsInv
  <2>2. member'[d] = member[d] /\ told'[d] = told[d]
    BY <1>4, <1>7 DEF TypeInv, MembershipInv
  <2> QED BY <1>4, <1>5, <1>6, <1>7, <2>1, <2>2, FellowKept
<1>8. ASSUME c \notin late'
      PROVE  FellowOK(c)'
  <2>1. member'[c] = record.partyId /\ told'[c] = IF record.partyId = NoParty THEN None ELSE record
    BY <1>2, <1>4 DEF TypeInv, MembershipInv
  <2>2. member'[c] # NoParty => told'[c] = record /\ told'[c] # None
    BY <1>3, <2>1, NothingThere
  <2>3. \A v \in Workers : job'[v] = IF v = w THEN NoJob ELSE job[v]
    BY <1>4 DEF Become, TypeInv, MembershipInv, JobsOK
  <2>4. ASSUME NEW v \in Workers, At(v, "emit")', job'[v].chr = c
        PROVE  Cached(c)' /\ Announces(job'[v].event, charReg'[c])
    <3>1. At(v, "emit") /\ job[v].chr = c /\ job'[v] = job[v]
      BY <1>5, <2>3, <2>4 DEF At
    <3>2. Announces(job[v].event, charReg[c])
      BY <1>2, <1>4, <1>8, <3>1 DEF FellowsInv, FellowOK
    <3>3. Announces(job[v].event, record)
      BY <1>3, <3>2 DEF Announces
    <3> QED BY <1>6, <3>1, <3>3 DEF Cached
  <2> QED BY <1>6, <2>2, <2>4 DEF FellowOK, Knows, Field, Announces
<1> QED BY <1>7, <1>8 DEF FellowsInv

\* What a fellow makes of an announcement.
LEMMA Learned ==
  ASSUME NEW known \in Fellow, NEW e, EventOK(e), e.type \in Announced
  PROVE  /\ Learn(known, MemberEvent(e)) \in Fellow
         /\ \A m : \A f \in Fields : Announces(e, m) /\ Told(e, f) =>
              Field(Learn(known, MemberEvent(e)), f) = Field(m, f)
         /\ \A f \in Fields : ~Told(e, f) =>
              Field(Learn(known, MemberEvent(e)), f) = Field(known, f)
<1>0. PICK m : m = MemberEvent(e)
  OBVIOUS
<1>1. /\ m.type = e.type
      /\ e.type = "LEVEL_CHANGED" => m.newLevel = e.body.level
      /\ e.type = "JOB_CHANGED" => m.newJobId = e.body.jobId
  BY <1>0 DEF MemberEvent, Announced
<1>2. known # None /\ e.body.level \in Levels /\ e.body.jobId \in JobIds
  BY NothingThere DEF EventOK, Session
<1>3. PICK k : k = Learn(known, m)
  OBVIOUS
<1>4. CASE e.type = "LOGIN"
  <2>1. k = Login(known)
    BY <1>1, <1>2, <1>3, <1>4 DEF Learn
  <2>2. k \in Fellow /\ k.online = TRUE /\ k.level = known.level /\ k.jobId = known.jobId
    BY <2>1 DEF Login, Fellow
  <2> QED BY <1>0, <1>3, <1>4, <2>2 DEF Announces, Told, Fields, Field
<1>5. CASE e.type = "LOGOUT"
  <2>1. k = Logout(known)
    BY <1>1, <1>2, <1>3, <1>5 DEF Learn
  <2>2. k \in Fellow /\ k.online = FALSE /\ k.level = known.level /\ k.jobId = known.jobId
    BY <2>1 DEF Logout, Fellow
  <2> QED BY <1>0, <1>3, <1>5, <2>2 DEF Announces, Told, Fields, Field
<1>6. CASE e.type = "LEVEL_CHANGED"
  <2>1. k = ChangeLevel(known, e.body.level)
    BY <1>1, <1>2, <1>3, <1>6 DEF Learn
  <2>2. /\ k \in Fellow /\ k.online = known.online /\ k.level = e.body.level
        /\ k.jobId = known.jobId
    BY <1>2, <2>1 DEF ChangeLevel, Fellow
  <2> QED BY <1>0, <1>3, <1>6, <2>2 DEF Announces, Told, Fields, Field
<1>7. CASE e.type = "JOB_CHANGED"
  <2>1. k = ChangeJob(known, e.body.jobId)
    BY <1>1, <1>2, <1>3, <1>7 DEF Learn
  <2>2. /\ k \in Fellow /\ k.online = known.online /\ k.level = known.level
        /\ k.jobId = e.body.jobId
    BY <1>2, <2>1 DEF ChangeJob, Fellow
  <2> QED BY <1>0, <1>3, <1>7, <2>2 DEF Announces, Told, Fields, Field
<1> QED BY <1>4, <1>5, <1>6, <1>7 DEF Announced

\* And of one that is lost.
LEMMA Missed ==
  ASSUME NEW known \in Fellow, NEW e, EventOK(e), e.type \in Announced
  PROVE  /\ Miss(known, MemberEvent(e)) \in Fellow
         /\ \A f \in Fields : Told(e, f) => Field(Miss(known, MemberEvent(e)), f) = Unheard
         /\ \A f \in Fields : ~Told(e, f) =>
              Field(Miss(known, MemberEvent(e)), f) = Field(known, f)
<1>0. PICK m : m = MemberEvent(e)
  OBVIOUS
<1>1. m.type = e.type
  BY <1>0 DEF MemberEvent, Announced
<1>2. known # None
  BY NothingThere
<1>3. PICK k : k = Miss(known, m)
  OBVIOUS
<1>4. CASE e.type \in {"LOGIN", "LOGOUT"}
  <2>1. k = [known EXCEPT !.online = Unheard]
    BY <1>1, <1>2, <1>3, <1>4 DEF Miss
  <2>2. k \in Fellow /\ k.online = Unheard /\ k.level = known.level /\ k.jobId = known.jobId
    BY <2>1 DEF Fellow
  <2> QED BY <1>0, <1>3, <1>4, <2>2 DEF Told, Fields, Field
<1>5. CASE e.type = "LEVEL_CHANGED"
  <2>1. k = [known EXCEPT !.level = Unheard]
    BY <1>1, <1>2, <1>3, <1>5 DEF Miss
  <2>2. k \in Fellow /\ k.online = known.online /\ k.level = Unheard /\ k.jobId = known.jobId
    BY <2>1 DEF Fellow
  <2> QED BY <1>0, <1>3, <1>5, <2>2 DEF Told, Fields, Field
<1>6. CASE e.type = "JOB_CHANGED"
  <2>1. k = [known EXCEPT !.jobId = Unheard]
    BY <1>1, <1>2, <1>3, <1>6 DEF Miss
  <2>2. k \in Fellow /\ k.online = known.online /\ k.level = known.level /\ k.jobId = Unheard
    BY <2>1 DEF Fellow
  <2> QED BY <1>0, <1>3, <1>6, <2>2 DEF Told, Fields, Field
<1> QED BY <1>4, <1>5, <1>6 DEF Announced

\* The announcement tells what the record says, and nothing else; lost, it leaves the
\* other fields alone.
LEMMA EmitFellows ==
  ASSUME TypeInv, FellowsInv, NEW w \in Workers, EventEmit(w)
  PROVE  FellowsInv'
<1> DEFINE j == job[w]
<1>0. PICK c, e : c = j.chr /\ e = j.event
  OBVIOUS
<1>1. j.pc = "emit" /\ JobOK(j)
  BY DEF TypeInv, EventEmit, At
<1>2. c \in Characters /\ e # None /\ EventOK(e) /\ e.type \in Announced
  BY <1>0, <1>1 DEF JobOK, NoJob
<1>3. /\ \/ told' = [told EXCEPT ![c] = Learn(told[c], MemberEvent(e))]
         \/ told' = [told EXCEPT ![c] = Miss(told[c], MemberEvent(e))]
      /\ Become(w, NoJob) /\ charReg' = charReg /\ member' = member /\ late' = late
  BY <1>0 DEF EventEmit
<1>4. NoJob.pc # "emit"
  BY DEF NoJob
<1>5. \A v \in Workers : job'[v] = IF v = w THEN NoJob ELSE job[v]
  BY <1>3 DEF Become, TypeInv, MembershipInv, JobsOK
<1>6. ASSUME NEW d \in Characters \ late', d # c
      PROVE  FellowOK(d)'
  <2>1. FellowOK(d) /\ (member[d] # NoParty => Cached(d))
    BY <1>3, MembersCached DEF FellowsInv
  <2>2. member'[d] = member[d] /\ told'[d] = told[d]
    BY <1>3, <1>6 DEF TypeInv
  <2> QED BY <1>0, <1>3, <1>4, <1>6, <2>1, <2>2, FellowKept DEF Cached
<1>7. ASSUME c \notin late'
      PROVE  FellowOK(c)'
  <2>1. FellowOK(c)
    BY <1>2, <1>3, <1>7 DEF FellowsInv
  <2>2. Announces(e, charReg[c])
    BY <1>0, <1>1, <2>1 DEF FellowOK, At
  <2>3. PICK n : /\ n = told'[c]
                 /\ n = Learn(told[c], MemberEvent(e)) \/ n = Miss(told[c], MemberEvent(e))
    BY <1>2, <1>3 DEF TypeInv
  <2>4. ASSUME member[c] # NoParty
        PROVE  /\ n # None
               /\ \A f \in Fields : Knows(n, charReg[c], f) \/ Emitting(c, f)'
    <3>1. told[c] \in Fellow
      BY <1>2, <2>1, <2>4 DEF FellowOK, TypeInv
    <3>2. /\ n \in Fellow
          /\ \A f \in Fields : Told(e, f) => Knows(n, charReg[c], f)
          /\ \A f \in Fields : ~Told(e, f) => Field(n, f) = Field(told[c], f)
      <4>1. PICK known \in Fellow : known = told[c]
        BY <3>1
      <4>2. CASE n = Learn(known, MemberEvent(e))
        <5>1. \A f \in Fields : Told(e, f) =>
                Field(Learn(known, MemberEvent(e)), f) = Field(charReg[c], f)
          BY <1>2, <2>2, Learned
        <5>2. /\ Learn(known, MemberEvent(e)) \in Fellow
              /\ \A f \in Fields : ~Told(e, f) =>
                   Field(Learn(known, MemberEvent(e)), f) = Field(known, f)
          BY <1>2, Learned
        <5> QED BY <4>1, <4>2, <5>1, <5>2 DEF Knows
      <4>3. CASE n = Miss(known, MemberEvent(e))
        <5>1. /\ Miss(known, MemberEvent(e)) \in Fellow
              /\ \A f \in Fields : Told(e, f) => Field(Miss(known, MemberEvent(e)), f) = Unheard
              /\ \A f \in Fields : ~Told(e, f) =>
                   Field(Miss(known, MemberEvent(e)), f) = Field(known, f)
          BY <1>2, Missed
        <5> QED BY <4>1, <4>3, <5>1 DEF Knows
      <4> QED BY <2>3, <4>1, <4>2, <4>3
    <3>3. ASSUME NEW f \in Fields, ~Told(e, f), Emitting(c, f)
          PROVE  Emitting(c, f)'
      <4>1. PICK v \in Workers : At(v, "emit") /\ job[v].chr = c /\ Told(job[v].event, f)
        BY <3>3 DEF Emitting
      <4>2. v # w
        BY <1>0, <3>3, <4>1
      <4> QED BY <1>5, <4>1, <4>2 DEF Emitting, At
    <3> QED BY <2>1, <2>4, <3>2, <3>3, NothingThere DEF FellowOK, Knows
  <2>5. ASSUME NEW v \in Workers, At(v, "emit")', job'[v].chr = c
        PROVE  Cached(c)' /\ Announces(job'[v].event, charReg'[c])
    <3>1. At(v, "emit") /\ job[v].chr = c /\ job'[v] = job[v]
      BY <1>4, <1>5, <2>5 DEF At
    <3> QED BY <1>3, <2>1, <3>1 DEF FellowOK, Cached
  <2>6. member'[c] # NoParty =>
          /\ told'[c] # None
          /\ \A f \in Fields : Knows(told'[c], charReg'[c], f) \/ Emitting(c, f)'
    BY <1>3, <2>3, <2>4
  <2> QED BY <2>5, <2>6 DEF FellowOK, Knows, Field, Announces
<1> QED BY <1>6, <1>7 DEF FellowsInv

\* The steps that change no record and publish nothing.
LEMMA OtherFellows ==
  ASSUME TypeInv, FellowsInv, NEW w \in Workers,
         LeavePartyGet(w) \/ ReceiveEvent(w) \/ ReceiveCommand(w)
  PROVE  FellowsInv'
<1>1. UNCHANGED <<charReg, member, late, told>>
  BY DEF LeavePartyGet, ReceiveEvent, ReceiveCommand, historyVars
<1>2. NoJob.pc # "emit"
  BY DEF NoJob
<1>3. job[w].pc # "emit"
  BY <1>2 DEF LeavePartyGet, ReceiveEvent, ReceiveCommand, At, Idle
<1>4. PICK k : Become(w, k) /\ k.pc # "emit"
  <2>1. CASE LeavePartyGet(w)
    <3>1. Goto(job[w], "leave.set").pc # "emit"
      BY DEF Goto, TypeInv, JobOK, JobFields
    <3> QED BY <1>2, <2>1, <3>1 DEF LeavePartyGet
  <2>2. CASE ReceiveEvent(w)
    <3>1. PICK e : Become(w, [NoJob EXCEPT !.op = e.type, !.pc = "get", !.chr = e.chr, !.event = e])
      BY <2>2 DEF ReceiveEvent
    <3>2. PICK k : k = [NoJob EXCEPT !.op = e.type, !.pc = "get", !.chr = e.chr, !.event = e]
      OBVIOUS
    <3>3. k.pc = "get"
      BY <3>2 DEF NoJob
    <3> QED BY <3>1, <3>2, <3>3
  <2>3. CASE ReceiveCommand(w)
    <3>1. CASE \E c \in Characters, p \in Parties :
                 Become(w, [NoJob EXCEPT !.op = "JOIN", !.pc = "get", !.chr = c, !.party = p])
      <4>1. PICK c, p : Become(w, [NoJob EXCEPT !.op = "JOIN", !.pc = "get", !.chr = c, !.party = p])
        BY <3>1
      <4>2. PICK k : k = [NoJob EXCEPT !.op = "JOIN", !.pc = "get", !.chr = c, !.party = p]
        OBVIOUS
      <4>3. k.pc = "get"
        BY <4>2 DEF NoJob
      <4> QED BY <4>1, <4>2, <4>3
    <3>2. CASE \E c \in Characters :
                 Become(w, [NoJob EXCEPT !.op = "LEAVE", !.pc = "leave", !.chr = c])
      <4>1. PICK c : Become(w, [NoJob EXCEPT !.op = "LEAVE", !.pc = "leave", !.chr = c])
        BY <3>2
      <4>2. PICK k : k = [NoJob EXCEPT !.op = "LEAVE", !.pc = "leave", !.chr = c]
        OBVIOUS
      <4>3. k.pc = "leave"
        BY <4>2 DEF NoJob
      <4> QED BY <4>1, <4>2, <4>3
    <3> QED BY <2>3, <3>1, <3>2 DEF ReceiveCommand
  <2> QED BY <2>1, <2>2, <2>3
<1> QED BY <1>1, <1>3, <1>4, FellowsQuiet

LEMMA FellowsInit == Init => FellowsInv
<1> SUFFICES ASSUME Init PROVE FellowsInv
  OBVIOUS
<1>1. job = [w \in Workers |-> NoJob] /\ member = [c \in Characters |-> NoParty]
  BY DEF Init
<1>2. NoJob.pc # "emit"
  BY DEF NoJob
<1> QED BY <1>1, <1>2 DEF FellowsInv, FellowOK, At

LEMMA FellowsNext == OneConsumer /\ TypeInv /\ FlowInv /\ FellowsInv /\ [Next]_vars => FellowsInv'
<1> SUFFICES ASSUME OneConsumer, TypeInv, FlowInv, FellowsInv, [Next]_vars
             PROVE  FellowsInv'
  OBVIOUS
<1>1. CASE \E w \in Workers : Work(w) \/ ReceiveEvent(w) \/ ReceiveCommand(w)
  <2>1. PICK w \in Workers : Work(w) \/ ReceiveEvent(w) \/ ReceiveCommand(w)
    BY <1>1
  <2>2. \/ Begin(w) \/ LoginFetch(w) \/ LoginCreate(w) \/ AttributeSet(w) \/ MembershipSet(w)
        \/ EventEmit(w) \/ LeavePartyGet(w) \/ ReceiveEvent(w) \/ ReceiveCommand(w)
    BY <2>1 DEF Work, AttributeSet, MembershipSet
  <2> QED BY <2>2, LookupFellows, AttributeSetFellows, MembershipSetFellows, EmitFellows,
             OtherFellows
<1>2. CASE (\E c \in Characters : SourceChanges(c)) \/ UNCHANGED vars
  <2>1. UNCHANGED <<charReg, job, member, late, told>>
    BY <1>2 DEF SourceChanges, Change, historyVars, vars
  <2>2. \A c, f : Emitting(c, f)' <=> Emitting(c, f)
    BY <2>1 DEF Emitting, At
  <2>3. ASSUME NEW c \in Characters \ late', NEW v \in Workers, At(v, "emit")', job'[v].chr = c
        PROVE  Cached(c)' /\ Announces(job'[v].event, charReg'[c])
    <3>1. At(v, "emit") /\ job[v].chr = c /\ job'[v] = job[v]
      BY <2>1, <2>3 DEF At
    <3> QED BY <2>1, <3>1 DEF FellowsInv, FellowOK, Cached
  <2>4. ASSUME NEW c \in Characters \ late'
        PROVE  member'[c] # NoParty =>
                 /\ told'[c] # None
                 /\ \A f \in Fields : Knows(told'[c], charReg'[c], f) \/ Emitting(c, f)'
    BY <2>1, <2>2, <2>4 DEF FellowsInv, FellowOK
  <2> QED BY <2>3, <2>4 DEF FellowsInv, FellowOK, Knows, Field, Announces
<1>3. CASE Restart
  <2>1. job' = [w \in Workers |-> NoJob] /\ member' = [c \in Characters |-> NoParty]
    BY <1>3 DEF Restart
  <2>2. NoJob.pc # "emit"
    BY DEF NoJob
  <2> QED BY <2>1, <2>2 DEF FellowsInv, FellowOK, At
<1> QED BY <1>1, <1>2, <1>3 DEF Next

\* What the members of a party know of a fellow is what the record says, once no handler
\* is on its way: a change that races a join is in the record the join finds or is
\* announced after it, because the handler asks the updated record for the party
\* (character/processor.go:79).  Only what the broker has refused is missing, until the
\* attribute is announced again.  For any number of characters, parties, command workers
\* and changes, if one worker reads the topic.
THEOREM FellowsKnow ==
  ASSUME OneConsumer
  PROVE  Spec => []FellowsInformed
<1>1. Init => TypeInv /\ FlowInv /\ FellowsInv
  BY TypeInit, FlowInit, FellowsInit
<1>2. TypeInv /\ FlowInv /\ FellowsInv /\ [Next]_vars => TypeInv' /\ FlowInv' /\ FellowsInv'
  BY TypeNext, FlowNext, FellowsNext
<1>3. FellowsInv => FellowsInformed
  <2> SUFFICES ASSUME FellowsInv, AllIdle, NEW c \in Characters \ late, member[c] # NoParty
               PROVE  /\ told[c].online \in {charReg[c].online, Unheard}
                      /\ told[c].level \in {charReg[c].level, Unheard}
                      /\ told[c].jobId \in {charReg[c].jobId, Unheard}
    BY DEF FellowsInformed
  <2>1. NoJob.pc # "emit"
    BY DEF NoJob
  <2>2. \A f : ~Emitting(c, f)
    BY <2>1 DEF AllIdle, Idle, Emitting, At
  <2>3. \A f \in Fields : Knows(told[c], charReg[c], f)
    BY <2>2 DEF FellowsInv, FellowOK
  <2> QED BY <2>3 DEF Fields, Field, Knows
<1> QED BY <1>1, <1>2, <1>3, PTL DEF Spec

=============================================================================
