--------------------------- MODULE CharacterService ---------------------------
(***************************************************************************)
(* The cached character records and who writes them: the handlers of the   *)
(* character topic (kafka/consumer/character, character/processor.go),     *)
(* JoinParty and LeaveParty on behalf of the party commands, and the cache *)
(* fill of ByIdProvider.  The character service is the source of the       *)
(* attributes: it answers lookups with what it holds and publishes each    *)
(* change as an event, in order.                                           *)
(*                                                                         *)
(* Each registry call is one step; the answer of the character service and *)
(* the Create that stores it are two.  External: the topic is read in      *)
(* order, a handler's event is worked off before the next one is taken by  *)
(* the same worker, and an event in flight when the process dies is        *)
(* delivered again or lost.                                                *)
(*                                                                         *)
(* Left out: name, GM rank and world, which no setter changes, and the old *)
(* value that LEVEL_CHANGED and JOB_CHANGED announce beside the new one.   *)
(* Deletion is in PartyService.                                            *)
(***************************************************************************)
EXTENDS Integers, Sequences, GoMap

CONSTANTS
  Characters, Parties, Maps, Levels, JobIds, Channels,
  NoParty, NoChannel, NoMap,  \* the zero values: in no party, the channel a lookup
                              \* does not tell
  Unheard,    \* what a fellow knows of an attribute whose announcement was lost
  Workers,    \* the goroutines that run handlers
  Consuming,  \* those that read the character topic; the others run party commands
  MaxEvents   \* bound: how often the character service changes something

ASSUME AttributesAssumption ==
  /\ NoParty \notin Parties /\ NoChannel \notin Channels /\ NoMap \notin Maps
  /\ Consuming \subseteq Workers
  /\ MaxEvents \in Nat

VARIABLES
  source,   \* the character service: attributes and session of each character
  topic,    \* its events that no handler has taken yet
  emitted,  \* how many events it has published
  charReg,  \* r.characterReg[t]
  job,      \* what each worker is doing
  member,   \* history: the party JoinParty or LeaveParty last put a character in
  late,     \* history: the characters whose record came out of a lookup that was
            \* overtaken by another handler before Create stored its answer
  told      \* what the members of the party know of a fellow: the record at the
            \* time of joining, and what was announced since

vars == <<source, topic, emitted, charReg, job, member, late, told>>
sourceVars == <<source, topic, emitted>>
historyVars == <<member, late, told>>

EventTypes == {"LOGIN", "LOGOUT", "CHANNEL_CHANGED", "MAP_CHANGED", "LEVEL_CHANGED", "JOB_CHANGED"}

\* A status event; body is what the character service held when it was published.
Event(type, c, body) == [type |-> type, chr |-> c, body |-> body]

Character == [partyId : Parties \cup {NoParty}, mapId : Maps, level : Levels, jobId : JobIds,
              channelId : Channels \cup {NoChannel}, online : BOOLEAN]

\* What is known of a fellow.
Fellow == [partyId : Parties \cup {NoParty}, mapId : Maps, level : Levels \cup {Unheard},
           jobId : JobIds \cup {Unheard}, channelId : Channels \cup {NoChannel},
           online : BOOLEAN \cup {Unheard}]

Session == [mapId : Maps, level : Levels, jobId : JobIds, channelId : Channels, online : BOOLEAN]

-----------------------------------------------------------------------------
(* The setters of character.Model.                                         *)

\* A slip: the literal of the setter forgets a field.
ChangeLevelOnly(m, level) == [m EXCEPT !.level = level, !.mapId = NoMap]

JoinParty(m, p)      == [m EXCEPT !.partyId = p]
LeaveParty(m)        == [m EXCEPT !.partyId = NoParty]
ChangeMap(m, map)    == [m EXCEPT !.mapId = map]
ChangeChannel(m, ch) == [m EXCEPT !.channelId = ch]
Logout(m)            == [m EXCEPT !.online = FALSE]
Login(m)             == [m EXCEPT !.online = TRUE]
ChangeLevel(m, l)    == [m EXCEPT !.level = l]
ChangeJob(m, id)     == [m EXCEPT !.jobId = id]

\* What Create makes of the answer fm of the character service.
Fresh(fm, map, channel) ==
  [partyId |-> NoParty, mapId |-> map, level |-> fm.level, jobId |-> fm.jobId,
   channelId |-> channel, online |-> FALSE]

-----------------------------------------------------------------------------
(* Jobs.                                                                   *)

None == [none |-> TRUE]

NoJob == [op |-> "none", pc |-> "idle", chr |-> None, party |-> NoParty, event |-> None,
          answer |-> None, asOf |-> 0, rec |-> None]

Idle(w) == job[w] = NoJob
AllIdle == \A w \in Workers : Idle(w)
At(w, pc) == job[w].pc = pc
Become(w, j) == job' = [job EXCEPT ![w] = j]
Goto(j, pc) == [j EXCEPT !.pc = pc]

Cached(c) == c \in DOMAIN charReg

\* How many events handlers have taken.
Taken == emitted - Len(topic)

Init ==
  /\ source \in [Characters -> {s \in Session : ~s.online}]
  /\ topic = <<>>
  /\ emitted = 0
  /\ charReg = EmptyMap
  /\ job = [w \in Workers |-> NoJob]
  /\ member = [c \in Characters |-> NoParty]
  /\ late = {}
  /\ told = [c \in Characters |-> None]

-----------------------------------------------------------------------------
(* Steps the handlers share.                                               *)

\* GetForeignCharacterInfo: the character service fails, or answers with what it holds.
Lookup(w, answered, failed) ==
  /\ \/ Become(w, failed)
     \/ Become(w, [answered EXCEPT !.answer = source[job[w].chr], !.asOf = emitted])
  /\ UNCHANGED <<sourceVars, charReg, historyVars>>

\* Registry.Create of the record made of an answer, whatever is cached by now.
StoreAnswer(w, record, j) ==
  LET c == job[w].chr
  IN  /\ charReg' = Put(charReg, c, record)
      /\ late' = IF Cached(c) \/ job[w].asOf < Taken THEN late \cup {c} ELSE late \ {c}
      /\ Become(w, [j EXCEPT !.answer = None, !.asOf = 0, !.rec = record])
      /\ UNCHANGED <<sourceVars, member, told>>

\* GetById: the cached record, or a lookup and Create with channel 0, offline and in
\* no party.
GetById(w, found, failed) ==
  LET j == job[w]
  IN  \/ /\ j.answer = None /\ Cached(j.chr)
         /\ Become(w, [found EXCEPT !.rec = charReg[j.chr]])
         /\ UNCHANGED <<sourceVars, charReg, historyVars>>
      \/ j.answer = None /\ ~Cached(j.chr) /\ Lookup(w, j, failed)
      \/ j.answer # None /\ StoreAnswer(w, Fresh(j.answer, j.answer.mapId, NoChannel), found)

\* Registry.Update: the record as it is now, not as GetById returned it.
Stored(w) == charReg[job[w].chr]

\* Update, and the event for the party the updated record is in.
SetRecord(w, record) ==
  /\ charReg' = Put(charReg, job[w].chr, record)
  /\ Become(w, IF record.partyId # NoParty /\ job[w].event.type \notin {"MAP_CHANGED", "CHANNEL_CHANGED"}
               THEN Goto(job[w], "emit") ELSE NoJob)
  /\ UNCHANGED <<sourceVars, historyVars>>

Handling(w, type) == At(w, "set") /\ job[w].op = type
Body(w) == job[w].event.body

-----------------------------------------------------------------------------
(* The six handlers.  Each begins with GetById, in Begin, as JoinParty does.    *)
(* Only Login goes on when that fails: it asks the character service again.  *)

Begin(w) ==
  /\ At(w, "get")
  /\ GetById(w, Goto(job[w], IF job[w].op = "JOIN" THEN "enter" ELSE "set"),
             IF job[w].op = "LOGIN" THEN Goto(job[w], "login.fetch") ELSE NoJob)

LoginFetch(w) ==
  /\ At(w, "login.fetch")
  /\ Lookup(w, Goto(job[w], "login.create"), NoJob)

\* Create with the map and the channel of the event.
LoginCreate(w) ==
  /\ At(w, "login.create")
  /\ StoreAnswer(w, Fresh(job[w].answer, Body(w).mapId, Body(w).channelId), Goto(job[w], "set"))

\* A slip: the updater is left out for a character that has a record already.
LoginSetChannelOfNew(w) ==
  /\ Handling(w, "LOGIN")
  /\ SetRecord(w, Login(Stored(w)))

LoginSet(w) ==
  /\ Handling(w, "LOGIN")
  /\ SetRecord(w, ChangeChannel(Login(Stored(w)), Body(w).channelId))

\* A slip: the party is that of the record GetById returned.
LogoutSetStale(w) ==
  /\ Handling(w, "LOGOUT")
  /\ charReg' = Put(charReg, job[w].chr, Logout(Stored(w)))
  /\ Become(w, IF job[w].rec.partyId # NoParty THEN Goto(job[w], "emit") ELSE NoJob)
  /\ UNCHANGED <<sourceVars, historyVars>>

LogoutSet(w) ==
  /\ Handling(w, "LOGOUT")
  /\ SetRecord(w, Logout(Stored(w)))

ChannelChangeSet(w) ==
  /\ Handling(w, "CHANNEL_CHANGED")
  /\ SetRecord(w, ChangeChannel(Stored(w), Body(w).channelId))

\* A slip: the record GetById returned is changed and stored.
MapChangeSetStale(w) ==
  /\ Handling(w, "MAP_CHANGED")
  /\ SetRecord(w, ChangeMap(job[w].rec, Body(w).mapId))

MapChangeSet(w) ==
  /\ Handling(w, "MAP_CHANGED")
  /\ SetRecord(w, ChangeMap(Stored(w), Body(w).mapId))

LevelChangeSet(w) ==
  /\ Handling(w, "LEVEL_CHANGED")
  /\ SetRecord(w, ChangeLevel(Stored(w), Body(w).level))

\* A slip: who is in no party is of no interest.
JobChangeSetOfMembers(w) ==
  /\ Handling(w, "JOB_CHANGED")
  /\ SetRecord(w, IF Stored(w).partyId = NoParty THEN Stored(w)
                  ELSE ChangeJob(Stored(w), Body(w).jobId))

JobChangeSet(w) ==
  /\ Handling(w, "JOB_CHANGED")
  /\ SetRecord(w, ChangeJob(Stored(w), Body(w).jobId))

\* loginEventProvider and the others: what a handler announces of its event.
MemberEvent(e) ==
  CASE e.type = "LEVEL_CHANGED" -> [type |-> e.type, newLevel |-> e.body.level]
    [] e.type = "JOB_CHANGED"   -> [type |-> e.type, newJobId |-> e.body.jobId]
    [] OTHER                    -> [type |-> e.type]

\* What a fellow makes of it.
Learn(known, e) ==
  CASE known = None              -> None
    [] e.type = "LOGIN"          -> Login(known)
    [] e.type = "LOGOUT"         -> Logout(known)
    [] e.type = "LEVEL_CHANGED"  -> ChangeLevel(known, e.newLevel)
    [] e.type = "JOB_CHANGED"    -> ChangeJob(known, e.newJobId)

\* What a fellow misses when the event is lost: the attribute it tells of.
Miss(known, e) ==
  CASE known = None                   -> None
    [] e.type \in {"LOGIN", "LOGOUT"} -> [known EXCEPT !.online = Unheard]
    [] e.type = "LEVEL_CHANGED"       -> [known EXCEPT !.level = Unheard]
    [] e.type = "JOB_CHANGED"         -> [known EXCEPT !.jobId = Unheard]

\* message.Emit: the handler has returned no error and its buffer is published, or
\* producing fails.  The record is changed already, and nobody tries again.
EventEmit(w) ==
  LET e == MemberEvent(job[w].event)
  IN  /\ At(w, "emit")
      /\ \/ told' = [told EXCEPT ![job[w].chr] = Learn(@, e)]
         \/ told' = [told EXCEPT ![job[w].chr] = Miss(@, e)]
      /\ Become(w, NoJob)
      /\ UNCHANGED <<sourceVars, charReg, member, late>>

-----------------------------------------------------------------------------
(* JoinParty and LeaveParty, which the party commands call.                *)

\* The membership as the record will have it, and as fellows learn it from JOINED
\* or LEFT.
Membership(w, record) ==
  /\ charReg' = Put(charReg, job[w].chr, record)
  /\ member' = [member EXCEPT ![job[w].chr] = record.partyId]
  /\ told' = [told EXCEPT ![job[w].chr] = IF record.partyId = NoParty THEN None ELSE record]
  /\ Become(w, NoJob)
  /\ UNCHANGED <<sourceVars, late>>

JoinPartySet(w) ==
  /\ At(w, "enter")
  /\ Membership(w, JoinParty(Stored(w), job[w].party))

LeavePartyGet(w) ==
  /\ At(w, "leave")
  /\ Become(w, IF Cached(job[w].chr) THEN Goto(job[w], "leave.set") ELSE NoJob)
  /\ UNCHANGED <<sourceVars, charReg, historyVars>>

LeavePartySet(w) ==
  /\ At(w, "leave.set")
  /\ Membership(w, LeaveParty(Stored(w)))

-----------------------------------------------------------------------------
(* Messages in, the character service, and restarts.                       *)

ReceiveEvent(w) ==
  /\ w \in Consuming /\ Idle(w) /\ topic # <<>>
  /\ LET e == Head(topic)
     IN  Become(w, [NoJob EXCEPT !.op = e.type, !.pc = "get", !.chr = e.chr, !.event = e])
  /\ topic' = Tail(topic)
  /\ UNCHANGED <<source, emitted, charReg, historyVars>>

ReceiveCommand(w) ==
  /\ w \in Workers \ Consuming /\ Idle(w)
  /\ \E c \in Characters :
       \/ \E p \in Parties :
            Become(w, [NoJob EXCEPT !.op = "JOIN", !.pc = "get", !.chr = c, !.party = p])
       \/ Become(w, [NoJob EXCEPT !.op = "LEAVE", !.pc = "leave", !.chr = c])
  /\ UNCHANGED <<sourceVars, charReg, historyVars>>

\* The character service changes what it holds of c and publishes an event.
Change(type, c, held) ==
  /\ emitted < MaxEvents
  /\ emitted' = emitted + 1
  /\ source' = [source EXCEPT ![c] = held]
  /\ topic' = Append(topic, Event(type, c, held))
  /\ UNCHANGED <<charReg, job, historyVars>>

SourceChanges(c) ==
  LET s == source[c]
  IN  \/ \E ch \in Channels :
           ~s.online /\ Change("LOGIN", c, [s EXCEPT !.online = TRUE, !.channelId = ch])
      \/ s.online /\ Change("LOGOUT", c, [s EXCEPT !.online = FALSE])
      \/ \E ch \in Channels \ {s.channelId} :
           s.online /\ Change("CHANNEL_CHANGED", c, [s EXCEPT !.channelId = ch])
      \/ \E m \in Maps \ {s.mapId} : Change("MAP_CHANGED", c, [s EXCEPT !.mapId = m])
      \/ \E l \in Levels \ {s.level} : Change("LEVEL_CHANGED", c, [s EXCEPT !.level = l])
      \/ \E id \in JobIds \ {s.jobId} : Change("JOB_CHANGED", c, [s EXCEPT !.jobId = id])

\* The process dies and starts again with nothing.  An event in flight is delivered
\* again, ahead of the others, or is lost.
Restart ==
  /\ charReg' = EmptyMap
  /\ job' = [w \in Workers |-> NoJob]
  /\ member' = [c \in Characters |-> NoParty]
  /\ late' = {}
  /\ told' = [c \in Characters |-> None]
  /\ topic' \in {topic} \cup {<<job[w].event>> \o topic : w \in {v \in Workers : job[v].event # None}}
  /\ UNCHANGED <<source, emitted>>

Work(w) ==
  \/ Begin(w) \/ LoginFetch(w) \/ LoginCreate(w)
  \/ LoginSet(w) \/ LogoutSet(w) \/ ChannelChangeSet(w)
  \/ MapChangeSet(w) \/ LevelChangeSet(w) \/ JobChangeSet(w)
  \/ EventEmit(w)
  \/ JoinPartySet(w) \/ LeavePartyGet(w) \/ LeavePartySet(w)

Next ==
  \/ \E w \in Workers : Work(w) \/ ReceiveEvent(w) \/ ReceiveCommand(w)
  \/ \E c \in Characters : SourceChanges(c)
  \/ Restart

Spec == Init /\ [][Next]_vars

-----------------------------------------------------------------------------
(* Properties.                                                             *)

\* Records hold values of their own kind: no setter or fill leaves a zero value behind.
TypeOK ==
  /\ source \in [Characters -> Session]
  /\ emitted \in 0..MaxEvents /\ Len(topic) \in 0..emitted
  /\ DOMAIN charReg \subseteq Characters
  /\ \A c \in DOMAIN charReg : charReg[c] \in Character
  /\ member \in [Characters -> Parties \cup {NoParty}]
  /\ late \subseteq DOMAIN charReg
  /\ \A c \in Characters : told[c] \in Fellow \cup {None}
  /\ \A w \in Workers : Idle(w) \/ job[w].chr \in Characters

Settled == topic = <<>> /\ AllIdle

\* Once the events have been worked off, a cached record holds the attributes the
\* character service holds, whatever was lost, failed or delivered again, and
\* although lookups run ahead of the events and events ahead of lookups.  The one
\* exception is a fill another handler has overtaken (character/processor.go:265).
AttributesCurrent ==
  Settled => \A c \in DOMAIN charReg \ late :
               /\ charReg[c].mapId = source[c].mapId
               /\ charReg[c].level = source[c].level
               /\ charReg[c].jobId = source[c].jobId

\* Nobody is shown online who is not, nor on a channel that was left: a record that
\* says online agrees with the session, even after an overtaken fill.  (The
\* converse fails: a fill knows no session, so a restart shows everyone offline.)
NoGhostPresence ==
  Settled => \A c \in DOMAIN charReg :
               charReg[c].online => source[c].online /\ charReg[c].channelId = source[c].channelId

\* Attribute handlers and membership changes of one character overlap between their
\* reads and their writes, and none undoes the other: only an overtaken fill does.
MembershipKept ==
  \A c \in Characters \ late :
    (IF Cached(c) THEN charReg[c].partyId ELSE NoParty) = member[c]

\* What the members of a party were told of a fellow when joining and by the events
\* since is what the record says: a change that races a join is either in the record
\* the join finds or announced, because the handler asks the updated record for the
\* party (character/processor.go:79).  Only what the broker has refused is missing, and
\* only until the attribute is announced the next time.
FellowsInformed ==
  AllIdle => \A c \in Characters \ late :
    member[c] # NoParty =>
      /\ told[c].online \in {charReg[c].online, Unheard}
      /\ told[c].level \in {charReg[c].level, Unheard}
      /\ told[c].jobId \in {charReg[c].jobId, Unheard}

=============================================================================
