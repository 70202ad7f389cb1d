---------------------------- MODULE SerialProofs ----------------------------
(***************************************************************************)
(* One handler at a time: the two registries tell the same story between   *)
(* two messages, for any number of characters and party ids, any capacity, *)
(* any ids in the commands, any sequence of messages and whatever the      *)
(* broker loses.  What is shown holds as long as no party is stored under  *)
(* id 0 ([]ZeroVacant): the handler of CHANGE_LEADER stores one when it is *)
(* sent party 0 and a character in no party.                               *)
(***************************************************************************)
EXTENDS PartyServiceProofs

\* One worker; as many characters as an id can name.
Serial ==
  /\ \E w : Workers = {w}
  /\ IsFiniteSet(Characters)

-----------------------------------------------------------------------------
(* What the two registries say of a character.                             *)

\* The party its record names, and the one the index sends it to.
Rec(c) == Character(c).partyId
Idx(c) == IF c \in DOMAIN charToParty THEN charToParty[c] ELSE NoParty
Same(c) == Rec(c) = Idx(c)

Owned == \A p \in DOMAIN partyReg : p # NoParty /\ partyReg[p].id = p

\* The index is the inverse of the member lists.
Indexed ==
  /\ \A c \in Characters : Idx(c) \in DOMAIN partyReg \cup {NoParty}
  /\ \A c \in Characters, p \in DOMAIN partyReg : c \in Members(partyReg[p]) <=> Idx(c) = p

RecordFields == {"id", "partyId", "mapId"}
RecordIds ==
  \A c \in Characters : Cached(c) => charReg[c].id = c /\ DOMAIN charReg[c] = RecordFields

Gone ==
  /\ DOMAIN foreign = Characters
  /\ \A c \in Characters : foreign[c] = "deleted" => ~Cached(c)

Registries == Owned /\ Indexed /\ RecordIds /\ Gone

-----------------------------------------------------------------------------
(* What holds of the registries while a job is at work.                    *)

Lookups == {"create", "invite", "join", "leave", "lead", "lead.chr", "invite.chr", "map",
            "view.member"}

\* Whose record a handler looks up.
Wanted(j) == IF j.pc \in {"create", "invite"} THEN j.actor ELSE j.chr

\* A record that was fetched is in no party, and nobody has cached it meanwhile.
FetchOK(j) ==
  j.fetched # ZeroCharacter =>
    /\ j.pc \in Lookups
    /\ j.pc # "view.member" => j.fetched.id = Wanted(j)
    /\ j.fetched.id \in Characters
    /\ j.fetched.partyId = NoParty
    /\ ~Cached(j.fetched.id)
    /\ foreign[j.fetched.id] # "deleted"

Entering == {"enter", "enter.set"}
Leaving == {"leave.get", "leave.clear"}
Disbanding == {"disband", "disband.clear"}

\* Who enters a party, and which.
Who(j) == IF Joins(j) THEN j.chr ELSE j.actor
Where(j) == IF Joins(j) THEN j.pid ELSE j.party.id

\* The registries agree but for the character a handler has entered or taken out in one
\* of them, and for the members of a party that is being disbanded.
AgreeOK(j) ==
  /\ j.pc \notin Entering \cup Leaving \cup Disbanding => \A c \in Characters : Same(c)
  /\ j.pc \in Entering =>
       /\ \A c \in Characters \ {Who(j)} : Same(c)
       /\ Idx(Who(j)) = Where(j)
  /\ j.pc \in Leaving =>
       /\ \A c \in Characters \ {j.chr} : Same(c)
       /\ Idx(j.chr) = NoParty
  /\ j.pc \in Disbanding =>
       \A c \in Characters : Same(c) \/ (Idx(c) = j.pid /\ Rec(c) = NoParty)

CreateOK(j) ==
  /\ j.pc \in {"create.alloc", "create.store"} =>
       j.op \in Creators /\ j.actor \in Characters /\ Cached(j.actor) /\ Rec(j.actor) = NoParty
  /\ j.pc = "create.store" => j.party.leader = j.actor
  /\ j.pc \in Entering => Who(j) \in Characters /\ Cached(Who(j))
  /\ j.pc = "enter.set" => j.rec.id = Who(j)

JoinOK(j) ==
  /\ j.pc \in {"join", "join.party", "join.add"} => Joins(j)
  /\ j.pc \in {"join.party", "join.add"} => Cached(j.chr) /\ Rec(j.chr) = NoParty
  /\ j.pc = "join.add" => j.pid \in DOMAIN partyReg
  /\ j.pc # "join.undo"

LeaveOK(j) ==
  /\ j.pc \in {"leave.party", "leave.remove"} => Rec(j.chr) = j.pid
  /\ j.pc \in {"leave.party", "leave.remove"} \cup Leaving => Cached(j.chr)
  /\ j.pc \in {"leave.remove"} \cup Leaving => j.pid \in DOMAIN partyReg
  /\ j.pc \in Leaving =>
       DOMAIN j.todo = Members(partyReg[j.pid]) /\ Members(j.party) = Members(partyReg[j.pid])
  /\ j.pc = "leave.clear" => j.rec.id = j.chr
  /\ j.pc = "expel.remove" => Members(Lookup(j.pid)) = {}
  /\ j.pc # "leave.undo"

\* The members the loop has passed are in no party.
DisbandOK(j) ==
  /\ j.pc \in Disbanding =>
       /\ j.pid \in DOMAIN partyReg
       /\ DOMAIN j.todo \subseteq Members(partyReg[j.pid])
       /\ \A c \in Members(partyReg[j.pid]) \ DOMAIN j.todo :
            Rec(c) = NoParty \/ (j.pc = "disband.clear" /\ c = j.rec.id)
  /\ j.pc = "disband.clear" => j.rec.id \in Members(partyReg[j.pid]) /\ Cached(j.rec.id)

\* ChangeLeader compares the zero party of a character in none with the one it was sent.
LeadOK(j) == j.pc = "lead.set" => j.pid \in DOMAIN partyReg \cup {NoParty}

Deletion == {"deleted", "leave", "leave.party", "leave.remove", "return", "delete", "delete.drop"}
            \cup Leaving \cup Disbanding

\* Leave has succeeded where Delete begins: what is deleted is in no party.
DeleteOK(j) ==
  /\ j.op = "DELETED" => j.pc \in Deletion
  /\ j.op = "DELETED" /\ j.pc = "leave" => j.pid = Idx(j.chr)
  /\ j.op = "DELETED" /\ j.pc \in {"return", "delete", "delete.drop"} \cup Disbanding =>
       Rec(j.chr) = NoParty
  /\ j.pc \in {"delete", "delete.drop"} => j.op = "DELETED"
  /\ j.pc \notin {"delete.get", "delete.clear"}

OtherOK(j) ==
  /\ j.pc = "map.set" => j.rec.id = j.chr /\ Cached(j.chr)
  /\ j.pc = "view.member" => DOMAIN j.todo \subseteq Characters

JobSerial(j) ==
  /\ FetchOK(j) /\ AgreeOK(j) /\ CreateOK(j) /\ JoinOK(j) /\ LeaveOK(j)
  /\ DisbandOK(j) /\ LeadOK(j) /\ DeleteOK(j) /\ OtherOK(j)

SerialInv == Registries /\ \A w \in Workers : JobSerial(job[w])

-----------------------------------------------------------------------------
(* A step of the one worker.                                               *)

Pages == <<partyReg, charToParty, charReg, foreign>>

\* The worker's next job is all there is to know.
LEMMA Landed ==
  ASSUME Serial, JobsOK, NEW w \in Workers, NEW k, Become(w, k), JobSerial(k)', Registries'
  PROVE  SerialInv'
<1>1. \A v \in Workers : job'[v] = k
  BY DEF Serial, JobsOK, Become
<1> QED BY <1>1
  DEF SerialInv, JobSerial, FetchOK, AgreeOK, CreateOK, JoinOK, LeaveOK, DisbandOK, LeadOK,
      DeleteOK, OtherOK, Wanted, Who, Where, Joins

\* Nothing the invariant speaks of changes but the job.
LEMMA Still ==
  ASSUME UNCHANGED Pages, Registries, NEW k, JobSerial(k)
  PROVE  Registries' /\ JobSerial(k)'
<1>1. \A c : Rec(c)' = Rec(c) /\ Idx(c)' = Idx(c) /\ Same(c)' = Same(c) /\ Cached(c)' = Cached(c)
             /\ Lookup(c)' = Lookup(c)
  BY DEF Pages, Rec, Idx, Same, Cached, Character, Lookup
<1>2. Registries'
  BY <1>1 DEF Pages, Registries, Owned, Indexed, RecordIds, Gone
<1>3. JobSerial(k)'
  BY <1>1 DEF Pages, JobSerial, FetchOK, AgreeOK, CreateOK, JoinOK, LeaveOK, DisbandOK, LeadOK,
      DeleteOK, OtherOK
<1> QED BY <1>2, <1>3

LEMMA Kept ==
  ASSUME Serial, ServiceInv, SerialInv, UNCHANGED Pages,
         NEW w \in Workers, NEW k, Become(w, k), JobSerial(k)
  PROVE  SerialInv'
  BY Still, Landed DEF SerialInv, ServiceInv

\* No record changes the party it names, and none goes.
Remembered ==
  /\ UNCHANGED <<partyReg, foreign>>
  /\ \A d \in Characters :
       /\ Rec(d)' = Rec(d) /\ Idx(d)' = Idx(d) /\ Same(d)' = Same(d)
       /\ Cached(d) => Cached(d)'

\* The job a lookup that has found its record leads to: found, with nothing fetched.
Finds(k, found) ==
  /\ JobOK(k) /\ k.fetched = ZeroCharacter
  /\ k.op = found.op /\ k.pc = found.pc /\ k.actor = found.actor /\ k.chr = found.chr
  /\ k.pid = found.pid /\ k.rec = found.rec /\ k.party = found.party /\ k.todo = found.todo

\* GetById: the record of c, cached or stored just now; no record; or the answer of the
\* character service, which is stored in a step of its own.
LEMMA Looked ==
  ASSUME Registries, NEW w \in Workers, JobOK(job[w]), FetchOK(job[w]),
         NEW c \in Characters, Fetched(w) => c = job[w].fetched.id,
         NEW found, JobOK(found), ~Fetched(w) => found.fetched = ZeroCharacter,
         NEW failed, GetById(w, c, found, failed)
  PROVE  /\ Registries' /\ Remembered
         /\ \/ /\ Cached(c)'
               /\ Obtained(w, c).partyId = Rec(c) /\ Obtained(w, c).id = c
               /\ \E k : Finds(k, found) /\ Become(w, k)
            \/ /\ ~Cached(c) /\ Rec(c) = NoParty /\ ~Fetched(w) /\ UNCHANGED Pages
               /\ Become(w, failed)
            \/ /\ ~Cached(c) /\ ~Fetched(w) /\ UNCHANGED Pages
               /\ \E k : /\ Become(w, k) /\ foreign[c] # "deleted"
                        /\ k.fetched.id = c /\ k.fetched.partyId = NoParty
                        /\ DOMAIN k = Fields
                        /\ \A f \in Fields \ {"fetched"} : k[f] = job[w][f]
<1>1. UNCHANGED registryVars /\ UNCHANGED foreign
  BY DEF GetById
<1>2. ~Cached(c) => Rec(c) = NoParty
  BY DEF Rec, Character, ZeroCharacter
<1>3. ASSUME UNCHANGED charReg
      PROVE  Registries' /\ Remembered /\ UNCHANGED Pages
  <2>1. UNCHANGED Pages
    BY <1>1, <1>3 DEF Pages, registryVars
  <2>2. Remembered
    BY <2>1 DEF Pages, Remembered, Rec, Idx, Same, Cached, Character
  <2>3. Registries'
    BY <2>1, <2>2 DEF Pages, Remembered, Registries, Owned, Indexed, RecordIds, Gone, Cached
  <2> QED BY <2>1, <2>2, <2>3
<1>4. CASE /\ ~Fetched(w) /\ Cached(c) /\ Become(w, found) /\ UNCHANGED charReg
  <2>1. Cached(c)'
    BY <1>3, <1>4 DEF Remembered
  <2>2. Obtained(w, c).partyId = Rec(c) /\ Obtained(w, c).id = c
    BY <1>4 DEF Obtained, Rec, Character, Registries, RecordIds
  <2>3. Finds(found, found)
    BY <1>4 DEF Finds, Fetched
  <2> QED BY <1>3, <1>4, <2>1, <2>2, <2>3
<1>5. CASE /\ ~Fetched(w) /\ ~Cached(c) /\ Become(w, failed) /\ UNCHANGED charReg
  BY <1>2, <1>3, <1>5
<1>6. CASE /\ ~Fetched(w) /\ ~Cached(c) /\ foreign[c] = "alive" /\ UNCHANGED charReg
           /\ \E map \in Maps : Become(w, [job[w] EXCEPT !.fetched = Fresh(c, map)])
  <2>1. PICK map \in Maps : Become(w, [job[w] EXCEPT !.fetched = Fresh(c, map)])
    BY <1>6
  <2> DEFINE k == [job[w] EXCEPT !.fetched = Fresh(c, map)]
  <2>2. /\ k.fetched.id = c /\ k.fetched.partyId = NoParty
        /\ DOMAIN k = Fields
        /\ \A f \in Fields \ {"fetched"} : k[f] = job[w][f]
    BY DEF JobOK, Fields, Fresh
  <2>3. foreign[c] # "deleted"
    BY <1>6
  <2> HIDE DEF k
  <2> QED BY <1>3, <1>6, <2>1, <2>2, <2>3 DEF k
<1>7. CASE /\ Fetched(w)
           /\ CreateCharacter(c, job[w].fetched.mapId)
           /\ Become(w, [found EXCEPT !.fetched = ZeroCharacter])
  <2> DEFINE k == [found EXCEPT !.fetched = ZeroCharacter]
             m == Fresh(c, job[w].fetched.mapId)
  <2>1. charReg' = Put(charReg, c, m)
    BY <1>7 DEF CreateCharacter
  <2>2. m.id = c /\ m.partyId = NoParty /\ DOMAIN m = RecordFields
    BY DEF Fresh, RecordFields
  <2>3. ~Cached(c) /\ foreign[c] # "deleted"
        /\ job[w].fetched.id = c /\ job[w].fetched.partyId = NoParty
    BY <1>7 DEF FetchOK, Fetched
  <2> HIDE DEF m
  <2>4. Remembered
    BY <1>1, <1>2, <2>1, <2>2, <2>3
    DEF Remembered, Put, registryVars, Rec, Idx, Same, Cached, Character, ZeroCharacter
  <2>5. Registries'
    BY <2>1, <2>2, <2>3, <2>4
    DEF Remembered, Put, Registries, Owned, Indexed, RecordIds, Gone, Cached
  <2>6. Cached(c)'
    BY <2>1 DEF Put, Cached
  <2>7. Obtained(w, c).partyId = Rec(c) /\ Obtained(w, c).id = c
    BY <1>2, <1>7, <2>3 DEF Obtained
  <2>8. Finds(k, found)
    BY Noted DEF Finds, JobOK, Fields
  <2> QED BY <1>7, <2>4, <2>5, <2>6, <2>7, <2>8
<1> QED BY <1>4, <1>5, <1>6, <1>7 DEF GetById

LEMMA Fetching ==
  ASSUME NEW j, JobSerial(j), j.pc \in Lookups, NEW c \in Characters,
         j.pc # "view.member" => c = Wanted(j), ~Cached(c), foreign[c] # "deleted",
         NEW k, k.fetched.id = c, k.fetched.partyId = NoParty,
         \A f \in Fields \ {"fetched"} : k[f] = j[f]
  PROVE  JobSerial(k)
<1>1. /\ k.op = j.op /\ k.pc = j.pc /\ k.actor = j.actor /\ k.chr = j.chr /\ k.pid = j.pid
      /\ k.rec = j.rec /\ k.party = j.party /\ k.todo = j.todo
  BY DEF Fields
<1>2. FetchOK(k)
  BY <1>1 DEF FetchOK, Wanted
<1>3. Who(k) = Who(j) /\ Where(k) = Where(j) /\ Joins(k) = Joins(j)
  BY <1>1 DEF Who, Where, Joins
<1> QED BY <1>1, <1>2, <1>3
  DEF JobSerial, AgreeOK, CreateOK, JoinOK, LeaveOK, DisbandOK, LeadOK, DeleteOK, OtherOK

\* What is left to show of a lookup: what the handler does with the record, or without.
LEMMA LookedUpBy ==
  ASSUME Serial, ServiceInv, SerialInv, NEW w \in Workers, job[w].pc \in Lookups,
         NEW c \in Characters, Fetched(w) => c = job[w].fetched.id,
         job[w].pc # "view.member" => c = Wanted(job[w]),
         NEW found, JobOK(found), ~Fetched(w) => found.fetched = ZeroCharacter,
         NEW failed, GetById(w, c, found, failed)
  PROVE  \/ SerialInv'
         \/ /\ Registries' /\ Remembered /\ Cached(c)'
            /\ Obtained(w, c).partyId = Rec(c) /\ Obtained(w, c).id = c
            /\ \E k : Finds(k, found) /\ Become(w, k)
         \/ /\ ~Cached(c) /\ Rec(c) = NoParty /\ ~Fetched(w) /\ UNCHANGED Pages
            /\ Become(w, failed)
<1> DEFINE j == job[w]
<1>1. Registries /\ JobSerial(j) /\ JobOK(j)
  BY Working DEF SerialInv
<1>2. ASSUME ~Cached(c), UNCHANGED Pages,
             NEW k, Become(w, k), foreign[c] # "deleted",
             k.fetched.id = c, k.fetched.partyId = NoParty,
             DOMAIN k = Fields, \A f \in Fields \ {"fetched"} : k[f] = j[f]
      PROVE  SerialInv'
  <2>1. JobSerial(k)
    BY <1>1, <1>2, Fetching
  <2> QED BY <1>2, <2>1, Kept
<1>3. FetchOK(j)
  BY <1>1 DEF JobSerial
<1> QED BY <1>1, <1>2, <1>3, Looked

-----------------------------------------------------------------------------
(* Handlers that end.                                                      *)

AllSame == \A c \in Characters : Same(c)

\* What k takes over from j where a handler goes on or ends.
Follows(k, j) ==
  /\ DOMAIN k = Fields
  /\ k.op = j.op /\ k.actor = j.actor /\ k.chr = j.chr /\ k.pid = j.pid
  /\ k.fetched = j.fetched /\ k.rec = j.rec

Rests(k, j) ==
  /\ Follows(k, j)
  /\ k.pc \in {"return", "invite.send"}
  /\ k.op = "DELETED" => k.pc = "return"

LEMMA Going ==
  ASSUME NEW j, JobOK(j), NEW pc
  PROVE  /\ Follows(Goto(j, pc), j) /\ Goto(j, pc).pc = pc
         /\ Goto(j, pc).todo = j.todo /\ Goto(j, pc).party = j.party
         /\ Goto(j, pc).disband = j.disband
  BY DEF JobOK, Goto, Fields, Follows

LEMMA Stopping ==
  ASSUME NEW j, JobOK(j), NEW e
  PROVE  /\ Rests(Refuse(j), j) /\ Rests(Fail(j), j) /\ Rests(Done(j), j)
         /\ Rests(Done(Buffered(j, e)), j)
  BY DEF JobOK, Goto, Fields, Follows, Rests, Refuse, Fail, Done, Buffered

LEMMA EndingCreate ==
  ASSUME NEW j, JobOK(j), NEW m
  PROVE  Rests(CreateEnds(j, m), j) /\ Rests(FailCreate(j), j)
  BY DEF JobOK, Goto, Fields, Follows, Rests, Done, Buffered, CreateEnds, FailCreate

\* A handler that ends has left the registries in agreement, and one that goes on to
\* Delete has taken its character out of its party.
LEMMA Ends ==
  ASSUME NEW k, k.fetched = ZeroCharacter, k.pc \in {"return", "invite.send", "idle"},
         k.op = "DELETED" => k.pc = "return"
  PROVE  /\ AllSame /\ (k.op = "DELETED" => Rec(k.chr) = NoParty) => JobSerial(k)
         /\ AllSame' /\ (k.op = "DELETED" => Rec(k.chr)' = NoParty) => JobSerial(k)'
  BY DEF AllSame, JobSerial, FetchOK, AgreeOK, CreateOK, JoinOK, LeaveOK, DisbandOK, LeadOK,
         DeleteOK, OtherOK, Entering, Leaving, Disbanding, Deletion

LEMMA Calm ==
  ASSUME NEW j, JobSerial(j), j.pc \notin Entering \cup Leaving \cup Disbanding
  PROVE  AllSame /\ (Remembered => AllSame')
  BY DEF AllSame, JobSerial, AgreeOK, Remembered

-----------------------------------------------------------------------------
(* Create and Join.                                                        *)

\* A lookup leads to a good job if each of its outcomes does: the record is there, or
\* the character is unknown.
LEMMA LookupSerial ==
  ASSUME Serial, ServiceInv, SerialInv, NEW w \in Workers,
         NEW j, j = job[w], j.pc \in Lookups \ {"view.member"},
         NEW c \in Characters, c = Wanted(j),
         NEW found, JobOK(found), found.fetched = j.fetched,
         NEW failed, GetById(w, c, found, failed),
         ~Cached(c) /\ Rec(c) = NoParty /\ j.fetched = ZeroCharacter => JobSerial(failed),
         \A k : /\ Finds(k, found)
                /\ Remembered /\ AllSame' /\ Cached(c)'
                /\ Obtained(w, c).partyId = Rec(c)' /\ Obtained(w, c).id = c
                => JobSerial(k)'
  PROVE  SerialInv'
<1>1. JobSerial(j)
  BY DEF SerialInv
<1>2. j.pc # "view.member" /\ j.pc \notin Entering \cup Leaving \cup Disbanding
  BY DEF Lookups, Entering, Leaving, Disbanding
<1>3. Fetched(w) => c = j.fetched.id
  BY <1>1, <1>2 DEF Fetched, JobSerial, FetchOK
<1>4. Remembered => AllSame' /\ Rec(c)' = Rec(c)
  BY <1>1, <1>2, Calm DEF Remembered
<1>5. CASE /\ Registries' /\ Remembered /\ Cached(c)'
           /\ Obtained(w, c).partyId = Rec(c) /\ Obtained(w, c).id = c
           /\ \E k : Finds(k, found) /\ Become(w, k)
  <2>1. PICK k : Finds(k, found) /\ Become(w, k)
    BY <1>5
  <2>2. JobSerial(k)'
    BY <1>4, <1>5, <2>1
  <2> QED BY <1>5, <2>1, <2>2, Landed DEF ServiceInv
<1>6. CASE /\ ~Cached(c) /\ Rec(c) = NoParty /\ ~Fetched(w) /\ UNCHANGED Pages
           /\ Become(w, failed)
  BY <1>6, Kept DEF Fetched
<1>7. ~Fetched(w) => found.fetched = ZeroCharacter
  BY DEF Fetched
<1> QED BY <1>2, <1>3, <1>5, <1>6, <1>7, LookedUpBy

LEMMA CreateCheckSerial ==
  ASSUME Serial, ServiceInv, SerialInv, NEW w \in Workers, NEW j, j = job[w], CreateCheck(w)
  PROVE  SerialInv'
<1>1. /\ JobOK(j) /\ JobSerial(j) /\ j.pc = "create"
      /\ j.op \in Creators /\ j.actor \in Characters /\ Busy(j)
  BY Working DEF SerialInv, CreateCheck, At, Resting, Creating
<1>2. j.op # "DELETED" /\ ~Joins(j) /\ AllSame /\ j.actor = Wanted(j)
  BY <1>1, Calm DEF Creators, Joins, Wanted, Entering, Leaving, Disbanding
<1>3. PICK barred \in BOOLEAN :
        GetById(w, j.actor,
                IF Obtained(w, j.actor).partyId # NoParty \/ barred
                THEN Refuse(j) ELSE Goto(j, "create.alloc"),
                FailCreate(j))
  BY DEF CreateCheck
<1> DEFINE found == IF Obtained(w, j.actor).partyId # NoParty \/ barred
                    THEN Refuse(j) ELSE Goto(j, "create.alloc")
<1>4. /\ JobOK(found) /\ Follows(found, j)
      /\ \/ Rests(found, j)
         \/ found.pc = "create.alloc" /\ Obtained(w, j.actor).partyId = NoParty
  BY <1>1, Ended, Moved, Going, Stopping DEF Creating, Rests
<1>5. GetById(w, j.actor, found, FailCreate(j))
  BY <1>3
<1> HIDE DEF found
<1>6. j.fetched = ZeroCharacter => JobSerial(FailCreate(j))
  BY <1>1, <1>2, Ends, EndingCreate DEF Rests, Follows
<1>7. ASSUME NEW k, Finds(k, found), AllSame', Cached(j.actor)',
             Obtained(w, j.actor).partyId = Rec(j.actor)'
      PROVE  JobSerial(k)'
  <2>1. k.op = j.op /\ k.actor = j.actor /\ k.fetched = ZeroCharacter /\ k.pc = found.pc
    BY <1>4, <1>7 DEF Finds, Follows
  <2>2. CASE Rests(found, j)
    BY <1>2, <1>7, <2>1, <2>2, Ends DEF Rests
  <2>3. CASE found.pc = "create.alloc" /\ Obtained(w, j.actor).partyId = NoParty
    BY <1>1, <1>2, <1>7, <2>1, <2>3
    DEF AllSame, JobSerial, FetchOK, AgreeOK, CreateOK, JoinOK, LeaveOK, DisbandOK, LeadOK,
        DeleteOK, OtherOK, Entering, Leaving, Disbanding
  <2> QED BY <1>4, <2>2, <2>3
<1>8. j.pc \in Lookups \ {"view.member"} /\ found.fetched = j.fetched
  BY <1>1, <1>4 DEF Lookups, Follows
<1> QED BY <1>1, <1>2, <1>4, <1>5, <1>6, <1>7, <1>8, LookupSerial

LEMMA CreateAllocateSerial ==
  ASSUME Serial, ServiceInv, SerialInv, NEW w \in Workers, NEW j, j = job[w], CreateAllocate(w)
  PROVE  SerialInv'
<1>1. /\ JobOK(j) /\ JobSerial(j) /\ j.pc = "create.alloc"
      /\ Registries /\ RegistryInv /\ AllSame
  BY Working, Calm
  DEF SerialInv, ServiceInv, CreateAllocate, At, Entering, Leaving, Disbanding
<1>2. j.op \in Creators /\ j.actor \in Characters /\ Cached(j.actor) /\ Rec(j.actor) = NoParty
      /\ j.fetched = ZeroCharacter
  BY <1>1 DEF JobSerial, CreateOK, FetchOK, Lookups
<1>3. /\ AllocatePartyId(j.actor) /\ UNCHANGED <<charReg, foreign>>
      /\ Become(w, [Goto(j, "create.store") EXCEPT !.party = NewParty(NextId, j.actor)])
  BY DEF CreateAllocate
<1>4. tenantPartyId = 0 => partyReg = EmptyMap /\ \A c \in Characters : Idx(c) = NoParty
  <2> SUFFICES ASSUME tenantPartyId = 0
               PROVE  partyReg = EmptyMap /\ \A c \in Characters : Idx(c) = NoParty
    OBVIOUS
  <2>1. Live = {}
    BY <1>1, PartyIdsAssumption DEF RegistryInv, UniqueIds
  <2>2. DOMAIN partyReg = {}
    BY <1>1, <2>1 DEF Live, Registries, Owned
  <2>3. partyReg = EmptyMap
    BY <1>1, <2>2 DEF RegistryInv, RegistryTypeOK, EmptyMap
  <2> QED BY <1>1, <2>2, <2>3 DEF Registries, Indexed
<1>5. UNCHANGED partyReg /\ \A c \in Characters : Idx(c)' = Idx(c)
  BY <1>3, <1>4 DEF AllocatePartyId, Idx, EmptyMap
<1>6. \A c : Rec(c)' = Rec(c) /\ Cached(c)' = Cached(c)
  BY <1>3 DEF Rec, Character, Cached
<1>7. Remembered
  BY <1>3, <1>5, <1>6 DEF Remembered, Same
<1>8. Registries'
  BY <1>1, <1>3, <1>5, <1>6 DEF Registries, Owned, Indexed, RecordIds, Gone
<1>9. PICK k : /\ Become(w, k) /\ k.pc = "create.store" /\ k.op = j.op /\ k.actor = j.actor
               /\ k.fetched = ZeroCharacter /\ k.party.leader = j.actor
  <2>1. NewParty(NextId, j.actor).leader = j.actor
    BY DEF NewParty
  <2> DEFINE k == [Goto(j, "create.store") EXCEPT !.party = NewParty(NextId, j.actor)]
  <2>2. /\ k.pc = "create.store" /\ k.op = j.op /\ k.actor = j.actor
        /\ k.fetched = ZeroCharacter /\ k.party = NewParty(NextId, j.actor)
    BY <1>1, <1>2 DEF JobOK, Fields, Goto
  <2> HIDE DEF k
  <2> QED BY <1>3, <2>1, <2>2 DEF k
<1>10. AllSame' /\ Cached(j.actor)' /\ Rec(j.actor)' = NoParty
  BY <1>1, <1>2, <1>6, <1>7 DEF AllSame, Remembered
<1>11. JobSerial(k)'
  BY <1>2, <1>9, <1>10
  DEF AllSame, JobSerial, FetchOK, AgreeOK, CreateOK, JoinOK, LeaveOK, DisbandOK, LeadOK,
      DeleteOK, OtherOK, Entering, Leaving, Disbanding, Creators
<1> QED BY <1>8, <1>9, <1>11, Landed DEF ServiceInv

LEMMA CreateStoreSerial ==
  ASSUME Serial, ServiceInv, SerialInv, NEW w \in Workers, NEW j, j = job[w], CreateStore(w)
  PROVE  SerialInv'
<1>1. /\ JobOK(j) /\ JobSerial(j) /\ j.pc = "create.store"
      /\ Registries /\ RegistryInv /\ AllSame
  BY Working, Calm
  DEF SerialInv, ServiceInv, CreateStore, At, Entering, Leaving, Disbanding
<1>2. /\ j.op \in Creators /\ j.actor \in Characters /\ Cached(j.actor) /\ Rec(j.actor) = NoParty
      /\ j.fetched = ZeroCharacter /\ j.party.leader = j.actor
  BY <1>1 DEF JobSerial, CreateOK, FetchOK, Lookups
<1>3. PICK m : m = j.party
  OBVIOUS
<1>4. /\ m \in creating /\ UNCHANGED <<charReg, foreign>>
      /\ partyReg' = Put(partyReg, m.id, m)
      /\ charToParty' = Put(charToParty, j.actor, m.id)
      /\ Become(w, Buffered(Goto(j, "enter"), Event("CREATED", m.id, j.actor)))
  BY <1>2, <1>3 DEF CreateStore, StoreParty
<1>5. /\ Members(m) = {j.actor} /\ m.id # NoParty /\ m.id \notin DOMAIN partyReg
  <2>1. m.id \notin Live /\ m.id # NoParty
    BY <1>1, <1>4, PartyIdsAssumption DEF RegistryInv, RegistryTypeOK, UniqueIds, NoParty
  <2>2. m.id \notin DOMAIN partyReg
    BY <1>1, <2>1 DEF Live, Registries, Owned
  <2> QED BY <1>1, <1>2, <1>3, <1>4, <2>1, <2>2 DEF RegistryInv, CreatingNew
<1>6. \A c : Rec(c)' = Rec(c) /\ Cached(c)' = Cached(c)
  BY <1>4 DEF Rec, Character, Cached
<1>7. Idx(j.actor)' = m.id /\ \A c \in Characters \ {j.actor} : Idx(c)' = Idx(c)
  BY <1>4 DEF Idx, Put
<1>8. DOMAIN partyReg' = DOMAIN partyReg \cup {m.id} /\ partyReg'[m.id] = m
      /\ \A p \in DOMAIN partyReg : partyReg'[p] = partyReg[p]
  BY <1>4, <1>5 DEF Put
<1>9. Idx(j.actor) = NoParty
  BY <1>1, <1>2 DEF AllSame, Same
<1>10. Registries'
  <2>1. Owned'
    BY <1>1, <1>5, <1>8 DEF Registries, Owned
  <2>2. Indexed'
    BY <1>1, <1>2, <1>5, <1>7, <1>8, <1>9 DEF Registries, Indexed, Owned
  <2> QED BY <1>1, <1>4, <1>6, <2>1, <2>2 DEF Registries, RecordIds, Gone
<1>11. PICK k : /\ Become(w, k) /\ k.pc = "enter" /\ k.op = j.op /\ k.actor = j.actor
                /\ k.fetched = ZeroCharacter /\ k.party = m
  <2> DEFINE k == Buffered(Goto(j, "enter"), Event("CREATED", m.id, j.actor))
  <2>1. /\ k.pc = "enter" /\ k.op = j.op /\ k.actor = j.actor
        /\ k.fetched = ZeroCharacter /\ k.party = m
    BY <1>1, <1>2, <1>3 DEF JobOK, Fields, Goto, Buffered
  <2> HIDE DEF k
  <2> QED BY <1>4, <2>1 DEF k
<1>12. Who(k) = j.actor /\ Where(k) = m.id /\ Cached(j.actor)'
  BY <1>2, <1>6, <1>11 DEF Who, Where, Joins, Creators
<1>13. \A c \in Characters \ {j.actor} : Same(c)'
  BY <1>1, <1>6, <1>7 DEF AllSame, Same
<1>14. JobSerial(k)'
  BY <1>2, <1>7, <1>11, <1>12, <1>13
  DEF JobSerial, FetchOK, AgreeOK, CreateOK, JoinOK, LeaveOK, DisbandOK, LeadOK,
      DeleteOK, OtherOK, Entering, Leaving, Disbanding, Creators
<1> QED BY <1>10, <1>11, <1>14, Landed DEF ServiceInv

\* A record is set: of the character it is stored under, only the party and the map change.
LEMMA RecordSet ==
  ASSUME Registries, NEW w \in Workers, NEW c \in Characters, Cached(c), job[w].rec.id = c,
         NEW m, m.id = c, DOMAIN m = RecordFields, NEW k, SetCharacter(w, m, k)
  PROVE  /\ Become(w, k) /\ Registries' /\ UNCHANGED <<partyReg, charToParty, foreign>>
         /\ Rec(c)' = m.partyId
         /\ \A d \in Characters \ {c} : Rec(d)' = Rec(d)
         /\ \A d \in Characters : Idx(d)' = Idx(d) /\ (Cached(d)' <=> Cached(d))
<1>1. /\ charReg' = Put(charReg, c, m) /\ Become(w, k)
      /\ UNCHANGED <<partyReg, charToParty, foreign>>
  BY DEF SetCharacter, UpdateCharacter, registryVars
<1>2. /\ Rec(c)' = m.partyId
      /\ \A d \in Characters \ {c} : Rec(d)' = Rec(d)
  BY <1>1 DEF Put, Rec, Character, Cached
<1>3. \A d \in Characters : Idx(d)' = Idx(d) /\ (Cached(d)' <=> Cached(d))
  BY <1>1 DEF Put, Idx, Cached
<1>4. Registries'
  BY <1>1, <1>3 DEF Registries, Owned, Indexed, RecordIds, Gone, Put, Cached
<1> QED BY <1>1, <1>2, <1>3, <1>4

\* The record SetCharacter starts from.
LEMMA Targeted ==
  ASSUME Registries, NEW w \in Workers, NEW c \in Characters, Cached(c), job[w].rec.id = c
  PROVE  /\ Target(w).id = c /\ DOMAIN Target(w) = RecordFields /\ Target(w).partyId = Rec(c)
         /\ \A p : LET m == JoinParty(Target(w), p)
                   IN  m.id = c /\ DOMAIN m = RecordFields /\ m.partyId = p
         /\ LET m == LeaveParty(Target(w))
            IN  m.id = c /\ DOMAIN m = RecordFields /\ m.partyId = NoParty
         /\ \A map : LET m == ChangeMap(Target(w), map)
                     IN  m.id = c /\ DOMAIN m = RecordFields /\ m.partyId = Rec(c)
<1>1. Target(w).id = c /\ DOMAIN Target(w) = RecordFields /\ Target(w).partyId = Rec(c)
  BY DEF Target, Character, Registries, RecordIds, Rec
<1> QED BY <1>1 DEF RecordFields, JoinParty, LeaveParty, ChangeMap

LEMMA EnterCheckSerial ==
  ASSUME Serial, ServiceInv, SerialInv, NEW w \in Workers, NEW j, j = job[w], EnterCheck(w)
  PROVE  SerialInv'
<1>1. /\ JobOK(j) /\ JobSerial(j) /\ j.pc = "enter" /\ Busy(j) /\ Registries
  BY Working DEF SerialInv, EnterCheck, At, Resting
<1>2. PICK c \in Characters : c = Who(j)
  BY <1>1 DEF JobSerial, CreateOK, Entering
<1>3. /\ Cached(c) /\ j.fetched = ZeroCharacter /\ j.op # "DELETED"
  BY <1>1, <1>2
  DEF JobSerial, CreateOK, FetchOK, DeleteOK, Entering, Lookups, Deletion, Leaving, Disbanding
<1> DEFINE found == [Goto(j, "enter.set") EXCEPT !.rec = Obtained(w, c)]
           failed == IF Joins(j) THEN Goto(j, "join.undo") ELSE FailCreate(j)
<1>4. GetById(w, c, found, failed)
  BY <1>2 DEF EnterCheck, Who
<1>5. /\ JobOK(found) /\ found.op = j.op /\ found.pc = "enter.set" /\ found.actor = j.actor
      /\ found.chr = j.chr /\ found.pid = j.pid /\ found.party = j.party
      /\ found.fetched = j.fetched /\ found.rec = Obtained(w, c)
  <2>1. JobOK(found)
    BY <1>1, Moved, Noted DEF Creating
  <2> QED BY <1>1, <2>1 DEF JobOK, Fields, Goto
<1> HIDE DEF found, failed
<1>6. /\ Registries' /\ Remembered /\ Cached(c)' /\ Obtained(w, c).id = c
      /\ \E k : Finds(k, found) /\ Become(w, k)
  BY <1>1, <1>3, <1>4, <1>5, Looked DEF Fetched, JobSerial
<1>7. PICK k : Finds(k, found) /\ Become(w, k)
  BY <1>6
<1>8. /\ k.op = j.op /\ k.pc = "enter.set" /\ k.actor = j.actor /\ k.chr = j.chr
      /\ k.pid = j.pid /\ k.party = j.party /\ k.fetched = ZeroCharacter /\ k.rec.id = c
  BY <1>5, <1>6, <1>7 DEF Finds
<1>9. Who(k) = c /\ Where(k) = Where(j) /\ Joins(k) = Joins(j)
  BY <1>2, <1>8 DEF Who, Where, Joins
<1>10. Idx(c)' = Where(k) /\ \A d \in Characters \ {c} : Same(d)'
  BY <1>1, <1>2, <1>6, <1>9 DEF JobSerial, AgreeOK, Entering, Remembered
<1>11. JobSerial(k)'
  BY <1>3, <1>6, <1>8, <1>9, <1>10
  DEF JobSerial, FetchOK, AgreeOK, CreateOK, JoinOK, LeaveOK, DisbandOK, LeadOK,
      DeleteOK, OtherOK, Entering, Leaving, Disbanding
<1> QED BY <1>6, <1>7, <1>11, Landed DEF ServiceInv

LEMMA EnterSetSerial ==
  ASSUME Serial, ServiceInv, SerialInv, NEW w \in Workers, NEW j, j = job[w], EnterSet(w)
  PROVE  SerialInv'
<1>1. /\ JobOK(j) /\ JobSerial(j) /\ j.pc = "enter.set" /\ Registries
  BY Working DEF SerialInv, EnterSet, At
<1>2. PICK c \in Characters : c = Who(j)
  BY <1>1 DEF JobSerial, CreateOK, Entering
<1> DEFINE p == Where(j)
<1>3. /\ Cached(c) /\ j.rec.id = c /\ j.fetched = ZeroCharacter /\ j.op # "DELETED"
      /\ Idx(c) = p /\ \A d \in Characters \ {c} : Same(d)
  BY <1>1, <1>2
  DEF JobSerial, CreateOK, FetchOK, AgreeOK, DeleteOK, Entering, Lookups, Deletion, Leaving,
      Disbanding
<1>4. PICK k : SetCharacter(w, JoinParty(Target(w), p), k) /\ Rests(k, j)
  BY <1>1, <1>2, Stopping, EndingCreate DEF EnterSet, Where
<1>5. PICK m : m = JoinParty(Target(w), p)
  OBVIOUS
<1>6. m.id = c /\ DOMAIN m = RecordFields /\ m.partyId = p
  BY <1>1, <1>3, <1>5, Targeted
<1>7. /\ Become(w, k) /\ Registries'
      /\ Rec(c)' = p /\ \A d \in Characters \ {c} : Rec(d)' = Rec(d)
      /\ \A d \in Characters : Idx(d)' = Idx(d)
  BY <1>1, <1>3, <1>4, <1>5, <1>6, RecordSet
<1>8. AllSame'
  BY <1>3, <1>7 DEF AllSame, Same
<1>9. JobSerial(k)'
  BY <1>3, <1>4, <1>8, Ends DEF Rests, Follows
<1> QED BY <1>7, <1>9, Landed DEF ServiceInv

-----------------------------------------------------------------------------
(* Updates of a stored party.                                              *)

\* An update that takes in nobody who is in another party keeps the index exact.
LEMMA Updating ==
  ASSUME Registries, RegistryInv, NEW p \in DOMAIN partyReg, NEW u \in Updaters,
         UpdateParty(p, u), UNCHANGED <<charReg, foreign>>,
         \A c \in Members(Updated(p, u)) \ Members(partyReg[p]) : Idx(c) = NoParty
  PROVE  /\ Registries'
         /\ DOMAIN partyReg' = DOMAIN partyReg
         /\ partyReg'[p] = Updated(p, u)
         /\ \A c \in Characters : Rec(c)' = Rec(c) /\ (Cached(c)' <=> Cached(c))
         /\ \A c \in Characters :
              Idx(c)' = IF c \in Members(Updated(p, u)) THEN p
                        ELSE IF c \in Members(partyReg[p]) THEN NoParty ELSE Idx(c)
<1> DEFINE old == partyReg[p]
<1>1. PICK new : new = Updated(p, u)
  OBVIOUS
<1>2. /\ partyReg' = Put(partyReg, p, new)
      /\ charToParty' = Reindexed(old, new)
  BY <1>1 DEF UpdateParty, Lookup
<1>3. new.id = p /\ p # NoParty /\ Members(old) \subseteq Characters
      /\ Members(new) \subseteq Characters
  <2>1. IsParty(old) /\ new = Apply(u, old) /\ old.id = p /\ p # NoParty
    BY <1>1 DEF RegistryInv, RegistryTypeOK, Updated, Lookup, Registries, Owned
  <2> QED BY <2>1, AppliedParty DEF IsParty, IsMemberList, Members
<1>4. /\ DOMAIN partyReg' = DOMAIN partyReg
      /\ partyReg'[p] = new
      /\ \A q \in DOMAIN partyReg \ {p} : partyReg'[q] = partyReg[q]
  BY <1>2 DEF Put
<1>5. \A c \in Characters : Rec(c)' = Rec(c) /\ (Cached(c)' <=> Cached(c))
  BY DEF Rec, Character, Cached
<1>6. \A c \in Characters :
        Idx(c)' = IF c \in Members(new) \ Members(old) THEN p
                  ELSE IF c \in Members(old) \ Members(new) THEN NoParty ELSE Idx(c)
  BY <1>2, <1>3 DEF Idx, Reindexed, DeleteKeys
<1>7. \A c \in Characters : c \in Members(old) <=> Idx(c) = p
  BY DEF Registries, Indexed
<1>8. \A c \in Characters :
        Idx(c)' = IF c \in Members(new) THEN p
                  ELSE IF c \in Members(old) THEN NoParty ELSE Idx(c)
  BY <1>6, <1>7
<1>9. Owned'
  BY <1>3, <1>4 DEF Registries, Owned
<1>10. Indexed'
  <2>1. ASSUME NEW c \in Characters
        PROVE  Idx(c)' \in DOMAIN partyReg' \cup {NoParty}
    BY <1>4, <1>8 DEF Registries, Indexed
  <2>2. ASSUME NEW c \in Characters, NEW q \in DOMAIN partyReg, q # p
        PROVE  c \in Members(partyReg'[q]) <=> Idx(c)' = q
    <3>1. q # NoParty /\ (c \in Members(partyReg[q]) <=> Idx(c) = q)
      BY <2>2 DEF Registries, Owned, Indexed
    <3> QED BY <1>1, <1>4, <1>7, <1>8, <2>2, <3>1
  <2>3. ASSUME NEW c \in Characters
        PROVE  c \in Members(partyReg'[p]) <=> Idx(c)' = p
    BY <1>3, <1>4, <1>7, <1>8
  <2> QED BY <1>4, <2>1, <2>2, <2>3 DEF Indexed
<1>11. Registries'
  BY <1>5, <1>9, <1>10 DEF Registries, RecordIds, Gone, Cached
<1> QED BY <1>1, <1>4, <1>5, <1>8, <1>11

LEMMA UpdatedMembers ==
  ASSUME RegistryInv, NEW p \in DOMAIN partyReg, NEW c \in Characters
  PROVE  /\ Members(Updated(p, Adding(c))) = Members(partyReg[p]) \cup {c}
         /\ Members(Updated(p, Removing(c))) = Members(partyReg[p]) \ {c}
         /\ Members(Updated(p, Appointing(c))) = Members(partyReg[p])
<1>1. Lookup(p) = partyReg[p]
  BY DEF Lookup
<1> QED BY <1>1, NewMembers

LEMMA JoinCheckSerial ==
  ASSUME Serial, ServiceInv, SerialInv, NEW w \in Workers, NEW j, j = job[w], JoinCheck(w)
  PROVE  SerialInv'
<1>1. /\ JobOK(j) /\ JobSerial(j) /\ j.pc = "join" /\ Busy(j) /\ j.chr \in Characters
  BY Working DEF SerialInv, JoinCheck, At, Resting
<1>2. Joins(j) /\ j.op # "DELETED" /\ AllSame /\ j.chr = Wanted(j)
  BY <1>1, Calm DEF JobSerial, JoinOK, Joins, Wanted, Entering, Leaving, Disbanding
<1> DEFINE found == IF Obtained(w, j.chr).partyId # NoParty
                    THEN Refuse(j) ELSE Goto(j, "join.party")
<1>3. /\ JobOK(found) /\ Follows(found, j)
      /\ \/ Rests(found, j)
         \/ found.pc = "join.party" /\ Obtained(w, j.chr).partyId = NoParty
  BY <1>1, Ended, Moved, Going, Stopping DEF Creating, Rests
<1>4. GetById(w, j.chr, found, Fail(j))
  BY DEF JoinCheck
<1> HIDE DEF found
<1>5. j.fetched = ZeroCharacter => JobSerial(Fail(j))
  BY <1>1, <1>2, Ends, Stopping DEF Rests, Follows
<1>6. ASSUME NEW k, Finds(k, found), AllSame', Cached(j.chr)',
             Obtained(w, j.chr).partyId = Rec(j.chr)'
      PROVE  JobSerial(k)'
  <2>1. k.op = j.op /\ k.chr = j.chr /\ k.fetched = ZeroCharacter /\ k.pc = found.pc
    BY <1>3, <1>6 DEF Finds, Follows
  <2>2. CASE Rests(found, j)
    BY <1>2, <1>6, <2>1, <2>2, Ends DEF Rests
  <2>3. CASE found.pc = "join.party" /\ Obtained(w, j.chr).partyId = NoParty
    BY <1>1, <1>2, <1>6, <2>1, <2>3
    DEF AllSame, JobSerial, FetchOK, AgreeOK, CreateOK, JoinOK, LeaveOK, DisbandOK, LeadOK,
        DeleteOK, OtherOK, Entering, Leaving, Disbanding, Joins
  <2> QED BY <1>3, <2>2, <2>3
<1>7. j.pc \in Lookups \ {"view.member"} /\ found.fetched = j.fetched
  BY <1>1, <1>3 DEF Lookups, Follows
<1> QED BY <1>1, <1>2, <1>3, <1>4, <1>5, <1>6, <1>7, LookupSerial

LEMMA JoinGetPartySerial ==
  ASSUME Serial, ServiceInv, SerialInv, NEW w \in Workers, NEW j, j = job[w], JoinGetParty(w)
  PROVE  SerialInv'
<1>1. /\ JobOK(j) /\ JobSerial(j) /\ j.pc = "join.party"
  BY Working DEF SerialInv, JoinGetParty, At
<1>2. /\ Joins(j) /\ j.op # "DELETED" /\ AllSame /\ j.fetched = ZeroCharacter
      /\ Cached(j.chr) /\ Rec(j.chr) = NoParty
  BY <1>1, Calm
  DEF JobSerial, JoinOK, Joins, FetchOK, Lookups, Entering, Leaving, Disbanding
<1>3. PICK k : /\ Become(w, k) /\ UNCHANGED Pages
               /\ \/ Rests(k, j)
                  \/ k = Goto(j, "join.add") /\ j.pid \in DOMAIN partyReg
  BY <1>1, Stopping DEF JoinGetParty, GetParty, Pages, registryVars
<1>4. JobSerial(k)
  <2>1. CASE Rests(k, j)
    BY <1>2, <2>1, Ends DEF Rests, Follows
  <2>2. CASE k = Goto(j, "join.add") /\ j.pid \in DOMAIN partyReg
    <3>1. /\ k.pc = "join.add" /\ k.op = j.op /\ k.chr = j.chr
          /\ k.fetched = j.fetched /\ k.pid = j.pid
      BY <1>1, <2>2, Going DEF Follows
    <3> QED
      BY <1>2, <2>2, <3>1
      DEF AllSame, JobSerial, FetchOK, AgreeOK, CreateOK, JoinOK, LeaveOK, DisbandOK, LeadOK,
          DeleteOK, OtherOK, Entering, Leaving, Disbanding, Joins
  <2> QED BY <1>3, <2>1, <2>2
<1> QED BY <1>3, <1>4, Kept

LEMMA JoinAddSerial ==
  ASSUME Serial, ServiceInv, SerialInv, NEW w \in Workers, NEW j, j = job[w], JoinAdd(w)
  PROVE  SerialInv'
<1>1. /\ JobOK(j) /\ JobSerial(j) /\ j.pc = "join.add" /\ j.chr \in Characters
      /\ Registries /\ RegistryInv
  BY Working DEF SerialInv, ServiceInv, JoinAdd, At, Resting
<1>2. /\ Joins(j) /\ j.op # "DELETED" /\ AllSame /\ j.fetched = ZeroCharacter
      /\ Cached(j.chr) /\ Rec(j.chr) = NoParty /\ j.pid \in DOMAIN partyReg
  BY <1>1, Calm
  DEF JobSerial, JoinOK, Joins, FetchOK, Lookups, Entering, Leaving, Disbanding
<1> DEFINE u == Adding(j.chr)
           done == [Goto(j, "enter") EXCEPT !.party = Updated(j.pid, u)]
<1>3. /\ UNCHANGED <<charReg, foreign>>
      /\ \/ UpdateParty(j.pid, u) /\ Become(w, done)
         \/ Become(w, Fail(j)) /\ UNCHANGED registryVars
  BY DEF JoinAdd, SetParty
<1>4. CASE Become(w, Fail(j)) /\ UNCHANGED registryVars
  <2>1. JobSerial(Fail(j))
    BY <1>1, <1>2, Stopping, Ends DEF Rests, Follows
  <2> QED BY <1>3, <1>4, <2>1, Kept DEF Pages, registryVars
<1>5. CASE UpdateParty(j.pid, u) /\ Become(w, done)
  <2>1. u \in Updaters /\ Members(Updated(j.pid, u)) = Members(partyReg[j.pid]) \cup {j.chr}
    BY <1>1, <1>2, IsUpdater, UpdatedMembers
  <2>2. Idx(j.chr) = NoParty
    BY <1>1, <1>2 DEF AllSame, Same
  <2>3. /\ Registries' /\ DOMAIN partyReg' = DOMAIN partyReg
        /\ \A c \in Characters : Rec(c)' = Rec(c) /\ (Cached(c)' <=> Cached(c))
        /\ \A c \in Characters :
             Idx(c)' = IF c \in Members(partyReg[j.pid]) \cup {j.chr} THEN j.pid
                       ELSE IF c \in Members(partyReg[j.pid]) THEN NoParty ELSE Idx(c)
    BY <1>1, <1>2, <1>3, <1>5, <2>1, <2>2, Updating
  <2>4. \A c \in Characters : c \in Members(partyReg[j.pid]) <=> Idx(c) = j.pid
    BY <1>1, <1>2 DEF Registries, Indexed
  <2>5. Idx(j.chr)' = j.pid /\ \A c \in Characters \ {j.chr} : Same(c)'
    BY <1>1, <1>2, <2>3, <2>4 DEF AllSame, Same
  <2>6. PICK k : /\ Become(w, k) /\ k.pc = "enter" /\ k.op = j.op /\ k.chr = j.chr
                 /\ k.pid = j.pid /\ k.fetched = ZeroCharacter
    <3>1. /\ done.pc = "enter" /\ done.op = j.op /\ done.chr = j.chr
          /\ done.pid = j.pid /\ done.fetched = ZeroCharacter
      BY <1>1, <1>2 DEF JobOK, Fields, Goto
    <3> HIDE DEF done
    <3> QED BY <1>5, <3>1
  <2>7. Who(k) = j.chr /\ Where(k) = j.pid /\ Cached(j.chr)'
    BY <1>1, <1>2, <2>3, <2>6 DEF Who, Where, Joins
  <2>8. JobSerial(k)'
    BY <1>1, <1>2, <2>5, <2>6, <2>7
    DEF JobSerial, FetchOK, AgreeOK, CreateOK, JoinOK, LeaveOK, DisbandOK, LeadOK,
        DeleteOK, OtherOK, Entering, Leaving, Disbanding
  <2> QED BY <2>3, <2>6, <2>8, Landed DEF ServiceInv
<1> QED BY <1>3, <1>4, <1>5

LEMMA JoinUndoSerial ==
  ASSUME SerialInv, NEW w \in Workers
  PROVE  ~JoinUndo(w) /\ ~LeaveUndo(w) /\ ~DeleteLeaveGet(w) /\ ~DeleteLeaveClear(w)
  BY DEF SerialInv, JobSerial, JoinOK, LeaveOK, DeleteOK, JoinUndo, LeaveUndo, DeleteLeaveGet,
         DeleteLeaveClear, At

-----------------------------------------------------------------------------
(* Leave and Expel.                                                        *)

\* The theorems on finite sets with the surjections they speak of.
Finite == INSTANCE FiniteSetTheorems

\* A list has finitely many entries, so one of a smaller list is no longer.
LEMMA FiniteEntries ==
  ASSUME NEW b, IsMemberList(b), IsFiniteSet(DOMAIN b)
  PROVE  IsFiniteSet(UNION {{c} \X (1..b[c]) : c \in DOMAIN b})
<1> DEFINE f == [c \in DOMAIN b |-> {c} \X (1..b[c])]
           T == {{c} \X (1..b[c]) : c \in DOMAIN b}
<1>1. f \in Finite!Surjection(DOMAIN b, T)
  BY DEF Finite!Surjection
<1>2. IsFiniteSet(T)
  <2>1. Finite!IsFiniteSet(DOMAIN b)
    BY DEF Finite!IsFiniteSet, IsFiniteSet
  <2> HIDE DEF f, T
  <2>2. Finite!IsFiniteSet(T)
    BY <1>1, <2>1, Finite!FS_Surjection
  <2> QED BY <2>2 DEF Finite!IsFiniteSet, IsFiniteSet
<1>3. \A S \in T : IsFiniteSet(S)
  <2> SUFFICES ASSUME NEW c \in DOMAIN b
               PROVE  IsFiniteSet({c} \X (1..b[c]))
    OBVIOUS
  <2>1. PICK n \in Int : n = b[c]
    BY DEF IsMemberList
  <2>2. IsFiniteSet(1..n)
    BY FS_Interval
  <2>3. IsFiniteSet({c})
    BY FS_Singleton
  <2> QED BY <2>1, <2>2, <2>3, FS_Product
<1> QED BY <1>2, <1>3, FS_UNION

LEMMA RemovalFits ==
  ASSUME IsFiniteSet(Characters), RegistryInv, NEW p \in DOMAIN partyReg, NEW c \in Characters
  PROVE  Fits(Updated(p, Removing(c)))
<1>1. PICK m : m = partyReg[p] /\ IsParty(m) /\ Lookup(p) = m /\ Fits(m)
  BY DEF RegistryInv, RegistryTypeOK, WithinCapacity, Lookup
<1>2. PICK n : n = Updated(p, Removing(c))
  OBVIOUS
<1>3. n.members = BagRemoveAll(m.members, c)
  BY <1>1, <1>2 DEF Updated, Apply, Removing, RemoveMember, IsParty
<1>4. Members(n) = Members(m) \ {c} /\ \A d \in Members(n) : n.members[d] = m.members[d]
  BY <1>3 DEF Members, BagRemoveAll
<1> DEFINE S == UNION {{d} \X (1..m.members[d]) : d \in Members(m)}
           T == UNION {{d} \X (1..n.members[d]) : d \in Members(n)}
<1>5. T \subseteq S
  BY <1>4
<1>6. IsFiniteSet(S)
  <2>1. IsMemberList(m.members) /\ Members(m) \subseteq Characters
    BY <1>1 DEF IsParty, IsMemberList, Members
  <2>2. IsFiniteSet(Members(m))
    BY <2>1, FS_Subset
  <2> QED BY <2>1, <2>2, FiniteEntries DEF Members
<1> HIDE DEF S, T
<1>7. Cardinality(T) \in Nat /\ Cardinality(S) \in Nat /\ Cardinality(T) <= Cardinality(S)
  BY <1>5, <1>6, FS_Subset, FS_CardinalityType
<1>8. Size(m) = Cardinality(S) /\ Size(n) = Cardinality(T)
  BY DEF S, T, Size
<1> QED BY <1>1, <1>2, <1>7, <1>8, CapacityAssumption DEF Fits

LEMMA LeaveCheckSerial ==
  ASSUME Serial, ServiceInv, SerialInv, NEW w \in Workers, NEW j, j = job[w], LeaveCheck(w)
  PROVE  SerialInv'
<1>1. /\ JobOK(j) /\ JobSerial(j) /\ j.pc = "leave" /\ Busy(j) /\ j.chr \in Characters
  BY Working DEF SerialInv, LeaveCheck, At, Resting
<1>2. AllSame /\ j.chr = Wanted(j) /\ (j.op = "DELETED" => Rec(j.chr) = j.pid)
  BY <1>1, Calm
  DEF JobSerial, DeleteOK, Wanted, Entering, Leaving, Disbanding, AllSame, Same
<1> DEFINE found == IF Obtained(w, j.chr).partyId # j.pid
                    THEN Refuse(j) ELSE Goto(j, "leave.party")
<1>3. /\ JobOK(found) /\ Follows(found, j)
      /\ \/ Rests(found, j) /\ Obtained(w, j.chr).partyId # j.pid
         \/ found.pc = "leave.party" /\ Obtained(w, j.chr).partyId = j.pid
  BY <1>1, Ended, Moved, Going, Stopping DEF Creating, Rests
<1>4. GetById(w, j.chr, found, Fail(j))
  BY DEF LeaveCheck
<1> HIDE DEF found
<1>5. Rec(j.chr) = NoParty /\ j.fetched = ZeroCharacter => JobSerial(Fail(j))
  BY <1>1, <1>2, Ends, Stopping DEF Rests, Follows
<1>6. ASSUME NEW k, Finds(k, found), AllSame', Cached(j.chr)', Remembered,
             Obtained(w, j.chr).partyId = Rec(j.chr)'
      PROVE  JobSerial(k)'
  <2>1. /\ k.op = j.op /\ k.chr = j.chr /\ k.pid = j.pid
        /\ k.fetched = ZeroCharacter /\ k.pc = found.pc
    BY <1>3, <1>6 DEF Finds, Follows
  <2>2. CASE Rests(found, j) /\ Obtained(w, j.chr).partyId # j.pid
    <3>1. j.op # "DELETED"
      BY <1>1, <1>2, <1>6, <2>2 DEF Remembered
    <3> QED BY <1>6, <2>1, <2>2, <3>1, Ends DEF Rests
  <2>3. CASE found.pc = "leave.party" /\ Obtained(w, j.chr).partyId = j.pid
    BY <1>1, <1>6, <2>1, <2>3
    DEF AllSame, JobSerial, FetchOK, AgreeOK, CreateOK, JoinOK, LeaveOK, DisbandOK, LeadOK,
        DeleteOK, OtherOK, Entering, Leaving, Disbanding, Deletion
  <2> QED BY <1>3, <2>2, <2>3
<1>7. j.pc \in Lookups \ {"view.member"} /\ found.fetched = j.fetched
  BY <1>1, <1>3 DEF Lookups, Follows
<1> QED BY <1>1, <1>2, <1>3, <1>4, <1>5, <1>6, <1>7, LookupSerial

LEMMA LeaveGetPartySerial ==
  ASSUME Serial, ServiceInv, SerialInv, NEW w \in Workers, NEW j, j = job[w], LeaveGetParty(w)
  PROVE  SerialInv'
<1>1. /\ JobOK(j) /\ JobSerial(j) /\ j.pc = "leave.party" /\ j.chr \in Characters /\ Registries
  BY Working DEF SerialInv, LeaveGetParty, At, Resting
<1>2. AllSame /\ j.fetched = ZeroCharacter /\ Cached(j.chr) /\ Rec(j.chr) = j.pid
  BY <1>1, Calm
  DEF JobSerial, LeaveOK, FetchOK, Lookups, Entering, Leaving, Disbanding
<1>3. j.pid \notin DOMAIN partyReg => Rec(j.chr) = NoParty
  BY <1>1, <1>2 DEF AllSame, Same, Registries, Indexed
<1>4. PICK k : /\ Become(w, k) /\ UNCHANGED Pages
               /\ \/ Rests(k, j) /\ Rec(j.chr) = NoParty
                  \/ /\ k.pc = "leave.remove" /\ k.op = j.op /\ k.chr = j.chr
                     /\ k.fetched = j.fetched /\ k.pid = j.pid /\ j.pid \in DOMAIN partyReg
  <2> DEFINE d == j.op # "EXPEL" /\ Lookup(j.pid).leader = j.chr
             found == [Goto(j, "leave.remove") EXCEPT !.disband = d]
  <2>1. /\ found.pc = "leave.remove" /\ found.op = j.op /\ found.chr = j.chr
        /\ found.fetched = j.fetched /\ found.pid = j.pid
    BY <1>1 DEF JobOK, Fields, Goto
  <2>2. GetParty(w, j.pid, found, Fail(j))
    BY DEF LeaveGetParty
  <2>3. Rests(Fail(j), j)
    BY <1>1, Stopping
  <2> HIDE DEF found
  <2> QED BY <1>3, <2>1, <2>2, <2>3 DEF GetParty, Pages, registryVars
<1>5. JobSerial(k)
  <2>1. CASE Rests(k, j) /\ Rec(j.chr) = NoParty
    BY <1>2, <2>1, Ends DEF Rests, Follows
  <2>2. CASE k.pc = "leave.remove"
    BY <1>2, <1>4, <2>2
    DEF AllSame, JobSerial, FetchOK, AgreeOK, CreateOK, JoinOK, LeaveOK, DisbandOK, LeadOK,
        DeleteOK, OtherOK, Entering, Leaving, Disbanding, Deletion, Rests
  <2> QED BY <1>4, <2>1, <2>2
<1> QED BY <1>4, <1>5, Kept

LEMMA LeaveRemoveSerial ==
  ASSUME Serial, ServiceInv, SerialInv, NEW w \in Workers, NEW j, j = job[w], LeaveRemove(w)
  PROVE  SerialInv'
<1>1. /\ JobOK(j) /\ JobSerial(j) /\ j.pc = "leave.remove" /\ j.chr \in Characters
      /\ Registries /\ RegistryInv
  BY Working DEF SerialInv, ServiceInv, LeaveRemove, At, Resting
<1>2. /\ AllSame /\ j.fetched = ZeroCharacter
      /\ Cached(j.chr) /\ Rec(j.chr) = j.pid /\ j.pid \in DOMAIN partyReg
  BY <1>1, Calm DEF JobSerial, LeaveOK, FetchOK, Lookups, Entering, Leaving, Disbanding
<1> DEFINE u == Removing(j.chr)
<1>3. PICK m : m = Updated(j.pid, u)
  OBVIOUS
<1> DEFINE done == [Goto(j, "leave.get") EXCEPT !.party = m, !.todo = m.members]
<1>4. /\ UNCHANGED <<charReg, foreign>>
      /\ UpdateParty(j.pid, u) /\ Become(w, done)
  <2>1. Fits(Updated(j.pid, u))
    BY <1>1, <1>2, RemovalFits DEF Serial
  <2> QED BY <1>3, <2>1 DEF LeaveRemove, SetParty
<1>5. u \in Updaters /\ Members(m) = Members(partyReg[j.pid]) \ {j.chr}
  BY <1>1, <1>2, <1>3, IsUpdater, UpdatedMembers
<1>6. /\ Registries' /\ DOMAIN partyReg' = DOMAIN partyReg /\ partyReg'[j.pid] = m
      /\ \A c \in Characters : Rec(c)' = Rec(c) /\ (Cached(c)' <=> Cached(c))
      /\ \A c \in Characters :
           Idx(c)' = IF c \in Members(partyReg[j.pid]) \ {j.chr} THEN j.pid
                     ELSE IF c \in Members(partyReg[j.pid]) THEN NoParty ELSE Idx(c)
  BY <1>1, <1>2, <1>3, <1>4, <1>5, Updating
<1>7. \A c \in Characters : c \in Members(partyReg[j.pid]) <=> Idx(c) = j.pid
  BY <1>1, <1>2 DEF Registries, Indexed
<1>8. Idx(j.chr)' = NoParty /\ \A c \in Characters \ {j.chr} : Same(c)'
  BY <1>1, <1>2, <1>6, <1>7 DEF AllSame, Same
<1>9. PICK k : /\ Become(w, k) /\ k.pc = "leave.get" /\ k.op = j.op /\ k.chr = j.chr
               /\ k.pid = j.pid /\ k.fetched = ZeroCharacter
               /\ k.party = m /\ k.todo = m.members
  <2>1. /\ done.pc = "leave.get" /\ done.op = j.op /\ done.chr = j.chr
        /\ done.pid = j.pid /\ done.fetched = ZeroCharacter
        /\ done.party = m /\ done.todo = m.members
    BY <1>1, <1>2 DEF JobOK, Fields, Goto
  <2> HIDE DEF done
  <2> QED BY <1>4, <2>1
<1>10. /\ Cached(j.chr)' /\ j.pid \in DOMAIN partyReg'
       /\ DOMAIN k.todo = Members(partyReg'[j.pid])
       /\ Members(k.party) = Members(partyReg'[j.pid])
  BY <1>1, <1>2, <1>6, <1>9 DEF Members
<1>11. JobSerial(k)'
  BY <1>8, <1>9, <1>10
  DEF JobSerial, FetchOK, AgreeOK, CreateOK, JoinOK, LeaveOK, DisbandOK, LeadOK,
      DeleteOK, OtherOK, Entering, Leaving, Disbanding, Deletion
<1> QED BY <1>6, <1>9, <1>11, Landed DEF ServiceInv

LEMMA LeaveGetSerial ==
  ASSUME Serial, ServiceInv, SerialInv, NEW w \in Workers, NEW j, j = job[w], LeaveGet(w)
  PROVE  SerialInv'
<1>1. /\ JobOK(j) /\ JobSerial(j) /\ j.pc = "leave.get" /\ j.chr \in Characters /\ Registries
  BY Working DEF SerialInv, LeaveGet, At, Resting
<1>2. j.fetched = ZeroCharacter /\ Cached(j.chr)
  BY <1>1 DEF JobSerial, LeaveOK, FetchOK, Lookups, Leaving
<1>3. PICK k : /\ Become(w, k) /\ UNCHANGED Pages
               /\ k.pc = "leave.clear" /\ k.op = j.op /\ k.chr = j.chr /\ k.pid = j.pid
               /\ k.fetched = ZeroCharacter /\ k.party = j.party /\ k.todo = j.todo
               /\ k.rec.id = j.chr
  <2> DEFINE found == [Goto(j, "leave.clear") EXCEPT !.rec = Character(j.chr)]
  <2>1. /\ found.pc = "leave.clear" /\ found.op = j.op /\ found.chr = j.chr
        /\ found.pid = j.pid /\ found.fetched = ZeroCharacter /\ found.party = j.party
        /\ found.todo = j.todo /\ found.rec = Character(j.chr)
    BY <1>1, <1>2 DEF JobOK, Fields, Goto
  <2>2. GetCharacter(w, j.chr, found, Goto(j, "leave.undo"))
    BY DEF LeaveGet
  <2>3. Character(j.chr).id = j.chr
    BY <1>1, <1>2 DEF Registries, RecordIds, Character
  <2> HIDE DEF found
  <2> QED BY <1>2, <2>1, <2>2, <2>3 DEF GetCharacter, Pages, registryVars
<1>4. JobSerial(k)
  BY <1>1, <1>3
  DEF JobSerial, FetchOK, AgreeOK, CreateOK, JoinOK, LeaveOK, DisbandOK, LeadOK,
      DeleteOK, OtherOK, Entering, Leaving, Disbanding, Deletion
<1> QED BY <1>3, <1>4, Kept

LEMMA LeaveClearSerial ==
  ASSUME Serial, ServiceInv, SerialInv, NEW w \in Workers, NEW j, j = job[w], LeaveClear(w)
  PROVE  SerialInv'
<1>1. /\ JobOK(j) /\ JobSerial(j) /\ j.pc = "leave.clear" /\ j.chr \in Characters
      /\ Registries
  BY Working DEF SerialInv, LeaveClear, At, Resting
<1>2. /\ j.fetched = ZeroCharacter /\ Cached(j.chr) /\ j.rec.id = j.chr /\ Idx(j.chr) = NoParty
      /\ \A d \in Characters \ {j.chr} : Same(d)
      /\ j.pid \in DOMAIN partyReg /\ DOMAIN j.todo = Members(partyReg[j.pid])
      /\ Members(j.party) = Members(partyReg[j.pid])
  BY <1>1 DEF JobSerial, LeaveOK, AgreeOK, FetchOK, Lookups, Entering, Leaving, Disbanding
<1>3. PICK k : /\ SetCharacter(w, LeaveParty(Target(w)), k)
               /\ \/ Rests(k, j)
                  \/ /\ Follows(k, j)
                     /\ \/ k.pc = "disband" /\ k.todo = j.todo
                        \/ k.pc = "expel.remove" /\ j.op = "EXPEL" /\ Members(j.party) = {}
  <2> DEFINE e == Event("DISBAND", j.party.id, j.chr)
             last == Goto(Buffered(j, e), "expel.remove")
  <2>1. Follows(last, j) /\ last.pc = "expel.remove"
    BY <1>1 DEF JobOK, Fields, Goto, Buffered, Follows
  <2>2. Follows(Goto(j, "disband"), j) /\ Goto(j, "disband").pc = "disband"
        /\ Goto(j, "disband").todo = j.todo
    BY <1>1, Going
  <2>3. \A x : Rests(Done(Buffered(j, x)), j)
    BY <1>1, Stopping
  <2>4. \/ SetCharacter(w, LeaveParty(Target(w)), Goto(j, "disband"))
        \/ /\ SetCharacter(w, LeaveParty(Target(w)), last)
           /\ j.op = "EXPEL" /\ Members(j.party) = {}
        \/ \E x : SetCharacter(w, LeaveParty(Target(w)), Done(Buffered(j, x)))
    BY DEF LeaveClear
  <2> HIDE DEF last
  <2> QED BY <2>1, <2>2, <2>3, <2>4
<1>4. PICK m : m = LeaveParty(Target(w))
  OBVIOUS
<1>5. m.id = j.chr /\ DOMAIN m = RecordFields /\ m.partyId = NoParty
  BY <1>1, <1>2, <1>4, Targeted
<1>6. /\ Become(w, k) /\ Registries' /\ UNCHANGED partyReg
      /\ Rec(j.chr)' = NoParty /\ \A d \in Characters \ {j.chr} : Rec(d)' = Rec(d)
      /\ \A d \in Characters : Idx(d)' = Idx(d)
  BY <1>1, <1>2, <1>3, <1>4, <1>5, RecordSet
<1>7. AllSame'
  BY <1>2, <1>6 DEF AllSame, Same
<1>8. k.op = j.op /\ k.chr = j.chr /\ k.pid = j.pid /\ k.fetched = ZeroCharacter
  BY <1>2, <1>3 DEF Rests, Follows
<1>9. JobSerial(k)'
  <2>1. CASE Rests(k, j)
    BY <1>6, <1>7, <1>8, <2>1, Ends DEF Rests
  <2>2. CASE k.pc = "disband" /\ k.todo = j.todo
    BY <1>2, <1>6, <1>7, <1>8, <2>2
    DEF AllSame, JobSerial, FetchOK, AgreeOK, CreateOK, JoinOK, LeaveOK, DisbandOK, LeadOK,
        DeleteOK, OtherOK, Entering, Leaving, Disbanding, Deletion
  <2>3. CASE k.pc = "expel.remove" /\ j.op = "EXPEL" /\ Members(j.party) = {}
    <3>1. Members(Lookup(j.pid))' = {}
      BY <1>2, <1>6, <2>3 DEF Lookup
    <3> QED
      BY <1>7, <1>8, <2>3, <3>1
      DEF AllSame, JobSerial, FetchOK, AgreeOK, CreateOK, JoinOK, LeaveOK, DisbandOK, LeadOK,
          DeleteOK, OtherOK, Entering, Leaving, Disbanding
  <2> QED BY <1>3, <2>1, <2>2, <2>3
<1> QED BY <1>6, <1>9, Landed DEF ServiceInv

LEMMA ListedOnce ==
  ASSUME NEW b, NEW c
  PROVE  /\ DOMAIN BagRemove(b, c) \subseteq DOMAIN b
         /\ DOMAIN b \ {c} \subseteq DOMAIN BagRemove(b, c)
  BY DEF BagRemove

LEMMA DisbandGetSerial ==
  ASSUME Serial, ServiceInv, SerialInv, NEW w \in Workers, NEW j, j = job[w], DisbandGet(w)
  PROVE  SerialInv'
<1>1. /\ JobOK(j) /\ JobSerial(j) /\ j.pc = "disband" /\ Registries /\ RegistryInv
  BY Working DEF SerialInv, ServiceInv, DisbandGet, At
<1>2. /\ j.fetched = ZeroCharacter /\ j.pid \in DOMAIN partyReg
      /\ DOMAIN j.todo \subseteq Members(partyReg[j.pid])
  BY <1>1 DEF JobSerial, DisbandOK, FetchOK, Lookups, Disbanding
<1>3. PICK c \in DOMAIN j.todo :
        LET l == [j EXCEPT !.todo = BagRemove(j.todo, c)]
        IN  GetCharacter(w, c, [Goto(l, "disband.clear") EXCEPT !.rec = Character(c)], l)
  BY DEF DisbandGet
<1>4. PICK k : /\ Become(w, k) /\ UNCHANGED Pages
               /\ k.op = j.op /\ k.chr = j.chr /\ k.pid = j.pid
               /\ k.fetched = ZeroCharacter /\ k.todo = BagRemove(j.todo, c)
               /\ \/ Cached(c) /\ k.pc = "disband.clear" /\ k.rec = Character(c)
                  \/ ~Cached(c) /\ k.pc = "disband"
  <2> DEFINE l == [j EXCEPT !.todo = BagRemove(j.todo, c)]
             found == [Goto(l, "disband.clear") EXCEPT !.rec = Character(c)]
  <2>1. /\ l.pc = "disband" /\ l.op = j.op /\ l.chr = j.chr
        /\ l.pid = j.pid /\ l.fetched = ZeroCharacter /\ l.todo = BagRemove(j.todo, c)
    BY <1>1, <1>2 DEF JobOK, Fields
  <2>2. /\ found.pc = "disband.clear" /\ found.op = j.op /\ found.chr = j.chr
        /\ found.pid = j.pid /\ found.fetched = ZeroCharacter
        /\ found.todo = BagRemove(j.todo, c) /\ found.rec = Character(c)
    BY <1>1, <1>2 DEF JobOK, Fields, Goto
  <2>3. GetCharacter(w, c, found, l)
    BY <1>3
  <2> HIDE DEF found, l
  <2> QED BY <2>1, <2>2, <2>3 DEF GetCharacter, Pages, registryVars
<1>5. c \in Members(partyReg[j.pid]) /\ c \in Characters
  BY <1>1, <1>2 DEF RegistryInv, RegistryTypeOK, IsParty, IsMemberList, Members
<1>6. IF Cached(c) THEN Character(c).id = c ELSE Rec(c) = NoParty
  BY <1>1, <1>5 DEF Registries, RecordIds, Rec, Character, ZeroCharacter
<1>7. /\ DOMAIN k.todo \subseteq Members(partyReg[j.pid])
      /\ \A d \in Members(partyReg[j.pid]) \ DOMAIN k.todo : d = c \/ d \notin DOMAIN j.todo
  BY <1>2, <1>4, ListedOnce
<1>8. JobSerial(k)
  BY <1>1, <1>2, <1>4, <1>5, <1>6, <1>7
  DEF JobSerial, FetchOK, AgreeOK, CreateOK, JoinOK, LeaveOK, DisbandOK, LeadOK,
      DeleteOK, OtherOK, Entering, Leaving, Disbanding, Deletion
<1> QED BY <1>4, <1>8, Kept

LEMMA DisbandClearSerial ==
  ASSUME Serial, ServiceInv, SerialInv, NEW w \in Workers, NEW j, j = job[w], DisbandClear(w)
  PROVE  SerialInv'
<1>1. /\ JobOK(j) /\ JobSerial(j) /\ j.pc = "disband.clear" /\ Registries /\ RegistryInv
  BY Working DEF SerialInv, ServiceInv, DisbandClear, At
<1>2. /\ j.fetched = ZeroCharacter /\ j.pid \in DOMAIN partyReg
      /\ j.rec.id \in Members(partyReg[j.pid]) /\ Cached(j.rec.id)
  BY <1>1 DEF JobSerial, DisbandOK, FetchOK, Lookups, Disbanding
<1>3. PICK c \in Characters : c = j.rec.id
  BY <1>1, <1>2 DEF RegistryInv, RegistryTypeOK, IsParty, IsMemberList, Members
<1>4. PICK m : m = LeaveParty(Target(w))
  OBVIOUS
<1>5. m.id = c /\ DOMAIN m = RecordFields /\ m.partyId = NoParty
  BY <1>1, <1>2, <1>3, <1>4, Targeted
<1>6. SetCharacter(w, m, Goto(j, "disband"))
  BY <1>4 DEF DisbandClear
<1>7. PICK k : /\ SetCharacter(w, m, k) /\ k.pc = "disband" /\ k.op = j.op /\ k.chr = j.chr
               /\ k.pid = j.pid /\ k.fetched = ZeroCharacter /\ k.todo = j.todo
  BY <1>1, <1>2, <1>6, Going DEF Follows
<1>8. /\ Become(w, k) /\ Registries' /\ UNCHANGED partyReg
      /\ Rec(c)' = NoParty /\ \A d \in Characters \ {c} : Rec(d)' = Rec(d)
      /\ \A d \in Characters : Idx(d)' = Idx(d)
  BY <1>1, <1>2, <1>3, <1>4, <1>5, <1>7, RecordSet
<1>9. Idx(c) = j.pid
  BY <1>1, <1>2, <1>3 DEF Registries, Indexed
<1>10. \A d \in Characters : Same(d)' \/ (Idx(d)' = j.pid /\ Rec(d)' = NoParty)
  BY <1>1, <1>8, <1>9 DEF JobSerial, AgreeOK, Disbanding, Same
<1>11. \A d \in Members(partyReg[j.pid]) \ DOMAIN j.todo : Rec(d)' = NoParty
  <2>1. Members(partyReg[j.pid]) \subseteq Characters
    BY <1>1, <1>2 DEF RegistryInv, RegistryTypeOK, IsParty, IsMemberList, Members
  <2> QED BY <1>1, <1>3, <1>8, <2>1 DEF JobSerial, DisbandOK, Disbanding
<1>12. j.op = "DELETED" => Rec(j.chr)' = NoParty
  <2>1. j.op = "DELETED" => j.chr \in Characters /\ Rec(j.chr) = NoParty
    BY <1>1 DEF JobOK, Busy, JobSerial, DeleteOK, Disbanding
  <2> QED BY <1>8, <2>1
<1>13. JobSerial(k)'
  BY <1>1, <1>2, <1>7, <1>8, <1>10, <1>11, <1>12
  DEF JobSerial, FetchOK, AgreeOK, CreateOK, JoinOK, LeaveOK, DisbandOK, LeadOK,
      DeleteOK, OtherOK, Entering, Leaving, Disbanding, Deletion
<1> QED BY <1>8, <1>13, Landed DEF ServiceInv

\* Who was in the party that is taken out is in none.
LEMMA PartyRemoved ==
  ASSUME Registries, RegistryInv, NEW p \in DOMAIN partyReg, RemoveParty(p),
         UNCHANGED <<charReg, foreign>>
  PROVE  /\ Registries'
         /\ \A c \in Characters : Rec(c)' = Rec(c)
         /\ \A c \in Characters : Idx(c)' = IF Idx(c) = p THEN NoParty ELSE Idx(c)
<1>1. /\ charToParty' = DeleteKeys(charToParty, Members(partyReg[p]))
      /\ partyReg' = DeleteKeys(partyReg, {p})
  BY DEF RemoveParty, Lookup
<1>2. \A c \in Characters : c \in Members(partyReg[p]) <=> Idx(c) = p
  BY DEF Registries, Indexed
<1>3. \A c \in Characters : Idx(c)' = IF c \in Members(partyReg[p]) THEN NoParty ELSE Idx(c)
  BY <1>1 DEF Idx, DeleteKeys
<1>4. \A c \in Characters : Rec(c)' = Rec(c) /\ (Cached(c)' <=> Cached(c))
  BY DEF Rec, Character, Cached
<1>5. /\ DOMAIN partyReg' = DOMAIN partyReg \ {p}
      /\ \A q \in DOMAIN partyReg' : partyReg'[q] = partyReg[q]
  BY <1>1 DEF DeleteKeys
<1>6. Owned'
  BY <1>5 DEF Registries, Owned
<1>7. Indexed'
  BY <1>2, <1>3, <1>5 DEF Registries, Owned, Indexed
<1> QED BY <1>2, <1>3, <1>4, <1>6, <1>7 DEF Registries, RecordIds, Gone, Cached

LEMMA RemoveDisbandedSerial ==
  ASSUME Serial, ServiceInv, SerialInv, NEW w \in Workers, NEW j, j = job[w], RemoveDisbanded(w)
  PROVE  SerialInv'
<1>1. /\ JobOK(j) /\ JobSerial(j) /\ j.pc = "disband" /\ Registries /\ RegistryInv
      /\ j.chr \in Characters
  BY Working DEF SerialInv, ServiceInv, RemoveDisbanded, At, Resting
<1>2. /\ j.fetched = ZeroCharacter /\ j.pid \in DOMAIN partyReg
      /\ \A c \in Members(partyReg[j.pid]) \ DOMAIN j.todo : Rec(c) = NoParty
      /\ \A c \in Characters : Same(c) \/ (Idx(c) = j.pid /\ Rec(c) = NoParty)
      /\ j.op = "DELETED" => Rec(j.chr) = NoParty
  BY <1>1 DEF JobSerial, DisbandOK, AgreeOK, DeleteOK, FetchOK, Lookups, Disbanding
<1>3. \A c \in Characters : Idx(c) = j.pid => Rec(c) = NoParty
  <2>1. DOMAIN j.todo = {}
    BY DEF RemoveDisbanded, EmptyMap
  <2> QED BY <1>1, <1>2, <2>1 DEF Registries, Indexed
<1>4. PICK k : Become(w, k) /\ Rests(k, j)
  BY <1>1, Stopping DEF RemoveDisbanded
<1>5. /\ Registries'
      /\ \A c \in Characters : Rec(c)' = Rec(c)
      /\ \A c \in Characters : Idx(c)' = IF Idx(c) = j.pid THEN NoParty ELSE Idx(c)
  BY <1>1, <1>2, PartyRemoved DEF RemoveDisbanded
<1>6. AllSame'
  BY <1>2, <1>3, <1>5 DEF AllSame, Same
<1>7. JobSerial(k)'
  BY <1>1, <1>2, <1>4, <1>5, <1>6, Ends DEF Rests, Follows
<1> QED BY <1>4, <1>5, <1>7, Landed DEF ServiceInv

LEMMA RemoveEmptiedSerial ==
  ASSUME Serial, ServiceInv, SerialInv, NEW w \in Workers, NEW j, j = job[w], RemoveEmptied(w)
  PROVE  SerialInv'
<1>1. /\ JobOK(j) /\ JobSerial(j) /\ j.pc = "expel.remove" /\ Registries /\ RegistryInv
  BY Working DEF SerialInv, ServiceInv, RemoveEmptied, At
<1>2. /\ j.fetched = ZeroCharacter /\ Members(Lookup(j.pid)) = {} /\ AllSame
      /\ j.op # "DELETED"
  BY <1>1, Calm
  DEF JobSerial, LeaveOK, DeleteOK, FetchOK, Lookups, Entering, Leaving, Disbanding, Deletion
<1>3. PICK k : Become(w, k) /\ Rests(k, j)
  BY <1>1, Stopping DEF RemoveEmptied
<1>4. RemoveParty(j.pid) /\ UNCHANGED <<charReg, foreign>>
  BY DEF RemoveEmptied
<1>5. CASE j.pid \in DOMAIN partyReg
  <2>1. /\ Registries'
        /\ \A c \in Characters : Rec(c)' = Rec(c)
        /\ \A c \in Characters : Idx(c)' = IF Idx(c) = j.pid THEN NoParty ELSE Idx(c)
    BY <1>1, <1>4, <1>5, PartyRemoved
  <2>2. \A c \in Characters : Idx(c) # j.pid
    BY <1>1, <1>2, <1>5 DEF Registries, Indexed, Lookup
  <2>3. AllSame'
    BY <1>2, <2>1, <2>2 DEF AllSame, Same
  <2>4. JobSerial(k)'
    BY <1>2, <1>3, <2>3, Ends DEF Rests, Follows
  <2> QED BY <1>3, <2>1, <2>4, Landed DEF ServiceInv
<1>6. CASE j.pid \notin DOMAIN partyReg
  <2>1. partyReg' = partyReg /\ charToParty' = charToParty
    BY <1>1, <1>2, <1>4, <1>6
    DEF RemoveParty, DeleteKeys, RegistryInv, RegistryTypeOK
  <2>2. JobSerial(k)
    BY <1>2, <1>3, Ends DEF Rests, Follows
  <2> QED BY <1>3, <1>4, <2>1, <2>2, Kept DEF Pages
<1> QED BY <1>5, <1>6

-----------------------------------------------------------------------------
(* ChangeLeader and RequestInvite.                                         *)

LEMMA LeadGetActorSerial ==
  ASSUME Serial, ServiceInv, SerialInv, NEW w \in Workers, NEW j, j = job[w], LeadGetActor(w)
  PROVE  SerialInv'
<1>1. /\ JobOK(j) /\ JobSerial(j) /\ j.pc = "lead" /\ Busy(j) /\ j.chr \in Characters
  BY Working DEF SerialInv, LeadGetActor, At, Resting
<1>2. AllSame /\ j.chr = Wanted(j) /\ j.op # "DELETED"
  BY <1>1, Calm
  DEF JobSerial, DeleteOK, Deletion, Wanted, Entering, Leaving, Disbanding
<1> DEFINE found == [Goto(j, "lead.chr") EXCEPT !.rec = Obtained(w, j.chr)]
<1>3. /\ JobOK(found) /\ found.pc = "lead.chr" /\ found.op = j.op /\ found.pid = j.pid
      /\ found.fetched = j.fetched
  <2>1. JobOK(found)
    BY <1>1, Moved, Noted DEF Creating
  <2> QED BY <1>1, <2>1 DEF JobOK, Fields, Goto
<1>4. GetById(w, j.chr, found, Fail(j))
  BY DEF LeadGetActor
<1> HIDE DEF found
<1>5. j.fetched = ZeroCharacter => JobSerial(Fail(j))
  BY <1>1, <1>2, Ends, Stopping DEF Rests, Follows
<1>6. ASSUME NEW k, Finds(k, found), AllSame'
      PROVE  JobSerial(k)'
  <2>1. k.op = j.op /\ k.pid = j.pid /\ k.fetched = ZeroCharacter /\ k.pc = "lead.chr"
    BY <1>3, <1>6 DEF Finds
  <2> QED
    BY <1>2, <1>6, <2>1
    DEF AllSame, JobSerial, FetchOK, AgreeOK, CreateOK, JoinOK, LeaveOK, DisbandOK, LeadOK,
        DeleteOK, OtherOK, Entering, Leaving, Disbanding
<1>7. j.pc \in Lookups \ {"view.member"}
  BY <1>1 DEF Lookups
<1> QED BY <1>1, <1>2, <1>3, <1>4, <1>5, <1>6, <1>7, LookupSerial

LEMMA LeadCheckSerial ==
  ASSUME Serial, ServiceInv, SerialInv, NEW w \in Workers, NEW j, j = job[w], LeadCheck(w)
  PROVE  SerialInv'
<1>1. /\ JobOK(j) /\ JobSerial(j) /\ j.pc = "lead.chr" /\ Busy(j) /\ j.chr \in Characters
      /\ Registries
  BY Working DEF SerialInv, LeadCheck, At, Resting
<1>2. AllSame /\ j.chr = Wanted(j) /\ j.op # "DELETED"
  BY <1>1, Calm
  DEF JobSerial, DeleteOK, Deletion, Wanted, Entering, Leaving, Disbanding
<1>3. PICK found :
        /\ JobOK(found) /\ Follows(found, j)
        /\ \/ Rests(found, j)
           \/ found.pc = "lead.set" /\ Obtained(w, j.chr).partyId = j.pid
        /\ GetById(w, j.chr, found, Fail(j))
  <2> DEFINE c == Obtained(w, j.chr)
             found == IF \/ c.partyId # j.pid
                         \/ j.rec.partyId # c.partyId
                         \/ j.rec.mapId # c.mapId
                      THEN Refuse(j) ELSE Goto(j, "lead.set")
  <2>1. /\ JobOK(found) /\ Follows(found, j)
        /\ \/ Rests(found, j)
           \/ found.pc = "lead.set" /\ Obtained(w, j.chr).partyId = j.pid
    BY <1>1, Ended, Moved, Going, Stopping DEF Creating, Rests
  <2>2. GetById(w, j.chr, found, Fail(j))
    BY DEF LeadCheck
  <2> HIDE DEF found
  <2> QED BY <2>1, <2>2
<1>4. j.fetched = ZeroCharacter => JobSerial(Fail(j))
  BY <1>1, <1>2, Ends, Stopping DEF Rests, Follows
<1>5. ASSUME NEW k, Finds(k, found), AllSame', Remembered,
             Obtained(w, j.chr).partyId = Rec(j.chr)'
      PROVE  JobSerial(k)'
  <2>1. k.op = j.op /\ k.pid = j.pid /\ k.fetched = ZeroCharacter /\ k.pc = found.pc
    BY <1>3, <1>5 DEF Finds, Follows
  <2>2. CASE Rests(found, j)
    BY <1>2, <1>5, <2>1, <2>2, Ends DEF Rests
  <2>3. CASE found.pc = "lead.set" /\ Obtained(w, j.chr).partyId = j.pid
    <3>1. Idx(j.chr) = j.pid
      BY <1>1, <1>2, <1>5, <2>3 DEF Remembered, AllSame, Same
    <3>2. j.pid \in DOMAIN partyReg' \cup {NoParty}
      BY <1>1, <1>2, <1>5, <3>1 DEF Remembered, Registries, Indexed
    <3> QED
      BY <1>2, <1>5, <2>1, <2>3, <3>2
      DEF AllSame, JobSerial, FetchOK, AgreeOK, CreateOK, JoinOK, LeaveOK, DisbandOK, LeadOK,
          DeleteOK, OtherOK, Entering, Leaving, Disbanding
  <2> QED BY <1>3, <2>2, <2>3
<1>6. j.pc \in Lookups \ {"view.member"} /\ found.fetched = j.fetched
  BY <1>1, <1>3 DEF Lookups, Follows
<1> QED BY <1>1, <1>2, <1>3, <1>4, <1>5, <1>6, LookupSerial

\* As long as no party is stored under id 0, ChangeLeader appoints in a party that is there.
LEMMA LeadsParty ==
  ASSUME ServiceInv, SerialInv, ZeroVacant', NEW w \in Workers, NEW j, j = job[w], LeadSet(w)
  PROVE  j.pid \in DOMAIN partyReg /\ j.pid # NoParty
<1>1. j.pid \in DOMAIN partyReg \cup {NoParty} /\ Registries /\ j.chr \in Characters
  BY Working DEF SerialInv, JobSerial, LeadOK, LeadSet, At, Resting
<1>2. NoParty \notin DOMAIN partyReg
  BY <1>1 DEF Registries, Owned
<1>3. CASE j.pid = NoParty
  <2>1. PICK m : m = Updated(j.pid, Appointing(j.chr))
    OBVIOUS
  <2>2. m.members = EmptyMap
    BY <1>2, <1>3, <2>1 DEF Updated, Lookup, Apply, Appointing, SetLeader, ZeroParty
  <2>3. Size(m) = 0
    <3>1. Members(m) = {}
      BY <2>2 DEF Members, EmptyMap
    <3>2. UNION {{c} \X (1..m.members[c]) : c \in Members(m)} = {}
      BY <3>1
    <3> QED BY <3>2, FS_EmptySet DEF Size
  <2>4. Fits(m)
    BY <2>3, CapacityAssumption DEF Fits
  <2>5. UpdateParty(j.pid, Appointing(j.chr))
    BY <2>1, <2>4 DEF LeadSet, SetParty
  <2>6. NoParty \in DOMAIN partyReg'
    BY <1>3, <2>5 DEF UpdateParty, Put
  <2> QED BY <2>6 DEF ZeroVacant
<1> QED BY <1>1, <1>2, <1>3

LEMMA LeadSetSerial ==
  ASSUME Serial, ServiceInv, SerialInv, ZeroVacant', NEW w \in Workers, NEW j, j = job[w], LeadSet(w)
  PROVE  SerialInv'
<1>1. /\ JobOK(j) /\ JobSerial(j) /\ j.pc = "lead.set" /\ Busy(j) /\ j.chr \in Characters
      /\ Registries /\ RegistryInv
  BY Working DEF SerialInv, ServiceInv, LeadSet, At, Resting
<1>2. /\ AllSame /\ j.fetched = ZeroCharacter /\ j.op # "DELETED" /\ j.pid \in DOMAIN partyReg
  BY <1>1, Calm, LeadsParty
  DEF JobSerial, DeleteOK, FetchOK, Lookups, Entering, Leaving, Disbanding, Deletion
<1> DEFINE u == Appointing(j.chr)
<1>3. PICK k : /\ Become(w, k) /\ Rests(k, j) /\ UNCHANGED <<charReg, foreign>>
               /\ UpdateParty(j.pid, u) \/ UNCHANGED registryVars
  <2>1. ASSUME NEW e, NEW f
        PROVE  Rests(Done(Buffered(Buffered(j, f), e)), j) /\ Rests(Done(Buffered(j, e)), j)
    BY <1>1 DEF JobOK, Fields, Goto, Buffered, Done, Rests, Follows
  <2> QED BY <2>1 DEF LeadSet, SetParty
<1>4. CASE UNCHANGED registryVars
  <2>1. JobSerial(k)
    BY <1>2, <1>3, Ends DEF Rests, Follows
  <2> QED BY <1>3, <1>4, <2>1, Kept DEF Pages, registryVars
<1>5. CASE UpdateParty(j.pid, u)
  <2>1. u \in Updaters /\ Members(Updated(j.pid, u)) = Members(partyReg[j.pid])
    BY <1>1, <1>2, IsUpdater, UpdatedMembers
  <2>2. /\ Registries'
        /\ \A c \in Characters : Rec(c)' = Rec(c)
        /\ \A c \in Characters :
             Idx(c)' = IF c \in Members(partyReg[j.pid]) THEN j.pid ELSE Idx(c)
    BY <1>1, <1>2, <1>3, <1>5, <2>1, Updating
  <2>3. \A c \in Characters : c \in Members(partyReg[j.pid]) <=> Idx(c) = j.pid
    BY <1>1, <1>2 DEF Registries, Indexed
  <2>4. AllSame'
    BY <1>2, <2>2, <2>3 DEF AllSame, Same
  <2>5. JobSerial(k)'
    BY <1>2, <1>3, <2>4, Ends DEF Rests, Follows
  <2> QED BY <1>3, <2>2, <2>5, Landed DEF ServiceInv
<1> QED BY <1>3, <1>4, <1>5

LEMMA InviteGetActorSerial ==
  ASSUME Serial, ServiceInv, SerialInv, NEW w \in Workers, NEW j, j = job[w], InviteGetActor(w)
  PROVE  SerialInv'
<1>1. /\ JobOK(j) /\ JobSerial(j) /\ j.pc = "invite" /\ Busy(j)
      /\ j.op \in Creators /\ j.actor \in Characters
  BY Working DEF SerialInv, InviteGetActor, At, Resting, Creating
<1>2. AllSame /\ j.actor = Wanted(j) /\ j.op # "DELETED"
  BY <1>1, Calm DEF Creators, Wanted, Entering, Leaving, Disbanding
<1> DEFINE found == [Goto(j, "invite.chr") EXCEPT !.rec = Obtained(w, j.actor)]
<1>3. /\ JobOK(found) /\ found.pc = "invite.chr" /\ found.op = j.op /\ found.fetched = j.fetched
  <2>1. JobOK(found)
    BY <1>1, Moved, Noted DEF Creating
  <2> QED BY <1>1, <2>1 DEF JobOK, Fields, Goto
<1>4. GetById(w, j.actor, found, Fail(j))
  BY DEF InviteGetActor
<1> HIDE DEF found
<1>5. j.fetched = ZeroCharacter => JobSerial(Fail(j))
  BY <1>1, <1>2, Ends, Stopping DEF Rests, Follows
<1>6. ASSUME NEW k, Finds(k, found), AllSame'
      PROVE  JobSerial(k)'
  <2>1. k.op = j.op /\ k.fetched = ZeroCharacter /\ k.pc = "invite.chr"
    BY <1>3, <1>6 DEF Finds
  <2> QED
    BY <1>2, <1>6, <2>1
    DEF AllSame, JobSerial, FetchOK, AgreeOK, CreateOK, JoinOK, LeaveOK, DisbandOK, LeadOK,
        DeleteOK, OtherOK, Entering, Leaving, Disbanding
<1>7. j.pc \in Lookups \ {"view.member"}
  BY <1>1 DEF Lookups
<1> QED BY <1>1, <1>2, <1>3, <1>4, <1>5, <1>6, <1>7, LookupSerial

LEMMA InviteCheckSerial ==
  ASSUME Serial, ServiceInv, SerialInv, NEW w \in Workers, NEW j, j = job[w], InviteCheck(w)
  PROVE  SerialInv'
<1>1. /\ JobOK(j) /\ JobSerial(j) /\ j.pc = "invite.chr" /\ Busy(j) /\ j.chr \in Characters
      /\ j.op \in Creators
  BY Working DEF SerialInv, InviteCheck, At, Resting, Creating
<1>2. AllSame /\ j.chr = Wanted(j) /\ j.op # "DELETED"
  BY <1>1, Calm DEF Creators, Wanted, Entering, Leaving, Disbanding
<1>3. PICK found :
        /\ JobOK(found) /\ Follows(found, j)
        /\ Rests(found, j) \/ found.pc \in {"create", "invite.party"}
        /\ GetById(w, j.chr, found, Fail(j))
  <2> DEFINE found == IF Obtained(w, j.chr).partyId # NoParty THEN Refuse(j)
                      ELSE IF j.rec.partyId = NoParty THEN Goto(j, "create")
                      ELSE Goto(j, "invite.party")
  <2>1. /\ JobOK(found) /\ Follows(found, j)
        /\ Rests(found, j) \/ found.pc \in {"create", "invite.party"}
    BY <1>1, Ended, Moved, Going, Stopping DEF Creating, Rests
  <2>2. GetById(w, j.chr, found, Fail(j))
    BY DEF InviteCheck
  <2> HIDE DEF found
  <2> QED BY <2>1, <2>2
<1>4. j.fetched = ZeroCharacter => JobSerial(Fail(j))
  BY <1>1, <1>2, Ends, Stopping DEF Rests, Follows
<1>5. ASSUME NEW k, Finds(k, found), AllSame'
      PROVE  JobSerial(k)'
  <2>1. k.op = j.op /\ k.fetched = ZeroCharacter /\ k.pc = found.pc
    BY <1>3, <1>5 DEF Finds, Follows
  <2>2. CASE Rests(found, j)
    BY <1>2, <1>5, <2>1, <2>2, Ends DEF Rests
  <2>3. CASE found.pc \in {"create", "invite.party"}
    BY <1>2, <1>5, <2>1, <2>3
    DEF AllSame, JobSerial, FetchOK, AgreeOK, CreateOK, JoinOK, LeaveOK, DisbandOK, LeadOK,
        DeleteOK, OtherOK, Entering, Leaving, Disbanding
  <2> QED BY <1>3, <2>2, <2>3
<1>6. j.pc \in Lookups \ {"view.member"} /\ found.fetched = j.fetched
  BY <1>1, <1>3 DEF Lookups, Follows
<1> QED BY <1>1, <1>2, <1>3, <1>4, <1>5, <1>6, LookupSerial

LEMMA InviteEndsSerial ==
  ASSUME Serial, ServiceInv, SerialInv, NEW w \in Workers, NEW j, j = job[w],
         InviteGetParty(w) \/ InviteSend(w)
  PROVE  SerialInv'
<1>1. /\ JobOK(j) /\ JobSerial(j) /\ j.pc \in {"invite.party", "invite.send"}
  BY Working DEF SerialInv, InviteGetParty, InviteSend, At
<1>2. AllSame /\ j.fetched = ZeroCharacter /\ j.op # "DELETED"
  BY <1>1, Calm
  DEF JobSerial, FetchOK, DeleteOK, Deletion, Lookups, Entering, Leaving, Disbanding
<1>3. PICK k : /\ Become(w, k) /\ UNCHANGED Pages
               /\ k.pc \in {"return", "invite.send"} /\ k.op = j.op /\ k.fetched = j.fetched
  <2>1. CASE InviteGetParty(w)
    <3> DEFINE found == [Goto(j, "invite.send") EXCEPT !.party = Lookup(j.rec.partyId)]
               failed == [Done(j) EXCEPT !.err = TRUE]
    <3>1. /\ found.pc = "invite.send" /\ found.op = j.op /\ found.fetched = j.fetched
          /\ failed.pc = "return" /\ failed.op = j.op /\ failed.fetched = j.fetched
      BY <1>1 DEF JobOK, Fields, Goto, Done
    <3>2. GetParty(w, j.rec.partyId, found, failed)
      BY <2>1 DEF InviteGetParty
    <3> HIDE DEF found, failed
    <3> QED BY <3>1, <3>2 DEF GetParty, Pages, registryVars
  <2>2. CASE InviteSend(w)
    <3>1. Rests(Refuse(j), j) /\ Rests(Done(j), j) /\ Rests(Fail(j), j)
      BY <1>1, Stopping
    <3> QED BY <2>2, <3>1 DEF InviteSend, Rests, Follows, Pages, registryVars
  <2> QED BY <2>1, <2>2
<1>4. JobSerial(k)
  BY <1>2, <1>3, Ends
<1> QED BY <1>3, <1>4, Kept

-----------------------------------------------------------------------------
(* MapChange, deletions, the GET requests and the end of a handler.        *)

LEMMA MapGetSerial ==
  ASSUME Serial, ServiceInv, SerialInv, NEW w \in Workers, NEW j, j = job[w], MapGet(w)
  PROVE  SerialInv'
<1>1. /\ JobOK(j) /\ JobSerial(j) /\ j.pc = "map" /\ Busy(j) /\ j.chr \in Characters
  BY Working DEF SerialInv, MapGet, At, Resting
<1>2. AllSame /\ j.chr = Wanted(j) /\ j.op # "DELETED"
  BY <1>1, Calm DEF JobSerial, DeleteOK, Deletion, Wanted, Entering, Leaving, Disbanding
<1> DEFINE found == [Goto(j, "map.set") EXCEPT !.rec = Obtained(w, j.chr)]
<1>3. /\ JobOK(found) /\ found.pc = "map.set" /\ found.op = j.op /\ found.chr = j.chr
      /\ found.fetched = j.fetched /\ found.rec = Obtained(w, j.chr)
  <2>1. JobOK(found)
    BY <1>1, Moved, Noted DEF Creating
  <2> QED BY <1>1, <2>1 DEF JobOK, Fields, Goto
<1>4. GetById(w, j.chr, found, Done(j))
  BY DEF MapGet
<1> HIDE DEF found
<1>5. j.fetched = ZeroCharacter => JobSerial(Done(j))
  BY <1>1, <1>2, Ends, Stopping DEF Rests, Follows
<1>6. ASSUME NEW k, Finds(k, found), AllSame', Cached(j.chr)', Obtained(w, j.chr).id = j.chr
      PROVE  JobSerial(k)'
  <2>1. /\ k.op = j.op /\ k.chr = j.chr /\ k.fetched = ZeroCharacter /\ k.pc = "map.set"
        /\ k.rec.id = j.chr
    BY <1>3, <1>6 DEF Finds
  <2> QED
    BY <1>2, <1>6, <2>1
    DEF AllSame, JobSerial, FetchOK, AgreeOK, CreateOK, JoinOK, LeaveOK, DisbandOK, LeadOK,
        DeleteOK, OtherOK, Entering, Leaving, Disbanding
<1>7. j.pc \in Lookups \ {"view.member"}
  BY <1>1 DEF Lookups
<1> QED BY <1>1, <1>2, <1>3, <1>4, <1>5, <1>6, <1>7, LookupSerial

LEMMA MapSetSerial ==
  ASSUME Serial, ServiceInv, SerialInv, NEW w \in Workers, NEW j, j = job[w], MapSet(w)
  PROVE  SerialInv'
<1>1. /\ JobOK(j) /\ JobSerial(j) /\ j.pc = "map.set" /\ Registries /\ j.chr \in Characters
  BY Working DEF SerialInv, MapSet, At, Resting
<1>2. /\ j.fetched = ZeroCharacter /\ Cached(j.chr) /\ j.rec.id = j.chr /\ j.op # "DELETED"
      /\ AllSame
  BY <1>1, Calm
  DEF JobSerial, OtherOK, FetchOK, DeleteOK, Entering, Lookups, Deletion, Leaving, Disbanding
<1>3. PICK m : m = ChangeMap(Target(w), j.map)
  OBVIOUS
<1>4. m.id = j.chr /\ DOMAIN m = RecordFields /\ m.partyId = Rec(j.chr)
  BY <1>1, <1>2, <1>3, Targeted
<1>5. PICK k : SetCharacter(w, m, k) /\ Rests(k, j)
  BY <1>1, <1>3, Stopping DEF MapSet
<1>6. /\ Become(w, k) /\ Registries'
      /\ Rec(j.chr)' = Rec(j.chr) /\ \A d \in Characters \ {j.chr} : Rec(d)' = Rec(d)
      /\ \A d \in Characters : Idx(d)' = Idx(d)
  BY <1>1, <1>2, <1>4, <1>5, RecordSet
<1>7. AllSame'
  BY <1>2, <1>6 DEF AllSame, Same
<1>8. JobSerial(k)'
  BY <1>2, <1>5, <1>7, Ends DEF Rests, Follows
<1> QED BY <1>6, <1>8, Landed DEF ServiceInv

LEMMA DeletedGetPartySerial ==
  ASSUME Serial, ServiceInv, SerialInv, NEW w \in Workers, NEW j, j = job[w], DeletedGetParty(w)
  PROVE  SerialInv'
<1>1. /\ JobOK(j) /\ JobSerial(j) /\ j.pc = "deleted" /\ Registries /\ j.chr \in Characters
  BY Working DEF SerialInv, DeletedGetParty, At, Resting
<1>2. AllSame /\ j.fetched = ZeroCharacter
  BY <1>1, Calm DEF JobSerial, FetchOK, Lookups, Entering, Leaving, Disbanding
<1>3. PartyOf(j.chr).id = Idx(j.chr)
  BY <1>1 DEF Registries, Owned, Indexed, PartyOf, Lookup, Idx, ZeroParty
<1>4. PICK k : /\ Become(w, k) /\ UNCHANGED Pages
               /\ k.pc = "leave" /\ k.op = j.op /\ k.chr = j.chr /\ k.fetched = ZeroCharacter
               /\ k.pid = Idx(j.chr)
  <2> DEFINE p == PartyOf(j.chr).id
             k == [Goto(j, "leave") EXCEPT !.pid = p]
  <2>1. /\ k.pc = "leave" /\ k.op = j.op /\ k.chr = j.chr /\ k.fetched = ZeroCharacter
        /\ k.pid = p
    BY <1>1, <1>2 DEF JobOK, Fields, Goto
  <2>2. Become(w, k) /\ UNCHANGED Pages
    BY DEF DeletedGetParty, Pages, registryVars
  <2> HIDE DEF k
  <2> QED BY <1>3, <2>1, <2>2
<1>5. JobSerial(k)
  BY <1>2, <1>4
  DEF AllSame, JobSerial, FetchOK, AgreeOK, CreateOK, JoinOK, LeaveOK, DisbandOK, LeadOK,
      DeleteOK, OtherOK, Entering, Leaving, Disbanding, Deletion
<1> QED BY <1>4, <1>5, Kept

\* The deletion has been handled: the character is not cached, in no party and gone.
LEMMA ForgetSerial ==
  ASSUME Serial, ServiceInv, SerialInv, NEW w \in Workers, NEW c \in Characters, job[w].chr = c,
         job[w].pc \in {"delete", "delete.drop"}, DeleteCharacter(c), Forget(w)
  PROVE  SerialInv'
<1>1. PICK j : j = job[w]
  OBVIOUS
<1>2. JobSerial(j) /\ Registries /\ AllSame /\ Rec(c) = NoParty
  BY <1>1, Calm DEF SerialInv, JobSerial, DeleteOK, Entering, Leaving, Disbanding
<1>3. /\ charReg' = DeleteKeys(charReg, {c}) /\ Become(w, NoJob)
      /\ foreign' = [foreign EXCEPT ![c] = "deleted"]
      /\ UNCHANGED <<partyReg, charToParty>>
  BY DEF DeleteCharacter, Forget, registryVars
<1>4. \A d \in Characters : Rec(d)' = Rec(d) /\ Idx(d)' = Idx(d)
  BY <1>2, <1>3 DEF Rec, Idx, Character, Cached, DeleteKeys, ZeroCharacter
<1>5. Registries'
  BY <1>2, <1>3, <1>4 DEF Registries, Owned, Indexed, RecordIds, Gone, Cached, DeleteKeys
<1>6. AllSame'
  BY <1>2, <1>4 DEF AllSame, Same
<1>7. JobSerial(NoJob)'
  BY <1>6, Ends DEF NoJob
<1> QED BY <1>3, <1>5, <1>7, Landed DEF ServiceInv

LEMMA DeleteSerial ==
  ASSUME Serial, ServiceInv, SerialInv, NEW w \in Workers, NEW j, j = job[w],
         DeleteGet(w) \/ DeleteDrop(w)
  PROVE  SerialInv'
<1>1. /\ JobOK(j) /\ JobSerial(j) /\ j.pc \in {"delete", "delete.drop"}
      /\ Registries /\ j.chr \in Characters
  BY Working DEF SerialInv, DeleteGet, DeleteDrop, At, Resting
<1>2. /\ j.fetched = ZeroCharacter /\ Rec(j.chr) = NoParty /\ j.op = "DELETED" /\ AllSame
  BY <1>1, Calm
  DEF JobSerial, DeleteOK, FetchOK, Lookups, Entering, Leaving, Disbanding
<1>3. CASE Forget(w) /\ DeleteCharacter(j.chr)
  BY <1>1, <1>3, ForgetSerial
<1>4. CASE ~Cached(j.chr) /\ Forget(w) /\ UNCHANGED charReg
  <2>1. foreign' = [foreign EXCEPT ![j.chr] = "deleted"] /\ UNCHANGED <<partyReg, charToParty>>
        /\ Become(w, NoJob)
    BY <1>4 DEF Forget, registryVars
  <2>2. \A d \in Characters : Rec(d)' = Rec(d) /\ Idx(d)' = Idx(d)
    BY <1>4, <2>1 DEF Rec, Idx, Character, Cached
  <2>3. Registries'
    BY <1>1, <1>4, <2>1, <2>2 DEF Registries, Owned, Indexed, RecordIds, Gone, Cached
  <2>4. AllSame'
    BY <1>2, <2>2 DEF AllSame, Same
  <2>5. JobSerial(NoJob)'
    BY <2>4, Ends DEF NoJob
  <2> QED BY <2>1, <2>3, <2>5, Landed DEF ServiceInv
<1>5. CASE DeleteGet(w) /\ Cached(j.chr)
  <2>1. GetCharacter(w, j.chr, Goto(j, "delete.drop"), j)
    BY <1>2, <1>5 DEF DeleteGet, Rec
  <2>2. PICK k : /\ Become(w, k) /\ UNCHANGED Pages
                 /\ k.pc = "delete.drop" /\ k.op = j.op /\ k.chr = j.chr
                 /\ k.fetched = ZeroCharacter
    BY <1>1, <1>2, <1>5, <2>1, Going DEF GetCharacter, Pages, registryVars, Follows
  <2>3. JobSerial(k)
    BY <1>2, <2>2
    DEF AllSame, JobSerial, FetchOK, AgreeOK, CreateOK, JoinOK, LeaveOK, DisbandOK, LeadOK,
        DeleteOK, OtherOK, Entering, Leaving, Disbanding, Deletion
  <2> QED BY <2>2, <2>3, Kept
<1> QED BY <1>3, <1>4, <1>5 DEF DeleteGet, DeleteDrop

LEMMA MembersExist ==
  ASSUME RegistryInv, NEW p
  PROVE  Members(Lookup(p)) \subseteq Characters
  BY DEF RegistryInv, RegistryTypeOK, IsParty, IsMemberList, Lookup, Members, ZeroParty, EmptyMap

LEMMA ViewGetSerial ==
  ASSUME Serial, ServiceInv, SerialInv, NEW w \in Workers, NEW j, j = job[w], ViewGet(w)
  PROVE  SerialInv'
<1>1. /\ JobOK(j) /\ JobSerial(j) /\ j.pc = "view" /\ RegistryInv
  BY Working DEF SerialInv, ServiceInv, ViewGet, At
<1>2. AllSame /\ j.fetched = ZeroCharacter /\ j.op # "DELETED"
  BY <1>1, Calm
  DEF JobSerial, FetchOK, DeleteOK, Deletion, Lookups, Entering, Leaving, Disbanding
<1>3. \A list \in ViewParties \cup ViewParty(j.pid) \cup ViewPartyMember(j.pid) :
        DOMAIN list \subseteq Characters
  <2>1. \A p : Members(Lookup(p)) \subseteq Characters
    BY <1>1, MembersExist
  <2>2. \A p \in DOMAIN partyReg : Members(partyReg[p]) \subseteq Characters
    BY <2>1 DEF Lookup
  <2>3. \A P \in SUBSET DOMAIN partyReg : DOMAIN ListOfParties(P) \subseteq Characters
    BY <2>2 DEF ListOfParties, ListOf
  <2>4. \A list \in ViewParties : DOMAIN list \subseteq Characters
    BY <2>3 DEF ViewParties
  <2>5. \A list \in ViewParty(j.pid) : DOMAIN list \subseteq Characters
    BY <2>1 DEF ViewParty, Members
  <2>6. \A list \in ViewPartyMember(j.pid) : DOMAIN list \subseteq Characters
    BY <2>1 DEF ViewPartyMember, ListOf
  <2> QED BY <2>4, <2>5, <2>6
<1>4. PICK list \in ViewParties \cup ViewParty(j.pid) \cup ViewPartyMember(j.pid) :
        Become(w, IF list = EmptyMap THEN NoJob ELSE [Goto(j, "view.member") EXCEPT !.todo = list])
  BY DEF ViewGet
<1>5. UNCHANGED Pages
  BY DEF ViewGet, Pages, registryVars
<1>6. CASE list = EmptyMap
  <2>1. JobSerial(NoJob)
    BY <1>2, Ends DEF NoJob
  <2> QED BY <1>4, <1>5, <1>6, <2>1, Kept
<1>7. CASE list # EmptyMap
  <2> DEFINE k == [Goto(j, "view.member") EXCEPT !.todo = list]
  <2>1. /\ k.pc = "view.member" /\ k.op = j.op /\ k.fetched = ZeroCharacter /\ k.todo = list
    BY <1>1, <1>2 DEF JobOK, Fields, Goto
  <2>2. Become(w, k)
    BY <1>4, <1>7
  <2> HIDE DEF k
  <2>3. JobSerial(k)
    BY <1>2, <1>3, <2>1
    DEF AllSame, JobSerial, FetchOK, AgreeOK, CreateOK, JoinOK, LeaveOK, DisbandOK, LeadOK,
        DeleteOK, OtherOK, Entering, Leaving, Disbanding
  <2> QED BY <1>5, <2>2, <2>3, Kept
<1> QED BY <1>6, <1>7

LEMMA ViewMemberSerial ==
  ASSUME Serial, ServiceInv, SerialInv, NEW w \in Workers, NEW j, j = job[w], ViewMember(w)
  PROVE  SerialInv'
<1>1. /\ JobOK(j) /\ JobSerial(j) /\ j.pc = "view.member"
  BY Working DEF SerialInv, ViewMember, At
<1>2. AllSame /\ (Remembered => AllSame') /\ j.op # "DELETED" /\ DOMAIN j.todo \subseteq Characters
  BY <1>1, Calm DEF JobSerial, DeleteOK, Deletion, OtherOK, Entering, Leaving, Disbanding
<1>3. PICK c \in DOMAIN j.todo :
        /\ Fetched(w) => c = j.fetched.id
        /\ GetById(w, c, IF BagRemove(j.todo, c) = EmptyMap THEN NoJob
                         ELSE [j EXCEPT !.todo = BagRemove(j.todo, c)], NoJob)
  BY DEF ViewMember
<1> DEFINE found == IF BagRemove(j.todo, c) = EmptyMap THEN NoJob
                    ELSE [j EXCEPT !.todo = BagRemove(j.todo, c)]
<1>4. /\ JobOK(found)
      /\ ~Fetched(w) => found.fetched = ZeroCharacter
      /\ \/ found = NoJob
         \/ found.pc = "view.member" /\ found.op = j.op /\ DOMAIN found.todo \subseteq Characters
  <2>1. CASE BagRemove(j.todo, c) = EmptyMap
    BY <2>1, NoJobOK DEF NoJob
  <2>2. CASE BagRemove(j.todo, c) # EmptyMap
    <3>1. /\ found.pc = j.pc /\ found.op = j.op /\ found.todo = BagRemove(j.todo, c)
          /\ found.fetched = j.fetched
      BY <1>1, <2>2 DEF JobOK, Fields
    <3>2. JobOK(found)
      BY <1>1, <2>2, Noted
    <3>3. DOMAIN found.todo \subseteq Characters
      BY <1>2, <3>1, ListedOnce
    <3> QED BY <1>1, <3>1, <3>2, <3>3 DEF Fetched
  <2> QED BY <2>1, <2>2
<1>5. GetById(w, c, found, NoJob)
  BY <1>3
<1> HIDE DEF found
<1>6. ASSUME NEW k, Finds(k, found), AllSame'
      PROVE  JobSerial(k)'
  <2>1. k.fetched = ZeroCharacter /\ k.op = found.op /\ k.pc = found.pc /\ k.todo = found.todo
    BY <1>6 DEF Finds
  <2>2. CASE found = NoJob
    BY <1>6, <2>1, <2>2, Ends DEF NoJob
  <2>3. CASE found.pc = "view.member" /\ found.op = j.op /\ DOMAIN found.todo \subseteq Characters
    BY <1>2, <1>6, <2>1, <2>3
    DEF AllSame, JobSerial, FetchOK, AgreeOK, CreateOK, JoinOK, LeaveOK, DisbandOK, LeadOK,
        DeleteOK, OtherOK, Entering, Leaving, Disbanding
  <2> QED BY <1>4, <2>2, <2>3
<1>7. CASE /\ Registries' /\ Remembered /\ Cached(c)'
           /\ \E k : Finds(k, found) /\ Become(w, k)
  <2>1. PICK k : Finds(k, found) /\ Become(w, k)
    BY <1>7
  <2>2. JobSerial(k)'
    BY <1>2, <1>6, <1>7, <2>1
  <2> QED BY <1>7, <2>1, <2>2, Landed DEF ServiceInv
<1>8. CASE UNCHANGED Pages /\ Become(w, NoJob)
  <2>1. JobSerial(NoJob)
    BY <1>2, Ends DEF NoJob
  <2> QED BY <1>8, <2>1, Kept
<1>9. c \in Characters /\ j.pc \in Lookups /\ (Fetched(w) => c = j.fetched.id)
  BY <1>1, <1>2, <1>3 DEF Lookups
<1>10. j.pc # "view.member" => c = Wanted(j)
  BY <1>1
<1> QED BY <1>4, <1>5, <1>7, <1>8, <1>9, <1>10, LookedUpBy

LEMMA ReturnSerial ==
  ASSUME Serial, ServiceInv, SerialInv, NEW w \in Workers, NEW j, j = job[w], Return(w)
  PROVE  SerialInv'
<1>1. /\ JobOK(j) /\ JobSerial(j) /\ j.pc = "return"
  BY Working DEF SerialInv, Return, At
<1>2. AllSame /\ (j.op = "DELETED" => Rec(j.chr) = NoParty)
  BY <1>1, Calm DEF JobSerial, DeleteOK, Entering, Leaving, Disbanding
<1>3. UNCHANGED Pages
  BY DEF Return, Pages, registryVars
<1>4. CASE j.op = "DELETED"
  <2> DEFINE k == Job("DELETED", "delete", j.actor, NoParty, j.chr)
  <2>1. k.pc = "delete" /\ k.op = "DELETED" /\ k.chr = j.chr /\ k.fetched = ZeroCharacter
    BY DEF Job, NoJob
  <2>2. Become(w, k)
    BY <1>4 DEF Return
  <2> HIDE DEF k
  <2>3. JobSerial(k)
    BY <1>2, <1>4, <2>1
    DEF AllSame, JobSerial, FetchOK, AgreeOK, CreateOK, JoinOK, LeaveOK, DisbandOK, LeadOK,
        DeleteOK, OtherOK, Entering, Leaving, Disbanding, Deletion
  <2> QED BY <1>3, <2>2, <2>3, Kept
<1>5. CASE j.op # "DELETED"
  <2>1. JobSerial(NoJob) /\ Become(w, NoJob)
    BY <1>2, <1>5, Ends DEF NoJob, Return
  <2> QED BY <1>3, <2>1, Kept
<1> QED BY <1>4, <1>5

-----------------------------------------------------------------------------
(* Messages, deletions in the character service and restarts.              *)

\* What the messages of the topics and the GET requests have in common.
LEMMA Messages ==
  ASSUME Serial, NEW j \in Incoming
  PROVE  /\ j.fetched = ZeroCharacter
         /\ j.pc \in {"create", "join", "leave", "lead", "view", "invite", "deleted", "map"}
         /\ j.pc = "join" => Joins(j)
         /\ j.op = "DELETED" => j.pc = "deleted"
         /\ j.op = "CHANGE_LEADER" => j.pc = "lead"
         /\ j.op = "REQUEST_INVITE" <=> j.pc = "invite"
<1>1. CASE \E c \in Characters : j = PostParty(c)
  BY <1>1 DEF PostParty, Job, NoJob
<1>2. CASE \E p \in CommandIds, c \in Characters :
             j \in {PostMember(p, c), DeleteMember(p, c), Job("EXPEL", "leave", c, p, c),
                   PatchParty(p, c)}
  <2>1. PICK p \in CommandIds, c \in Characters :
          j \in {PostMember(p, c), DeleteMember(p, c), Job("EXPEL", "leave", c, p, c),
                PatchParty(p, c)}
    BY <1>2
  <2>3. CASE j = PostMember(p, c)
    BY <2>3 DEF PostMember, Job, NoJob, Joins
  <2>5. CASE j = DeleteMember(p, c)
    BY <2>5 DEF DeleteMember, Job, NoJob
  <2>4. CASE j = Job("EXPEL", "leave", c, p, c) \/ j = PatchParty(p, c)
    BY <2>4 DEF PatchParty, Job, NoJob
  <2> QED BY <2>1, <2>3, <2>4, <2>5
<1>3. CASE \E a \in Characters, p \in CommandIds, c \in Characters :
             j = Job("CHANGE_LEADER", "lead", a, p, c)
  BY <1>3 DEF Job, NoJob
<1>4. CASE \E p \in CommandIds : j = Job("VIEW", "view", NoCharacter, p, NoCharacter)
  BY <1>4 DEF Job, NoJob
<1>5. CASE \E a \in Characters, c \in Characters :
             j = Job("REQUEST_INVITE", "invite", a, NoParty, c)
  BY <1>5 DEF Job, NoJob
<1>6. CASE \E i \in invites : j = Job("ACCEPTED", "join", i.chr, i.pid, i.chr)
  BY <1>6 DEF Job, NoJob, Joins
<1>7. CASE \E c \in Characters : j = Job("DELETED", "deleted", c, NoParty, c)
  BY <1>7 DEF Job, NoJob
<1>8. CASE \E m \in Maps, c \in Characters :
             j = [Job("MAP_CHANGED", "map", c, NoParty, c) EXCEPT !.map = m]
  BY <1>8 DEF Job, NoJob
<1> QED BY <1>1, <1>2, <1>3, <1>4, <1>5, <1>6, <1>7, <1>8 DEF Incoming

LEMMA ReceiveSerial ==
  ASSUME Serial, ServiceInv, SerialInv, NEW w \in Workers, NEW j \in Incoming, Receive(w, j)
  PROVE  SerialInv'
<1>1. job[w].pc = "idle" /\ JobSerial(job[w])
  BY DEF SerialInv, Receive, Idle, NoJob
<1>2. AllSame
  BY <1>1, Calm DEF Entering, Leaving, Disbanding
<1>3. Become(w, j) /\ UNCHANGED Pages
  BY DEF Receive, Pages, registryVars
<1>4. JobSerial(j)
  BY <1>2, Messages
  DEF AllSame, JobSerial, FetchOK, AgreeOK, CreateOK, JoinOK, LeaveOK, DisbandOK, LeadOK,
      DeleteOK, OtherOK, Entering, Leaving, Disbanding, Deletion
<1> QED BY <1>3, <1>4, Kept

LEMMA VanishSerial ==
  ASSUME ServiceInv, SerialInv, NEW c \in Mortal, Vanish(c)
  PROVE  SerialInv'
<1>1. UNCHANGED <<partyReg, charToParty, charReg, job>> /\ DOMAIN foreign' = DOMAIN foreign
  BY DEF Vanish, registryVars
<1>2. \A d \in Characters : foreign'[d] = "deleted" => foreign[d] = "deleted"
  BY DEF Vanish, SerialInv, Registries, Gone
<1>3. \A d : Rec(d)' = Rec(d) /\ Idx(d)' = Idx(d) /\ Same(d)' = Same(d) /\ Cached(d)' = Cached(d)
             /\ Lookup(d)' = Lookup(d)
  BY <1>1 DEF Rec, Idx, Same, Cached, Character, Lookup
<1>4. Registries'
  BY <1>1, <1>2, <1>3 DEF SerialInv, Registries, Owned, Indexed, RecordIds, Gone
<1>5. ASSUME NEW k, JobSerial(k)
      PROVE  JobSerial(k)'
  BY <1>1, <1>2, <1>3, <1>5
  DEF JobSerial, FetchOK, AgreeOK, CreateOK, JoinOK, LeaveOK, DisbandOK, LeadOK, DeleteOK, OtherOK
<1>6. \A v \in Workers : JobSerial(job[v])'
  <2> TAKE v \in Workers
  <2>1. PICK k : k = job[v]
    OBVIOUS
  <2>2. JobSerial(k)' /\ job'[v] = k
    BY <1>1, <1>5, <2>1 DEF SerialInv
  <2> QED BY <2>2
      DEF JobSerial, FetchOK, AgreeOK, CreateOK, JoinOK, LeaveOK, DisbandOK, LeadOK, DeleteOK,
          OtherOK, Wanted, Who, Where, Joins
<1> QED BY <1>4, <1>6 DEF SerialInv

\* Where the process starts, for the first time or again.
Blank ==
  /\ partyReg = EmptyMap /\ charToParty = EmptyMap /\ charReg = EmptyMap
  /\ DOMAIN foreign = Characters
  /\ \A w \in Workers : job[w] = NoJob

LEMMA BlankSerial == Blank => SerialInv
<1> SUFFICES ASSUME Blank
             PROVE  SerialInv
  OBVIOUS
<1>1. \A c : Rec(c) = NoParty /\ Idx(c) = NoParty /\ ~Cached(c)
  BY DEF Blank, Rec, Idx, Cached, Character, EmptyMap, ZeroCharacter
<1>2. Registries
  BY <1>1 DEF Blank, Registries, Owned, Indexed, RecordIds, Gone, EmptyMap
<1>3. AllSame
  BY <1>1 DEF AllSame, Same
<1>4. JobSerial(NoJob)
  BY <1>3, Ends DEF NoJob
<1> QED BY <1>2, <1>4 DEF Blank, SerialInv

LEMMA WorkSerial ==
  ASSUME Serial, ServiceInv, SerialInv, ZeroVacant', NEW w \in Workers, Work(w)
  PROVE  SerialInv'
<1>1. PICK j : j = job[w]
  OBVIOUS
<1>2. CASE CreateCheck(w) \/ CreateAllocate(w) \/ CreateStore(w) \/ EnterCheck(w) \/ EnterSet(w)
  BY <1>1, <1>2, CreateCheckSerial, CreateAllocateSerial, CreateStoreSerial, EnterCheckSerial,
     EnterSetSerial
<1>3. CASE JoinCheck(w) \/ JoinGetParty(w) \/ JoinAdd(w)
  BY <1>1, <1>3, JoinCheckSerial, JoinGetPartySerial, JoinAddSerial
<1>4. CASE LeaveCheck(w) \/ LeaveGetParty(w) \/ LeaveRemove(w) \/ LeaveGet(w) \/ LeaveClear(w)
  BY <1>1, <1>4, LeaveCheckSerial, LeaveGetPartySerial, LeaveRemoveSerial, LeaveGetSerial,
     LeaveClearSerial
<1>5. CASE DisbandGet(w) \/ DisbandClear(w) \/ RemoveDisbanded(w) \/ RemoveEmptied(w)
  BY <1>1, <1>5, DisbandGetSerial, DisbandClearSerial, RemoveDisbandedSerial, RemoveEmptiedSerial
<1>6. CASE LeadGetActor(w) \/ LeadCheck(w) \/ LeadSet(w)
  BY <1>1, <1>6, LeadGetActorSerial, LeadCheckSerial, LeadSetSerial
<1>7. CASE InviteGetActor(w) \/ InviteCheck(w) \/ InviteGetParty(w) \/ InviteSend(w)
  BY <1>1, <1>7, InviteGetActorSerial, InviteCheckSerial, InviteEndsSerial
<1>8. CASE MapGet(w) \/ MapSet(w) \/ DeletedGetParty(w) \/ DeleteGet(w) \/ DeleteDrop(w)
  BY <1>1, <1>8, MapGetSerial, MapSetSerial, DeletedGetPartySerial, DeleteSerial
<1>9. CASE ViewGet(w) \/ ViewMember(w) \/ Return(w)
  BY <1>1, <1>9, ViewGetSerial, ViewMemberSerial, ReturnSerial
<1>10. ~JoinUndo(w) /\ ~LeaveUndo(w) /\ ~DeleteLeaveGet(w) /\ ~DeleteLeaveClear(w)
  BY JoinUndoSerial
<1> QED BY <1>2, <1>3, <1>4, <1>5, <1>6, <1>7, <1>8, <1>9, <1>10 DEF Work

LEMMA SerialInvariant ==
  ASSUME Serial
  PROVE  Spec /\ []ZeroVacant => []SerialInv
<1>1. Init => SerialInv
  <2>1. Init => Blank
    BY DEF Init, RegistryInit, Blank
  <2> QED BY <2>1, BlankSerial
<1>2. ServiceInv /\ SerialInv /\ ZeroVacant' /\ [Next]_vars => SerialInv'
  <2> SUFFICES ASSUME ServiceInv, SerialInv, ZeroVacant', [Next]_vars
               PROVE  SerialInv'
    OBVIOUS
  <2>1. CASE \E w \in Workers : Work(w)
    BY <2>1, WorkSerial
  <2>2. CASE \E w \in Workers : \E j \in Incoming : Receive(w, j)
    BY <2>2, ReceiveSerial
  <2>3. CASE \E c \in Mortal : Vanish(c)
    BY <2>3, VanishSerial
  <2>4. CASE Restart
    <3>1. Blank'
      BY <2>4 DEF Restart, Blank, SerialInv, Registries, Gone
    <3>2. Blank' => SerialInv'
      BY BlankSerial, PTL
    <3> QED BY <3>1, <3>2
  <2>5. CASE UNCHANGED vars
    <3>1. UNCHANGED Pages /\ UNCHANGED job
      BY <2>5 DEF vars, registryVars, serviceVars, Pages
    <3>2. Registries'
      <4>1. PICK k : \E w \in Workers : k = job[w]
        BY DEF Serial
      <4> QED BY <3>1, <4>1, Still DEF SerialInv
    <3>3. ASSUME NEW w \in Workers
          PROVE  JobSerial(job[w])'
      <4>1. PICK k : k = job[w]
        OBVIOUS
      <4>2. JobSerial(k)' /\ job'[w] = k
        BY <3>1, <4>1, Still DEF SerialInv
      <4> QED BY <4>2
          DEF JobSerial, FetchOK, AgreeOK, CreateOK, JoinOK, LeaveOK, DisbandOK, LeadOK, DeleteOK,
              OtherOK, Wanted, Who, Where, Joins
    <3> QED BY <3>2, <3>3 DEF SerialInv
  <2> QED BY <2>1, <2>2, <2>3, <2>4, <2>5 DEF Next
<1> QED BY <1>1, <1>2, ServiceInvariant, PTL DEF Spec

-----------------------------------------------------------------------------
(* What follows for every run of the service with one handler at a time.   *)

\* Between two messages.
LEMMA Rested ==
  ASSUME Serial, SerialInv, AllIdle
  PROVE  Registries /\ AllSame
<1>1. PICK w : w \in Workers
  BY DEF Serial
<1>2. JobSerial(job[w]) /\ job[w].pc = "idle"
  BY <1>1 DEF SerialInv, AllIdle, Idle, NoJob
<1> QED BY <1>2, Calm DEF SerialInv, Entering, Leaving, Disbanding

\* Between two messages a character is listed by the party its record names and by no
\* other, in spite of failed lookups, lost events, deletions and restarts.
THEOREM SerialRecordsAgree ==
  ASSUME Serial
  PROVE  Spec /\ []ZeroVacant => []RecordsAgree
<1>1. SerialInv => RecordsAgree
  <2> SUFFICES ASSUME SerialInv, AllIdle, NEW c \in Characters, NEW p \in PartyIds \ {NoParty}
               PROVE  MemberOf(c, p) <=> Character(c).partyId = p
    BY DEF RecordsAgree
  <2>1. Registries /\ AllSame
    BY Rested
  <2>2. Live = DOMAIN partyReg
    BY <2>1 DEF Registries, Owned, Live
  <2> QED BY <2>1, <2>2 DEF MemberOf, Registries, Indexed, AllSame, Same, Rec
<1> QED BY <1>1, SerialInvariant, PTL

\* Between two messages the index finds the party that the character's record names, so a
\* deletion finds the party the character is in.
THEOREM SerialIndexExact ==
  ASSUME Serial
  PROVE  Spec /\ []ZeroVacant => []IndexExact
<1>1. SerialInv => IndexExact
  <2> SUFFICES ASSUME SerialInv, AllIdle, NEW c \in Characters
               PROVE  PartyOf(c).id = Character(c).partyId
    BY DEF IndexExact
  <2>1. Registries /\ AllSame
    BY Rested
  <2>2. PartyOf(c).id = Idx(c)
    BY <2>1 DEF Registries, Owned, Indexed, PartyOf, Lookup, Idx, ZeroParty
  <2> QED BY <2>1, <2>2 DEF AllSame, Same, Rec
<1> QED BY <1>1, SerialInvariant, PTL

\* A character whose deletion has been handled is neither cached nor listed, and stays
\* away: no lookup answers for it any more.
THEOREM SerialDeletedAreGone ==
  ASSUME Serial
  PROVE  Spec /\ []ZeroVacant => []DeletedAreGone
<1>1. SerialInv => DeletedAreGone
  <2> SUFFICES ASSUME SerialInv, AllIdle, NEW c \in Characters, foreign[c] = "deleted"
               PROVE  ~Cached(c) /\ \A p \in Live : ~MemberOf(c, p)
    BY DEF DeletedAreGone
  <2>1. Registries /\ AllSame
    BY Rested
  <2>2. ~Cached(c) /\ Rec(c) = NoParty
    BY <2>1 DEF Registries, Gone, Rec, Character, ZeroCharacter
  <2> QED BY <2>1, <2>2 DEF MemberOf, Live, Registries, Indexed, AllSame, Same
<1> QED BY <1>1, SerialInvariant, PTL

-----------------------------------------------------------------------------
(***************************************************************************)
(* A second invariant: what the handlers know on the way of a command, by  *)
(* which each command does what it says.                                   *)
(***************************************************************************)

\* Where Leave and Expel are once the character has been removed.
Closing == Leaving \cup Disbanding \cup {"expel.remove"}

\* Create holds the party it has an id for, and nobody else holds one.
CreationOK(j) ==
  /\ creating = IF j.pc = "create.store" THEN {j.party} ELSE {}
  /\ j.pc = "create.store" => j.op \in Creators /\ j.party = NewParty(j.party.id, j.actor)

\* ChangeLeader reads the record of the new leader twice, and appoints who is a member.
AppointOK(j) ==
  /\ j.op = "CHANGE_LEADER" => j.pc \in {"lead", "lead.chr", "lead.set", "return"}
  /\ j.pc = "lead.chr" =>
       /\ Cached(j.chr)
       /\ j.rec.partyId = Rec(j.chr) /\ j.rec.mapId = Character(j.chr).mapId
  /\ j.pc = "lead.set" => Rec(j.chr) = j.pid
  /\ j.op = "CHANGE_LEADER" /\ j.pc = "return" /\ Rec(j.chr) = j.pid /\ j.pid # NoParty =>
       j.pid \in DOMAIN partyReg /\ partyReg[j.pid].leader = j.chr

\* The Create that RequestInvite begins finds its character, who was looked up before.  The
\* invited character stays in no party, unless it is the one that invites, and the party
\* the handler holds is the stored one, with the one that invites among its members.
InviteOK(j) ==
  /\ j.pc \in {"invite", "invite.chr", "invite.party", "invite.send"} => j.op = "REQUEST_INVITE"
  /\ j.pc = "create" /\ j.op = "REQUEST_INVITE" => Cached(j.actor)
  /\ j.pc \in {"invite.chr", "invite.party"} =>
       Cached(j.actor) /\ j.rec.partyId = Rec(j.actor)
  /\ /\ j.pc \in {"create", "create.alloc", "create.store", "enter", "enter.set",
                  "invite.party", "invite.send"}
     /\ j.op = "REQUEST_INVITE" /\ j.chr # j.actor
     => Rec(j.chr) = NoParty
  /\ (j.pc \in {"enter", "enter.set"} /\ j.op \in Creators) \/ j.pc = "invite.send" =>
       /\ j.party.id \in DOMAIN partyReg /\ partyReg[j.party.id] = j.party
       /\ j.actor \in Members(j.party)

\* Whether the party ends is decided before the character is removed.
PartingOK(j) ==
  /\ j.pc = "leave.remove" =>
       (j.disband <=> (j.op # "EXPEL" /\ partyReg[j.pid].leader = j.chr))
  /\ j.pc \in Disbanding => j.disband
  /\ j.pc = "expel.remove" => j.op = "EXPEL" /\ Members(j.party) = {}

Unforced == \A w \in Workers : "EXPEL" \notin Serves[w]

Sound(m) == m.leader \in Members(m) /\ \A c \in Members(m) : m.members[c] = 1
AllSound == \A p \in DOMAIN partyReg : Sound(partyReg[p])

\* Without forced leaves the leader of a party that goes on is a member, and nobody is
\* listed twice.
BuiltOK(j) ==
  Unforced => /\ j.op # "EXPEL"
              /\ \A p \in DOMAIN partyReg : Sound(partyReg[p]) \/ (p = j.pid /\ Ending(j))

CommandOK(j) == CreationOK(j) /\ AppointOK(j) /\ InviteOK(j) /\ PartingOK(j) /\ BuiltOK(j)

CommandInv == \A w \in Workers : CommandOK(job[w])

-----------------------------------------------------------------------------
(* Steps that leave the parties alone.                                     *)

Books == <<partyReg, tenantPartyId, creating>>

\* The worker goes on to k, no party changes, and the one that is being ended, if any,
\* is the same.
Steadily(w, j) ==
  \E k : /\ Become(w, k) /\ UNCHANGED Books
         /\ CommandOK(k)'
         /\ Ending(k) <=> Ending(j)
         /\ Ending(j) => k.pid = j.pid

Settled == creating = {} /\ (Unforced => AllSound)

LEMMA Settling ==
  ASSUME NEW j, CommandOK(j), j.pc \notin Closing \cup {"create.store"}
  PROVE  Settled /\ (UNCHANGED Books => Settled')
  BY DEF CommandOK, CreationOK, BuiltOK, Settled, AllSound, Closing, Leaving, Disbanding, Ending,
         Books

\* Where nothing is asked of a handler but that it is not about to appoint anybody.
Special == Closing \cup Entering \cup
  {"create", "create.alloc", "create.store", "invite", "invite.chr", "invite.party",
   "invite.send", "lead.chr", "lead.set", "leave.remove"}

LEMMA Passing ==
  ASSUME NEW j, CommandOK(j), NEW k, k.op \in {j.op, "none"}, k.pc \notin Special
  PROVE  /\ Settled /\ AppointOK(k) => CommandOK(k)
         /\ Settled' /\ AppointOK(k)' => CommandOK(k)'
         /\ ~Ending(k)
  BY DEF CommandOK, CreationOK, InviteOK, PartingOK, BuiltOK, Settled, AllSound, Special, Closing,
         Leaving, Disbanding, Entering, Ending

LEMMA NotAppointing ==
  ASSUME NEW k, k.op # "CHANGE_LEADER", k.pc \notin {"lead.chr", "lead.set"}
  PROVE  AppointOK(k) /\ AppointOK(k)'
  BY DEF AppointOK

\* What a handler other than ChangeLeader does next, where nothing is asked of it.
LEMMA PassingBy ==
  ASSUME NEW w, NEW j, CommandOK(j), j.op # "CHANGE_LEADER",
         j.pc \notin Closing \cup {"create.store"}, UNCHANGED Books,
         NEW k, Become(w, k), k.op \in {j.op, "none"}, k.pc \notin Special
  PROVE  Steadily(w, j)
<1>1. Settled' /\ ~Ending(j)
  BY Settling DEF Ending, Closing, Leaving, Disbanding
<1>2. k.op # "CHANGE_LEADER" /\ k.pc \notin {"lead.chr", "lead.set"}
  BY DEF Special
<1>3. CommandOK(k)' /\ ~Ending(k)
  BY <1>1, <1>2, NotAppointing, Passing
<1> QED BY <1>1, <1>3 DEF Steadily

\* A job is as good as before while what it depends on stays.
LEMMA Refetched ==
  ASSUME NEW j, CommandOK(j), UNCHANGED Books, UNCHANGED charReg,
         NEW k, \A f \in Fields \ {"fetched"} : k[f] = j[f]
  PROVE  CommandOK(k)' /\ (Ending(k) <=> Ending(j)) /\ k.pid = j.pid
<1>1. /\ k.op = j.op /\ k.pc = j.pc /\ k.actor = j.actor /\ k.chr = j.chr /\ k.pid = j.pid
      /\ k.rec = j.rec /\ k.party = j.party /\ k.disband = j.disband
  BY DEF Fields
<1>2. Ending(k) <=> Ending(j)
  BY <1>1 DEF Ending
<1>3. \A c : Rec(c)' = Rec(c) /\ Cached(c)' = Cached(c) /\ Character(c)' = Character(c)
  BY DEF Rec, Cached, Character
<1>4. CreationOK(k)' /\ InviteOK(k)' /\ PartingOK(k)'
  BY <1>1, <1>3 DEF CommandOK, CreationOK, InviteOK, PartingOK, Books
<1>5. AppointOK(k)'
  BY <1>1, <1>3 DEF CommandOK, AppointOK, Books
<1>6. BuiltOK(k)'
  BY <1>1, <1>2 DEF CommandOK, BuiltOK, Books
<1> QED BY <1>1, <1>2, <1>4, <1>5, <1>6 DEF CommandOK

\* Lookups of which nothing but the next place in the handler matters.
LEMMA PlainLookup ==
  ASSUME NEW w \in Workers, NEW j, j = job[w], JobOK(j),
         CommandOK(j), j.op # "CHANGE_LEADER", j.pc \in Lookups,
         NEW c, NEW found, JobOK(found), found.op \in {j.op, "none"}, found.pc \notin Special,
         NEW failed, failed.op \in {j.op, "none"}, failed.pc \notin Special,
         GetById(w, c, found, failed)
  PROVE  Steadily(w, j)
<1>1. UNCHANGED Books
  BY DEF GetById, registryVars, Books
<1>2. j.pc \notin Closing \cup {"create.store"} /\ ~Ending(j)
  BY DEF Lookups, Closing, Leaving, Disbanding, Ending
<1>3. CASE Become(w, found) \/ Become(w, failed)
  BY <1>1, <1>2, <1>3, PassingBy
<1>4. CASE \E map \in Maps : Become(w, [j EXCEPT !.fetched = Fresh(c, map)]) /\ UNCHANGED charReg
  <2>1. PICK k : /\ Become(w, k) /\ UNCHANGED charReg
                 /\ \A f \in Fields \ {"fetched"} : k[f] = j[f]
    BY <1>4 DEF JobOK, Fields
  <2>2. CommandOK(k)' /\ ~Ending(k)
    BY <1>1, <1>2, <2>1, Refetched
  <2> QED BY <1>1, <1>2, <2>1, <2>2 DEF Steadily
<1>5. CASE Become(w, [found EXCEPT !.fetched = ZeroCharacter])
  <2>1. PICK k : Become(w, k) /\ k.op = found.op /\ k.pc = found.pc
    BY <1>5 DEF JobOK, Fields
  <2> QED BY <1>1, <1>2, <2>1, PassingBy
<1> QED BY <1>3, <1>4, <1>5 DEF GetById

\* A lookup whose result matters.
LEMMA LookupCommand ==
  ASSUME Serial, ServiceInv, SerialInv, CommandInv, NEW w \in Workers,
         NEW j, j = job[w], j.pc \in Lookups \ {"view.member"}, NEW c \in Characters, c = Wanted(j),
         NEW found, JobOK(found), found.fetched = j.fetched, ~Ending(found),
         NEW failed, ~Ending(failed), GetById(w, c, found, failed),
         ~Cached(c) => CommandOK(failed)',
         \A k : /\ Finds(k, found) /\ Remembered /\ Cached(c)' /\ UNCHANGED Books
                /\ Obtained(w, c).partyId = Rec(c)' /\ Obtained(w, c).mapId = Character(c)'.mapId
                => CommandOK(k)' /\ ~Ending(k)
  PROVE  Steadily(w, j)
<1>1. JobOK(j) /\ FetchOK(j) /\ Registries /\ CommandOK(j)
  BY Working DEF SerialInv, JobSerial, CommandInv
<1>2. UNCHANGED Books
  BY DEF GetById, registryVars, Books, CommandInv
<1>3. ~Ending(j) /\ (Fetched(w) => c = j.fetched.id) /\ (~Fetched(w) => found.fetched = ZeroCharacter)
  BY <1>1 DEF Lookups, Ending, Fetched, FetchOK
<1>4. Cached(c)' => Obtained(w, c).mapId = Character(c)'.mapId
  <2>1. CASE ~Fetched(w)
    BY <2>1 DEF GetById, Obtained, Character, Cached
  <2>2. CASE Fetched(w)
    BY <2>2 DEF GetById, Obtained, Character, Cached, CreateCharacter, Put, Fresh
  <2> QED BY <2>1, <2>2
<1>5. CASE /\ Cached(c)' /\ Remembered
           /\ Obtained(w, c).partyId = Rec(c) /\ \E k : Finds(k, found) /\ Become(w, k)
  <2>1. PICK k : Finds(k, found) /\ Become(w, k)
    BY <1>5
  <2>2. Obtained(w, c).partyId = Rec(c)'
    BY <1>5 DEF Remembered
  <2>3. CommandOK(k)' /\ ~Ending(k)
    BY <1>2, <1>4, <1>5, <2>1, <2>2
  <2> QED BY <1>2, <1>3, <2>1, <2>3 DEF Steadily
<1>6. CASE ~Cached(c) /\ Become(w, failed)
  BY <1>2, <1>3, <1>6 DEF Steadily
<1>7. CASE UNCHANGED Pages /\ \E k : /\ Become(w, k) /\ \A f \in Fields \ {"fetched"} : k[f] = j[f]
  <2>1. PICK k : Become(w, k) /\ \A f \in Fields \ {"fetched"} : k[f] = j[f]
    BY <1>7
  <2>2. CommandOK(k)' /\ ~Ending(k)
    BY <1>1, <1>2, <1>3, <1>7, <2>1, Refetched DEF Pages
  <2> QED BY <1>2, <1>3, <2>1, <2>2 DEF Steadily
<1> QED BY <1>1, <1>3, <1>5, <1>6, <1>7, Looked

-----------------------------------------------------------------------------
(* Create and RequestInvite.                                               *)

LEMMA CreateCheckCommand ==
  ASSUME Serial, ServiceInv, SerialInv, CommandInv, NEW w \in Workers, NEW j, j = job[w],
         CreateCheck(w)
  PROVE  Steadily(w, j)
<1>1. /\ JobOK(j) /\ CommandOK(j) /\ j.pc = "create"
      /\ j.op \in Creators /\ {j.actor, j.chr} \subseteq Characters /\ Busy(j)
  BY Working DEF CommandInv, CreateCheck, At, Resting, Creating
<1>2. j.actor = Wanted(j) /\ j.op # "CHANGE_LEADER"
  BY <1>1 DEF Wanted, Creators
<1>3. PICK barred \in BOOLEAN :
        GetById(w, j.actor,
                IF Obtained(w, j.actor).partyId # NoParty \/ barred
                THEN Refuse(j) ELSE Goto(j, "create.alloc"),
                FailCreate(j))
  BY DEF CreateCheck
<1>4. PICK found :
        /\ JobOK(found) /\ Follows(found, j) /\ found.pc \in {"return", "create.alloc"}
        /\ GetById(w, j.actor, found, FailCreate(j))
  <2> DEFINE found == IF Obtained(w, j.actor).partyId # NoParty \/ barred
                      THEN Refuse(j) ELSE Goto(j, "create.alloc")
  <2>1. /\ JobOK(found) /\ Follows(found, j) /\ found.pc \in {"return", "create.alloc"}
    BY <1>1, Ended, Moved, Going
    DEF Creating, Refuse, Done, Goto, Buffered, JobOK, Fields, Follows
  <2>2. GetById(w, j.actor, found, FailCreate(j))
    BY <1>3
  <2> HIDE DEF found
  <2> QED BY <2>1, <2>2
<1>5. FailCreate(j).op = j.op
      /\ (j.op # "REQUEST_INVITE" => FailCreate(j).pc = "return")
  BY <1>1 DEF FailCreate, CreateEnds, Done, Goto, Buffered, JobOK, Fields
<1>6. FailCreate(j).pc \in {"return", "invite.send"}
  BY <1>1, EndingCreate DEF Rests
<1>7. j.pc \notin Closing \cup {"create.store"}
  BY <1>1 DEF Closing, Leaving, Disbanding
<1>8. UNCHANGED Books => Settled'
  BY <1>1, <1>7, Settling
<1>9. UNCHANGED Books
  BY <1>4 DEF GetById, registryVars, Books
<1>10. ~Cached(j.actor) => CommandOK(FailCreate(j))'
  <2> SUFFICES ASSUME ~Cached(j.actor)
               PROVE  CommandOK(FailCreate(j))'
    OBVIOUS
  <2>1. PICK k : k = FailCreate(j)
    OBVIOUS
  <2>2. k.op = j.op /\ k.pc = "return"
    BY <1>1, <1>5, <2>1 DEF CommandOK, InviteOK
  <2>3. CommandOK(k)'
    BY <1>1, <1>2, <1>8, <1>9, <2>2, Passing, NotAppointing
    DEF Special, Closing, Leaving, Disbanding, Entering
  <2> QED BY <2>1, <2>3
<1>11. ASSUME NEW k, Finds(k, found), Remembered
       PROVE  CommandOK(k)' /\ ~Ending(k)
  <2>1. /\ k.op = j.op /\ k.pc \in {"return", "create.alloc"}
        /\ k.chr = j.chr /\ k.actor = j.actor
    BY <1>4, <1>11 DEF Finds, Follows
  <2>2. j.op = "REQUEST_INVITE" /\ j.chr # j.actor => Rec(j.chr)' = NoParty
    BY <1>1, <1>11 DEF CommandOK, InviteOK, Remembered
  <2> QED
    BY <1>1, <1>2, <1>8, <1>9, <2>1, <2>2
    DEF CommandOK, CreationOK, AppointOK, InviteOK, PartingOK, BuiltOK, Settled, AllSound,
        Entering, Disbanding, Ending, Creators
<1>12. ~Ending(found) /\ ~Ending(FailCreate(j)) /\ found.fetched = j.fetched
  BY <1>4, <1>6 DEF Ending, Follows
<1>13. j.pc \in Lookups \ {"view.member"}
  BY <1>1 DEF Lookups
<1> QED BY <1>1, <1>2, <1>4, <1>10, <1>11, <1>12, <1>13, LookupCommand

\* The character that enters was looked up when its command began.
LEMMA EnterCheckCommand ==
  ASSUME Serial, ServiceInv, SerialInv, CommandInv, NEW w \in Workers, NEW j, j = job[w],
         EnterCheck(w)
  PROVE  Steadily(w, j)
<1>1. /\ JobOK(j) /\ JobSerial(j) /\ CommandOK(j) /\ j.pc = "enter"
  BY Working DEF SerialInv, CommandInv, EnterCheck, At
<1>2. Cached(Who(j)) /\ j.fetched = ZeroCharacter /\ j.op # "CHANGE_LEADER"
  BY <1>1 DEF JobSerial, CreateOK, FetchOK, Entering, Lookups, CommandOK, AppointOK
<1> DEFINE found == [Goto(j, "enter.set") EXCEPT !.rec = Obtained(w, Who(j))]
           failed == IF Joins(j) THEN Goto(j, "join.undo") ELSE FailCreate(j)
<1>3. GetById(w, Who(j), found, failed)
  BY DEF EnterCheck, Who
<1>4. Become(w, found) /\ UNCHANGED Books /\ UNCHANGED charReg
  BY <1>2, <1>3 DEF GetById, Fetched, registryVars, Books, CommandInv
<1>5. PICK k : /\ Become(w, k) /\ k.pc = "enter.set" /\ k.op = j.op /\ k.party = j.party
               /\ k.chr = j.chr /\ k.actor = j.actor
  <2>1. /\ found.pc = "enter.set" /\ found.op = j.op /\ found.party = j.party
        /\ found.chr = j.chr /\ found.actor = j.actor
    BY <1>1 DEF JobOK, Fields, Goto
  <2> HIDE DEF found
  <2> QED BY <1>4, <2>1
<1>6. Settled' /\ ~Ending(j) /\ ~Ending(k)
  BY <1>1, <1>4, <1>5, Settling DEF Closing, Leaving, Disbanding, Ending
<1>7. InviteOK(k)'
  <2>1. Rec(j.chr)' = Rec(j.chr) /\ UNCHANGED partyReg
    BY <1>4 DEF Rec, Character, Cached, Books
  <2> QED BY <1>1, <1>5, <2>1 DEF CommandOK, InviteOK
<1>8. CommandOK(k)'
  BY <1>1, <1>2, <1>5, <1>6, <1>7
  DEF CommandOK, CreationOK, AppointOK, PartingOK, BuiltOK, Settled, AllSound,
      Entering, Disbanding
<1> QED BY <1>4, <1>5, <1>6, <1>8 DEF Steadily

LEMMA EnterSetCommand ==
  ASSUME Serial, ServiceInv, SerialInv, CommandInv, NEW w \in Workers, NEW j, j = job[w],
         EnterSet(w)
  PROVE  Steadily(w, j)
<1>1. /\ JobOK(j) /\ JobSerial(j) /\ CommandOK(j) /\ j.pc = "enter.set"
  BY Working DEF SerialInv, CommandInv, EnterSet, At
<1>2. j.op # "CHANGE_LEADER" /\ j.rec.id = Who(j)
  BY <1>1 DEF CommandOK, AppointOK, JobSerial, CreateOK
<1>3. PICK k : /\ Become(w, k) /\ UNCHANGED Books /\ k.op = j.op
               /\ \A c : c # Who(j) => Rec(c)' = Rec(c)
               /\ \/ k.pc = "return"
                  \/ /\ k.pc = "invite.send" /\ j.op = "REQUEST_INVITE"
                     /\ k.party = j.party /\ k.actor = j.actor /\ k.chr = j.chr
  <2> DEFINE k == IF Joins(j) THEN Done(Buffered(j, Event("JOINED", j.party.id, j.chr)))
                  ELSE CreateEnds(j, j.party)
  <2>1. /\ k.op = j.op
        /\ \/ k.pc = "return"
           \/ /\ k.pc = "invite.send" /\ j.op = "REQUEST_INVITE"
              /\ k.party = j.party /\ k.actor = j.actor /\ k.chr = j.chr
    BY <1>1 DEF JobOK, Fields, Goto, Done, Buffered, CreateEnds
  <2>2. PICK m : Become(w, k) /\ UNCHANGED Books /\ charReg' = Put(charReg, Who(j), m)
    BY <1>2 DEF EnterSet, SetCharacter, UpdateCharacter, registryVars, Books
  <2> HIDE DEF k
  <2>3. \A c : c # Who(j) => Rec(c)' = Rec(c)
    BY <2>2 DEF Put, Rec, Character, Cached
  <2> QED BY <2>1, <2>2, <2>3
<1>4. Settled' /\ ~Ending(j)
  BY <1>1, <1>3, Settling DEF Closing, Leaving, Disbanding, Ending
<1>5. CASE k.pc = "return"
  BY <1>1, <1>2, <1>3, <1>5, PassingBy DEF Special, Closing, Leaving, Disbanding, Entering
<1>6. CASE /\ k.pc = "invite.send" /\ j.op = "REQUEST_INVITE"
           /\ k.party = j.party /\ k.actor = j.actor /\ k.chr = j.chr
  <2>1. Who(j) = j.actor
    BY <1>6 DEF Who, Joins
  <2>2. InviteOK(k)'
    BY <1>1, <1>3, <1>6, <2>1 DEF CommandOK, InviteOK, Creators, Books
  <2>3. CommandOK(k)' /\ ~Ending(k)
    BY <1>1, <1>2, <1>3, <1>4, <1>6, <2>2
    DEF CommandOK, CreationOK, AppointOK, PartingOK, BuiltOK, Settled, AllSound,
        Disbanding, Ending
  <2> QED BY <1>3, <1>4, <2>3 DEF Steadily
<1> QED BY <1>3, <1>5, <1>6

LEMMA InviteGetActorCommand ==
  ASSUME Serial, ServiceInv, SerialInv, CommandInv, NEW w \in Workers, NEW j, j = job[w],
         InviteGetActor(w)
  PROVE  Steadily(w, j)
<1>1. /\ JobOK(j) /\ CommandOK(j) /\ j.pc = "invite" /\ Busy(j)
      /\ j.op \in Creators /\ j.actor \in Characters
  BY Working DEF CommandInv, InviteGetActor, At, Resting, Creating
<1>2. j.actor = Wanted(j) /\ j.op = "REQUEST_INVITE"
  BY <1>1 DEF Wanted, CommandOK, InviteOK, Creators
<1> DEFINE found == [Goto(j, "invite.chr") EXCEPT !.rec = Obtained(w, j.actor)]
<1>3. /\ JobOK(found) /\ found.pc = "invite.chr" /\ found.op = j.op /\ found.actor = j.actor
      /\ found.fetched = j.fetched /\ found.rec = Obtained(w, j.actor)
  <2>1. JobOK(found)
    BY <1>1, Moved, Noted DEF Creating
  <2> QED BY <1>1, <2>1 DEF JobOK, Fields, Goto
<1>4. GetById(w, j.actor, found, Fail(j)) /\ UNCHANGED Books
  BY DEF InviteGetActor, GetById, registryVars, Books
<1> HIDE DEF found
<1>5. Settled'
  BY <1>1, <1>4, Settling DEF Closing, Leaving, Disbanding
<1>6. Fail(j).op = j.op /\ Fail(j).pc = "return" /\ ~Ending(Fail(j))
  BY <1>1, Stopping DEF Rests, Follows, Fail, Done, Goto, Buffered, JobOK, Fields, Ending
<1>7. CommandOK(Fail(j))'
  <2>1. PICK k : k = Fail(j)
    OBVIOUS
  <2>2. CommandOK(k)'
    BY <1>1, <1>2, <1>5, <1>6, <2>1, Passing, NotAppointing
    DEF Special, Closing, Leaving, Disbanding, Entering
  <2> QED BY <2>1, <2>2
<1>8. ASSUME NEW k, Finds(k, found), Cached(j.actor)', Obtained(w, j.actor).partyId = Rec(j.actor)'
      PROVE  CommandOK(k)' /\ ~Ending(k)
  <2>1. k.op = j.op /\ k.pc = "invite.chr" /\ k.actor = j.actor /\ k.rec = Obtained(w, j.actor)
    BY <1>3, <1>8 DEF Finds
  <2> QED
    BY <1>2, <1>5, <1>8, <2>1
    DEF CommandOK, CreationOK, AppointOK, InviteOK, PartingOK, BuiltOK, Settled, AllSound,
        Entering, Disbanding, Ending
<1>9. j.pc \in Lookups \ {"view.member"} /\ ~Ending(found)
  BY <1>1, <1>3 DEF Lookups, Ending
<1> QED BY <1>1, <1>2, <1>3, <1>4, <1>6, <1>7, <1>8, <1>9, LookupCommand

LEMMA InviteCheckCommand ==
  ASSUME Serial, ServiceInv, SerialInv, CommandInv, NEW w \in Workers, NEW j, j = job[w],
         InviteCheck(w)
  PROVE  Steadily(w, j)
<1>1. /\ JobOK(j) /\ CommandOK(j) /\ j.pc = "invite.chr" /\ Busy(j) /\ j.chr \in Characters
      /\ j.op \in Creators /\ j.actor \in Characters
  BY Working DEF CommandInv, InviteCheck, At, Resting, Creating
<1>2. /\ j.chr = Wanted(j) /\ j.op = "REQUEST_INVITE" /\ Cached(j.actor)
  BY <1>1 DEF Wanted, CommandOK, InviteOK
<1>3. PICK found :
        /\ JobOK(found) /\ Follows(found, j)
        /\ \/ found.pc = "return"
           \/ found.pc \in {"create", "invite.party"} /\ Obtained(w, j.chr).partyId = NoParty
        /\ GetById(w, j.chr, found, Fail(j))
  <2> DEFINE found == IF Obtained(w, j.chr).partyId # NoParty THEN Refuse(j)
                      ELSE IF j.rec.partyId = NoParty THEN Goto(j, "create")
                      ELSE Goto(j, "invite.party")
  <2>1. /\ JobOK(found) /\ Follows(found, j)
        /\ \/ found.pc = "return"
           \/ found.pc \in {"create", "invite.party"} /\ Obtained(w, j.chr).partyId = NoParty
    BY <1>1, Ended, Moved, Going, Stopping
    DEF Creating, Rests, Refuse, Done, Goto, Buffered, JobOK, Fields
  <2>2. GetById(w, j.chr, found, Fail(j))
    BY DEF InviteCheck
  <2> HIDE DEF found
  <2> QED BY <2>1, <2>2
<1>4. UNCHANGED Books
  BY <1>3 DEF GetById, registryVars, Books
<1>5. Settled'
  BY <1>1, <1>4, Settling DEF Closing, Leaving, Disbanding
<1>6. Fail(j).op = j.op /\ Fail(j).pc = "return" /\ ~Ending(Fail(j))
  BY <1>1, Stopping DEF Rests, Follows, Fail, Done, Goto, Buffered, JobOK, Fields, Ending
<1>7. CommandOK(Fail(j))'
  <2>1. PICK k : k = Fail(j)
    OBVIOUS
  <2>2. CommandOK(k)'
    BY <1>1, <1>2, <1>5, <1>6, <2>1, Passing, NotAppointing
    DEF Special, Closing, Leaving, Disbanding, Entering
  <2> QED BY <2>1, <2>2
<1>8. ASSUME NEW k, Finds(k, found), Remembered, Obtained(w, j.chr).partyId = Rec(j.chr)'
      PROVE  CommandOK(k)' /\ ~Ending(k)
  <2>1. /\ k.op = j.op /\ k.actor = j.actor /\ k.chr = j.chr /\ k.rec = j.rec
        /\ \/ k.pc = "return"
           \/ k.pc \in {"create", "invite.party"} /\ Rec(j.chr)' = NoParty
    BY <1>3, <1>8 DEF Finds, Follows
  <2>2. Cached(j.actor)' /\ Rec(j.actor)' = Rec(j.actor) /\ j.rec.partyId = Rec(j.actor)
    BY <1>1, <1>2, <1>8 DEF Remembered, CommandOK, InviteOK
  <2> QED
    BY <1>1, <1>2, <1>5, <2>1, <2>2
    DEF CommandOK, CreationOK, AppointOK, InviteOK, PartingOK, BuiltOK, Settled, AllSound,
        Entering, Disbanding, Ending
<1>9. j.pc \in Lookups \ {"view.member"} /\ ~Ending(found) /\ found.fetched = j.fetched
  BY <1>1, <1>3 DEF Lookups, Ending, Follows
<1> QED BY <1>1, <1>2, <1>3, <1>6, <1>7, <1>8, <1>9, LookupCommand

LEMMA Stopped ==
  ASSUME NEW j, JobOK(j)
  PROVE  /\ Refuse(j).op = j.op /\ Refuse(j).pc = "return"
         /\ Fail(j).op = j.op /\ Fail(j).pc = "return"
         /\ Done(j).op = j.op /\ Done(j).pc = "return"
  BY DEF Refuse, Fail, Done, Goto, Buffered, JobOK, Fields

\* The party an invitation names is stored: it was looked up, or just created.
LEMMA InviteEndsCommand ==
  ASSUME Serial, ServiceInv, SerialInv, CommandInv, NEW w \in Workers, NEW j, j = job[w],
         InviteGetParty(w) \/ InviteSend(w)
  PROVE  Steadily(w, j)
<1>1. /\ JobOK(j) /\ JobSerial(j) /\ CommandOK(j) /\ j.pc \in {"invite.party", "invite.send"}
      /\ Registries /\ j.actor \in Characters /\ j.chr \in Characters
  <2>1. /\ JobOK(j) /\ JobSerial(j) /\ CommandOK(j) /\ j.pc \in {"invite.party", "invite.send"}
        /\ Registries
    BY Working DEF SerialInv, CommandInv, InviteGetParty, InviteSend, At
  <2>2. j.op = "REQUEST_INVITE"
    BY <2>1 DEF CommandOK, InviteOK
  <2> QED BY <2>1, <2>2 DEF JobOK, Busy, Creators
<1>2. /\ j.op = "REQUEST_INVITE" /\ j.pc \notin Closing \cup {"create.store"} /\ ~Ending(j)
      /\ AllSame
  BY <1>1, Calm DEF CommandOK, InviteOK, Closing, Entering, Leaving, Disbanding, Ending
<1>3. UNCHANGED Books /\ UNCHANGED charReg
  BY DEF InviteGetParty, GetParty, InviteSend, Books, registryVars
<1>4. Settled'
  BY <1>1, <1>2, <1>3, Settling
<1>5. CASE InviteGetParty(w)
  <2> DEFINE p == j.rec.partyId
             found == [Goto(j, "invite.send") EXCEPT !.party = Lookup(p)]
             failed == [Done(j) EXCEPT !.err = TRUE]
  <2>1. /\ found.pc = "invite.send" /\ found.op = j.op /\ found.party = Lookup(p)
        /\ found.actor = j.actor /\ found.chr = j.chr
        /\ failed.pc = "return" /\ failed.op = j.op
    BY <1>1 DEF JobOK, Fields, Goto, Done
  <2>2. \/ Become(w, found) /\ p \in DOMAIN partyReg
        \/ Become(w, failed)
    BY <1>5 DEF InviteGetParty, GetParty
  <2> HIDE DEF found, failed
  <2>3. CASE Become(w, failed)
    BY <1>1, <1>2, <1>3, <2>1, <2>2, <2>3, PassingBy
    DEF Special, Closing, Leaving, Disbanding, Entering
  <2>4. CASE Become(w, found) /\ p \in DOMAIN partyReg
    <3>1. p = Rec(j.actor) /\ j.pc = "invite.party"
      BY <1>1, <1>5 DEF CommandOK, InviteOK, InviteGetParty, At
    <3>2. Lookup(p) = partyReg[p] /\ partyReg[p].id = p /\ j.actor \in Members(partyReg[p])
      BY <1>1, <1>2, <2>4, <3>1 DEF Registries, Owned, Indexed, AllSame, Same, Lookup
    <3>3. PICK k : /\ Become(w, k) /\ k.pc = "invite.send" /\ k.op = j.op /\ k.party = Lookup(p)
                   /\ k.actor = j.actor /\ k.chr = j.chr
      BY <2>1, <2>4
    <3>4. InviteOK(k)'
      <4>1. Rec(j.chr)' = Rec(j.chr)
        BY <1>3 DEF Rec, Character, Cached
      <4> QED BY <1>1, <1>2, <1>3, <2>4, <3>1, <3>2, <3>3, <4>1 DEF CommandOK, InviteOK, Books
    <3>5. CommandOK(k)' /\ ~Ending(k)
      BY <1>1, <1>2, <1>4, <3>3, <3>4
      DEF CommandOK, CreationOK, AppointOK, PartingOK, BuiltOK, Settled, AllSound,
          Entering, Disbanding, Ending
    <3> QED BY <1>2, <1>3, <3>3, <3>5 DEF Steadily
  <2> QED BY <2>2, <2>3, <2>4
<1>6. CASE InviteSend(w)
  <2>1. PICK k : Become(w, k) /\ k.pc = "return" /\ k.op = j.op
    BY <1>1, <1>6, Stopped DEF InviteSend
  <2> QED BY <1>1, <1>2, <1>3, <2>1, PassingBy
          DEF Special, Closing, Leaving, Disbanding, Entering
<1> QED BY <1>5, <1>6

-----------------------------------------------------------------------------
(* ChangeLeader, which reads the record of the new leader twice.           *)

\* A new leader who is unknown, or whose record names another party, is not appointed.
LEMMA Unappointed ==
  ASSUME NEW j, JobOK(j), CommandOK(j), j.pc \in {"lead", "lead.chr"}, UNCHANGED Books,
         NEW k, k.op = j.op, k.chr = j.chr, k.pid = j.pid, k.pc = "return",
         Rec(j.chr)' # j.pid \/ j.pid = NoParty
  PROVE  CommandOK(k)' /\ ~Ending(k)
<1>1. Settled'
  BY Settling DEF Closing, Leaving, Disbanding
<1>2. AppointOK(k)'
  BY DEF AppointOK
<1> QED BY <1>1, <1>2, Passing DEF Special, Closing, Leaving, Disbanding, Entering

LEMMA LeadGetActorCommand ==
  ASSUME Serial, ServiceInv, SerialInv, CommandInv, NEW w \in Workers, NEW j, j = job[w],
         LeadGetActor(w)
  PROVE  Steadily(w, j)
<1>1. /\ JobOK(j) /\ JobSerial(j) /\ CommandOK(j) /\ j.pc = "lead" /\ Busy(j)
      /\ j.chr \in Characters
  BY Working DEF SerialInv, CommandInv, LeadGetActor, At, Resting
<1>2. j.chr = Wanted(j)
  BY <1>1 DEF Wanted
<1> DEFINE found == [Goto(j, "lead.chr") EXCEPT !.rec = Obtained(w, j.chr)]
<1>3. /\ JobOK(found) /\ found.pc = "lead.chr" /\ found.op = j.op /\ found.chr = j.chr
      /\ found.fetched = j.fetched /\ found.rec = Obtained(w, j.chr)
  <2>1. JobOK(found)
    BY <1>1, Moved, Noted DEF Creating
  <2> QED BY <1>1, <2>1 DEF JobOK, Fields, Goto
<1>4. GetById(w, j.chr, found, Fail(j)) /\ UNCHANGED Books
  BY DEF LeadGetActor, GetById, registryVars, Books
<1> HIDE DEF found
<1>5. Settled'
  BY <1>1, <1>4, Settling DEF Closing, Leaving, Disbanding
<1>6. PICK f : f = Fail(j)
  OBVIOUS
<1>7. f.op = j.op /\ f.pc = "return" /\ f.chr = j.chr /\ f.pid = j.pid /\ ~Ending(f)
  BY <1>1, <1>6 DEF Fail, Done, Goto, Buffered, JobOK, Fields, Ending
<1>8. GetById(w, j.chr, found, f)
  BY <1>4, <1>6
<1>9. CASE Become(w, f) /\ ~Cached(j.chr) /\ UNCHANGED charReg
  <2>1. Rec(j.chr)' = NoParty
    BY <1>9 DEF Rec, Character, Cached, ZeroCharacter
  <2>2. CommandOK(f)' /\ ~Ending(f)
    BY <1>1, <1>2, <1>4, <1>7, <2>1, Unappointed
  <2> QED BY <1>1, <1>4, <1>9, <2>2 DEF Steadily, Ending, GetById, CommandInv
<1>10. ASSUME NEW k, Finds(k, found), Cached(j.chr)',
              Obtained(w, j.chr).partyId = Rec(j.chr)', Obtained(w, j.chr).mapId = Character(j.chr)'.mapId
       PROVE  CommandOK(k)' /\ ~Ending(k)
  <2>1. k.op = j.op /\ k.pc = "lead.chr" /\ k.chr = j.chr /\ k.rec = Obtained(w, j.chr)
    BY <1>3, <1>10 DEF Finds
  <2> QED
    BY <1>1, <1>5, <1>10, <2>1
    DEF CommandOK, CreationOK, AppointOK, InviteOK, PartingOK, BuiltOK, Settled, AllSound,
        Entering, Disbanding, Ending
<1>11. j.pc \in Lookups \ {"view.member"} /\ ~Ending(found)
  BY <1>1, <1>3 DEF Lookups, Ending
<1>12. CASE ~(Become(w, f) /\ ~Cached(j.chr) /\ UNCHANGED charReg)
  \* The failing branch is not the one taken, so any good job will do for it.
  <2>1. GetById(w, j.chr, found, NoJob)
    BY <1>8, <1>12 DEF GetById
  <2>2. NoJob.op = "none" /\ NoJob.pc = "idle"
    BY DEF NoJob
  <2>3. PICK n : n = NoJob
    OBVIOUS
  <2>4. CommandOK(n)' /\ ~Ending(n)
    BY <1>1, <1>5, <2>2, <2>3, Passing, NotAppointing
    DEF Special, Closing, Leaving, Disbanding, Entering
  <2>5. GetById(w, j.chr, found, n)
    BY <2>1, <2>3
  <2> QED BY <1>1, <1>2, <1>3, <1>10, <1>11, <2>4, <2>5, LookupCommand
<1> QED BY <1>9, <1>12

LEMMA LeadCheckCommand ==
  ASSUME Serial, ServiceInv, SerialInv, CommandInv, NEW w \in Workers, NEW j, j = job[w],
         LeadCheck(w)
  PROVE  Steadily(w, j)
<1>1. /\ JobOK(j) /\ JobSerial(j) /\ CommandOK(j) /\ j.pc = "lead.chr" /\ Busy(j)
      /\ j.chr \in Characters
  BY Working DEF SerialInv, CommandInv, LeadCheck, At, Resting
<1>2. /\ Cached(j.chr) /\ j.rec.partyId = Rec(j.chr) /\ j.rec.mapId = Character(j.chr).mapId
  BY <1>1 DEF CommandOK, AppointOK
<1>3. j.fetched = ZeroCharacter
  BY <1>1, <1>2 DEF JobSerial, FetchOK, Wanted
<1>4. Obtained(w, j.chr) = Character(j.chr)
  BY <1>3 DEF Obtained, Fetched
<1> DEFINE c == Obtained(w, j.chr)
           found == IF \/ c.partyId # j.pid
                       \/ j.rec.partyId # c.partyId
                       \/ j.rec.mapId # c.mapId
                    THEN Refuse(j) ELSE Goto(j, "lead.set")
<1>5. GetById(w, j.chr, found, Fail(j))
  BY DEF LeadCheck
<1>6. found = IF Rec(j.chr) # j.pid THEN Refuse(j) ELSE Goto(j, "lead.set")
  BY <1>2, <1>4 DEF Rec
<1> HIDE DEF found
<1>7. /\ Become(w, found) /\ UNCHANGED Books /\ UNCHANGED charReg
  BY <1>1, <1>2, <1>3, <1>5
  DEF GetById, Fetched, registryVars, Books
<1>8. Rec(j.chr)' = Rec(j.chr)
  BY <1>7 DEF Rec, Character, Cached
<1>9. ~Ending(j) /\ Settled'
  BY <1>1, <1>7, Settling DEF Ending, Closing, Leaving, Disbanding
<1>10. CASE Rec(j.chr) # j.pid
  <2>1. PICK k : /\ Become(w, k) /\ k.op = j.op /\ k.pc = "return" /\ k.chr = j.chr
                 /\ k.pid = j.pid
    <3>1. /\ Refuse(j).op = j.op /\ Refuse(j).pc = "return" /\ Refuse(j).chr = j.chr
          /\ Refuse(j).pid = j.pid
      BY <1>1 DEF Refuse, Done, Goto, Buffered, JobOK, Fields
    <3> QED BY <1>6, <1>7, <1>10, <3>1
  <2>2. CommandOK(k)' /\ ~Ending(k)
    BY <1>1, <1>7, <1>8, <1>10, <2>1, Unappointed
  <2> QED BY <1>7, <1>9, <2>1, <2>2 DEF Steadily
<1>11. CASE Rec(j.chr) = j.pid
  <2>1. PICK k : /\ Become(w, k) /\ k.op = j.op /\ k.pc = "lead.set" /\ k.chr = j.chr
                 /\ k.pid = j.pid
    BY <1>1, <1>6, <1>7, <1>11, Going DEF Follows
  <2>2. CommandOK(k)' /\ ~Ending(k)
    BY <1>1, <1>8, <1>9, <1>11, <2>1
    DEF CommandOK, CreationOK, AppointOK, InviteOK, PartingOK, BuiltOK, Settled, AllSound,
        Entering, Disbanding, Ending
  <2> QED BY <1>7, <1>9, <2>1, <2>2 DEF Steadily
<1> QED BY <1>10, <1>11

-----------------------------------------------------------------------------
(* The steps of Join, Leave and Expel between their updates of the party.  *)

LEMMA JoinsQuietly ==
  ASSUME Serial, ServiceInv, SerialInv, CommandInv, NEW w \in Workers, NEW j, j = job[w],
         JoinCheck(w) \/ JoinGetParty(w)
  PROVE  Steadily(w, j)
<1>1. /\ JobOK(j) /\ CommandOK(j) /\ j.pc \in {"join", "join.party"} /\ Busy(j)
  BY Working DEF CommandInv, JoinCheck, JoinGetParty, At, Resting
<1>2. j.op # "CHANGE_LEADER"
  BY <1>1 DEF CommandOK, AppointOK
<1>3. /\ JobOK(Refuse(j)) /\ JobOK(Goto(j, "join.party")) /\ JobOK(Goto(j, "join.add"))
      /\ JobOK(Fail(j))
  BY <1>1, Ended, Moved DEF Creating
<1>4. \A k \in {Refuse(j), Fail(j), Goto(j, "join.party"), Goto(j, "join.add")} :
        k.op = j.op /\ k.pc \notin Special
  <2>1. \A pc : Goto(j, pc).op = j.op /\ Goto(j, pc).pc = pc
    BY <1>1, Going DEF Follows
  <2> QED BY <1>1, <2>1, Stopped DEF Special, Closing, Leaving, Disbanding, Entering
<1>5. CASE JoinCheck(w)
  <2>1. PICK found \in {Refuse(j), Goto(j, "join.party")} : GetById(w, j.chr, found, Fail(j))
    BY <1>5 DEF JoinCheck
  <2>2. j.pc \in Lookups
    BY <1>5 DEF JoinCheck, At, Lookups
  <2> QED BY <1>1, <1>2, <1>3, <1>4, <2>1, <2>2, PlainLookup
<1>6. CASE JoinGetParty(w)
  <2>1. PICK k \in {Refuse(j), Fail(j), Goto(j, "join.add")} : Become(w, k)
    BY <1>6 DEF JoinGetParty, GetParty
  <2>2. UNCHANGED Books
    BY <1>1, <1>6 DEF JoinGetParty, GetParty, Books, registryVars
  <2> QED BY <1>1, <1>2, <1>4, <2>1, <2>2, PassingBy DEF Closing, Leaving, Disbanding
<1> QED BY <1>5, <1>6

LEMMA LeaveCheckCommand ==
  ASSUME Serial, ServiceInv, SerialInv, CommandInv, NEW w \in Workers, NEW j, j = job[w],
         LeaveCheck(w)
  PROVE  Steadily(w, j)
<1>1. /\ JobOK(j) /\ CommandOK(j) /\ j.pc = "leave" /\ Busy(j)
  BY Working DEF CommandInv, LeaveCheck, At, Resting
<1>2. j.op # "CHANGE_LEADER" /\ j.pc \in Lookups
  BY <1>1 DEF CommandOK, AppointOK, Lookups
<1>3. JobOK(Refuse(j)) /\ JobOK(Goto(j, "leave.party")) /\ JobOK(Fail(j))
  BY <1>1, Ended, Moved DEF Creating
<1>4. \A k \in {Refuse(j), Fail(j), Goto(j, "leave.party")} : k.op = j.op /\ k.pc \notin Special
  <2>1. Goto(j, "leave.party").op = j.op /\ Goto(j, "leave.party").pc = "leave.party"
    BY <1>1, Going DEF Follows
  <2> QED BY <1>1, <2>1, Stopped DEF Special, Closing, Leaving, Disbanding, Entering
<1>5. PICK found \in {Refuse(j), Goto(j, "leave.party")} : GetById(w, j.chr, found, Fail(j))
  BY DEF LeaveCheck
<1> QED BY <1>1, <1>2, <1>3, <1>4, <1>5, PlainLookup

LEMMA LeaveGetPartyCommand ==
  ASSUME Serial, ServiceInv, SerialInv, CommandInv, NEW w \in Workers, NEW j, j = job[w],
         LeaveGetParty(w)
  PROVE  Steadily(w, j)
<1>1. /\ JobOK(j) /\ CommandOK(j) /\ j.pc = "leave.party"
  BY Working DEF CommandInv, LeaveGetParty, At
<1>2. j.op # "CHANGE_LEADER"
  BY <1>1 DEF CommandOK, AppointOK
<1> DEFINE d == j.op # "EXPEL" /\ Lookup(j.pid).leader = j.chr
           found == [Goto(j, "leave.remove") EXCEPT !.disband = d]
<1>3. GetParty(w, j.pid, found, Fail(j))
  BY DEF LeaveGetParty
<1>4. /\ found.pc = "leave.remove" /\ found.op = j.op /\ found.pid = j.pid /\ found.chr = j.chr
      /\ found.disband = d
      /\ Fail(j).pc = "return" /\ Fail(j).op = j.op
  BY <1>1 DEF Fail, Done, Goto, Buffered, JobOK, Fields
<1> HIDE DEF found
<1>5. /\ UNCHANGED Books
      /\ Become(w, Fail(j)) \/ (Become(w, found) /\ j.pid \in DOMAIN partyReg)
  BY <1>1, <1>3 DEF GetParty, Books, registryVars
<1>6. Settled' /\ ~Ending(j)
  BY <1>1, <1>5, Settling DEF Closing, Leaving, Disbanding, Ending
<1>7. CASE Become(w, Fail(j))
  BY <1>1, <1>2, <1>4, <1>5, <1>7, PassingBy DEF Special, Closing, Leaving, Disbanding, Entering
<1>8. CASE Become(w, found) /\ j.pid \in DOMAIN partyReg
  <2>1. PICK k : /\ Become(w, k) /\ k.pc = "leave.remove" /\ k.op = j.op /\ k.pid = j.pid
                 /\ k.chr = j.chr
                 /\ k.disband <=> (j.op # "EXPEL" /\ partyReg[j.pid].leader = j.chr)
    BY <1>4, <1>8 DEF Lookup
  <2>2. CommandOK(k)' /\ ~Ending(k)
    BY <1>1, <1>2, <1>5, <1>6, <2>1
    DEF CommandOK, CreationOK, AppointOK, InviteOK, PartingOK, BuiltOK, Settled, AllSound,
        Entering, Disbanding, Ending, Books
  <2> QED BY <1>5, <1>6, <2>1, <2>2 DEF Steadily
<1> QED BY <1>5, <1>7, <1>8

\* On the way from the removal of the character to the end of the handler.
LEMMA Carrying ==
  ASSUME NEW w, NEW j, CommandOK(j), j.pc \in Closing, UNCHANGED Books,
         NEW k, Become(w, k), k.pc \in Closing,
         k.op = j.op, k.pid = j.pid, k.party = j.party, k.disband = j.disband,
         k.pc \in Disbanding => k.disband,
         k.pc = "expel.remove" => k.op = "EXPEL" /\ Members(k.party) = {}
  PROVE  Steadily(w, j)
<1>1. Ending(k) <=> Ending(j)
  BY DEF Ending, Closing, Leaving, Disbanding
<1>2. j.op # "CHANGE_LEADER"
  BY DEF CommandOK, AppointOK, Closing, Leaving, Disbanding
<1>3. CreationOK(k)' /\ AppointOK(k)' /\ InviteOK(k)' /\ PartingOK(k)'
  BY <1>2 DEF CommandOK, CreationOK, AppointOK, InviteOK, PartingOK, Closing, Leaving, Disbanding,
              Entering, Books
<1>4. BuiltOK(k)'
  BY <1>1 DEF CommandOK, BuiltOK, Books
<1> QED BY <1>1, <1>3, <1>4 DEF Steadily, CommandOK

LEMMA LeaveGetCommand ==
  ASSUME Serial, ServiceInv, SerialInv, CommandInv, NEW w \in Workers, NEW j, j = job[w],
         LeaveGet(w)
  PROVE  Steadily(w, j)
<1>1. /\ JobOK(j) /\ JobSerial(j) /\ CommandOK(j) /\ j.pc = "leave.get"
  BY Working DEF SerialInv, CommandInv, LeaveGet, At
<1>2. Cached(j.chr)
  BY <1>1 DEF JobSerial, LeaveOK, Leaving
<1> DEFINE found == [Goto(j, "leave.clear") EXCEPT !.rec = Character(j.chr)]
<1>3. GetCharacter(w, j.chr, found, Goto(j, "leave.undo"))
  BY DEF LeaveGet
<1>4. /\ found.pc = "leave.clear" /\ found.op = j.op /\ found.pid = j.pid
      /\ found.party = j.party /\ found.disband = j.disband
  BY <1>1 DEF JobOK, Fields, Goto
<1> HIDE DEF found
<1>5. Become(w, found) /\ UNCHANGED Books
  BY <1>1, <1>2, <1>3 DEF GetCharacter, registryVars, Books
<1> QED BY <1>1, <1>4, <1>5, Carrying DEF Closing, Leaving, Disbanding

LEMMA LeaveClearCommand ==
  ASSUME Serial, ServiceInv, SerialInv, CommandInv, NEW w \in Workers, NEW j, j = job[w],
         LeaveClear(w)
  PROVE  Steadily(w, j)
<1>1. /\ JobOK(j) /\ CommandOK(j) /\ j.pc = "leave.clear"
  BY Working DEF CommandInv, LeaveClear, At
<1> DEFINE emptied == j.op = "EXPEL" /\ Members(j.party) = {}
           last == Goto(Buffered(j, Event("DISBAND", j.party.id, j.chr)), "expel.remove")
<1>2. PICK k : /\ Become(w, k) /\ UNCHANGED Books /\ UNCHANGED invites
               /\ \/ j.disband /\ k = Goto(j, "disband")
                  \/ ~j.disband /\ emptied /\ k = last
                  \/ ~j.disband /\ ~emptied /\ \E x : k = Done(Buffered(j, x))
  BY DEF LeaveClear, SetCharacter, registryVars, Books
<1>4. CASE j.disband /\ k = Goto(j, "disband")
  <2>1. k.pc = "disband" /\ k.op = j.op /\ k.pid = j.pid /\ k.party = j.party /\ k.disband = j.disband
    BY <1>1, <1>4 DEF JobOK, Fields, Goto
  <2> QED BY <1>1, <1>2, <1>4, <2>1, Carrying DEF Closing, Leaving, Disbanding
<1>5. CASE emptied /\ k = last
  <2>1. /\ k.pc = "expel.remove" /\ k.op = j.op /\ k.pid = j.pid /\ k.party = j.party
        /\ k.disband = j.disband
    BY <1>1, <1>5 DEF JobOK, Fields, Goto, Buffered
  <2> QED BY <1>1, <1>2, <1>5, <2>1, Carrying DEF Closing, Leaving, Disbanding
<1>6. CASE ~j.disband /\ ~emptied /\ \E x : k = Done(Buffered(j, x))
  <2>1. k.pc = "return" /\ k.op = j.op
    BY <1>1, <1>6, Stopping DEF Done, Goto, Buffered, JobOK, Fields
  <2>2. ~Ending(j) /\ j.op # "CHANGE_LEADER"
    BY <1>1, <1>6 DEF Ending, CommandOK, AppointOK
  <2>3. Settled'
    BY <1>1, <1>2, <2>2 DEF CommandOK, CreationOK, BuiltOK, Settled, AllSound, Books
  <2>4. CommandOK(k)' /\ ~Ending(k)
    BY <1>1, <2>1, <2>2, <2>3, Passing, NotAppointing
    DEF Special, Closing, Leaving, Disbanding, Entering
  <2> QED BY <1>2, <2>2, <2>4 DEF Steadily
<1> QED BY <1>2, <1>4, <1>5, <1>6

LEMMA DisbandGetCommand ==
  ASSUME Serial, ServiceInv, SerialInv, CommandInv, NEW w \in Workers, NEW j, j = job[w],
         DisbandGet(w)
  PROVE  Steadily(w, j)
<1>1. /\ JobOK(j) /\ CommandOK(j) /\ j.pc = "disband"
  BY Working DEF CommandInv, DisbandGet, At
<1>2. PICK c \in DOMAIN j.todo :
        LET l == [j EXCEPT !.todo = BagRemove(j.todo, c)]
        IN  GetCharacter(w, c, [Goto(l, "disband.clear") EXCEPT !.rec = Character(c)], l)
  BY DEF DisbandGet
<1> DEFINE l == [j EXCEPT !.todo = BagRemove(j.todo, c)]
           found == [Goto(l, "disband.clear") EXCEPT !.rec = Character(c)]
<1>3. /\ l.pc = "disband" /\ l.op = j.op /\ l.pid = j.pid /\ l.party = j.party
      /\ l.disband = j.disband
      /\ found.pc = "disband.clear" /\ found.op = j.op /\ found.pid = j.pid
      /\ found.party = j.party /\ found.disband = j.disband
  BY <1>1 DEF JobOK, Fields, Goto
<1>4. GetCharacter(w, c, found, l)
  BY <1>2
<1> HIDE DEF found, l
<1>5. PICK k : /\ Become(w, k) /\ k.pc \in Disbanding /\ k.op = j.op /\ k.pid = j.pid
               /\ k.party = j.party /\ k.disband = j.disband
  BY <1>3, <1>4 DEF GetCharacter, Disbanding
<1>6. UNCHANGED Books /\ j.disband
  BY <1>1, <1>4 DEF GetCharacter, registryVars, Books, CommandOK, PartingOK, Disbanding
<1> QED BY <1>1, <1>5, <1>6, Carrying DEF Closing, Leaving, Disbanding

LEMMA DisbandClearCommand ==
  ASSUME Serial, ServiceInv, SerialInv, CommandInv, NEW w \in Workers, NEW j, j = job[w],
         DisbandClear(w)
  PROVE  Steadily(w, j)
<1>1. /\ JobOK(j) /\ CommandOK(j) /\ j.pc = "disband.clear"
  BY Working DEF CommandInv, DisbandClear, At
<1>2. PICK k : /\ Become(w, k) /\ k.pc = "disband" /\ k.op = j.op /\ k.pid = j.pid
               /\ k.party = j.party /\ k.disband = j.disband
  BY <1>1, Going DEF DisbandClear, SetCharacter, Follows
<1>3. UNCHANGED Books /\ j.disband
  BY <1>1 DEF DisbandClear, SetCharacter, registryVars, Books, CommandOK, PartingOK, Disbanding
<1> QED BY <1>1, <1>2, <1>3, Carrying DEF Closing, Leaving, Disbanding

-----------------------------------------------------------------------------
(* The other handlers, and the end of every handler.                       *)

LEMMA MapsQuietly ==
  ASSUME Serial, ServiceInv, SerialInv, CommandInv, NEW w \in Workers, NEW j, j = job[w],
         MapGet(w) \/ MapSet(w)
  PROVE  Steadily(w, j)
<1>1. /\ JobOK(j) /\ CommandOK(j) /\ j.pc \in {"map", "map.set"} /\ Busy(j)
  BY Working DEF CommandInv, MapGet, MapSet, At, Resting
<1>2. j.op # "CHANGE_LEADER" /\ Done(j).op = j.op /\ Done(j).pc = "return"
  BY <1>1, Stopped DEF CommandOK, AppointOK
<1>3. CASE MapGet(w)
  <2> DEFINE found == [Goto(j, "map.set") EXCEPT !.rec = Obtained(w, j.chr)]
  <2>1. JobOK(found) /\ found.op = j.op /\ found.pc = "map.set"
    <3>1. JobOK(found)
      BY <1>1, Moved, Noted DEF Creating
    <3> QED BY <1>1, <3>1 DEF JobOK, Fields, Goto
  <2>2. GetById(w, j.chr, found, Done(j)) /\ j.pc \in Lookups
    BY <1>3 DEF MapGet, At, Lookups
  <2> HIDE DEF found
  <2> QED BY <1>1, <1>2, <2>1, <2>2, PlainLookup DEF Special, Closing, Leaving, Disbanding, Entering
<1>4. CASE MapSet(w)
  <2>1. Become(w, Done(j)) /\ UNCHANGED Books
    BY <1>1, <1>4 DEF MapSet, SetCharacter, registryVars, Books
  <2> QED BY <1>1, <1>2, <2>1, PassingBy DEF Special, Closing, Leaving, Disbanding, Entering
<1> QED BY <1>3, <1>4

LEMMA DeletesQuietly ==
  ASSUME Serial, ServiceInv, SerialInv, CommandInv, NEW w \in Workers, NEW j, j = job[w],
         DeletedGetParty(w) \/ DeleteGet(w) \/ DeleteDrop(w)
  PROVE  Steadily(w, j)
<1>1. /\ JobOK(j) /\ JobSerial(j) /\ CommandOK(j) /\ j.pc \in {"deleted", "delete", "delete.drop"}
  BY Working DEF SerialInv, CommandInv, DeletedGetParty, DeleteGet, DeleteDrop, At
<1>2. j.op # "CHANGE_LEADER"
  BY <1>1 DEF CommandOK, AppointOK
<1>3. UNCHANGED Books
  BY <1>1 DEF DeletedGetParty, DeleteGet, DeleteDrop, Forget, GetCharacter, registryVars, Books
<1>4. PICK k : /\ Become(w, k) /\ k.op \in {j.op, "none"}
               /\ k.pc \in {"leave", "idle", "delete.get", "delete.drop", "delete"}
  <2>1. NoJob.op = "none" /\ NoJob.pc = "idle"
    BY DEF NoJob
  <2>2. \A pc : Goto(j, pc).op = j.op /\ Goto(j, pc).pc = pc
    BY <1>1, Going DEF Follows
  <2>3. CASE DeletedGetParty(w)
    <3> DEFINE k == [Goto(j, "leave") EXCEPT !.pid = PartyOf(j.chr).id]
    <3>1. k.op = j.op /\ k.pc = "leave"
      BY <1>1 DEF JobOK, Fields, Goto
    <3>2. Become(w, k)
      BY <2>3 DEF DeletedGetParty
    <3> HIDE DEF k
    <3> QED BY <3>1, <3>2
  <2>4. CASE DeleteGet(w) \/ DeleteDrop(w)
    <3>1. \/ Become(w, NoJob) \/ Become(w, Goto(j, "delete.get"))
          \/ Become(w, Goto(j, "delete.drop"))
      BY <2>4 DEF DeleteGet, DeleteDrop, Forget, GetCharacter
    <3> QED BY <2>1, <2>2, <3>1
  <2> QED BY <2>3, <2>4
<1> QED BY <1>1, <1>2, <1>3, <1>4, PassingBy DEF Special, Closing, Leaving, Disbanding, Entering

LEMMA ViewsQuietly ==
  ASSUME Serial, ServiceInv, SerialInv, CommandInv, NEW w \in Workers, NEW j, j = job[w],
         ViewGet(w) \/ ViewMember(w)
  PROVE  Steadily(w, j)
<1>1. /\ JobOK(j) /\ CommandOK(j) /\ j.pc \in {"view", "view.member"}
  BY Working DEF CommandInv, ViewGet, ViewMember, At
<1>2. j.op # "CHANGE_LEADER" /\ NoJob.op = "none" /\ NoJob.pc = "idle"
  BY <1>1 DEF CommandOK, AppointOK, NoJob
<1>3. CASE ViewGet(w)
  <2>1. PICK list : Become(w, IF list = EmptyMap THEN NoJob
                              ELSE [Goto(j, "view.member") EXCEPT !.todo = list])
    BY <1>3 DEF ViewGet
  <2> DEFINE next == [Goto(j, "view.member") EXCEPT !.todo = list]
  <2>2. next.op = j.op /\ next.pc = "view.member"
    BY <1>1 DEF JobOK, Fields, Goto
  <2>3. Become(w, NoJob) \/ Become(w, next)
    BY <2>1
  <2> HIDE DEF next
  <2>4. PICK k : Become(w, k) /\ k.op \in {j.op, "none"} /\ k.pc \in {"idle", "view.member"}
    BY <1>2, <2>2, <2>3
  <2>5. UNCHANGED Books
    BY <1>1, <1>3 DEF ViewGet, registryVars, Books
  <2> QED BY <1>1, <1>2, <2>4, <2>5, PassingBy DEF Special, Closing, Leaving, Disbanding, Entering
<1>4. CASE ViewMember(w)
  <2>1. PICK c \in DOMAIN j.todo :
          GetById(w, c, IF BagRemove(j.todo, c) = EmptyMap THEN NoJob
                        ELSE [j EXCEPT !.todo = BagRemove(j.todo, c)], NoJob)
    BY <1>4 DEF ViewMember
  <2>2. PICK found : /\ JobOK(found) /\ found.op \in {j.op, "none"}
                     /\ found.pc \in {"idle", "view.member"} /\ GetById(w, c, found, NoJob)
    <3> DEFINE next == [j EXCEPT !.todo = BagRemove(j.todo, c)]
    <3>1. JobOK(next) /\ next.op = j.op /\ next.pc = j.pc
      BY <1>1, Noted DEF JobOK, Fields
    <3>2. GetById(w, c, NoJob, NoJob) \/ GetById(w, c, next, NoJob)
      BY <2>1
    <3>3. j.pc = "view.member"
      BY <1>4 DEF ViewMember, At
    <3> HIDE DEF next
    <3> QED BY <1>2, <3>1, <3>2, <3>3, NoJobOK
  <2>3. j.pc \in Lookups
    BY <1>4 DEF ViewMember, At, Lookups
  <2>4. NoJob.pc \notin Special /\ found.pc \notin Special
    BY <1>2, <2>2 DEF Special, Closing, Leaving, Disbanding, Entering
  <2> QED BY <1>1, <1>2, <2>2, <2>3, <2>4, PlainLookup
<1> QED BY <1>3, <1>4

LEMMA ReturnCommand ==
  ASSUME Serial, ServiceInv, SerialInv, CommandInv, NEW w \in Workers, NEW j, j = job[w],
         Return(w)
  PROVE  Steadily(w, j)
<1>1. /\ JobOK(j) /\ CommandOK(j) /\ j.pc = "return"
  BY Working DEF CommandInv, Return, At
<1>2. UNCHANGED Books
  BY <1>1 DEF Return, registryVars, Books
<1>3. PICK k : /\ Become(w, k) /\ k.op \in {"DELETED", "none"} /\ k.pc \in {"delete", "idle"}
               /\ k.op \in {j.op, "none"}
  <2>1. /\ NoJob.op = "none" /\ NoJob.pc = "idle"
        /\ Job("DELETED", "delete", j.actor, NoParty, j.chr).op = "DELETED"
        /\ Job("DELETED", "delete", j.actor, NoParty, j.chr).pc = "delete"
    BY DEF NoJob, Job
  <2>2. \/ Become(w, Job("DELETED", "delete", j.actor, NoParty, j.chr)) /\ j.op = "DELETED"
        \/ Become(w, NoJob)
    BY DEF Return
  <2> QED BY <2>1, <2>2
<1>4. Settled' /\ ~Ending(j)
  BY <1>1, <1>2, Settling DEF Closing, Leaving, Disbanding, Ending
<1>5. CommandOK(k)' /\ ~Ending(k)
  BY <1>1, <1>3, <1>4, NotAppointing, Passing DEF Special, Closing, Leaving, Disbanding, Entering
<1> QED BY <1>2, <1>3, <1>4, <1>5 DEF Steadily

-----------------------------------------------------------------------------
(* Messages, deletions and restarts.                                       *)

LEMMA CommandLanded ==
  ASSUME Serial, JobsOK, NEW w \in Workers, NEW k, Become(w, k), CommandOK(k)'
  PROVE  CommandInv'
<1>1. \A v \in Workers : job'[v] = k
  BY DEF Serial, JobsOK, Become
<1> QED BY <1>1
  DEF CommandInv, CommandOK, CreationOK, AppointOK, InviteOK, PartingOK, BuiltOK, Ending

LEMMA ReceiveCommand ==
  ASSUME Serial, ServiceInv, SerialInv, CommandInv, NEW w \in Workers, NEW j, j = job[w],
         NEW k \in Incoming, Receive(w, k)
  PROVE  Steadily(w, j)
<1>1. j.pc = "idle" /\ CommandOK(j) /\ Become(w, k) /\ k.op \in Serves[w]
  BY DEF CommandInv, Receive, Idle, NoJob
<1>2. UNCHANGED Books
  BY DEF Receive, registryVars, Books, CommandInv
<1>3. Settled' /\ ~Ending(j)
  BY <1>1, <1>2, Settling DEF Closing, Leaving, Disbanding, Ending
<1>4. /\ k.pc \in {"create", "join", "leave", "lead", "view", "invite", "deleted", "map"}
      /\ k.op = "CHANGE_LEADER" => k.pc = "lead"
      /\ k.op = "REQUEST_INVITE" <=> k.pc = "invite"
  BY Messages
<1>5. Unforced => k.op # "EXPEL"
  BY <1>1 DEF Unforced
<1>6. CreationOK(k)' /\ AppointOK(k)' /\ InviteOK(k)' /\ PartingOK(k)'
  BY <1>3, <1>4
  DEF CreationOK, AppointOK, InviteOK, PartingOK, Settled, Entering, Disbanding
<1>7. BuiltOK(k)'
  BY <1>3, <1>5 DEF BuiltOK, Settled, AllSound
<1>8. ~Ending(k)
  BY <1>4 DEF Ending
<1> QED BY <1>1, <1>2, <1>3, <1>6, <1>7, <1>8 DEF Steadily, CommandOK

\* Nothing changes but what the character service says.
LEMMA VanishCommand ==
  ASSUME CommandInv, UNCHANGED <<Books, charReg, job, invites>>
  PROVE  CommandInv'
<1>2. ASSUME NEW v \in Workers
      PROVE  CommandOK(job[v])'
  <2>1. PICK j : j = job[v]
    OBVIOUS
  <2>2. CommandOK(j)' /\ job'[v] = j
    BY <2>1, Refetched DEF CommandInv
  <2> QED BY <2>2 DEF CommandOK, CreationOK, AppointOK, InviteOK, PartingOK, BuiltOK, Ending
<1> QED BY <1>2 DEF CommandInv

BlankBooks ==
  /\ partyReg = EmptyMap /\ creating = {}
  /\ \A w \in Workers : job[w] = NoJob

LEMMA BlankCommand == BlankBooks => CommandInv
<1> SUFFICES ASSUME BlankBooks
             PROVE  CommandInv
  OBVIOUS
<1>1. NoJob.op = "none" /\ NoJob.pc = "idle"
  BY DEF NoJob
<1>2. PICK n : n = NoJob
  OBVIOUS
<1>3. CommandOK(n)
  BY <1>1, <1>2
  DEF BlankBooks, CommandOK, CreationOK, AppointOK, InviteOK, PartingOK, BuiltOK, EmptyMap,
      Entering, Disbanding
<1> QED BY <1>2, <1>3 DEF BlankBooks, CommandInv

-----------------------------------------------------------------------------
(* What a command makes of a party.                                        *)

LEMMA UpdatedParty ==
  ASSUME RegistryInv, NEW p \in DOMAIN partyReg, NEW c \in Characters
  PROVE  LET m == partyReg[p]
         IN  /\ Updated(p, Adding(c)).leader = m.leader
             /\ Updated(p, Removing(c)).leader = m.leader
             /\ Updated(p, Appointing(c)).leader = c
             /\ Updated(p, Appointing(c)).members = m.members
             /\ c \notin Members(m) /\ Sound(m) => Sound(Updated(p, Adding(c)))
             /\ c # m.leader /\ Sound(m) => Sound(Updated(p, Removing(c)))
             /\ c \in Members(m) /\ Sound(m) => Sound(Updated(p, Appointing(c)))
<1>1. PICK m : m = partyReg[p] /\ IsParty(m) /\ Lookup(p) = m
  BY DEF RegistryInv, RegistryTypeOK, Lookup
<1>2. /\ Updated(p, Adding(c)).members = BagAdd(m.members, c)
      /\ Updated(p, Removing(c)).members = BagRemoveAll(m.members, c)
      /\ Updated(p, Appointing(c)).members = m.members
      /\ Updated(p, Adding(c)).leader = m.leader
      /\ Updated(p, Removing(c)).leader = m.leader
      /\ Updated(p, Appointing(c)).leader = c
  BY <1>1
  DEF Updated, Apply, Adding, Removing, Appointing, AddMember, RemoveMember, SetLeader, IsParty
<1>3. /\ Members(Updated(p, Adding(c))) = Members(m) \cup {c}
      /\ Members(Updated(p, Removing(c))) = Members(m) \ {c}
      /\ Members(Updated(p, Appointing(c))) = Members(m)
  BY <1>1, UpdatedMembers
<1>4. ASSUME c \notin Members(m), Sound(m)
      PROVE  Sound(Updated(p, Adding(c)))
  <2>1. /\ \A d \in Members(m) : BagAdd(m.members, c)[d] = m.members[d]
        /\ BagAdd(m.members, c)[c] = 1
    BY <1>4 DEF BagAdd, Members
  <2> QED BY <1>2, <1>3, <1>4, <2>1 DEF Sound
<1>5. ASSUME c # m.leader, Sound(m)
      PROVE  Sound(Updated(p, Removing(c)))
  <2>1. \A d \in Members(m) \ {c} : BagRemoveAll(m.members, c)[d] = m.members[d]
    BY DEF BagRemoveAll, Members
  <2> QED BY <1>2, <1>3, <1>5, <2>1 DEF Sound
<1>6. ASSUME c \in Members(m), Sound(m)
      PROVE  Sound(Updated(p, Appointing(c)))
  BY <1>2, <1>3, <1>6 DEF Sound
<1> QED BY <1>1, <1>2, <1>4, <1>5, <1>6

\* A member is listed at least once.
LEMMA MembersFit ==
  ASSUME NEW m, IsParty(m), IsFiniteSet(Members(m)), Fits(m)
  PROVE  Cardinality(Members(m)) <= Capacity
<1> DEFINE S == UNION {{c} \X (1..m.members[c]) : c \in Members(m)}
           T == Members(m) \X {1}
<1>1. T \subseteq S
  BY DEF IsParty, IsMemberList, Members
<1>2. IsFiniteSet(S)
  BY FiniteEntries DEF IsParty, Members
<1>3. Cardinality(T) = Cardinality(Members(m)) /\ Cardinality(Members(m)) \in Nat
  <2>1. IsFiniteSet({1}) /\ Cardinality({1}) = 1
    BY FS_Singleton
  <2>2. Cardinality(Members(m)) \in Nat
    BY FS_CardinalityType
  <2>3. Cardinality(T) = Cardinality(Members(m)) * Cardinality({1})
    BY <2>1, FS_Product
  <2> QED BY <2>1, <2>2, <2>3
<1> HIDE DEF S, T
<1>4. Cardinality(T) \in Nat /\ Cardinality(S) \in Nat /\ Cardinality(T) <= Cardinality(S)
  BY <1>1, <1>2, FS_Subset, FS_CardinalityType
<1>5. Size(m) = Cardinality(S)
  BY DEF S, Size
<1> QED BY <1>3, <1>4, <1>5, CapacityAssumption DEF Fits

-----------------------------------------------------------------------------
(***************************************************************************)
(* The roster of the abstract specification, before and after a step.      *)
(***************************************************************************)
TheRoster ==
  [p \in Listed |-> [leader |-> partyReg[p].leader, members |-> Members(partyReg[p])]]
TheUsed == StartPartyId..tenantPartyId \ {m.id : m \in creating}

\* A step of the roster, or none.
PromiseStep == Promise!RosterNext \/ UNCHANGED <<TheRoster, TheUsed>>

\* The one job at work says which party is being ended.
LEMMA Shown ==
  ASSUME Serial, Registries, NEW w \in Workers, NEW j, j = job[w]
  PROVE  Listed = {p \in DOMAIN partyReg : ~(p = j.pid /\ Ending(j))}
<1>1. Workers = {w}
  BY DEF Serial
<1>2. Live = DOMAIN partyReg
  BY DEF Registries, Owned, Live
<1> QED BY <1>1, <1>2 DEF Listed

LEMMA ShownNext ==
  ASSUME Serial, JobsOK, Registries', NEW w \in Workers, NEW k, Become(w, k)
  PROVE  Listed' = {p \in DOMAIN partyReg' : ~(p = k.pid /\ Ending(k))}
<1>1. Workers = {w} /\ job'[w] = k
  BY DEF Serial, JobsOK, Become
<1>2. Live' = DOMAIN partyReg'
  BY DEF Registries, Owned, Live
<1> QED BY <1>1, <1>2 DEF Listed, Ending

LEMMA RosterNow ==
  /\ DOMAIN TheRoster = Listed
  /\ \A p \in Listed : /\ TheRoster[p].leader = partyReg[p].leader
                       /\ TheRoster[p].members = Members(partyReg[p])
  BY DEF TheRoster

LEMMA RosterNext ==
  TheRoster' = [p \in Listed' |-> [leader |-> partyReg'[p].leader,
                                   members |-> Members(partyReg'[p])]]
  BY DEF TheRoster, Members

\* Nobody sees a change of what is not listed.
LEMMA RosterSame ==
  ASSUME Listed' = Listed,
         \A p \in Listed : /\ partyReg'[p].leader = partyReg[p].leader
                           /\ Members(partyReg'[p]) = Members(partyReg[p])
  PROVE  UNCHANGED TheRoster
  BY RosterNext DEF TheRoster

\* The abstract specification counts as this one does.
LEMMA SameCount == \A S : Promise!Cardinality(S) = Cardinality(S)
  BY DEF Promise!Cardinality, Cardinality

LEMMA SteadyStep ==
  ASSUME Serial, ServiceInv, SerialInv, SerialInv', NEW w \in Workers, NEW j, j = job[w],
         Steadily(w, j)
  PROVE  CommandInv' /\ PromiseStep
<1>1. PICK k : /\ Become(w, k) /\ UNCHANGED Books /\ CommandOK(k)'
               /\ Ending(k) <=> Ending(j)
               /\ Ending(j) => k.pid = j.pid
  BY DEF Steadily
<1>2. Listed' = Listed
  BY <1>1, Shown, ShownNext DEF ServiceInv, SerialInv, Books
<1>3. UNCHANGED TheRoster
  BY <1>1, <1>2, RosterSame DEF Books
<1> QED BY <1>1, <1>3, CommandLanded DEF PromiseStep, TheUsed, Books, ServiceInv

-----------------------------------------------------------------------------
(* The steps that change the roster, and those that change the books only. *)

LEMMA NoneYet ==
  ASSUME Registries, RegistryInv, tenantPartyId = 0
  PROVE  partyReg = EmptyMap
<1>1. Live = {}
  BY PartyIdsAssumption DEF RegistryInv, UniqueIds
<1>2. DOMAIN partyReg = {}
  BY <1>1 DEF Live, Registries, Owned
<1> QED BY <1>2 DEF RegistryInv, RegistryTypeOK, EmptyMap

LEMMA CreateAllocateCommand ==
  ASSUME Serial, ServiceInv, SerialInv, CommandInv, SerialInv', NEW w \in Workers,
         NEW j, j = job[w], CreateAllocate(w)
  PROVE  CommandInv' /\ PromiseStep
<1>1. /\ JobOK(j) /\ JobSerial(j) /\ CommandOK(j) /\ j.pc = "create.alloc"
      /\ Registries /\ RegistryInv
  BY Working DEF SerialInv, ServiceInv, CommandInv, CreateAllocate, At
<1>2. j.op \in Creators /\ Settled /\ ~Ending(j)
  BY <1>1, Settling DEF JobSerial, CreateOK, Closing, Leaving, Disbanding, Ending
<1> DEFINE n == NextId
<1>3. /\ tenantPartyId' = n
      /\ creating' = creating \cup {NewParty(n, j.actor)}
      /\ partyReg' = IF tenantPartyId = 0 THEN EmptyMap ELSE partyReg
      /\ UNCHANGED invites
  BY DEF CreateAllocate, AllocatePartyId
<1>4. UNCHANGED partyReg
  BY <1>1, <1>3, NoneYet
<1>5. creating' = {NewParty(n, j.actor)} /\ NewParty(n, j.actor).id = n
  BY <1>2, <1>3 DEF Settled, NewParty
<1>6. PICK k : /\ Become(w, k) /\ k.pc = "create.store" /\ k.op = j.op /\ k.actor = j.actor
               /\ k.chr = j.chr /\ k.party = NewParty(n, j.actor) /\ UNCHANGED charReg
  <2> DEFINE k == [Goto(j, "create.store") EXCEPT !.party = NewParty(n, j.actor)]
  <2>1. /\ k.pc = "create.store" /\ k.op = j.op /\ k.actor = j.actor
        /\ k.chr = j.chr /\ k.party = NewParty(n, j.actor)
    BY <1>1 DEF JobOK, Fields, Goto
  <2>2. Become(w, k) /\ UNCHANGED charReg
    BY DEF CreateAllocate
  <2> HIDE DEF k
  <2> QED BY <2>1, <2>2
<1>7. CommandOK(k)' /\ ~Ending(k)
  <2>1. k.op # "CHANGE_LEADER" /\ (Unforced => k.op # "EXPEL")
    BY <1>2, <1>6 DEF Creators
  <2>2. Rec(j.chr)' = Rec(j.chr)
    BY <1>6 DEF Rec, Character, Cached
  <2>3. InviteOK(k)'
    BY <1>1, <1>6, <2>2 DEF CommandOK, InviteOK
  <2> QED BY <1>2, <1>4, <1>5, <1>6, <2>1, <2>3
          DEF CommandOK, CreationOK, AppointOK, PartingOK, BuiltOK, Settled, AllSound,
              Entering, Disbanding, Ending
<1>9. Listed' = Listed
  BY <1>1, <1>2, <1>4, <1>6, <1>7, Shown, ShownNext DEF ServiceInv, SerialInv
<1>10. UNCHANGED TheRoster
  BY <1>4, <1>9, RosterSame
<1>11. UNCHANGED TheUsed
  <2>1. n = IF tenantPartyId = 0 THEN StartPartyId ELSE tenantPartyId + 1
    BY DEF NextId
  <2>2. tenantPartyId \in Nat /\ StartPartyId \in Nat \ {0}
    BY <1>1, PartyIdsAssumption DEF RegistryInv, RegistryTypeOK
  <2>3. tenantPartyId = 0 \/ tenantPartyId >= StartPartyId
    BY <1>1 DEF RegistryInv, CounterStarts
  <2>4. StartPartyId..n \ {n} = StartPartyId..tenantPartyId
    BY <2>1, <2>2, <2>3
  <2>5. {m.id : m \in creating} = {} /\ {m.id : m \in creating'} = {n}
    BY <1>2, <1>5 DEF Settled
  <2> QED BY <1>3, <2>4, <2>5 DEF TheUsed
<1> QED BY <1>6, <1>7, <1>10, <1>11, CommandLanded DEF PromiseStep, ServiceInv

\* Create takes effect when it stores the party.
LEMMA CreateStoreCommand ==
  ASSUME Serial, ServiceInv, SerialInv, CommandInv, SerialInv', NEW w \in Workers,
         NEW j, j = job[w], CreateStore(w)
  PROVE  CommandInv' /\ PromiseStep
<1>1. /\ JobOK(j) /\ JobSerial(j) /\ CommandOK(j) /\ j.pc = "create.store"
      /\ Registries /\ RegistryInv /\ AllSame
  BY Working, Calm
  DEF SerialInv, ServiceInv, CommandInv, CreateStore, At, Entering, Leaving, Disbanding
<1>2. PICK m : m = j.party
  OBVIOUS
<1>3. /\ j.op \in Creators /\ j.actor \in Characters /\ Rec(j.actor) = NoParty
      /\ m = NewParty(m.id, j.actor) /\ m.id \in PartyIds /\ creating = {m} /\ ~Ending(j)
  BY <1>1, <1>2 DEF JobSerial, CreateOK, CommandOK, CreationOK, JobOK, Ending
<1>4. /\ m.leader = j.actor /\ Members(m) = {j.actor} /\ Sound(m)
  <2>1. m.leader = j.actor /\ m.members = BagAdd(EmptyMap, j.actor)
    BY <1>3 DEF NewParty
  <2>2. DOMAIN m.members = {j.actor} /\ m.members[j.actor] = 1
    BY <2>1 DEF BagAdd, EmptyMap
  <2> QED BY <2>1, <2>2 DEF Members, Sound
<1>5. /\ creating' = {} /\ UNCHANGED <<tenantPartyId, invites>>
      /\ partyReg' = Put(partyReg, m.id, m)
  BY <1>2, <1>3 DEF CreateStore, StoreParty
<1>6. m.id \notin Live /\ m.id \in StartPartyId..tenantPartyId
  BY <1>1, <1>3 DEF RegistryInv, UniqueIds
<1>7. m.id \notin DOMAIN partyReg
  BY <1>1, <1>6 DEF Registries, Owned, Live
<1>8. /\ DOMAIN partyReg' = DOMAIN partyReg \cup {m.id} /\ partyReg'[m.id] = m
      /\ \A p \in DOMAIN partyReg : partyReg'[p] = partyReg[p]
  BY <1>5, <1>7 DEF Put
<1>9. PICK k : /\ Become(w, k) /\ k.pc = "enter" /\ k.op = j.op /\ k.party = m
               /\ k.actor = j.actor /\ k.chr = j.chr /\ UNCHANGED charReg
  <2> DEFINE k == Buffered(Goto(j, "enter"), Event("CREATED", j.party.id, j.actor))
  <2>1. /\ k.pc = "enter" /\ k.op = j.op /\ k.party = m
        /\ k.actor = j.actor /\ k.chr = j.chr
    BY <1>1, <1>2 DEF JobOK, Fields, Goto, Buffered
  <2>2. Become(w, k) /\ UNCHANGED charReg
    BY DEF CreateStore
  <2> HIDE DEF k
  <2> QED BY <2>1, <2>2
<1>10. CommandOK(k)' /\ ~Ending(k)
  <2>1. k.op # "CHANGE_LEADER" /\ k.op # "EXPEL" /\ ~Ending(k)
    BY <1>3, <1>9 DEF Creators, Ending
  <2>2. Unforced => \A p \in DOMAIN partyReg' : Sound(partyReg'[p])
    BY <1>1, <1>3, <1>4, <1>8 DEF CommandOK, BuiltOK
  <2>3. BuiltOK(k)'
    BY <2>1, <2>2 DEF BuiltOK
  <2>4. Rec(j.chr)' = Rec(j.chr)
    BY <1>9 DEF Rec, Character, Cached
  <2>5. InviteOK(k)'
    BY <1>1, <1>4, <1>8, <1>9, <2>4 DEF CommandOK, InviteOK
  <2> QED BY <1>5, <1>9, <2>1, <2>3, <2>5
          DEF CommandOK, CreationOK, AppointOK, PartingOK, Entering, Disbanding
<1>12. Listed = DOMAIN partyReg /\ Listed' = Listed \cup {m.id}
  BY <1>1, <1>3, <1>8, <1>9, <1>10, Shown, ShownNext DEF ServiceInv, SerialInv
<1>13. Promise!Found(j.actor, m.id)
  <2>1. \A p \in Listed : j.actor \notin Members(partyReg[p])
    BY <1>1, <1>3, <1>12 DEF Registries, Owned, Indexed, AllSame, Same
  <2>2. TheUsed' = TheUsed \cup {m.id} /\ m.id \notin TheUsed
    <3>1. {n.id : n \in creating} = {m.id} /\ {n.id : n \in creating'} = {}
      BY <1>3, <1>5
    <3> QED BY <1>5, <1>6, <3>1 DEF TheUsed
  <2>3. TheRoster' = Put(TheRoster, m.id, [leader |-> j.actor, members |-> {j.actor}])
    BY <1>4, <1>7, <1>8, <1>12, RosterNext, RosterNow DEF Put, TheRoster
  <2> QED BY <2>1, <2>2, <2>3, RosterNow
          DEF Promise!Found, Promise!Unattached, Promise!Put, Put, TheRoster, TheUsed
<1>14. Promise!RosterNext
  BY <1>3, <1>13 DEF Promise!RosterNext
<1> QED BY <1>9, <1>10, <1>14, CommandLanded DEF PromiseStep, ServiceInv

\* An update of the party p of the registry.
LEMMA Stored ==
  ASSUME NEW p \in DOMAIN partyReg, NEW u, UpdateParty(p, u)
  PROVE  /\ DOMAIN partyReg' = DOMAIN partyReg /\ partyReg'[p] = Updated(p, u)
         /\ \A q \in DOMAIN partyReg \ {p} : partyReg'[q] = partyReg[q]
         /\ UNCHANGED <<tenantPartyId, creating>> /\ Fits(Updated(p, u))
  BY DEF UpdateParty, Put

\* Join takes effect when the character is added to the party.
LEMMA JoinAddCommand ==
  ASSUME Serial, ServiceInv, SerialInv, CommandInv, SerialInv', NEW w \in Workers,
         NEW j, j = job[w], JoinAdd(w)
  PROVE  CommandInv' /\ PromiseStep
<1>1. /\ JobOK(j) /\ JobSerial(j) /\ CommandOK(j) /\ j.pc = "join.add" /\ j.chr \in Characters
      /\ Registries /\ RegistryInv /\ AllSame /\ j.pid \in PartyIds
  BY Working, Calm
  DEF SerialInv, ServiceInv, CommandInv, JoinAdd, At, Resting, Entering, Leaving, Disbanding
<1>2. /\ Joins(j) /\ Rec(j.chr) = NoParty /\ j.pid \in DOMAIN partyReg /\ ~Ending(j) /\ Settled
  BY <1>1, Settling DEF JobSerial, JoinOK, Ending, Closing, Leaving, Disbanding
<1> DEFINE u == Adding(j.chr)
           done == [Goto(j, "enter") EXCEPT !.party = Updated(j.pid, u)]
<1>3. UNCHANGED invites
      /\ \/ UpdateParty(j.pid, u) /\ Become(w, done)
         \/ Become(w, Fail(j)) /\ UNCHANGED registryVars
  BY DEF JoinAdd, SetParty
<1>5. done.pc = "enter" /\ done.op = j.op /\ done.pid = j.pid
  BY <1>1 DEF JobOK, Fields, Goto
<1> HIDE DEF done
<1>6. CASE Become(w, Fail(j)) /\ UNCHANGED registryVars
  <2>1. UNCHANGED Books /\ j.op # "CHANGE_LEADER" /\ Fail(j).pc \notin Special
        /\ Fail(j).op = j.op
    BY <1>1, <1>2, <1>6, Stopped
    DEF registryVars, Books, Joins, Special, Closing, Leaving, Disbanding, Entering
  <2> QED BY <1>1, <1>6, <2>1, PassingBy, SteadyStep DEF Closing, Leaving, Disbanding
<1>7. CASE UpdateParty(j.pid, u) /\ Become(w, done)
  <2>1. PICK m : m = Updated(j.pid, u)
    OBVIOUS
  <2>2. /\ DOMAIN partyReg' = DOMAIN partyReg /\ partyReg'[j.pid] = m /\ Fits(m)
        /\ \A q \in DOMAIN partyReg \ {j.pid} : partyReg'[q] = partyReg[q]
        /\ UNCHANGED <<tenantPartyId, creating>>
    BY <1>2, <1>7, <2>1, Stored
  <2>3. PICK k : Become(w, k) /\ k.pc = "enter" /\ k.op = j.op /\ k.pid = j.pid
    BY <1>5, <1>7
  <2>4. ~Ending(k) /\ k.op # "CHANGE_LEADER" /\ k.op # "EXPEL" /\ k.op \notin Creators
        /\ k.op # "REQUEST_INVITE"
    BY <1>2, <2>3 DEF Ending, Joins, Creators
  <2>5. Listed = DOMAIN partyReg /\ Listed' = Listed
    BY <1>1, <1>2, <2>2, <2>3, <2>4, Shown, ShownNext DEF ServiceInv, SerialInv
  <2>6. \A p \in DOMAIN partyReg : j.chr \notin Members(partyReg[p])
    BY <1>1, <1>2 DEF Registries, Owned, Indexed, AllSame, Same
  <2>7. /\ Members(m) = Members(partyReg[j.pid]) \cup {j.chr}
        /\ m.leader = partyReg[j.pid].leader
        /\ Sound(partyReg[j.pid]) => Sound(m)
    BY <1>1, <1>2, <2>1, <2>6, UpdatedMembers, UpdatedParty
  <2>8. CommandOK(k)'
    <3>1. Unforced => \A p \in DOMAIN partyReg' : Sound(partyReg'[p])
      BY <1>2, <2>2, <2>7 DEF Settled, AllSound
    <3>2. BuiltOK(k)'
      BY <2>4, <3>1 DEF BuiltOK
    <3> QED BY <1>2, <2>2, <2>3, <2>4, <3>2
            DEF CommandOK, CreationOK, AppointOK, InviteOK, PartingOK, Settled, Entering, Disbanding
  <2>9. Cardinality(Members(partyReg[j.pid])) < Capacity
    <3>1. IsParty(partyReg[j.pid]) /\ IsParty(m)
      BY <1>1, <1>2, <2>1, AppliedParty, IsUpdater
      DEF RegistryInv, RegistryTypeOK, Updated, Lookup
    <3>2. IsFiniteSet(Members(partyReg[j.pid])) /\ IsFiniteSet(Members(m))
      BY <3>1, FS_Subset DEF Serial, IsParty, IsMemberList, Members
    <3>3. Cardinality(Members(m)) <= Capacity
      BY <2>2, <3>1, <3>2, MembersFit
    <3>4. Cardinality(Members(m)) = Cardinality(Members(partyReg[j.pid])) + 1
      BY <1>2, <2>6, <2>7, <3>2, FS_AddElement
    <3>5. Cardinality(Members(partyReg[j.pid])) \in Nat
      BY <3>2, FS_CardinalityType
    <3> QED BY <3>3, <3>4, <3>5, CapacityAssumption
  <2>10. Promise!Enter(j.chr, j.pid)
    <3>1. TheRoster' = [TheRoster EXCEPT ![j.pid].members = @ \cup {j.chr}]
      BY <1>2, <2>2, <2>5, <2>7, RosterNext DEF TheRoster
    <3>2. UNCHANGED TheUsed
      BY <2>2 DEF TheUsed
    <3>3. Promise!Unattached(j.chr)
      BY <2>5, <2>6, RosterNow DEF Promise!Unattached, TheRoster
    <3>4. Cardinality(TheRoster[j.pid].members) < Capacity
      BY <1>2, <2>5, <2>9, RosterNow
    <3> QED BY <3>1, <3>2, <3>3, <3>4, SameCount DEF Promise!Enter, TheRoster, TheUsed
  <2>11. Promise!RosterNext
    BY <1>1, <1>2, <2>5, <2>10, RosterNow DEF Promise!RosterNext, TheRoster
  <2> QED BY <2>3, <2>8, <2>11, CommandLanded DEF PromiseStep, ServiceInv
<1> QED BY <1>3, <1>6, <1>7

\* Leave and Expel take effect when the character is removed from the party.
LEMMA LeaveRemoveCommand ==
  ASSUME Serial, ServiceInv, SerialInv, CommandInv, SerialInv', NEW w \in Workers,
         NEW j, j = job[w], LeaveRemove(w)
  PROVE  CommandInv' /\ PromiseStep
<1>1. /\ JobOK(j) /\ JobSerial(j) /\ CommandOK(j) /\ j.pc = "leave.remove"
      /\ j.chr \in Characters /\ j.pid \in PartyIds
      /\ Registries /\ RegistryInv /\ AllSame
  BY Working, Calm
  DEF SerialInv, ServiceInv, CommandInv, LeaveRemove, At, Resting, Entering, Leaving, Disbanding
<1>2. /\ Rec(j.chr) = j.pid /\ j.pid \in DOMAIN partyReg /\ ~Ending(j) /\ Settled
      /\ j.op # "CHANGE_LEADER" /\ (Unforced => j.op # "EXPEL")
      /\ j.disband <=> (j.op # "EXPEL" /\ partyReg[j.pid].leader = j.chr)
  BY <1>1, Settling
  DEF JobSerial, LeaveOK, CommandOK, AppointOK, BuiltOK, PartingOK, Ending, Closing, Leaving,
      Disbanding
<1> DEFINE u == Removing(j.chr)
<1>3. PICK m : m = Updated(j.pid, u)
  OBVIOUS
<1> DEFINE done == [Goto(j, "leave.get") EXCEPT !.party = m, !.todo = m.members]
<1>4. UNCHANGED invites /\ UpdateParty(j.pid, u) /\ Become(w, done)
  <2>1. Fits(Updated(j.pid, u))
    BY <1>1, <1>2, RemovalFits DEF Serial
  <2> QED BY <1>3, <2>1 DEF LeaveRemove, SetParty
<1>6. /\ DOMAIN partyReg' = DOMAIN partyReg /\ partyReg'[j.pid] = m
      /\ \A q \in DOMAIN partyReg \ {j.pid} : partyReg'[q] = partyReg[q]
      /\ UNCHANGED <<tenantPartyId, creating>>
  BY <1>2, <1>3, <1>4, Stored
<1>7. PICK k : /\ Become(w, k) /\ k.pc = "leave.get" /\ k.op = j.op /\ k.pid = j.pid
               /\ k.party = m /\ k.disband = j.disband
  <2>1. /\ done.pc = "leave.get" /\ done.op = j.op /\ done.pid = j.pid
        /\ done.party = m /\ done.disband = j.disband
    BY <1>1 DEF JobOK, Fields, Goto
  <2> HIDE DEF done
  <2> QED BY <1>4, <2>1
<1>8. Ending(k) <=> (j.disband \/ (j.op = "EXPEL" /\ Members(m) = {}))
  BY <1>7 DEF Ending
<1>9. /\ Members(m) = Members(partyReg[j.pid]) \ {j.chr}
      /\ m.leader = partyReg[j.pid].leader
      /\ j.chr # m.leader /\ Sound(partyReg[j.pid]) => Sound(m)
  BY <1>1, <1>2, <1>3, UpdatedMembers, UpdatedParty
<1>10. j.chr \in Members(partyReg[j.pid])
  BY <1>1, <1>2 DEF Registries, Indexed, AllSame, Same
<1>11. CommandOK(k)'
  <2>1. BuiltOK(k)'
    <3> SUFFICES ASSUME Unforced
                 PROVE  /\ k.op # "EXPEL"
                        /\ \A p \in DOMAIN partyReg' : Sound(partyReg'[p]) \/ (p = k.pid /\ Ending(k))
      BY DEF BuiltOK
    <3>1. Sound(m) \/ Ending(k)
      BY <1>2, <1>8, <1>9 DEF Settled, AllSound
    <3> QED BY <1>2, <1>6, <1>7, <3>1 DEF Settled, AllSound
  <2> QED BY <1>2, <1>6, <1>7, <2>1
          DEF CommandOK, CreationOK, AppointOK, InviteOK, PartingOK, Settled, Entering, Disbanding
<1>12. /\ Listed = DOMAIN partyReg
       /\ Listed' = {p \in Listed : ~(p = j.pid /\ Ending(k))}
  <2>1. Listed = DOMAIN partyReg
    BY <1>1, <1>2, Shown
  <2>2. JobsOK /\ Registries'
    BY DEF ServiceInv, SerialInv
  <2>3. Listed' = {p \in DOMAIN partyReg : ~(p = j.pid /\ Ending(k))}
    BY <1>6, <1>7, <2>2, ShownNext
  <2> QED BY <2>1, <2>3
<1>13. UNCHANGED TheUsed
  BY <1>6 DEF TheUsed
<1>14. CASE j.disband
  <2>1. TheRoster' = DeleteKeys(TheRoster, {j.pid})
    BY <1>6, <1>8, <1>12, <1>14, RosterNext DEF TheRoster, DeleteKeys
  <2>2. Promise!Dissolve(j.pid)
    BY <1>2, <1>10, <1>12, <1>13, <1>14, <2>1, RosterNow
    DEF Promise!Dissolve, Promise!DeleteKeys, DeleteKeys, TheRoster, TheUsed
  <2> QED BY <1>2, <1>7, <1>11, <1>12, <2>2, RosterNow, CommandLanded
          DEF PromiseStep, Promise!RosterNext, TheRoster, ServiceInv
<1>15. CASE j.op = "EXPEL"
  <2>1. ~j.disband
    BY <1>2, <1>15
  <2>2. Ending(k) <=> Members(partyReg[j.pid]) = {j.chr}
    BY <1>8, <1>9, <1>10, <1>15, <2>1
  <2>3. TheRoster' = IF Members(partyReg[j.pid]) = {j.chr} THEN DeleteKeys(TheRoster, {j.pid})
                     ELSE [TheRoster EXCEPT ![j.pid].members = @ \ {j.chr}]
    <3>1. CASE Ending(k)
      BY <1>6, <1>12, <2>2, <3>1, RosterNext DEF TheRoster, DeleteKeys
    <3>2. CASE ~Ending(k)
      BY <1>2, <1>6, <1>9, <1>12, <2>2, <3>2, RosterNext DEF TheRoster
    <3> QED BY <3>1, <3>2
  <2>4. Promise!Expel(j.chr, j.pid)
    BY <1>2, <1>10, <1>12, <1>13, <2>3, RosterNow
    DEF Promise!Expel, Promise!DeleteKeys, DeleteKeys, TheRoster, TheUsed
  <2> QED BY <1>1, <1>2, <1>7, <1>11, <1>12, <2>4, RosterNow, CommandLanded
          DEF PromiseStep, Promise!RosterNext, TheRoster, ServiceInv
<1>16. CASE ~j.disband /\ j.op # "EXPEL"
  <2>1. ~Ending(k) /\ partyReg[j.pid].leader # j.chr
    BY <1>2, <1>8, <1>16
  <2>2. TheRoster' = [TheRoster EXCEPT ![j.pid].members = @ \ {j.chr}]
    BY <1>2, <1>6, <1>9, <1>12, <2>1, RosterNext DEF TheRoster
  <2>3. Promise!Withdraw(j.chr, j.pid)
    BY <1>2, <1>10, <1>12, <1>13, <2>1, <2>2, RosterNow
    DEF Promise!Withdraw, TheRoster, TheUsed
  <2> QED BY <1>1, <1>2, <1>7, <1>11, <1>12, <2>3, RosterNow, CommandLanded
          DEF PromiseStep, Promise!RosterNext, TheRoster, ServiceInv
<1> QED BY <1>14, <1>15, <1>16

\* The party that Remove takes out has left the roster before.
LEMMA RemoveCommand ==
  ASSUME Serial, ServiceInv, SerialInv, CommandInv, SerialInv', NEW w \in Workers,
         NEW j, j = job[w], RemoveDisbanded(w) \/ RemoveEmptied(w)
  PROVE  CommandInv' /\ PromiseStep
<1>1. /\ JobOK(j) /\ CommandOK(j) /\ j.pc \in {"disband", "expel.remove"}
      /\ Registries
  BY Working DEF SerialInv, CommandInv, RemoveDisbanded, RemoveEmptied, At
<1>2. Ending(j) /\ j.op # "CHANGE_LEADER" /\ creating = {}
  BY <1>1 DEF CommandOK, CreationOK, AppointOK, PartingOK, Ending, Disbanding
<1>3. /\ partyReg' = DeleteKeys(partyReg, {j.pid})
      /\ UNCHANGED <<tenantPartyId, creating, invites>>
  BY DEF RemoveDisbanded, RemoveEmptied, RemoveParty
<1>4. /\ DOMAIN partyReg' = DOMAIN partyReg \ {j.pid}
      /\ \A p \in DOMAIN partyReg' : partyReg'[p] = partyReg[p]
  BY <1>3 DEF DeleteKeys
<1>5. PICK k : Become(w, k) /\ k.pc = "return" /\ k.op = j.op
  <2>1. \A x : Done(Buffered(j, x)).pc = "return" /\ Done(Buffered(j, x)).op = j.op
    BY <1>1 DEF Done, Goto, Buffered, JobOK, Fields
  <2> QED BY <1>1, <2>1, Stopped DEF RemoveDisbanded, RemoveEmptied
<1>6. ~Ending(k)
  BY <1>5 DEF Ending
<1>7. CommandOK(k)'
  <2>1. BuiltOK(k)'
    BY <1>1, <1>4, <1>5 DEF CommandOK, BuiltOK
  <2> QED BY <1>2, <1>3, <1>5, <2>1
          DEF CommandOK, CreationOK, AppointOK, InviteOK, PartingOK, Entering, Disbanding
<1>9. Listed' = Listed /\ Listed = DOMAIN partyReg'
  <2>1. Listed = {p \in DOMAIN partyReg : ~(p = j.pid /\ Ending(j))}
    BY <1>1, Shown
  <2>2. Listed' = {p \in DOMAIN partyReg' : ~(p = k.pid /\ Ending(k))}
    BY <1>5, ShownNext DEF ServiceInv, SerialInv
  <2> QED BY <1>2, <1>4, <1>6, <2>1, <2>2
<1>10. UNCHANGED <<TheRoster, TheUsed>>
  BY <1>3, <1>4, <1>9, RosterSame DEF TheUsed
<1> QED BY <1>5, <1>7, <1>10, CommandLanded DEF PromiseStep, ServiceInv

\* ChangeLeader takes effect when it sets the leader, which no capacity refuses.
LEMMA LeadSetCommand ==
  ASSUME Serial, ServiceInv, SerialInv, CommandInv, SerialInv', NEW w \in Workers,
         NEW j, j = job[w], LeadSet(w)
  PROVE  CommandInv' /\ PromiseStep
<1>1. /\ JobOK(j) /\ JobSerial(j) /\ CommandOK(j) /\ j.pc = "lead.set" /\ j.chr \in Characters
      /\ Registries /\ RegistryInv /\ AllSame /\ j.pid \in PartyIds
  BY Working, Calm
  DEF SerialInv, ServiceInv, CommandInv, LeadSet, At, Resting, Entering, Leaving, Disbanding
<1> ZeroVacant'
  BY DEF SerialInv, Registries, Owned, ZeroVacant
<1>2. /\ Rec(j.chr) = j.pid /\ j.pid \in DOMAIN partyReg /\ ~Ending(j) /\ Settled
      /\ (Unforced => j.op # "EXPEL")
  BY <1>1, Settling, LeadsParty
  DEF CommandOK, AppointOK, BuiltOK, Ending, Closing, Leaving, Disbanding
<1>3. PICK m : m = Updated(j.pid, Appointing(j.chr))
  OBVIOUS
<1>4. j.chr \in Members(partyReg[j.pid])
  BY <1>1, <1>2 DEF Registries, Indexed, AllSame, Same
<1>5. /\ Members(m) = Members(partyReg[j.pid]) /\ m.members = partyReg[j.pid].members
      /\ m.leader = j.chr
      /\ Sound(partyReg[j.pid]) => Sound(m)
  BY <1>1, <1>2, <1>3, <1>4, UpdatedMembers, UpdatedParty
<1>6. Fits(m)
  BY <1>1, <1>2, <1>5 DEF RegistryInv, WithinCapacity, Fits, Size
<1> DEFINE done == Done(Buffered(j, Event("CHANGE_LEADER", m.id, j.chr)))
<1>7. UNCHANGED invites /\ UpdateParty(j.pid, Appointing(j.chr)) /\ Become(w, done)
  BY <1>3, <1>6 DEF LeadSet, SetParty
<1>8. /\ DOMAIN partyReg' = DOMAIN partyReg /\ partyReg'[j.pid] = m
      /\ \A q \in DOMAIN partyReg \ {j.pid} : partyReg'[q] = partyReg[q]
      /\ UNCHANGED <<tenantPartyId, creating>>
  BY <1>2, <1>3, <1>7, Stored
<1>9. PICK k : Become(w, k) /\ k.pc = "return" /\ k.op = j.op /\ k.pid = j.pid /\ k.chr = j.chr
  <2>1. done.pc = "return" /\ done.op = j.op /\ done.pid = j.pid /\ done.chr = j.chr
    BY <1>1 DEF Done, Goto, Buffered, JobOK, Fields
  <2> HIDE DEF done
  <2> QED BY <1>7, <2>1
<1>10. ~Ending(k)
  BY <1>9 DEF Ending
<1>11. CommandOK(k)'
  <2>1. Unforced => \A p \in DOMAIN partyReg' : Sound(partyReg'[p])
    BY <1>2, <1>5, <1>8 DEF Settled, AllSound
  <2>2. BuiltOK(k)'
    BY <1>2, <1>9, <2>1 DEF BuiltOK
  <2>3. AppointOK(k)'
    BY <1>2, <1>5, <1>8, <1>9 DEF AppointOK
  <2> QED BY <1>2, <1>8, <1>9, <2>2, <2>3
          DEF CommandOK, CreationOK, InviteOK, PartingOK, Settled, Entering, Disbanding
<1>13. Listed = DOMAIN partyReg /\ Listed' = Listed
  BY <1>1, <1>2, <1>8, <1>9, <1>10, Shown, ShownNext DEF ServiceInv, SerialInv
<1>14. Promise!Promote(j.chr, j.pid)
  <2>1. TheRoster' = [TheRoster EXCEPT ![j.pid].leader = j.chr]
    BY <1>2, <1>5, <1>8, <1>13, RosterNext DEF TheRoster
  <2>2. UNCHANGED TheUsed
    BY <1>8 DEF TheUsed
  <2> QED BY <1>2, <1>4, <1>13, <2>1, <2>2, RosterNow DEF Promise!Promote, TheRoster, TheUsed
<1>15. Promise!RosterNext
  BY <1>1, <1>2, <1>13, <1>14, RosterNow DEF Promise!RosterNext, TheRoster
<1> QED BY <1>9, <1>11, <1>15, CommandLanded DEF PromiseStep, ServiceInv

-----------------------------------------------------------------------------
(* The second invariant, and what follows from it.                         *)

LEMMA WorkCommand ==
  ASSUME Serial, ServiceInv, SerialInv, CommandInv, SerialInv', NEW w \in Workers, Work(w)
  PROVE  CommandInv' /\ PromiseStep
<1>1. PICK j : j = job[w]
  OBVIOUS
<1>2. CASE CreateAllocate(w) \/ CreateStore(w) \/ JoinAdd(w) \/ LeaveRemove(w)
  BY <1>1, <1>2, CreateAllocateCommand, CreateStoreCommand, JoinAddCommand, LeaveRemoveCommand
<1>3. CASE RemoveDisbanded(w) \/ RemoveEmptied(w) \/ LeadSet(w)
  BY <1>1, <1>3, RemoveCommand, LeadSetCommand
<1>4. CASE CreateCheck(w) \/ EnterCheck(w) \/ EnterSet(w) \/ JoinCheck(w) \/ JoinGetParty(w)
  BY <1>1, <1>4, SteadyStep, CreateCheckCommand, EnterCheckCommand, EnterSetCommand, JoinsQuietly
<1>5. CASE LeaveCheck(w) \/ LeaveGetParty(w) \/ LeaveGet(w) \/ LeaveClear(w)
  BY <1>1, <1>5, SteadyStep, LeaveCheckCommand, LeaveGetPartyCommand, LeaveGetCommand,
     LeaveClearCommand
<1>6. CASE DisbandGet(w) \/ DisbandClear(w) \/ LeadGetActor(w) \/ LeadCheck(w)
  BY <1>1, <1>6, SteadyStep, DisbandGetCommand, DisbandClearCommand, LeadGetActorCommand,
     LeadCheckCommand
<1>7. CASE InviteGetActor(w) \/ InviteCheck(w) \/ InviteGetParty(w) \/ InviteSend(w)
  BY <1>1, <1>7, SteadyStep, InviteGetActorCommand, InviteCheckCommand, InviteEndsCommand
<1>8. CASE MapGet(w) \/ MapSet(w) \/ DeletedGetParty(w) \/ DeleteGet(w) \/ DeleteDrop(w)
  BY <1>1, <1>8, SteadyStep, MapsQuietly, DeletesQuietly
<1>9. CASE ViewGet(w) \/ ViewMember(w) \/ Return(w)
  BY <1>1, <1>9, SteadyStep, ViewsQuietly, ReturnCommand
<1>10. ~JoinUndo(w) /\ ~LeaveUndo(w) /\ ~DeleteLeaveGet(w) /\ ~DeleteLeaveClear(w)
  BY JoinUndoSerial
<1> QED BY <1>2, <1>3, <1>4, <1>5, <1>6, <1>7, <1>8, <1>9, <1>10 DEF Work

\* What is left when no handler moves.
LEMMA Unmoved ==
  ASSUME CommandInv, UNCHANGED <<Books, charReg, job, invites>>
  PROVE  CommandInv' /\ PromiseStep
<1>1. Listed' = Listed
  BY DEF Listed, Live, Ending, Books
<1>2. UNCHANGED TheRoster
  BY <1>1, RosterSame DEF Books
<1> QED BY <1>2, VanishCommand DEF PromiseStep, TheUsed, Books

LEMMA CommandStep ==
  ASSUME Serial, ServiceInv, SerialInv, CommandInv, SerialInv', [Next]_vars
  PROVE  CommandInv' /\ (~Restarts => PromiseStep)
<1>1. CASE \E w \in Workers : Work(w)
  BY <1>1, WorkCommand
<1>2. CASE \E w \in Workers : \E j \in Incoming : Receive(w, j)
  <2>1. PICK w \in Workers, k \in Incoming : Receive(w, k)
    BY <1>2
  <2>2. PICK j : j = job[w]
    OBVIOUS
  <2> QED BY <2>1, <2>2, ReceiveCommand, SteadyStep
<1>3. CASE (\E c \in Mortal : Vanish(c)) \/ UNCHANGED vars
  BY <1>3, Unmoved DEF Vanish, vars, serviceVars, registryVars, Books
<1>4. CASE Restart
  <2>1. BlankBooks'
    BY <1>4 DEF Restart, BlankBooks, CommandInv
  <2>2. BlankBooks' => CommandInv'
    BY BlankCommand, PTL
  <2> QED BY <1>4, <2>1, <2>2 DEF Restart
<1> QED BY <1>1, <1>2, <1>3, <1>4 DEF Next

LEMMA CommandInvariant ==
  ASSUME Serial
  PROVE  Spec /\ []ZeroVacant => [](SerialInv /\ CommandInv)
<1>1. Init => CommandInv
  <2>1. Init => BlankBooks
    BY DEF Init, RegistryInit, BlankBooks
  <2> QED BY <2>1, BlankCommand
<1>2. ServiceInv /\ SerialInv /\ SerialInv' /\ CommandInv /\ [Next]_vars => CommandInv'
  BY CommandStep
<1> QED BY <1>1, <1>2, ServiceInvariant, SerialInvariant, PTL DEF Spec

\* With one handler at a time, each command changes the roster of parties in one step or
\* not at all, although it updates the two registries call by call and tests its
\* conditions on what earlier calls returned; nobody is ever in two parties.
THEOREM SerialImplementsRoster ==
  ASSUME Serial, ~Restarts
  PROVE  Spec /\ []ZeroVacant => ImplementsRoster
<1>1. Init => Promise!RosterInit
  <2> SUFFICES ASSUME Init
               PROVE  Promise!RosterInit
    OBVIOUS
  <2>1. Listed = {} /\ StartPartyId..tenantPartyId = {}
    BY PartyIdsAssumption DEF Init, RegistryInit, Listed, Live, EmptyMap
  <2>2. TheRoster = EmptyMap /\ TheUsed = {}
    BY <2>1 DEF TheRoster, TheUsed, EmptyMap
  <2> QED BY <2>2 DEF Promise!RosterInit, Promise!EmptyMap, EmptyMap, TheRoster, TheUsed
<1>2. /\ ServiceInv /\ SerialInv /\ CommandInv /\ SerialInv' /\ [Next]_vars
      => [Promise!RosterNext]_(Promise!rosterVars)
  BY CommandStep DEF PromiseStep, Promise!rosterVars, TheRoster, TheUsed
<1> QED BY <1>1, <1>2, ServiceInvariant, CommandInvariant, PTL
        DEF Spec, ImplementsRoster, Promise!RosterSpec

\* A PATCH that names a member of the party appoints it, although the command is sent in
\* the name of actor 0, whom nobody knows, and although the record of the new leader is
\* read twice before the party is updated.
THEOREM SerialPatchAppoints ==
  ASSUME Serial
  PROVE  Spec /\ []ZeroVacant => []PatchAppoints
<1>1. ServiceInv /\ SerialInv /\ CommandInv => PatchAppoints
  <2> SUFFICES ASSUME ServiceInv, SerialInv, CommandInv, NEW w \in Workers, NEW j, j = job[w],
                      j.op = "CHANGE_LEADER", At(w, "return"), MemberOf(j.chr, j.pid)
               PROVE  partyReg[j.pid].leader = j.chr
    BY DEF PatchAppoints
  <2>1. j.pc = "return" /\ JobSerial(j) /\ CommandOK(j) /\ j.chr \in Characters /\ Registries
    BY Working DEF At, SerialInv, CommandInv, Resting
  <2>2. AllSame
    BY <2>1, Calm DEF Entering, Leaving, Disbanding
  <2>3. j.pid \in DOMAIN partyReg /\ j.chr \in Members(partyReg[j.pid]) /\ j.pid # NoParty
    BY <2>1 DEF MemberOf, Live, Registries, Owned
  <2>4. Rec(j.chr) = j.pid
    BY <2>1, <2>2, <2>3 DEF Registries, Indexed, AllSame, Same
  <2> QED BY <2>1, <2>3, <2>4 DEF CommandOK, AppointOK
<1> QED BY <1>1, ServiceInvariant, CommandInvariant, PTL

\* Without forced leaves, between two messages, every stored party is one the builder
\* would have built: its leader is a member, and nobody is listed twice, although the
\* registry and the processor never use the builder.
THEOREM SerialPartiesBuildable ==
  ASSUME Serial, Unforced
  PROVE  Spec /\ []ZeroVacant => []PartiesBuildable
<1>1. ServiceInv /\ SerialInv /\ CommandInv => PartiesBuildable
  <2> SUFFICES ASSUME ServiceInv, SerialInv, CommandInv, AllIdle, NEW p \in Live
               PROVE  Buildable(partyReg[p])
    BY DEF PartiesBuildable
  <2>1. PICK w \in Workers : job[w].pc = "idle" /\ CommandOK(job[w])
    BY DEF Serial, CommandInv, AllIdle, Idle, NoJob
  <2>2. Sound(partyReg[p])
    BY <2>1, Settling DEF Settled, AllSound, Live, Closing, Leaving, Disbanding
  <2>3. Members(partyReg[p]) \subseteq Characters
    BY DEF ServiceInv, RegistryInv, RegistryTypeOK, IsParty, IsMemberList, Members, Live
  <2> QED BY <2>2, <2>3, CharactersAssumption DEF Buildable, Sound, Live
<1> QED BY <1>1, ServiceInvariant, CommandInvariant, PTL

\* A handler about to invite does nothing else.
LEMMA OnlyInvites ==
  ASSUME NEW w, Work(w), job[w].pc = "invite.send"
  PROVE  InviteSend(w)
<1>1. /\ ~CreateCheck(w) /\ ~CreateAllocate(w) /\ ~CreateStore(w)
      /\ ~JoinCheck(w) /\ ~JoinGetParty(w) /\ ~JoinAdd(w) /\ ~JoinUndo(w)
  BY DEF At, CreateCheck, CreateAllocate, CreateStore, JoinCheck, JoinGetParty, JoinAdd, JoinUndo
<1>2. /\ ~EnterCheck(w) /\ ~EnterSet(w)
      /\ ~LeaveCheck(w) /\ ~LeaveGetParty(w) /\ ~LeaveRemove(w)
      /\ ~LeaveGet(w) /\ ~LeaveClear(w) /\ ~LeaveUndo(w)
  BY DEF At, EnterCheck, EnterSet, LeaveCheck, LeaveGetParty, LeaveRemove, LeaveGet, LeaveClear,
         LeaveUndo
<1>3. /\ ~DisbandGet(w) /\ ~DisbandClear(w) /\ ~RemoveDisbanded(w) /\ ~RemoveEmptied(w)
      /\ ~LeadGetActor(w) /\ ~LeadCheck(w) /\ ~LeadSet(w)
  BY DEF At, DisbandGet, DisbandClear, RemoveDisbanded, RemoveEmptied, LeadGetActor, LeadCheck,
         LeadSet
<1>4. /\ ~InviteGetActor(w) /\ ~InviteCheck(w) /\ ~InviteGetParty(w) /\ ~MapGet(w) /\ ~MapSet(w)
  BY DEF At, InviteGetActor, InviteCheck, InviteGetParty, MapGet, MapSet
<1>5. /\ ~DeletedGetParty(w) /\ ~DeleteGet(w) /\ ~DeleteLeaveGet(w) /\ ~DeleteLeaveClear(w)
      /\ ~DeleteDrop(w) /\ ~ViewGet(w) /\ ~ViewMember(w) /\ ~Return(w)
  BY DEF At, DeletedGetParty, DeleteGet, DeleteLeaveGet, DeleteLeaveClear, DeleteDrop, ViewGet,
         ViewMember, Return
<1> QED BY <1>1, <1>2, <1>3, <1>4, <1>5 DEF Work

\* Put returns nil to a handler that ends, and the handler that refuses has put something.
LEMMA InvitesOrRefuses ==
  ASSUME NEW j, JobTyped(j)
  PROVE  Refuse(j) # Done(j)
<1>1. PICK b \in Seq(Events) : b = j.buf
  BY DEF JobTyped, FieldsTyped
<1>2. PICK e \in Events : e = Event("ERROR", j.pid, j.chr)
  BY EventTyped DEF JobTyped, FieldsTyped, EventTypes
<1>3. Refuse(j).buf = Append(b, e) /\ Done(j).buf = b
  BY <1>1, <1>2 DEF JobTyped, FieldsTyped, Fields, Refuse, Done, Goto, Buffered
<1>4. Len(Append(b, e)) = Len(b) + 1 /\ Len(b) \in Nat
  BY <1>1, <1>2
<1> QED BY <1>3, <1>4

\* With one handler at a time an invitation could be accepted the moment it is sent: its
\* party is stored and has room, the inviter is a member of it and the invited character in
\* no party, whether the party was found by the inviter's record or created for the
\* invitation.
THEOREM SerialInvitationsAcceptable ==
  ASSUME Serial
  PROVE  Spec /\ []ZeroVacant => InvitationsAcceptable
<1> DEFINE Acceptable(j) == /\ j.actor # NoCharacter /\ MemberOf(j.actor, j.party.id)
                            /\ Size(Lookup(j.party.id)) < Capacity
                            /\ j.chr # j.actor => PartyOf(j.chr).id = NoParty
<1>1. ASSUME TypedInv, SerialInv, CommandInv, Next, NEW w \in Workers, NEW j, j = job[w],
             At(w, "invite.send"), job'[w] = Done(j)
      PROVE  Acceptable(j)
  <2>1. /\ JobOK(j) /\ JobTyped(j) /\ JobSerial(j) /\ CommandOK(j) /\ j.pc = "invite.send"
        /\ Registries /\ ServiceInv
    BY <1>1, Working DEF TypedInv, JobsTyped, SerialInv, CommandInv, At
  <2>2. AllSame
    BY <2>1, Calm DEF Entering, Leaving, Disbanding
  <2>3. j.op = "REQUEST_INVITE" /\ j.actor \in Characters /\ j.chr \in Characters
    BY <2>1 DEF CommandOK, InviteOK, JobOK, Busy, Creators
  <2>4. Done(j).pc = "return"
    BY <2>1 DEF Done, Goto, JobOK, Fields
  <2>5. Work(w)
    <3>1. ~\E k \in Incoming : Receive(w, k)
      BY <1>1, <2>1 DEF Receive, Idle, NoJob
    <3>2. ~Restart
      <4>1. NoJob.pc = "idle"
        BY DEF NoJob
      <4> QED BY <1>1, <2>4, <4>1 DEF Restart
    <3>3. ~\E c \in Mortal : Vanish(c)
      BY <1>1, <2>1, <2>4 DEF Vanish
    <3>4. Workers = {w}
      BY <1>1 DEF Serial
    <3> QED BY <1>1, <3>1, <3>2, <3>3, <3>4 DEF Next
  <2>6. InviteSend(w)
    BY <1>1, <2>1, <2>5, OnlyInvites
  <2>7. Size(j.party) < Capacity
    <3>1. job'[w] = Refuse(j) => FALSE
      BY <1>1, <2>1, InvitesOrRefuses
    <3>2. \A k : Become(w, k) => job'[w] = k
      BY <2>1 DEF ServiceInv, JobsOK, Become
    <3> QED BY <1>1, <2>6, <3>1, <3>2 DEF InviteSend
  <2>8. PICK p : p = j.party.id
    OBVIOUS
  <2>9. /\ p \in DOMAIN partyReg /\ partyReg[p] = j.party /\ j.actor \in Members(j.party)
        /\ j.chr # j.actor => Rec(j.chr) = NoParty
    BY <2>1, <2>3, <2>8 DEF CommandOK, InviteOK
  <2>10. MemberOf(j.actor, p) /\ Lookup(p) = j.party
    BY <2>1, <2>9 DEF MemberOf, Live, Lookup, Registries, Owned
  <2>11. j.chr # j.actor => PartyOf(j.chr).id = NoParty
    <3>1. PartyOf(j.chr).id = Idx(j.chr)
      BY <2>1, <2>3 DEF Registries, Owned, Indexed, PartyOf, Lookup, Idx, ZeroParty
    <3> QED BY <2>2, <2>3, <2>9, <3>1 DEF AllSame, Same
  <2> QED BY <2>3, <2>7, <2>8, <2>10, <2>11, CharactersAssumption
<1>2. TypedInv /\ SerialInv /\ CommandInv /\ [Next]_vars
      => [\A w \in Workers :
            LET j == job[w]
            IN  At(w, "invite.send") /\ job'[w] = Done(j) => Acceptable(j)]_vars
  <2> HIDE DEF Acceptable
  <2> QED BY <1>1
<1> QED BY <1>2, TypedInvariant, CommandInvariant, PTL DEF Spec, InvitationsAcceptable

-----------------------------------------------------------------------------
(***************************************************************************)
(* A third invariant: what who follows the published events holds, and     *)
(* what the buffer of the handler at work will add to it.                  *)
(***************************************************************************)

\* Where a registry has been updated and no event of it been buffered yet.
Untold(j) == j.pc \in Leaving \cup Disbanding \/ (j.pc \in Entering /\ Joins(j))

\* What a follower will hold once the handler has returned.
Heard(j) == IF j.err THEN mirror ELSE Follow(mirror, j.buf)
Told(j) == \A c \in Characters : Heard(j)[c] = Idx(c)

\* At most one event waits in a buffer that will be published.  A party that has just been
\* created has room for the invitation it was created for.
BufferOK(j) ==
  /\ j.err => j.pc = "return"
  /\ j.err \/ j.buf = <<>> \/ \E e : j.buf = <<e>>
  /\ j.buf # <<>> =>
       \/ j.pc \in {"return", "expel.remove"}
       \/ j.pc \in Entering \cup {"invite.send"} /\ ~Joins(j) /\ Size(j.party) \in {0, 1}

MirrorOK(j) ==
  /\ BufferOK(j)
  /\ Untold(j) => j.party.id = j.pid /\ \A c \in Characters \ {j.chr} : mirror[c] = Idx(c)
  /\ j.pc \in Leaving \cup Disbanding => mirror[j.chr] = j.pid /\ Idx(j.chr) = NoParty
  /\ ~Untold(j) => Told(j)

MirrorInv ==
  /\ DOMAIN mirror = Characters
  /\ \A w \in Workers : MirrorOK(job[w])

\* Nothing is lost on the way to the followers, nothing forgotten, and there is room for
\* two in a party.
Faithful == ~LossyBroker /\ ~Restarts /\ Capacity > 1

-----------------------------------------------------------------------------
(* The events of a buffer, in order.                                       *)

LEMMA Folded ==
  ASSUME NEW view, NEW seq, DOMAIN seq \in {{}, {1}}
  PROVE  Follow(view, seq) = IF DOMAIN seq = {} THEN view ELSE Learn(view, seq[1])
<1> DEFINE P(g) == g = [s \in SUBSET DOMAIN seq |->
                          IF s = {} THEN view ELSE Learn(g[s \ {Max(s)}], seq[Max(s)])]
           it == CHOOSE g : P(g)
<1>1. Follow(view, seq) = it[DOMAIN seq]
  BY DEF Follow, FoldLeft, MapThenFoldSet
<1>2. \E g : P(g)
  <2> DEFINE h == [s \in SUBSET DOMAIN seq |-> IF s = {} THEN view ELSE Learn(view, seq[1])]
  <2>1. \A s \in SUBSET DOMAIN seq : s = {} \/ (s = {1} /\ Max(s) = 1)
    BY DEF Max
  <2>2. P(h)
    BY <2>1
  <2> QED BY <2>2
<1>3. P(it)
  BY <1>2
<1>4. PICK g : P(g) /\ Follow(view, seq) = g[DOMAIN seq]
  BY <1>1, <1>3
<1>5. Max({1}) = 1
  BY DEF Max
<1>6. g[{}] = view
  BY <1>4
<1>7. CASE DOMAIN seq = {1}
  <2>1. g[{1}] = Learn(g[{1} \ {Max({1})}], seq[Max({1})])
    BY <1>4, <1>7
  <2>2. {1} \ {Max({1})} = {}
    BY <1>5
  <2> QED BY <1>4, <1>5, <1>6, <1>7, <2>1, <2>2
<1> QED BY <1>4, <1>6, <1>7

LEMMA Hearing ==
  ASSUME NEW k
  PROVE  /\ k.err \/ k.buf = <<>> => Heard(k) = mirror
         /\ \A e : ~k.err /\ k.buf = <<e>> => Heard(k) = Learn(mirror, e)
<1>1. k.buf = <<>> => Follow(mirror, k.buf) = mirror
  <2>1. DOMAIN <<>> = {}
    OBVIOUS
  <2>2. Follow(mirror, <<>>) = mirror
    BY <2>1, Folded
  <2> QED BY <2>2
<1>2. ASSUME NEW e, k.buf = <<e>>
      PROVE  Follow(mirror, k.buf) = Learn(mirror, e)
  <2>1. DOMAIN <<e>> = {1} /\ <<e>>[1] = e
    OBVIOUS
  <2>2. Follow(mirror, <<e>>) = Learn(mirror, e)
    BY <2>1, Folded
  <2> QED BY <1>2, <2>2
<1> QED BY <1>1, <1>2 DEF Heard

\* What each event makes of the view of a follower.
LEMMA Learnt ==
  ASSUME NEW view, DOMAIN view = Characters, NEW e, NEW d \in Characters
  PROVE  /\ e.type \in {"CREATED", "JOINED"} => Learn(view, e)[d] = IF d = e.chr THEN e.pid ELSE view[d]
         /\ e.type \in {"LEFT", "EXPEL"} => Learn(view, e)[d] = IF d = e.chr THEN NoParty ELSE view[d]
         /\ e.type = "DISBAND" =>
              Learn(view, e)[d] = IF view[d] = e.pid THEN NoParty ELSE view[d]
         /\ e.type \in {"ERROR", "CHANGE_LEADER"} => Learn(view, e) = view
         /\ e.type \in {"CREATED", "JOINED", "LEFT", "EXPEL", "DISBAND", "ERROR", "CHANGE_LEADER"} =>
              DOMAIN Learn(view, e) = Characters
  BY DEF Learn


-----------------------------------------------------------------------------
(* Steps that tell nothing because there is nothing to tell.               *)

Agreed == \A c \in Characters : mirror[c] = Idx(c)

\* A job with no news in its buffer.
Uneventful(k) ==
  /\ DOMAIN k = Fields /\ ~Untold(k)
  /\ \/ k.err /\ k.pc = "return"
     \/ ~k.err /\ k.buf = <<>>
     \/ /\ ~k.err /\ \E e : k.buf = <<e>> /\ e.type \in {"ERROR", "CHANGE_LEADER"}
        /\ k.pc = "return" \/ (k.pc = "invite.send" /\ ~Joins(k) /\ Size(k.party) \in {0, 1})

LEMMA NoNews ==
  ASSUME DOMAIN mirror = Characters, Agreed, NEW k, Uneventful(k)
  PROVE  MirrorOK(k)
<1>1. BufferOK(k) /\ ~Untold(k) /\ k.pc \notin Leaving \cup Disbanding
  BY DEF Uneventful, BufferOK, Untold
<1>2. Heard(k) = mirror
  <2>1. CASE k.err \/ k.buf = <<>>
    BY <2>1, Hearing
  <2>2. CASE ~k.err /\ \E e : k.buf = <<e>> /\ e.type \in {"ERROR", "CHANGE_LEADER"}
    <3>1. PICK e : k.buf = <<e>> /\ e.type \in {"ERROR", "CHANGE_LEADER"}
      BY <2>2
    <3>2. Heard(k) = Learn(mirror, e)
      BY <2>2, <3>1, Hearing
    <3>3. Learn(mirror, e) = mirror
      BY <3>1 DEF Learn
    <3> QED BY <3>2, <3>3
  <2> QED BY <2>1, <2>2 DEF Uneventful
<1> QED BY <1>1, <1>2 DEF MirrorOK, Told, Agreed

\* Where a buffer is empty and every change has been told.
LEMMA UpToDate ==
  ASSUME NEW j, MirrorOK(j), ~Untold(j),
         j.pc \notin Entering \cup {"return", "expel.remove", "invite.send"}
  PROVE  Agreed /\ ~j.err /\ j.buf = <<>>
<1>1. ~j.err /\ j.buf = <<>>
  BY DEF MirrorOK, BufferOK
<1> QED BY <1>1, Hearing DEF MirrorOK, Told, Agreed

LEMMA MirrorSame ==
  ASSUME UNCHANGED mirror, \A c \in Characters : Idx(c)' = Idx(c), NEW k, MirrorOK(k),
         k.pc \in Leaving \cup Disbanding => k.chr \in Characters
  PROVE  MirrorOK(k)'
<1>1. Heard(k)' = Heard(k)
  BY DEF Heard
<1> QED BY <1>1 DEF MirrorOK, BufferOK, Untold, Told, Joins

LEMMA MirrorLanded ==
  ASSUME Serial, JobsOK, NEW w \in Workers, NEW k, Become(w, k), MirrorOK(k)',
         DOMAIN mirror' = Characters
  PROVE  MirrorInv'
<1>1. \A v \in Workers : job'[v] = k
  BY DEF Serial, JobsOK, Become
<1> QED BY <1>1 DEF MirrorInv, MirrorOK, BufferOK, Untold, Told, Heard, Joins

LEMMA MirrorKept ==
  ASSUME Serial, ServiceInv, MirrorInv, UNCHANGED mirror, \A c \in Characters : Idx(c)' = Idx(c),
         NEW w \in Workers, NEW k, Become(w, k), MirrorOK(k),
         k.pc \in Leaving \cup Disbanding => k.chr \in Characters
  PROVE  MirrorInv'
  BY MirrorSame, MirrorLanded DEF MirrorInv, ServiceInv

Quiescent == {"idle", "create", "create.alloc", "create.store", "join", "join.party", "join.add",
  "leave", "leave.party", "leave.remove", "lead", "lead.chr", "lead.set", "invite", "invite.chr",
  "invite.party", "map", "map.set", "deleted", "delete", "delete.drop", "view", "view.member"}

\* Where a handler has changed nothing yet, or has told all it changed.
LEMMA Rumourless ==
  ASSUME ServiceInv, MirrorInv, NEW w \in Workers, NEW j, j = job[w], j.pc \in Quiescent
  PROVE  /\ JobOK(j) /\ MirrorOK(j) /\ DOMAIN mirror = Characters
         /\ Agreed /\ ~j.err /\ j.buf = <<>> /\ ~Untold(j)
<1>1. JobOK(j) /\ MirrorOK(j) /\ DOMAIN mirror = Characters
  BY Working DEF MirrorInv
<1>2. ~Untold(j) /\ j.pc \notin Entering \cup {"return", "expel.remove", "invite.send"}
  BY DEF Quiescent, Untold, Entering, Leaving, Disbanding
<1> QED BY <1>1, <1>2, UpToDate

LEMMA PlainMirror ==
  ASSUME Serial, ServiceInv, MirrorInv, NEW w \in Workers, NEW j, j = job[w], j.pc \in Quiescent,
         UNCHANGED mirror, \A c \in Characters : Idx(c)' = Idx(c),
         NEW k, Become(w, k), Uneventful(k)
  PROVE  MirrorInv'
<1>1. MirrorOK(k) /\ ~Untold(k)
  BY Rumourless, NoNews DEF Uneventful
<1> QED BY <1>1, MirrorKept DEF Untold

LEMMA Endings ==
  ASSUME NEW j, JobOK(j), j.buf = <<>>, ~j.err
  PROVE  /\ Uneventful(Refuse(j)) /\ Uneventful(Fail(j)) /\ Uneventful(Done(j))
         /\ \A pc : pc \notin Entering \cup Leaving \cup Disbanding =>
              /\ Uneventful(Goto(j, pc))
              /\ \A v : Uneventful([Goto(j, pc) EXCEPT !.rec = v])
<1>1. \A k : k.pc = "return" => ~Untold(k)
  BY DEF Untold, Entering, Leaving, Disbanding
<1>2. Uneventful(Refuse(j))
  BY <1>1 DEF Uneventful, Refuse, Done, Goto, Buffered, JobOK, Fields
<1>3. Uneventful(Fail(j))
  <2>1. PICK e : e = Event("ERROR", j.pid, j.chr)
    OBVIOUS
  <2>2. e.type = "ERROR"
    BY <2>1 DEF Event
  <2>3. /\ DOMAIN Fail(j) = Fields /\ Fail(j).err = j.err /\ Fail(j).pc = "return"
        /\ Fail(j).buf = Append(j.buf, e)
    BY <2>1 DEF Fail, Done, Goto, Buffered, JobOK, Fields
  <2>4. Append(<<>>, e) = <<e>>
    OBVIOUS
  <2> QED BY <1>1, <2>2, <2>3, <2>4 DEF Uneventful
<1>4. Uneventful(Done(j))
  BY <1>1 DEF Uneventful, Done, Goto, JobOK, Fields
<1>5. ASSUME NEW pc, pc \notin Entering \cup Leaving \cup Disbanding
      PROVE  /\ Uneventful(Goto(j, pc))
             /\ \A v : Uneventful([Goto(j, pc) EXCEPT !.rec = v])
  <2>1. ASSUME NEW k, DOMAIN k = Fields, k.pc = pc, k.err = j.err, k.buf = j.buf
        PROVE  Uneventful(k)
    BY <1>5, <2>1 DEF Uneventful, Untold
  <2>2. /\ DOMAIN Goto(j, pc) = Fields /\ Goto(j, pc).pc = pc /\ Goto(j, pc).err = j.err
        /\ Goto(j, pc).buf = j.buf
    BY DEF Goto, JobOK, Fields
  <2>3. ASSUME NEW v
        PROVE  Uneventful([Goto(j, pc) EXCEPT !.rec = v])
    <3>1. PICK k : k = [Goto(j, pc) EXCEPT !.rec = v]
      OBVIOUS
    <3>2. DOMAIN k = Fields /\ k.pc = pc /\ k.err = j.err /\ k.buf = j.buf
      BY <2>2, <3>1 DEF Fields
    <3> QED BY <2>1, <3>1, <3>2
  <2> QED BY <2>1, <2>2, <2>3
<1> QED BY <1>2, <1>3, <1>4, <1>5

\* A lookup tells nothing, whatever comes of it.
LEMMA LookupMirror ==
  ASSUME Serial, ServiceInv, MirrorInv, NEW w \in Workers, NEW j, j = job[w],
         j.pc \in Lookups, NEW c, NEW found, NEW failed, GetById(w, c, found, failed),
         Uneventful(found), Uneventful(failed)
  PROVE  MirrorInv'
<1>1. j.pc \in Quiescent
  BY DEF Lookups, Quiescent
<1>2. JobOK(j) /\ ~j.err /\ j.buf = <<>> /\ ~Untold(j)
  BY <1>1, Rumourless
<1>3. UNCHANGED mirror /\ \A d \in Characters : Idx(d)' = Idx(d)
  BY DEF GetById, registryVars, Idx
<1>4. \E k : Become(w, k) /\ Uneventful(k)
  <2>1. CASE Become(w, found) \/ Become(w, failed)
    BY <2>1
  <2>2. CASE \E map \in Maps : Become(w, [j EXCEPT !.fetched = Fresh(c, map)])
    <3>1. PICK k : Become(w, k) /\ \E m : k = [j EXCEPT !.fetched = m]
      BY <2>2
    <3>2. DOMAIN k = Fields /\ k.pc = j.pc /\ k.op = j.op /\ k.err = j.err /\ k.buf = j.buf
      BY <1>2, <3>1 DEF JobOK, Fields
    <3>3. Uneventful(k)
      BY <1>2, <3>2 DEF Uneventful, Untold, Joins
    <3> QED BY <3>1, <3>3
  <2>3. CASE Become(w, [found EXCEPT !.fetched = ZeroCharacter])
    <3>1. PICK k : k = [found EXCEPT !.fetched = ZeroCharacter]
      OBVIOUS
    <3>2. /\ DOMAIN k = Fields /\ k.pc = found.pc /\ k.op = found.op /\ k.err = found.err
          /\ k.buf = found.buf /\ k.party = found.party
      BY <3>1 DEF Uneventful, Fields
    <3>3. Uneventful(k)
      BY <3>2 DEF Uneventful, Untold, Joins
    <3> QED BY <2>3, <3>1, <3>3
  <2> QED BY <2>1, <2>2, <2>3 DEF GetById
<1> QED BY <1>1, <1>3, <1>4, PlainMirror


-----------------------------------------------------------------------------
(* The steps before a registry is updated, and those of the other handlers. *)

LEMMA CreateCheckMirror ==
  ASSUME Serial, ServiceInv, MirrorInv, NEW w \in Workers, NEW j, j = job[w], CreateCheck(w)
  PROVE  MirrorInv'
<1>1. j.pc = "create" /\ j.pc \in Quiescent /\ j.pc \in Lookups
  BY DEF CreateCheck, At, Quiescent, Lookups
<1>2. JobOK(j) /\ ~j.err /\ j.buf = <<>> /\ j.op \in Creators
  BY <1>1, Rumourless, Working DEF Creating
<1>3. PICK barred \in BOOLEAN :
        GetById(w, j.actor,
                IF Obtained(w, j.actor).partyId # NoParty \/ barred
                THEN Refuse(j) ELSE Goto(j, "create.alloc"),
                FailCreate(j))
  BY DEF CreateCheck
<1>4. Uneventful(Refuse(j)) /\ Uneventful(Goto(j, "create.alloc"))
  BY <1>2, Endings DEF Entering, Leaving, Disbanding
<1>5. Uneventful(FailCreate(j))
  <2>1. PICK k : k = FailCreate(j)
    OBVIOUS
  <2>2. PICK e : e = Event("ERROR", NoParty, j.actor)
    OBVIOUS
  <2>3. PICK b : b = Buffered(j, e)
    OBVIOUS
  <2>4. DOMAIN b = Fields /\ b.op = j.op /\ b.err = j.err /\ b.buf = Append(j.buf, e)
    BY <1>2, <2>3 DEF Buffered, JobOK, Fields
  <2>5. /\ DOMAIN k = Fields /\ k.op = j.op /\ k.err = j.err /\ k.buf = b.buf
        /\ k.pc = "return" \/ (k.pc = "invite.send" /\ k.party = ZeroParty)
    BY <2>1, <2>2, <2>3, <2>4 DEF FailCreate, CreateEnds, Done, Goto, Fields
  <2>6. k.buf = <<e>>
    <3>1. Append(<<>>, e) = <<e>>
      OBVIOUS
    <3> QED BY <1>2, <2>4, <2>5, <3>1
  <2>7. Size(ZeroParty) = 0
    <3>1. UNION {{c} \X (1..ZeroParty.members[c]) : c \in Members(ZeroParty)} = {}
      BY DEF ZeroParty, Members, EmptyMap
    <3> QED BY <3>1, FS_EmptySet DEF Size
  <2>8. ~Joins(k) /\ ~Untold(k)
    BY <1>2, <2>5 DEF Joins, Creators, Untold, Entering, Leaving, Disbanding
  <2>9. e.type = "ERROR"
    BY <2>2 DEF Event
  <2> QED BY <1>2, <2>1, <2>5, <2>6, <2>7, <2>8, <2>9 DEF Uneventful
<1>6. PICK found : Uneventful(found) /\ GetById(w, j.actor, found, FailCreate(j))
  BY <1>3, <1>4
<1> QED BY <1>1, <1>5, <1>6, LookupMirror

\* The other lookups end the handler or take it further.
LEMMA LookupsMirror ==
  ASSUME Serial, ServiceInv, MirrorInv, NEW w \in Workers, NEW j, j = job[w],
         \/ JoinCheck(w) \/ LeaveCheck(w) \/ LeadGetActor(w) \/ LeadCheck(w)
         \/ InviteGetActor(w) \/ InviteCheck(w) \/ MapGet(w)
  PROVE  MirrorInv'
<1>1. j.pc \in Lookups /\ j.pc \in Quiescent
  BY DEF JoinCheck, LeaveCheck, LeadGetActor, LeadCheck, InviteGetActor, InviteCheck, MapGet, At,
         Lookups, Quiescent
<1>2. JobOK(j) /\ ~j.err /\ j.buf = <<>>
  BY <1>1, Rumourless
<1>3. /\ Uneventful(Refuse(j)) /\ Uneventful(Fail(j)) /\ Uneventful(Done(j))
      /\ \A pc \in {"join.party", "leave.party", "lead.chr", "lead.set", "invite.chr", "create",
                    "invite.party", "map.set"} :
           /\ Uneventful(Goto(j, pc))
           /\ \A v : Uneventful([Goto(j, pc) EXCEPT !.rec = v])
  BY <1>2, Endings DEF Entering, Leaving, Disbanding
<1>4. \E c, found, failed : /\ GetById(w, c, found, failed)
                            /\ Uneventful(found) /\ Uneventful(failed)
  <2>1. CASE JoinCheck(w)
    BY <1>3, <2>1 DEF JoinCheck
  <2>2. CASE LeaveCheck(w)
    BY <1>3, <2>2 DEF LeaveCheck
  <2>3. CASE LeadGetActor(w)
    BY <1>3, <2>3 DEF LeadGetActor
  <2>4. CASE LeadCheck(w)
    BY <1>3, <2>4 DEF LeadCheck
  <2>5. CASE InviteGetActor(w)
    BY <1>3, <2>5 DEF InviteGetActor
  <2>6. CASE InviteCheck(w)
    BY <1>3, <2>6 DEF InviteCheck
  <2>7. CASE MapGet(w)
    BY <1>3, <2>7 DEF MapGet
  <2> QED BY <2>1, <2>2, <2>3, <2>4, <2>5, <2>6, <2>7
<1> QED BY <1>1, <1>4, LookupMirror

LEMMA ViewMirror ==
  ASSUME Serial, ServiceInv, MirrorInv, NEW w \in Workers, NEW j, j = job[w],
         ViewGet(w) \/ ViewMember(w)
  PROVE  MirrorInv'
<1>1. j.pc \in {"view", "view.member"} /\ j.pc \in Quiescent
  BY DEF ViewGet, ViewMember, At, Quiescent
<1>2. JobOK(j) /\ ~j.err /\ j.buf = <<>>
  BY <1>1, Rumourless
<1>3. Uneventful(NoJob)
  BY DEF NoJob, Uneventful, Fields, Untold, Entering, Leaving, Disbanding
<1>4. \A list : /\ Uneventful([Goto(j, "view.member") EXCEPT !.todo = list])
                /\ Uneventful([j EXCEPT !.todo = list])
  <2> TAKE list
  <2>1. ASSUME NEW m, DOMAIN m = Fields, m.pc \in {"view", "view.member"}, m.err = j.err,
               m.buf = j.buf
        PROVE  Uneventful(m)
    BY <1>2, <2>1 DEF Uneventful, Untold, Entering, Leaving, Disbanding
  <2>2. ASSUME NEW m, m = [Goto(j, "view.member") EXCEPT !.todo = list]
        PROVE  Uneventful(m)
    <3>1. DOMAIN m = Fields /\ m.pc = "view.member" /\ m.err = j.err /\ m.buf = j.buf
      BY <1>2, <2>2 DEF Goto, JobOK, Fields
    <3> QED BY <2>1, <3>1
  <2>3. ASSUME NEW m, m = [j EXCEPT !.todo = list]
        PROVE  Uneventful(m)
    <3>1. DOMAIN m = Fields /\ m.pc = j.pc /\ m.err = j.err /\ m.buf = j.buf
      BY <1>2, <2>3 DEF JobOK, Fields
    <3> QED BY <1>1, <2>1, <3>1
  <2> QED BY <2>2, <2>3
<1>5. CASE ViewGet(w)
  <2>1. PICK k : Become(w, k) /\ Uneventful(k)
    BY <1>3, <1>4, <1>5 DEF ViewGet
  <2>2. UNCHANGED mirror /\ \A c \in Characters : Idx(c)' = Idx(c)
    BY <1>5 DEF ViewGet, registryVars, Idx
  <2> QED BY <1>1, <2>1, <2>2, PlainMirror
<1>6. CASE ViewMember(w)
  <2>1. PICK c \in DOMAIN j.todo :
          LET rest == BagRemove(j.todo, c)
          IN  GetById(w, c, IF rest = EmptyMap THEN NoJob ELSE [j EXCEPT !.todo = rest], NoJob)
    BY <1>6 DEF ViewMember
  <2>2. PICK found : Uneventful(found) /\ GetById(w, c, found, NoJob)
    BY <1>3, <1>4, <2>1
  <2>3. j.pc \in Lookups
    BY <1>6 DEF ViewMember, At, Lookups
  <2> QED BY <1>3, <2>2, <2>3, LookupMirror
<1> QED BY <1>5, <1>6


\* Steps that read or write a registry in a way the index does not show.
LEMMA PlainsMirror ==
  ASSUME Serial, ServiceInv, MirrorInv, NEW w \in Workers, NEW j, j = job[w],
         \/ JoinGetParty(w) \/ LeaveGetParty(w) \/ InviteGetParty(w) \/ MapSet(w)
         \/ DeletedGetParty(w) \/ DeleteGet(w) \/ DeleteDrop(w)
  PROVE  MirrorInv'
<1>1. j.pc \in Quiescent
  BY DEF JoinGetParty, LeaveGetParty, InviteGetParty, MapSet, DeletedGetParty, DeleteGet,
         DeleteDrop, At, Quiescent
<1>2. JobOK(j) /\ ~j.err /\ j.buf = <<>>
  BY <1>1, Rumourless
<1>3. UNCHANGED mirror /\ \A d \in Characters : Idx(d)' = Idx(d)
  BY DEF JoinGetParty, LeaveGetParty, InviteGetParty, MapSet, DeletedGetParty, DeleteGet,
         DeleteDrop, GetParty, SetCharacter, GetCharacter, Forget, DeleteCharacter, registryVars, Idx
<1>4. /\ Uneventful(Refuse(j)) /\ Uneventful(Fail(j)) /\ Uneventful(Done(j))
      /\ \A pc \in {"join.add", "delete.get", "delete.drop"} : Uneventful(Goto(j, pc))
  BY <1>2, Endings DEF Entering, Leaving, Disbanding
<1>5. Uneventful(NoJob)
  BY DEF NoJob, Uneventful, Fields, Untold, Entering, Leaving, Disbanding
<1>6. ASSUME NEW k, DOMAIN k = Fields, k.err = j.err, k.buf = j.buf,
             k.pc \in {"leave", "leave.remove", "invite.send"}
      PROVE  Uneventful(k)
  BY <1>2, <1>6 DEF Uneventful, Untold, Entering, Leaving, Disbanding
<1>7. \E k : Become(w, k) /\ Uneventful(k)
  <2>1. CASE JoinGetParty(w)
    BY <1>4, <2>1 DEF JoinGetParty, GetParty
  <2>2. CASE LeaveGetParty(w)
    <3>1. PICK v : \/ Become(w, [Goto(j, "leave.remove") EXCEPT !.disband = v])
                   \/ Become(w, Fail(j))
      BY <2>2 DEF LeaveGetParty, GetParty
    <3>2. PICK k : k = [Goto(j, "leave.remove") EXCEPT !.disband = v]
      OBVIOUS
    <3>3. DOMAIN k = Fields /\ k.err = j.err /\ k.buf = j.buf /\ k.pc = "leave.remove"
      BY <1>2, <3>2 DEF Goto, JobOK, Fields
    <3> QED BY <1>4, <1>6, <3>1, <3>2, <3>3
  <2>3. CASE InviteGetParty(w)
    <3>1. PICK m : \/ Become(w, [Goto(j, "invite.send") EXCEPT !.party = m])
                   \/ Become(w, [Done(j) EXCEPT !.err = TRUE])
      BY <2>3 DEF InviteGetParty, GetParty
    <3>2. CASE Become(w, [Goto(j, "invite.send") EXCEPT !.party = m])
      <4>1. PICK k : k = [Goto(j, "invite.send") EXCEPT !.party = m]
        OBVIOUS
      <4>2. DOMAIN k = Fields /\ k.err = j.err /\ k.buf = j.buf /\ k.pc = "invite.send"
        BY <1>2, <4>1 DEF Goto, JobOK, Fields
      <4> QED BY <1>6, <3>2, <4>1, <4>2
    <3>3. CASE Become(w, [Done(j) EXCEPT !.err = TRUE])
      <4>1. PICK k : k = [Done(j) EXCEPT !.err = TRUE]
        OBVIOUS
      <4>2. DOMAIN k = Fields /\ k.err /\ k.pc = "return"
        BY <1>2, <4>1 DEF Done, Goto, JobOK, Fields
      <4>3. Uneventful(k)
        BY <4>2 DEF Uneventful, Untold, Entering, Leaving, Disbanding
      <4> QED BY <3>3, <4>1, <4>3
    <3> QED BY <3>1, <3>2, <3>3
  <2>4. CASE MapSet(w)
    BY <1>4, <2>4 DEF MapSet, SetCharacter
  <2>5. CASE DeletedGetParty(w)
    <3>1. PICK p : Become(w, [Goto(j, "leave") EXCEPT !.pid = p])
      BY <2>5 DEF DeletedGetParty
    <3>2. PICK k : k = [Goto(j, "leave") EXCEPT !.pid = p]
      OBVIOUS
    <3>3. DOMAIN k = Fields /\ k.err = j.err /\ k.buf = j.buf /\ k.pc = "leave"
      BY <1>2, <3>2 DEF Goto, JobOK, Fields
    <3> QED BY <1>6, <3>1, <3>2, <3>3
  <2>6. CASE DeleteGet(w)
    BY <1>4, <1>5, <2>6 DEF DeleteGet, GetCharacter, Forget
  <2>7. CASE DeleteDrop(w)
    BY <1>5, <2>7 DEF DeleteDrop, Forget
  <2> QED BY <2>1, <2>2, <2>3, <2>4, <2>5, <2>6, <2>7
<1> QED BY <1>1, <1>3, <1>7, PlainMirror

\* The first id of a tenant comes with an empty index, which is what it was.
LEMMA CreateAllocateMirror ==
  ASSUME Serial, ServiceInv, SerialInv, MirrorInv, NEW w \in Workers, NEW j, j = job[w],
         CreateAllocate(w)
  PROVE  MirrorInv'
<1>1. j.pc \in Quiescent
  BY DEF CreateAllocate, At, Quiescent
<1>2. JobOK(j) /\ ~j.err /\ j.buf = <<>>
  BY <1>1, Rumourless
<1>3. UNCHANGED mirror /\ \A d \in Characters : Idx(d)' = Idx(d)
  <2>1. CASE tenantPartyId = 0
    <3>1. partyReg = EmptyMap
      BY <2>1, NoneYet DEF SerialInv, ServiceInv
    <3>2. \A d \in Characters : Idx(d) = NoParty
      BY <3>1 DEF SerialInv, Registries, Indexed, EmptyMap
    <3>3. \A d \in Characters : Idx(d)' = NoParty
      BY <2>1 DEF CreateAllocate, AllocatePartyId, Idx, EmptyMap
    <3> QED BY <3>2, <3>3 DEF CreateAllocate
  <2>2. CASE tenantPartyId # 0
    BY <2>2 DEF CreateAllocate, AllocatePartyId, Idx
  <2> QED BY <2>1, <2>2
<1>4. PICK k : k = [Goto(j, "create.store") EXCEPT !.party = NewParty(NextId, j.actor)]
  OBVIOUS
<1>5. DOMAIN k = Fields /\ k.err = j.err /\ k.buf = j.buf /\ k.pc = "create.store"
  BY <1>2, <1>4 DEF Goto, JobOK, Fields
<1>6. Become(w, k) /\ Uneventful(k)
  BY <1>2, <1>4, <1>5 DEF CreateAllocate, Uneventful, Untold, Entering, Leaving, Disbanding
<1> QED BY <1>1, <1>3, <1>6, PlainMirror

\* An appointment changes no member list.
LEMMA LeadSetMirror ==
  ASSUME Serial, ServiceInv, SerialInv, ZeroVacant', MirrorInv, NEW w \in Workers, NEW j, j = job[w], LeadSet(w)
  PROVE  MirrorInv'
<1>1. j.pc = "lead.set" /\ j.pc \in Quiescent /\ JobSerial(j) /\ Registries /\ RegistryInv
  BY DEF LeadSet, At, Quiescent, SerialInv, ServiceInv
<1>2. JobOK(j) /\ ~j.err /\ j.buf = <<>> /\ j.chr \in Characters /\ j.pid \in DOMAIN partyReg
  BY <1>1, Rumourless, Working, LeadsParty DEF Resting
<1> DEFINE u == Appointing(j.chr)
<1>3. Fits(Updated(j.pid, u))
  <2>1. Updated(j.pid, u).members = partyReg[j.pid].members
    BY <1>1, <1>2, UpdatedParty
  <2>2. Size(Updated(j.pid, u)) = Size(partyReg[j.pid])
    BY <2>1 DEF Size, Members
  <2> QED BY <1>1, <1>2, <2>2 DEF RegistryInv, WithinCapacity, Fits
<1>4. UpdateParty(j.pid, u) /\ UNCHANGED <<charReg, foreign, mirror>>
  BY <1>3 DEF LeadSet, SetParty
<1>5. \A d \in Characters : Idx(d)' = Idx(d)
  <2>1. Members(Updated(j.pid, u)) = Members(partyReg[j.pid])
    BY <1>1, <1>2, UpdatedMembers
  <2>2. \A d \in Characters : d \in Members(partyReg[j.pid]) <=> Idx(d) = j.pid
    BY <1>1, <1>2 DEF Registries, Indexed
  <2>3. u \in Updaters
    BY <1>2, IsUpdater
  <2>4. \A d \in Characters :
          Idx(d)' = IF d \in Members(Updated(j.pid, u)) THEN j.pid
                    ELSE IF d \in Members(partyReg[j.pid]) THEN NoParty ELSE Idx(d)
    BY <1>1, <1>2, <1>4, <2>1, <2>3, Updating
  <2> QED BY <2>1, <2>2, <2>4
<1>6. PICK e : e.type = "CHANGE_LEADER" /\ Become(w, Done(Buffered(j, e)))
  BY <1>3 DEF LeadSet, SetParty, Event
<1>7. PICK k : k = Done(Buffered(j, e))
  OBVIOUS
<1>8. DOMAIN k = Fields /\ k.err = j.err /\ k.pc = "return" /\ k.buf = Append(j.buf, e)
  BY <1>2, <1>7 DEF Done, Goto, Buffered, JobOK, Fields
<1>9. k.buf = <<e>>
  <2>1. Append(<<>>, e) = <<e>>
    OBVIOUS
  <2> QED BY <1>2, <1>8, <2>1
<1>10. Uneventful(k)
  BY <1>2, <1>6, <1>8, <1>9 DEF Uneventful, Untold, Entering, Leaving, Disbanding
<1> QED BY <1>1, <1>4, <1>5, <1>6, <1>7, <1>10, PlainMirror


-----------------------------------------------------------------------------
(* Create and Join: who follows learns of the party, and of the member.    *)

\* A job whose one event brings the follower up to date.
LEMMA News ==
  ASSUME DOMAIN mirror = Characters, NEW k, ~Untold(k), ~k.err, NEW e, k.buf = <<e>>,
         k.pc \in {"return", "expel.remove"}
           \/ (k.pc \in Entering \cup {"invite.send"} /\ ~Joins(k) /\ Size(k.party) \in {0, 1})
  PROVE  /\ (\A d \in Characters : Learn(mirror, e)[d] = Idx(d)) => MirrorOK(k)
         /\ (\A d \in Characters : Learn(mirror', e)[d] = Idx(d)') => MirrorOK(k)'
<1>1. BufferOK(k) /\ BufferOK(k)'
  BY DEF BufferOK
<1>2. Heard(k) = Learn(mirror, e)
  BY Hearing
<1>3. Heard(k)' = Learn(mirror', e)
  <2>1. Follow(mirror', k.buf) = Learn(mirror', e)
    <3>1. DOMAIN <<e>> = {1} /\ <<e>>[1] = e
      OBVIOUS
    <3>2. Follow(mirror', <<e>>) = Learn(mirror', e)
      BY <3>1, Folded
    <3> QED BY <3>2
  <2> QED BY <2>1 DEF Heard
<1>4. k.pc \notin Leaving \cup Disbanding
  BY DEF Entering, Leaving, Disbanding
<1>5. ~Untold(k)'
  BY DEF Untold, Joins
<1> QED BY <1>1, <1>2, <1>3, <1>4, <1>5 DEF MirrorOK, Told

LEMMA CreateStoreMirror ==
  ASSUME Serial, ServiceInv, CommandInv, MirrorInv, NEW w \in Workers, NEW j, j = job[w],
         CreateStore(w)
  PROVE  MirrorInv'
<1>1. j.pc = "create.store" /\ j.pc \in Quiescent /\ CommandOK(j)
  BY DEF CreateStore, At, Quiescent, CommandInv
<1>2. /\ JobOK(j) /\ ~j.err /\ j.buf = <<>> /\ DOMAIN mirror = Characters /\ Agreed
  BY <1>1, Rumourless
<1>3. j.op \in Creators /\ j.actor \in Characters /\ j.party = NewParty(j.party.id, j.actor)
  BY <1>1, Working DEF CommandOK, CreationOK, JobOK
<1>4. UNCHANGED mirror /\ charToParty' = Put(charToParty, j.actor, j.party.id)
  BY <1>3 DEF CreateStore, StoreParty, NewParty
<1>5. \A d \in Characters : Idx(d)' = IF d = j.actor THEN j.party.id ELSE Idx(d)
  BY <1>4 DEF Put, Idx
<1>6. Size(j.party) = 1
  <2>1. PICK m : m = j.party /\ m.members = BagAdd(EmptyMap, j.actor)
    BY <1>3 DEF NewParty
  <2>2. Members(m) = {j.actor} /\ m.members[j.actor] = 1
    BY <2>1 DEF Members, BagAdd, EmptyMap
  <2>3. UNION {{c} \X (1..m.members[c]) : c \in Members(m)} = {<<j.actor, 1>>}
    BY <2>2
  <2>4. Size(m) = 1
    BY <2>3, FS_Singleton DEF Size
  <2> QED BY <2>1, <2>4
<1>7. PICK e : e = Event("CREATED", j.party.id, j.actor)
  OBVIOUS
<1>8. PICK k : k = Buffered(Goto(j, "enter"), e)
  OBVIOUS
<1>9. /\ k.op = j.op /\ k.err = j.err /\ k.pc = "enter" /\ k.buf = Append(j.buf, e)
      /\ k.party = j.party
  BY <1>2, <1>8 DEF Goto, Buffered, JobOK, Fields
<1>10. k.buf = <<e>>
  <2>1. Append(<<>>, e) = <<e>>
    OBVIOUS
  <2> QED BY <1>2, <1>9, <2>1
<1>11. Become(w, k)
  BY <1>7, <1>8 DEF CreateStore
<1>12. \A d \in Characters : Learn(mirror', e)[d] = Idx(d)'
  <2>1. e.type = "CREATED" /\ e.pid = j.party.id /\ e.chr = j.actor
    BY <1>7 DEF Event
  <2>2. \A d \in Characters : Learn(mirror, e)[d] = IF d = j.actor THEN j.party.id ELSE mirror[d]
    BY <1>2, <2>1, Learnt
  <2> QED BY <1>2, <1>4, <1>5, <2>2 DEF Agreed
<1>13. ~Untold(k) /\ ~Joins(k)
  BY <1>3, <1>9 DEF Untold, Joins, Creators, Entering, Leaving, Disbanding
<1>14. MirrorOK(k)'
  BY <1>2, <1>6, <1>9, <1>10, <1>12, <1>13, News DEF Entering
<1> QED BY <1>2, <1>4, <1>11, <1>14, MirrorLanded DEF ServiceInv

LEMMA JoinAddMirror ==
  ASSUME Serial, ServiceInv, SerialInv, MirrorInv, NEW w \in Workers, NEW j, j = job[w], JoinAdd(w)
  PROVE  MirrorInv'
<1>1. j.pc = "join.add" /\ j.pc \in Quiescent /\ JobSerial(j) /\ Registries /\ RegistryInv
  BY DEF JoinAdd, At, Quiescent, SerialInv, ServiceInv
<1>2. /\ JobOK(j) /\ ~j.err /\ j.buf = <<>> /\ DOMAIN mirror = Characters /\ Agreed
      /\ j.chr \in Characters
  BY <1>1, Rumourless, Working DEF Resting
<1>3. Joins(j) /\ j.pid \in DOMAIN partyReg /\ Rec(j.chr) = NoParty /\ Same(j.chr)
  BY <1>1, <1>2 DEF JobSerial, JoinOK, AgreeOK, Entering, Leaving, Disbanding
<1> DEFINE u == Adding(j.chr)
<1>4. CASE UpdateParty(j.pid, u)
           /\ Become(w, [Goto(j, "enter") EXCEPT !.party = Updated(j.pid, u)])
           /\ UNCHANGED <<charReg, foreign, mirror>>
  <2>1. PICK k : k = [Goto(j, "enter") EXCEPT !.party = Updated(j.pid, u)]
    OBVIOUS
  <2>2. /\ k.op = j.op /\ k.err = j.err /\ k.pc = "enter" /\ k.buf = j.buf /\ k.pid = j.pid
        /\ k.chr = j.chr /\ k.party = Updated(j.pid, u)
    BY <1>2, <2>1 DEF Goto, JobOK, Fields
  <2>3. Members(Updated(j.pid, u)) = Members(partyReg[j.pid]) \cup {j.chr} /\ u \in Updaters
    BY <1>1, <1>2, <1>3, UpdatedMembers, IsUpdater
  <2>4. \A d \in Characters :
          Idx(d)' = IF d \in Members(Updated(j.pid, u)) THEN j.pid
                    ELSE IF d \in Members(partyReg[j.pid]) THEN NoParty ELSE Idx(d)
    <3>1. \A d \in Members(Updated(j.pid, u)) \ Members(partyReg[j.pid]) : Idx(d) = NoParty
      BY <1>3, <2>3 DEF Same
    <3> QED BY <1>1, <1>3, <1>4, <2>3, <3>1, Updating
  <2>5. \A d \in Characters \ {j.chr} : Idx(d)' = Idx(d)
    BY <1>1, <1>3, <2>3, <2>4 DEF Registries, Indexed
  <2>6. Updated(j.pid, u).id = j.pid
    <3>1. Updated(j.pid, u) = Apply(u, partyReg[j.pid]) /\ IsParty(partyReg[j.pid])
      BY <1>1, <1>3 DEF Updated, Lookup, RegistryInv, RegistryTypeOK
    <3>2. partyReg[j.pid].id = j.pid
      BY <1>1, <1>3 DEF Registries, Owned
    <3> QED BY <2>3, <3>1, <3>2, AppliedParty
  <2>7. MirrorOK(k)'
    <3>1. BufferOK(k)'
      BY <1>2, <2>2 DEF BufferOK
    <3>2. Untold(k) /\ Untold(k)' /\ k.pc \notin Leaving \cup Disbanding
      BY <1>3, <2>2 DEF Untold, Joins, Entering, Leaving, Disbanding
    <3>3. \A d \in Characters \ {k.chr} : mirror'[d] = Idx(d)'
      BY <1>2, <1>4, <2>2, <2>5 DEF Agreed
    <3> QED BY <2>2, <2>6, <3>1, <3>2, <3>3 DEF MirrorOK
  <2> QED BY <1>2, <1>4, <2>1, <2>7, MirrorLanded DEF ServiceInv
<1>5. CASE Become(w, Fail(j)) /\ UNCHANGED registryVars /\ UNCHANGED mirror
  <2>1. Uneventful(Fail(j))
    BY <1>2, Endings
  <2>2. \A d \in Characters : Idx(d)' = Idx(d)
    BY <1>5 DEF registryVars, Idx
  <2> QED BY <1>1, <1>5, <2>1, <2>2, PlainMirror
<1> QED BY <1>4, <1>5 DEF JoinAdd, SetParty

LEMMA EnterMirror ==
  ASSUME Serial, ServiceInv, SerialInv, CommandInv, MirrorInv, NEW w \in Workers,
         NEW j, j = job[w], EnterCheck(w) \/ EnterSet(w)
  PROVE  MirrorInv'
<1>1. /\ j.pc \in Entering /\ JobSerial(j) /\ JobOK(j) /\ MirrorOK(j) /\ DOMAIN mirror = Characters
      /\ j.pc \notin Leaving \cup Disbanding /\ ~j.err
  BY Working DEF EnterCheck, EnterSet, At, SerialInv, MirrorInv, Entering, MirrorOK, BufferOK,
     Leaving, Disbanding
<1>2. UNCHANGED mirror /\ \A d \in Characters : Idx(d)' = Idx(d)
  BY DEF EnterCheck, GetById, EnterSet, SetCharacter, UpdateCharacter, registryVars, Idx
<1>3. CASE EnterCheck(w)
  <2> DEFINE found == [Goto(j, "enter.set") EXCEPT !.rec = Obtained(w, Who(j))]
             failed == IF Joins(j) THEN Goto(j, "join.undo") ELSE FailCreate(j)
  <2>1. GetById(w, Who(j), found, failed)
    BY <1>3 DEF EnterCheck, Who
  <2>2. Cached(Who(j)) /\ ~Fetched(w)
    BY <1>1 DEF JobSerial, CreateOK, FetchOK, Fetched, Entering, Lookups
  <2>3. Become(w, found)
    BY <2>1, <2>2 DEF GetById
  <2>4. PICK k : k = found
    OBVIOUS
  <2>5. /\ k.op = j.op /\ k.err = j.err /\ k.pc = "enter.set" /\ k.buf = j.buf /\ k.pid = j.pid
        /\ k.chr = j.chr /\ k.party = j.party
    BY <1>1, <2>4 DEF Goto, JobOK, Fields
  <2>6. Heard(k) = Heard(j)
    BY <2>5 DEF Heard
  <2>7. MirrorOK(k) /\ k.pc \notin Leaving \cup Disbanding
    BY <1>1, <2>5, <2>6 DEF MirrorOK, BufferOK, Untold, Told, Joins, Entering, Leaving, Disbanding
  <2> QED BY <1>2, <2>3, <2>4, <2>7, MirrorKept
<1>4. CASE EnterSet(w) /\ Joins(j)
  <2>1. PICK e : e = Event("JOINED", j.party.id, j.chr)
    OBVIOUS
  <2>2. PICK k : k = Done(Buffered(j, e))
    OBVIOUS
  <2>3. j.buf = <<>> /\ Untold(j) /\ j.party.id = j.pid
    BY <1>1, <1>4 DEF MirrorOK, BufferOK, Untold, Entering
  <2>4. /\ k.err = j.err /\ k.pc = "return" /\ k.buf = Append(j.buf, e)
    BY <1>1, <2>2 DEF Done, Goto, Buffered, JobOK, Fields
  <2>5. k.buf = <<e>>
    <3>1. Append(<<>>, e) = <<e>>
      OBVIOUS
    <3> QED BY <2>3, <2>4, <3>1
  <2>6. Become(w, k)
    BY <1>4, <2>1, <2>2 DEF EnterSet, SetCharacter
  <2>7. \A d \in Characters : Learn(mirror, e)[d] = Idx(d)
    <3>1. e.type = "JOINED" /\ e.pid = j.party.id /\ e.chr = j.chr
      BY <2>1 DEF Event
    <3>2. \A d \in Characters : Learn(mirror, e)[d] = IF d = j.chr THEN j.pid ELSE mirror[d]
      BY <1>1, <2>3, <3>1, Learnt
    <3>3. Idx(j.chr) = j.pid
      BY <1>1, <1>4 DEF JobSerial, AgreeOK, Who, Where
    <3>4. \A d \in Characters \ {j.chr} : mirror[d] = Idx(d)
      BY <1>1, <2>3 DEF MirrorOK
    <3> QED BY <3>2, <3>3, <3>4
  <2>8. ~Untold(k) /\ k.pc \notin Leaving \cup Disbanding
    BY <2>4 DEF Untold, Entering, Leaving, Disbanding
  <2>9. MirrorOK(k)
    BY <1>1, <2>4, <2>5, <2>7, <2>8, News
  <2> QED BY <1>2, <2>6, <2>8, <2>9, MirrorKept
<1>5. CASE EnterSet(w) /\ ~Joins(j)
  <2>1. PICK k : k = CreateEnds(j, j.party)
    OBVIOUS
  <2>2. /\ k.op = j.op /\ k.err = j.err /\ k.buf = j.buf /\ k.party = j.party
        /\ k.pc \in {"return", "invite.send"}
    BY <1>1, <2>1 DEF CreateEnds, Done, Goto, JobOK, Fields
  <2>3. Become(w, k)
    BY <1>5, <2>1 DEF EnterSet, SetCharacter
  <2>4. ~Untold(j) /\ ~Untold(k) /\ k.pc \notin Leaving \cup Disbanding
    BY <1>1, <1>5, <2>2 DEF Untold, Entering, Leaving, Disbanding
  <2>5. Heard(k) = Heard(j)
    BY <2>2 DEF Heard
  <2>6. MirrorOK(k)
    BY <1>1, <1>5, <2>2, <2>4, <2>5 DEF MirrorOK, BufferOK, Told, Joins, Entering
  <2> QED BY <1>2, <2>3, <2>4, <2>6, MirrorKept
<1> QED BY <1>3, <1>4, <1>5


-----------------------------------------------------------------------------
(* Leave and Expel: who follows learns it when the records are done.       *)

LEMMA LeaveRemoveMirror ==
  ASSUME Serial, ServiceInv, SerialInv, MirrorInv, NEW w \in Workers, NEW j, j = job[w],
         LeaveRemove(w)
  PROVE  MirrorInv'
<1>1. j.pc = "leave.remove" /\ j.pc \in Quiescent /\ JobSerial(j) /\ Registries /\ RegistryInv
  BY DEF LeaveRemove, At, Quiescent, SerialInv, ServiceInv
<1>2. /\ JobOK(j) /\ ~j.err /\ j.buf = <<>> /\ DOMAIN mirror = Characters /\ Agreed
      /\ j.chr \in Characters
  BY <1>1, Rumourless, Working DEF Resting
<1>3. j.pid \in DOMAIN partyReg /\ Rec(j.chr) = j.pid /\ Same(j.chr)
  BY <1>1, <1>2 DEF JobSerial, LeaveOK, AgreeOK, Entering, Leaving, Disbanding
<1> DEFINE u == Removing(j.chr)
           p == Updated(j.pid, u)
<1>4. CASE UpdateParty(j.pid, u)
           /\ Become(w, [Goto(j, "leave.get") EXCEPT !.party = p, !.todo = p.members])
           /\ UNCHANGED <<charReg, foreign, mirror>>
  <2>1. PICK k : k = [Goto(j, "leave.get") EXCEPT !.party = p, !.todo = p.members]
    OBVIOUS
  <2>2. /\ k.op = j.op /\ k.err = j.err /\ k.pc = "leave.get" /\ k.buf = j.buf /\ k.pid = j.pid
        /\ k.chr = j.chr /\ k.party = p
    BY <1>2, <2>1 DEF Goto, JobOK, Fields
  <2>3. Members(p) = Members(partyReg[j.pid]) \ {j.chr} /\ u \in Updaters
    BY <1>1, <1>2, <1>3, UpdatedMembers, IsUpdater
  <2>4. \A d \in Characters :
          Idx(d)' = IF d \in Members(p) THEN j.pid
                    ELSE IF d \in Members(partyReg[j.pid]) THEN NoParty ELSE Idx(d)
    <3>1. \A d \in Members(p) \ Members(partyReg[j.pid]) : Idx(d) = NoParty
      BY <2>3
    <3> QED BY <1>1, <1>3, <1>4, <2>3, <3>1, Updating
  <2>5. \A d \in Characters : d \in Members(partyReg[j.pid]) <=> Idx(d) = j.pid
    BY <1>1, <1>3 DEF Registries, Indexed
  <2>6. /\ \A d \in Characters \ {j.chr} : Idx(d)' = Idx(d)
        /\ Idx(j.chr)' = NoParty /\ Idx(j.chr) = j.pid
    BY <1>2, <1>3, <2>3, <2>4, <2>5 DEF Same
  <2>7. p.id = j.pid
    <3>1. p = Apply(u, partyReg[j.pid]) /\ IsParty(partyReg[j.pid])
      BY <1>1, <1>3 DEF Updated, Lookup, RegistryInv, RegistryTypeOK
    <3>2. partyReg[j.pid].id = j.pid
      BY <1>1, <1>3 DEF Registries, Owned
    <3> QED BY <2>3, <3>1, <3>2, AppliedParty
  <2>8. MirrorOK(k)'
    <3>1. BufferOK(k)'
      BY <1>2, <2>2 DEF BufferOK
    <3>2. Untold(k) /\ Untold(k)'
      BY <2>2 DEF Untold, Leaving
    <3>3. \A d \in Characters \ {k.chr} : mirror'[d] = Idx(d)'
      BY <1>2, <1>4, <2>2, <2>6 DEF Agreed
    <3>4. mirror'[k.chr] = k.pid /\ Idx(k.chr)' = NoParty
      BY <1>2, <1>4, <2>2, <2>6 DEF Agreed
    <3> QED BY <2>2, <2>7, <3>1, <3>2, <3>3, <3>4 DEF MirrorOK
  <2> QED BY <1>2, <1>4, <2>1, <2>8, MirrorLanded DEF ServiceInv
<1>5. CASE Become(w, Fail(j)) /\ UNCHANGED registryVars /\ UNCHANGED mirror
  <2>1. Uneventful(Fail(j))
    BY <1>2, Endings
  <2>2. \A d \in Characters : Idx(d)' = Idx(d)
    BY <1>5 DEF registryVars, Idx
  <2> QED BY <1>1, <1>5, <2>1, <2>2, PlainMirror
<1> QED BY <1>4, <1>5 DEF LeaveRemove, SetParty

\* A handler that has removed the character stays as it is, or goes on in the same way.
LEMMA Lagging ==
  ASSUME NEW j, MirrorOK(j), j.pc \in Leaving \cup Disbanding,
         NEW k, k.pc \in Leaving \cup Disbanding, k.err = j.err, k.buf = j.buf, k.pid = j.pid,
         k.chr = j.chr, k.party = j.party
  PROVE  MirrorOK(k)
<1>1. Untold(j) /\ Untold(k)
  BY DEF Untold
<1>2. j.pc \notin Entering \cup {"return", "expel.remove", "invite.send"}
  BY DEF Entering, Leaving, Disbanding
<1> QED BY <1>1, <1>2 DEF MirrorOK, BufferOK

LEMMA RecordsMirror ==
  ASSUME Serial, ServiceInv, SerialInv, MirrorInv, NEW w \in Workers, NEW j, j = job[w],
         LeaveGet(w) \/ DisbandGet(w) \/ DisbandClear(w)
  PROVE  MirrorInv'
<1>1. /\ j.pc \in Leaving \cup Disbanding /\ JobSerial(j) /\ JobOK(j) /\ MirrorOK(j)
      /\ j.chr \in Characters
  BY Working DEF LeaveGet, DisbandGet, DisbandClear, At, SerialInv, MirrorInv, Leaving, Disbanding,
     Resting
<1>2. UNCHANGED mirror /\ \A d \in Characters : Idx(d)' = Idx(d)
  BY DEF LeaveGet, DisbandGet, GetCharacter, DisbandClear, SetCharacter, UpdateCharacter,
         registryVars, Idx
<1>3. ASSUME NEW k, Become(w, k), k.pc \in Leaving \cup Disbanding, DOMAIN k = Fields,
             \A f \in Fields \ {"pc", "rec", "todo"} : k[f] = j[f]
      PROVE  MirrorInv'
  <2>1. k.err = j.err /\ k.buf = j.buf /\ k.pid = j.pid /\ k.chr = j.chr /\ k.party = j.party
    BY <1>3 DEF Fields
  <2> QED BY <1>1, <1>2, <1>3, <2>1, Lagging, MirrorKept
<1>4. CASE LeaveGet(w)
  <2>1. Cached(j.chr)
    BY <1>1, <1>4 DEF LeaveGet, At, JobSerial, LeaveOK, Leaving
  <2>2. PICK k : k = [Goto(j, "leave.clear") EXCEPT !.rec = Character(j.chr)]
    OBVIOUS
  <2>3. /\ DOMAIN k = Fields /\ k.pc = "leave.clear"
        /\ \A f \in Fields \ {"pc", "rec", "todo"} : k[f] = j[f]
    BY <1>1, <2>2 DEF Goto, JobOK, Fields
  <2> QED BY <1>3, <1>4, <2>1, <2>2, <2>3 DEF LeaveGet, GetCharacter, Leaving
<1>5. CASE DisbandGet(w)
  <2>1. PICK c \in DOMAIN j.todo :
          LET n == [j EXCEPT !.todo = BagRemove(j.todo, c)]
          IN  \/ Become(w, [Goto(n, "disband.clear") EXCEPT !.rec = Character(c)])
              \/ Become(w, n)
    BY <1>5 DEF DisbandGet, GetCharacter
  <2>2. PICK n : n = [j EXCEPT !.todo = BagRemove(j.todo, c)]
    OBVIOUS
  <2>3. DOMAIN n = Fields /\ n.pc = "disband" /\ \A f \in Fields \ {"pc", "rec", "todo"} : n[f] = j[f]
    BY <1>1, <1>5, <2>2 DEF DisbandGet, At, JobOK, Fields
  <2>4. PICK k : k = [Goto(n, "disband.clear") EXCEPT !.rec = Character(c)]
    OBVIOUS
  <2>5. DOMAIN k = Fields /\ k.pc = "disband.clear"
        /\ \A f \in Fields \ {"pc", "rec", "todo"} : k[f] = j[f]
    BY <2>3, <2>4 DEF Goto, Fields
  <2> QED BY <1>3, <2>1, <2>2, <2>3, <2>4, <2>5 DEF Disbanding
<1>6. CASE DisbandClear(w)
  <2>1. PICK k : k = Goto(j, "disband")
    OBVIOUS
  <2>2. DOMAIN k = Fields /\ k.pc = "disband" /\ \A f \in Fields \ {"pc", "rec", "todo"} : k[f] = j[f]
    BY <1>1, <2>1 DEF Goto, JobOK, Fields
  <2> QED BY <1>3, <1>6, <2>1, <2>2 DEF DisbandClear, SetCharacter, Disbanding
<1> QED BY <1>4, <1>5, <1>6

LEMMA LeaveClearMirror ==
  ASSUME Serial, ServiceInv, SerialInv, MirrorInv, NEW w \in Workers, NEW j, j = job[w],
         LeaveClear(w)
  PROVE  MirrorInv'
<1>1. /\ j.pc = "leave.clear" /\ JobSerial(j) /\ JobOK(j) /\ MirrorOK(j) /\ Registries
      /\ j.chr \in Characters /\ DOMAIN mirror = Characters
  BY Working DEF LeaveClear, At, SerialInv, MirrorInv, Resting
<1>2. UNCHANGED mirror /\ \A d \in Characters : Idx(d)' = Idx(d)
  BY DEF LeaveClear, SetCharacter, UpdateCharacter, registryVars, Idx
<1>3. /\ j.buf = <<>> /\ ~j.err /\ j.party.id = j.pid
      /\ \A d \in Characters \ {j.chr} : mirror[d] = Idx(d)
      /\ mirror[j.chr] = j.pid /\ Idx(j.chr) = NoParty
  BY <1>1 DEF MirrorOK, BufferOK, Untold, Entering, Leaving
<1>4. /\ j.pid \in DOMAIN partyReg /\ j.pid # NoParty
      /\ Members(j.party) = Members(partyReg[j.pid])
  BY <1>1 DEF JobSerial, LeaveOK, Leaving, Registries, Owned
<1>5. CASE Become(w, Goto(j, "disband"))
  <2>1. PICK k : k = Goto(j, "disband")
    OBVIOUS
  <2>2. /\ k.pc = "disband" /\ k.err = j.err /\ k.buf = j.buf /\ k.pid = j.pid /\ k.chr = j.chr
        /\ k.party = j.party
    BY <1>1, <2>1 DEF Goto, JobOK, Fields
  <2> QED BY <1>1, <1>2, <1>5, <2>1, <2>2, Lagging, MirrorKept DEF Leaving, Disbanding
<1>6. ASSUME NEW e, NEW pc \in {"return", "expel.remove"}, Become(w, Goto(Buffered(j, e), pc)),
             \A d \in Characters : Learn(mirror, e)[d] = Idx(d)
      PROVE  MirrorInv'
  <2>1. PICK k : k = Goto(Buffered(j, e), pc)
    OBVIOUS
  <2>2. k.pc = pc /\ k.err = j.err /\ k.buf = Append(j.buf, e)
    BY <1>1, <2>1 DEF Goto, Buffered, JobOK, Fields
  <2>3. k.buf = <<e>>
    <3>1. Append(<<>>, e) = <<e>>
      OBVIOUS
    <3> QED BY <1>3, <2>2, <3>1
  <2>4. ~Untold(k) /\ k.pc \notin Leaving \cup Disbanding
    BY <1>6, <2>2 DEF Untold, Entering, Leaving, Disbanding
  <2>5. MirrorOK(k)
    BY <1>1, <1>3, <1>6, <2>2, <2>3, <2>4, News
  <2> QED BY <1>2, <1>6, <2>1, <2>4, <2>5, MirrorKept
<1>7. ASSUME NEW e, e.type \in {"LEFT", "EXPEL"}, e.chr = j.chr
      PROVE  \A d \in Characters : Learn(mirror, e)[d] = Idx(d)
  BY <1>1, <1>3, <1>7, Learnt
<1>8. ASSUME NEW e, e.type = "DISBAND", e.pid = j.pid, Members(j.party) = {}
      PROVE  \A d \in Characters : Learn(mirror, e)[d] = Idx(d)
  <2>1. \A d \in Characters : Idx(d) # j.pid
    BY <1>1, <1>4, <1>8 DEF Registries, Indexed
  <2> QED BY <1>1, <1>3, <1>8, <2>1, Learnt
<1>9. \/ Become(w, Goto(j, "disband"))
      \/ /\ Members(j.party) = {}
         /\ Become(w, Goto(Buffered(j, Event("DISBAND", j.party.id, j.chr)), "expel.remove"))
      \/ Become(w, Goto(Buffered(j, Event("EXPEL", j.party.id, j.chr)), "return"))
      \/ Become(w, Goto(Buffered(j, Event("LEFT", j.pid, j.chr)), "return"))
  BY DEF LeaveClear, SetCharacter, Done
<1>10. /\ Event("DISBAND", j.party.id, j.chr).type = "DISBAND"
       /\ Event("DISBAND", j.party.id, j.chr).pid = j.pid
       /\ Event("EXPEL", j.party.id, j.chr).type = "EXPEL"
       /\ Event("EXPEL", j.party.id, j.chr).chr = j.chr
       /\ Event("LEFT", j.pid, j.chr).type = "LEFT" /\ Event("LEFT", j.pid, j.chr).chr = j.chr
  BY <1>3 DEF Event
<1> QED BY <1>5, <1>6, <1>7, <1>8, <1>9, <1>10

\* The DISBAND event takes everybody out of the party for whom the registry does.
LEMMA RemoveMirror ==
  ASSUME Serial, ServiceInv, SerialInv, MirrorInv, NEW w \in Workers, NEW j, j = job[w],
         RemoveDisbanded(w) \/ RemoveEmptied(w)
  PROVE  MirrorInv'
<1>1. /\ JobSerial(j) /\ JobOK(j) /\ MirrorOK(j) /\ Registries /\ RegistryInv
      /\ DOMAIN mirror = Characters
  BY Working DEF SerialInv, ServiceInv, MirrorInv
<1>2. UNCHANGED <<mirror, charReg, foreign>> /\ RemoveParty(j.pid)
  BY DEF RemoveDisbanded, RemoveEmptied
<1>3. CASE RemoveDisbanded(w)
  <2>1. j.pc = "disband"
    BY <1>3 DEF RemoveDisbanded, At
  <2>2. /\ j.buf = <<>> /\ ~j.err /\ j.pid \in DOMAIN partyReg
        /\ \A d \in Characters \ {j.chr} : mirror[d] = Idx(d)
        /\ mirror[j.chr] = j.pid /\ Idx(j.chr) = NoParty
    BY <1>1, <2>1 DEF MirrorOK, BufferOK, Untold, Entering, Disbanding, JobSerial, DisbandOK
  <2>3. \A d \in Characters : Idx(d)' = IF Idx(d) = j.pid THEN NoParty ELSE Idx(d)
    BY <1>1, <1>2, <2>2, PartyRemoved
  <2>4. PICK e : e = Event("DISBAND", j.pid, j.chr)
    OBVIOUS
  <2>5. PICK k : k = Done(Buffered(j, e))
    OBVIOUS
  <2>6. k.pc = "return" /\ k.err = j.err /\ k.buf = Append(j.buf, e)
    BY <1>1, <2>5 DEF Done, Goto, Buffered, JobOK, Fields
  <2>7. k.buf = <<e>>
    <3>1. Append(<<>>, e) = <<e>>
      OBVIOUS
    <3> QED BY <2>2, <2>6, <3>1
  <2>8. \A d \in Characters : Learn(mirror', e)[d] = Idx(d)'
    <3>1. e.type = "DISBAND" /\ e.pid = j.pid
      BY <2>4 DEF Event
    <3>2. \A d \in Characters :
            Learn(mirror, e)[d] = IF mirror[d] = j.pid THEN NoParty ELSE mirror[d]
      BY <1>1, <3>1, Learnt
    <3>3. j.pid # NoParty
      BY <1>1, <2>2 DEF Registries, Owned
    <3> QED BY <1>2, <2>2, <2>3, <3>2, <3>3
  <2>9. ~Untold(k)
    BY <2>6 DEF Untold, Entering, Leaving, Disbanding
  <2>10. MirrorOK(k)'
    BY <1>1, <2>2, <2>6, <2>7, <2>8, <2>9, News
  <2>11. Become(w, k)
    BY <1>3, <2>4, <2>5 DEF RemoveDisbanded
  <2> QED BY <1>1, <1>2, <2>10, <2>11, MirrorLanded DEF ServiceInv
<1>4. CASE RemoveEmptied(w)
  <2>1. j.pc = "expel.remove" /\ Members(Lookup(j.pid)) = {}
    BY <1>1, <1>4 DEF RemoveEmptied, At, JobSerial, LeaveOK
  <2>2. \A d \in Characters : Idx(d)' = Idx(d)
    BY <1>2, <2>1 DEF RemoveParty, DeleteKeys, Idx
  <2>3. PICK k : k = Done(j)
    OBVIOUS
  <2>4. k.pc = "return" /\ k.err = j.err /\ k.buf = j.buf
    BY <1>1, <2>3 DEF Done, Goto, JobOK, Fields
  <2>5. ~Untold(j) /\ ~Untold(k) /\ k.pc \notin Leaving \cup Disbanding
    BY <2>1, <2>4 DEF Untold, Entering, Leaving, Disbanding
  <2>6. Heard(k) = Heard(j)
    BY <2>4 DEF Heard
  <2>7. MirrorOK(k)
    BY <1>1, <2>1, <2>4, <2>5, <2>6 DEF MirrorOK, BufferOK, Told
  <2>8. Become(w, k)
    BY <1>4, <2>3 DEF RemoveEmptied
  <2> QED BY <1>2, <2>2, <2>5, <2>7, <2>8, MirrorKept
<1> QED BY <1>3, <1>4

\* An invitation that finds its party full follows no event of its own: the party was not
\* created for it.
LEMMA InviteSendMirror ==
  ASSUME Serial, Faithful, ServiceInv, SerialInv, MirrorInv, NEW w \in Workers, NEW j, j = job[w],
         InviteSend(w)
  PROVE  MirrorInv'
<1>1. j.pc = "invite.send" /\ JobOK(j) /\ MirrorOK(j) /\ DOMAIN mirror = Characters
  BY Working DEF InviteSend, At, MirrorInv
<1>2. UNCHANGED mirror /\ \A d \in Characters : Idx(d)' = Idx(d)
  BY DEF InviteSend, registryVars, Idx
<1>3. ~Untold(j) /\ ~j.err
  BY <1>1 DEF MirrorOK, BufferOK, Untold, Entering, Leaving, Disbanding
<1>4. CASE Become(w, Refuse(j)) /\ Size(j.party) >= Capacity
  <2>1. j.buf = <<>>
    <3>1. j.buf # <<>> => Size(j.party) \in {0, 1}
      BY <1>1 DEF MirrorOK, BufferOK, Entering
    <3> QED BY <1>4, <3>1, CapacityAssumption DEF Faithful
  <2>2. Agreed
    BY <1>1, <1>3, <2>1, Hearing DEF MirrorOK, Told, Agreed
  <2>3. Uneventful(Refuse(j)) /\ ~Untold(Refuse(j))
    BY <1>1, <1>3, <2>1, Endings DEF Uneventful
  <2> QED BY <1>1, <1>2, <1>4, <2>2, <2>3, NoNews, MirrorKept DEF Untold
<1>5. CASE Become(w, Done(j))
  <2>1. PICK k : k = Done(j)
    OBVIOUS
  <2>2. k.pc = "return" /\ k.err = j.err /\ k.buf = j.buf
    BY <1>1, <2>1 DEF Done, Goto, JobOK, Fields
  <2>3. ~Untold(k) /\ k.pc \notin Leaving \cup Disbanding
    BY <2>2 DEF Untold, Entering, Leaving, Disbanding
  <2>4. Heard(k) = Heard(j)
    BY <2>2 DEF Heard
  <2>5. MirrorOK(k)
    BY <1>1, <1>3, <2>2, <2>3, <2>4 DEF MirrorOK, BufferOK, Told
  <2> QED BY <1>2, <1>5, <2>1, <2>3, <2>5, MirrorKept
<1> QED BY <1>4, <1>5 DEF InviteSend, Faithful

-----------------------------------------------------------------------------
(* What is heard, and what comes next.                                     *)

LEMMA ReturnMirror ==
  ASSUME Serial, Faithful, ServiceInv, MirrorInv, NEW w \in Workers, NEW j, j = job[w], Return(w)
  PROVE  MirrorInv'
<1>1. j.pc = "return" /\ JobOK(j) /\ MirrorOK(j) /\ DOMAIN mirror = Characters
  BY Working DEF Return, At, MirrorInv
<1>2. mirror' = Heard(j) /\ UNCHANGED charToParty
  BY DEF Return, Faithful, Heard, Follow, registryVars
<1>3. ~Untold(j) /\ Told(j)
  BY <1>1 DEF MirrorOK, Untold, Entering, Leaving, Disbanding
<1>4. Agreed'
  BY <1>2, <1>3 DEF Told, Agreed, Idx
<1>5. DOMAIN mirror' = Characters
  <2>1. CASE j.err \/ j.buf = <<>>
    BY <1>1, <1>2, <2>1, Hearing
  <2>2. CASE ~j.err /\ \E e : j.buf = <<e>>
    <3>1. PICK e : j.buf = <<e>>
      BY <2>2
    <3>2. mirror' = Learn(mirror, e)
      BY <1>2, <2>2, <3>1, Hearing
    <3> QED BY <1>1, <3>2 DEF Learn
  <2> QED BY <1>1, <2>1, <2>2 DEF MirrorOK, BufferOK
<1>6. PICK k : /\ Become(w, k) /\ ~k.err /\ k.buf = <<>> /\ k.pc \in {"delete", "idle"}
  <2>1. PICK k : k \in {NoJob, Job("DELETED", "delete", j.actor, NoParty, j.chr)} /\ Become(w, k)
    BY DEF Return
  <2>2. ~k.err /\ k.buf = <<>> /\ k.pc \in {"delete", "idle"}
    <3>1. CASE k = NoJob
      BY <3>1 DEF NoJob
    <3>2. CASE k = Job("DELETED", "delete", j.actor, NoParty, j.chr)
      BY <3>2 DEF Job, NoJob
    <3> QED BY <2>1, <3>1, <3>2
  <2> QED BY <2>1, <2>2
<1>7. MirrorOK(k)'
  <2>1. ~Untold(k) /\ ~Untold(k)'
    BY <1>6 DEF Untold, Joins, Entering, Leaving, Disbanding
  <2>2. Heard(k)' = mirror'
    <3>1. DOMAIN <<>> = {}
      OBVIOUS
    <3>2. Follow(mirror', <<>>) = mirror'
      BY <3>1, Folded
    <3> QED BY <1>6, <3>2 DEF Heard
  <2>3. BufferOK(k)'
    BY <1>6 DEF BufferOK
  <2> QED BY <1>4, <1>6, <2>1, <2>2, <2>3 DEF MirrorOK, Told, Agreed, Leaving, Disbanding
<1> QED BY <1>5, <1>6, <1>7, MirrorLanded DEF ServiceInv

LEMMA ReceiveMirror ==
  ASSUME Serial, ServiceInv, MirrorInv, NEW w \in Workers, NEW k \in Incoming, Receive(w, k)
  PROVE  MirrorInv'
<1>1. PICK j : j = job[w]
  OBVIOUS
<1>2. j.pc \in Quiescent
  BY <1>1 DEF Receive, Idle, NoJob, Quiescent
<1>3. UNCHANGED mirror /\ \A d \in Characters : Idx(d)' = Idx(d)
  BY DEF Receive, registryVars, Idx
<1>4. /\ ~k.err /\ k.buf = <<>>
      /\ DOMAIN k = Fields /\ k.pc \notin Entering \cup Leaving \cup Disbanding
  <2>1. ~k.err /\ k.buf = <<>> /\ DOMAIN k = Fields
    <3> DEFINE Clear(m) == ~m.err /\ m.buf = <<>> /\ DOMAIN m = Fields
    <3>1. ASSUME NEW op, NEW pc, NEW a, NEW p, NEW c
          PROVE  Clear(Job(op, pc, a, p, c))
      BY DEF Job, NoJob, Fields
    <3>2. ASSUME NEW m \in Maps, NEW c
          PROVE  Clear([Job("MAP_CHANGED", "map", c, NoParty, c) EXCEPT !.map = m])
      BY DEF Job, NoJob, Fields
    <3> HIDE DEF Clear
    <3>3. Clear(k)
      BY <3>1, <3>2 DEF Incoming, PostParty, PostMember, DeleteMember, PatchParty
    <3> QED BY <3>3 DEF Clear
  <2>2. k.pc \notin Entering \cup Leaving \cup Disbanding
    BY Messages DEF Entering, Leaving, Disbanding
  <2> QED BY <2>1, <2>2
<1>5. Uneventful(k) /\ Become(w, k)
  BY <1>4 DEF Uneventful, Untold, Receive
<1> QED BY <1>1, <1>2, <1>3, <1>5, PlainMirror

LEMMA WorkMirror ==
  ASSUME Serial, Faithful, ServiceInv, SerialInv, ZeroVacant', CommandInv, MirrorInv,
         NEW w \in Workers, Work(w)
  PROVE  MirrorInv'
<1>1. PICK j : j = job[w]
  OBVIOUS
<1>2. CASE CreateCheck(w) \/ CreateAllocate(w) \/ CreateStore(w) \/ EnterCheck(w) \/ EnterSet(w)
  BY <1>1, <1>2, CreateCheckMirror, CreateAllocateMirror, CreateStoreMirror, EnterMirror
<1>3. CASE \/ JoinCheck(w) \/ LeaveCheck(w) \/ LeadGetActor(w) \/ LeadCheck(w)
           \/ InviteGetActor(w) \/ InviteCheck(w) \/ MapGet(w)
  BY <1>1, <1>3, LookupsMirror
<1>4. CASE \/ JoinGetParty(w) \/ LeaveGetParty(w) \/ InviteGetParty(w) \/ MapSet(w)
           \/ DeletedGetParty(w) \/ DeleteGet(w) \/ DeleteDrop(w)
  BY <1>1, <1>4, PlainsMirror
<1>5. CASE JoinAdd(w) \/ LeaveRemove(w) \/ LeaveGet(w) \/ LeaveClear(w)
  BY <1>1, <1>5, JoinAddMirror, LeaveRemoveMirror, RecordsMirror, LeaveClearMirror
<1>6. CASE DisbandGet(w) \/ DisbandClear(w) \/ RemoveDisbanded(w) \/ RemoveEmptied(w)
  BY <1>1, <1>6, RecordsMirror, RemoveMirror
<1>7. CASE LeadSet(w) \/ InviteSend(w) \/ ViewGet(w) \/ ViewMember(w) \/ Return(w)
  BY <1>1, <1>7, LeadSetMirror, InviteSendMirror, ViewMirror, ReturnMirror
<1>8. ~JoinUndo(w) /\ ~LeaveUndo(w) /\ ~DeleteLeaveGet(w) /\ ~DeleteLeaveClear(w)
  BY JoinUndoSerial
<1> QED BY <1>2, <1>3, <1>4, <1>5, <1>6, <1>7, <1>8 DEF Work

LEMMA MirrorInvariant ==
  ASSUME Serial, Faithful
  PROVE  Spec /\ []ZeroVacant => []MirrorInv
<1>1. Init => MirrorInv
  <2> SUFFICES ASSUME Init
               PROVE  MirrorInv
    OBVIOUS
  <2>1. DOMAIN mirror = Characters /\ Agreed
    BY DEF Init, RegistryInit, Agreed, Idx, EmptyMap
  <2>2. Uneventful(NoJob)
    BY DEF NoJob, Uneventful, Fields, Untold, Entering, Leaving, Disbanding
  <2>3. MirrorOK(NoJob)
    BY <2>1, <2>2, NoNews
  <2> QED BY <2>1, <2>3 DEF Init, MirrorInv
<1>2. ServiceInv /\ SerialInv /\ ZeroVacant' /\ CommandInv /\ MirrorInv /\ [Next]_vars => MirrorInv'
  <2> SUFFICES ASSUME ServiceInv, SerialInv, ZeroVacant', CommandInv, MirrorInv, [Next]_vars
               PROVE  MirrorInv'
    OBVIOUS
  <2>1. CASE \E w \in Workers : Work(w)
    BY <2>1, WorkMirror
  <2>2. CASE \E w \in Workers : \E k \in Incoming : Receive(w, k)
    BY <2>2, ReceiveMirror
  <2>3. CASE (\E c \in Mortal : Vanish(c)) \/ UNCHANGED vars
    <3>1. UNCHANGED <<mirror, charToParty, job>>
      BY <2>3 DEF Vanish, vars, serviceVars, registryVars
    <3> QED BY <3>1
            DEF MirrorInv, MirrorOK, BufferOK, Untold, Told, Heard, Joins, Idx
  <2>4. ~Restart
    BY DEF Restart, Faithful
  <2> QED BY <2>1, <2>2, <2>3, <2>4 DEF Next
<1> QED BY <1>1, <1>2, ServiceInvariant, CommandInvariant, PTL DEF Spec

\* Between two messages, who has followed the published events knows of every character
\* which party it is in: each change is announced, by one event and not before it is
\* made, and nothing is announced that was refused.  It takes a broker that loses nothing,
\* a process that lives on, and room for two in a party: the CREATED event of the party an
\* invitation begins with would be thrown away with the invitation.
THEOREM SerialMirrorAgrees ==
  ASSUME Serial, Faithful
  PROVE  Spec /\ []ZeroVacant => []MirrorAgrees
<1>1. SerialInv /\ MirrorInv => MirrorAgrees
  <2> SUFFICES ASSUME SerialInv, MirrorInv, AllIdle, NEW c \in Characters
               PROVE  mirror[c] = PartyOf(c).id
    BY DEF MirrorAgrees
  <2>1. Registries
    BY Rested
  <2>2. PartyOf(c).id = Idx(c)
    BY <2>1 DEF Registries, Owned, Indexed, PartyOf, Lookup, Idx, ZeroParty
  <2>3. PICK w : w \in Workers
    BY DEF Serial
  <2>4. MirrorOK(job[w]) /\ job[w].pc = "idle" /\ job[w].buf = <<>>
    BY <2>3 DEF MirrorInv, AllIdle, Idle, NoJob
  <2>5. Told(job[w]) /\ Heard(job[w]) = mirror
    BY <2>4, Hearing DEF MirrorOK, Untold, Entering, Leaving, Disbanding
  <2> QED BY <2>2, <2>5 DEF Told
<1> QED BY <1>1, SerialInvariant, MirrorInvariant, PTL


=============================================================================
