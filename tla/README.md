# A TLA+ model of atlas-parties

`atlas-parties` keeps, in memory, which characters of a game world are together
in a party. This directory holds its TLA+ specifications, the TLC
configurations that check them on small instances, and theorems about them that
TLAPS proves. Line numbers below are those of the repository; unless a path
says otherwise they are under `atlas.com/parties/`.

## The system

| component | state | operations | who calls it | module |
|---|---|---|---|---|
| party registry (`party/registry.go`) | per tenant: id → party, character → party id, last id; one global lock, one lock per tenant | `Create`, `Get`, `GetAll`, `Update`, `Remove`, `GetPartyByCharacter` | party processor | PartyRegistry, TenantInit |
| party model, builder (`party/model.go`, `builder.go`) | a value: id, leader, slice of members | `AddMember`, `RemoveMember`, `SetLeader`, `ElectLeader` (no caller), `Build` (tests only) | registry, processor | PartyModel, MemberSlices |
| party processor (`party/processor.go`) | none of its own | `Create`, `Join`, `Leave`, `Expel`, `ChangeLeader`, `RequestInvite` | consumers | PartyService |
| character registry (`character/registry.go`) | per tenant: character id → cached record | `Create`, `Get`, `Update`, `Delete` | character processor | CharacterRegistry, CharacterService, TenantInit |
| character processor (`character/processor.go`) | none of its own | `GetById` with a fetch on a miss, `JoinParty`, `LeaveParty`, `Delete`, `MapChange`, `Login`, `Logout`, `ChannelChange`, `LevelChange`, `JobChange` | party processor, consumers | PartyService, CharacterService |
| consumers (`kafka/consumer/*`) | none | five party commands, invite `ACCEPTED`, seven character events | Kafka | PartyService, CharacterService |
| message buffer (`kafka/message`) | the events of one handler | `Put`, `Emit` | every `...AndEmit` | PartyService, CharacterService |
| invite producer (`invite/`) | none | `Create`, produced at once | `RequestInvite` | PartyService |
| REST resource (`party/resource.go`, `party/rest.go`) | none | `GET` reads the registries; `POST`, `PATCH`, `DELETE` become commands | HTTP | PartyService |
| teardown manager (`service/teardown.go`), `main.go` | channels, a context, a wait group | `TeardownFunc`, `Wait` | `main` | Teardown |

A handler calls the processors, a processor calls the two registries, and each
registry call takes and releases its own locks. **No lock spans two calls**: the
state a command needs is spread over the party map, the character index beside
it and the character's record, and is read and written in separate steps. What
the handler has to say is buffered and published when it returns. The consumers
of the three topics and the REST server run side by side.

What is hard here, and what correct means for each part:

* **Party registry** - callers race freely, update ids that are gone, and overlap in the
  two sections of `Create`. Ids must be unique, the index must never point at a
  party the character is not in, no party may exceed the capacity, and a removed
  party must stay removed.
* **Initialisation of a tenant** - outer maps read without a lock, locks and inner maps
  replaced under callers that hold the old ones. Once a tenant has settled, nothing may be
  replaced or lost and every call must return.
* **Member lists** - slices of shared arrays, to which `append` writes in place while
  readers walk them without a lock. They must behave like values.
* **Processor** - every operation is check, act, act, and undo on failure. The
  registries must agree once a handler has returned; published events must
  tell what happened; commands should look atomic.
* **Character records** - a cache that is filled on a miss in three steps, and an
  `Update` that does not ask for presence, under events, party commands and lookups at the
  same time. A record must end up current, and no handler may undo a membership.
* **Deletion** - three steps across both registries, delivered at least once. The
  character must be gone and stay gone, and the event must be worked off.
* **Buffer** - what a failing handler has buffered is dropped unless the failing branch has
  overwritten its error with that of `Put`.
* **Invitations** - sent before the events of the same handler, and after a `Create`
  that may have failed.
* **Reads** - `GET` looks up members by a function that fills the cache on a miss. It must
  change nothing.
* **Restart** - nothing is persisted: registries and counter start over while
  invitations, events and the other services remember.
* **Teardown** - a wait group that is joined by the goroutines it waits for.

`PROJECT.json` lists each hazard at its line with the properties that watch it.

## The modules

```
GoMap ── PartyModel ──┬── PartyRegistry ─────┬── PartyService ── MCPartyService
  │                   │     │    │           │       │    │
  │                   │     │    └ PartyRegistryProofs ── PartyServiceProofs ── SerialProofs
  │                   │  MCPartyRegistry     │       │ implements
  │                   └── CharacterRegistry ─┘     Roster ── RosterProofs
  └ CharacterService ── MCCharacterService
      └ CharacterServiceProofs

MemberSlices ──implements── MemberLists      TenantInit          Teardown
  │       └ MCMemberSlices                     └ TenantInitProofs  └ TeardownProofs
  └ MemberSlicesProofs
```

* **GoMap** - Go maps as functions on the keys that are present.
* **PartyModel** - the party record, its setters, the updaters handed to `Registry.Update` as
  data, and what `Build` demands (`Buildable`). Members are a bag: no reader depends on the
  order of the slice, and `AddMember` may add a second copy, which counts towards
  the capacity.
* **PartyRegistry** - `partyReg`, `charToParty`, `tenantPartyId` are the three maps for
  one tenant; `creating` holds the parties of `Create` calls that have their id and have not
  stored it. One action per critical section: `AllocatePartyId` and
  `StoreParty` (the two halves of `Create`), `UpdateParty`, `RemoveParty`. The first
  `AllocatePartyId` installs new maps, as the code does. `Lookup` yields Go's zero
  value for an absent id, so `UpdateParty` of an absent id stores a party with
  id 0, as the code does. The environment calls anything at any time.
* **CharacterRegistry** - the cache, restricted to id, party and map of a record.
* **PartyService** - the handlers. `job[w]` is what worker `w` (a goroutine) is doing: the
  message, the next registry call (`pc`), the local variables it still needs, the
  buffer and the returned error. Each action is one registry call and the checks the
  handler makes on its result. `foreign` is the character service's view, `invites` what
  the invite service was asked, `mirror` what a consumer of the published events
  believes. The actions of the two registries are used as they stand. `Restart`
  kills the process: registries, counter and jobs are gone, the rest stays.
* **Roster** - the promise of the handlers: a roster of parties, each command one step.
* **CharacterService** - the record with its attributes (map, level, job, channel, online)
  and everyone who writes it: the six attribute handlers, `JoinParty` and `LeaveParty` on
  behalf of a command, and the cache fill. `source` is the character service, which publishes
  each change on `topic`; `told` is what the members of a party know of a fellow.
* **TenantInit** - the first calls of a tenant in either registry, one step for each access
  of an outer map or a lock. A *generation* is a lock with the inner maps installed beside
  it; a call keeps the generation it took its lock from, the one it will unlock and the one
  whose map it captured.
* **MemberLists**, **MemberSlices** - member lists as sequences, and as slices of arrays on a
  heap that models, copies and readers share.
* **Teardown** - the main goroutine, the services and the teardown functions around the
  WaitGroup.
* **...Proofs** - theorems. **MC...** - constants for TLC.

Definitions headed "a slip" are mutated forms of the one they precede. They are not part
of the specification: each shows a property failing under a plausible mistake.

### How code becomes actions

| code | actions |
|---|---|
| `Create` | `CreateCheck`, `CreateAllocate`, `CreateStore`, `EnterCheck`, `EnterSet` |
| `Join`, also for `ACCEPTED` | `JoinCheck`, `JoinGetParty`, `JoinAdd`, `EnterCheck`, `EnterSet`, `JoinUndo` |
| `Leave`, and `Expel` (`LEAVE` with `force`) | `LeaveCheck`, `LeaveGetParty`, `LeaveRemove`, `LeaveGet`, `LeaveClear`, `LeaveUndo`, then `DisbandGet`/`DisbandClear`/`RemoveDisbanded` or `RemoveEmptied` |
| `ChangeLeader` | `LeadGetActor`, `LeadCheck`, `LeadSet` |
| `RequestInvite` | `InviteGetActor`, `InviteCheck`, `Create`'s actions or `InviteGetParty`, `InviteSend` |
| `MapChange` in PartyService | `MapGet`, `MapSet` |
| `DELETED` | `DeletedGetParty`, `Leave`'s actions, `DeleteGet`, `DeleteLeaveGet`, `DeleteLeaveClear`, `DeleteDrop` |
| `POST`, `PATCH`, `DELETE` of the resource | the commands `PostParty`, `PostMember`, `PatchParty`, `DeleteMember` in `Incoming` |
| `GET` of the resource | `ViewGet`, then `ViewMember` per member |
| `Emit` | `Return`; `EventEmit` in CharacterService |
| the other character events | `Begin` (`LoginFetch`, `LoginCreate` for `LOGIN`), `LoginSet`, `LogoutSet`, `ChannelChangeSet`, `MapChangeSet`, `LevelChangeSet`, `JobChangeSet`, `EventEmit` |
| `JoinParty`, `LeaveParty` in CharacterService | `Begin`, `JoinPartySet`; `LeavePartyGet`, `LeavePartySet` |
| first calls of a tenant | `TakeGlobal`, `CreateSection`; `LookupTest`, `LookupSection`, `LookupLock`, `LookupRead`; `ChangeTest`, `WriteLock`, `ChangeDefer`, `Write`, `Unlock`; `MapFault` for what the Go runtime makes of a racing map |
| member slices | `Create`, `AddMember`, `RemoveMember`, `Remove`, `Get`, `GetAll` |
| `main`, `TeardownFunc`, `Wait` | `StartService`, `TeardownFunc`, `Join`, `Run`, `Finish`; `Wait`, `Signal`, `CloseDone`, `Cancel`, `GroupWait`, `GroupWake`; `StopService` |

A lookup of a character that is not cached goes to the character service: it may
fail, or answer while the character is alive, and the record is stored in a later
step. `Refuse` is a return with an error (the buffer is dropped), `Fail` the branch in
which `err = mb.Put(...)` has overwritten the error with nil (it is published).

## The runs

| run | instance | question |
|---|---|---|
| `party_registry` | 2 characters, capacity 2, ids 0..2 | is the registry safe under arbitrary callers? |
| `commands_serial` | 1 worker, 3 characters, capacity 2, 2 ids, all commands for any id, those of REST included, and deletions | do registries, index and events agree after every handler, and do the handlers implement the roster, until a party is stored under id 0? |
| `invites_serial` | 1 worker, 3 characters, capacity 2, 1 id, invitations, no forced leaves, a broker that may fail, restarts | can an invitation be accepted when it is sent, do the registries agree after a restart, does every party keep a leader who is a member, and no duplicates? |
| `two_workers_live` | 2 workers, commands against deletions and `GET`s, fairness | does a disbanded party stay gone, do the living keep their records, does every handler return, is every announced deletion carried out, and does a `GET` change nothing? |
| `character_service` | 1 character, an event worker and a command worker, 2 values of each attribute, a broker that may lose announcements, restarts | do records end up current, do memberships survive, do fellows know what was announced? |
| `tenant_init` | either registry, 2 goroutines, 2 keys, fairness | does a settled tenant stay settled, lose nothing, and do its calls return? |
| `member_slices` | 1 party, capacity 3, 2 members, 2 goroutines, 4 arrays of 2 or 4 cells | do shared slices behave like values? |
| `teardown` | 2 services, 2 functions, fairness | does the process end after a signal, with the services stopped and the functions that joined in time finished? |

*What the serial runs mean.* One worker takes the messages of all topics in any order, so
`commands_serial` shows that the handlers are right one at a time, with lookups
failing at any point, characters vanishing and events redelivered.
The hazards of two handlers at work are not in it: two joins that pass one check, a deletion
between two steps of a `Create`, a fill another handler has overtaken. `two_workers_live` and
`character_service` run handlers side by side, interleaved at every registry call, and show what survives
concurrency: the promises of the party registry carry over (`ServiceKeepsRegistry`, proved), a party whose
disbanding is announced is gone for good (`DisbandedAreGone`), and an update of a record that was deleted
meanwhile harms nobody else (`LivingKeepRecords`). What does not survive is below.

*Party 0.* Nothing refuses a command for party 0. All fail but one: `CHANGE_LEADER(0, x)` for a character `x` in no
party compares zero with zero (party/processor.go:508), and `Update` stores a party under id 0 (`party_zero`). From
then on characters can join it while their records say that they are in none. After `CREATE` by another, which
makes party 1, `CHANGE_LEADER(0, x); JOIN(0, c); JOIN(1, c); LEAVE(0, x)` puts `c` into two parties and breaks `RecordsAgree`,
`IndexExact`, `MirrorAgrees`, `DeletedAreGone`, `PatchAppoints` and `ImplementsRoster`. So `commands_serial` lets the
commands name 0 and follows each behaviour up to the step that stores that party (`CONSTRAINT ZeroVacant`): the properties are
claimed as long as it has not happened, and the theorems of `SerialProofs` have `[]ZeroVacant` as a hypothesis.
Without the constraint TLC finds each of the six violated. `invites_serial` needs none: its properties
hold beside a party 0, of whose members the records say nothing. `PATCH` cannot send the command, as it
looks the party up first (party/resource.go:116), but the topic takes it from anyone.

*What the exceptions mean.* `AttributesCurrent`, `MembershipKept` and `FellowsInformed` set
aside the characters in `late`, those whose record was filled by a lookup another handler
had overtaken (character/processor.go:265): such a fill puts an old record, in no party, over a
newer one. The properties say that nothing else does harm. `NoGhostPresence` makes no exception. An announcement the
broker has lost leaves a fellow `Unheard` of that attribute until it is announced again; a fellow who has heard
knows what the record says. The
properties of `tenant_init` speak of a *settled* tenant: before its first `Create` has been
through `r.lock` and the lookups under way have come to rest, a stored party can be lost,
a first `ChangeLeader` panics on a nil lock (party/registry.go:116), and `Unlock` can meet a
lock that is not held (line 117), which stops the process. All of this is in the model.

### Disagreements

These runs end in a counterexample; each checks one statement of
a doc or a message of the code.

| run | what the code says | what it does |
|---|---|---|
| `leader_appointed` | party/processor.go:518, actor in the same party | the actor is never looked up (line 488) |
| `join_deletion` | README.md:12, deleted characters are removed | a join that overlaps the deletion leaves the deleted character a member |
| `party_zero` | party/processor.go:510, who is not in the party cannot become its leader | for party 0 and a character in no party the test compares zero with zero (line 508), and a party is stored under id 0 |
| `tenant_race` | README.md:123, thread-safe with race condition protection | `Create` writes the outer maps, also for a known tenant, while others read them with no lock. The trace is one of the character registry (character/registry.go:43-44 against lines 70, 80, 87, 89, 93, 100, 107); party/registry.go:52-55 against its lines 77, 89, 98, 109, 116, 182 is the same |

Further disagreements are in the model without a run of their own; TLC finds them when the
named property is put into the named configuration:

* `DeletionKeepsOthersTogether` in `LeaderAppointed.cfg` - README.md:13 announces a new leader; the
  party is disbanded.
* `DeletionDisbandsEmpty` there - README.md:14 says the party of the last member is disbanded; when
  the leader was forced out before, an empty party stays.
* `RefusalsAnnounced` there - a refused request has its `ERROR` event put into the buffer
  (party/processor.go:132), and `Emit` drops the buffer of a handler that returns an error
  (kafka/message/message.go:37).
* `InvitationsAcceptable` in `JoinDeletion.cfg` with `Serves <- ServeInviteAndDeletion` - when
  the leader is deleted while `Create` runs for an invitation (party/processor.go:604), the invitation
  names party 0.
* `RecordsAgree` in `TwoWorkersLive.cfg` with `Serves <- ServeJoinAndLeave` - a character that joins while the leader leaves is not in the
  list the disband loop walks (party/processor.go:441) and keeps the id of a removed party; two joins
  of one character that both passed the check of line 207 put it into a party twice.
* `PartiesBuildable` in `CommandsSerial.cfg` - `Expel` of the leader keeps the leader's id, a party
  that `Build` rejects (party/builder.go:61).
* README.md:93 tells of transaction ids that recognise a repeated deletion: no code keeps
  any. `DeletedAreGone` shows that repetition does no harm all the same.
* A deletion of a character in no party, which README.md:96 calls a no-op, buffers an `ERROR` event
  for party 0: `DeletedGetParty` goes on to `Leave` with the zero id (consumer.go:192).

Three weaknesses that no document denies: after a restart the counter starts over, so an
invitation of before joins whatever party has its number now; after a restart every record
that is filled anew says offline until the next login; and a teardown function that
joins the WaitGroup late is skipped or makes `Wait` panic, as a signal that arrives before
`Wait` is dropped (`termChan` has no buffer).

### Bounds

* `PartyIds` ends the supply of ids: `AllocatePartyId` needs the next one in the set, and a
  handler that creates begins only while `IdsLeft`. Two ids give a second party, a second
  `Create` that overlaps the first, and an id used after its party is gone. One id with
  `Restart` gives an id used again.
* `Capacity` is 2 instead of 6: full, one short of full and empty occur, and so does a
  duplicate member in a full party. Three characters give a leader, a member and a third who
  knocks.
* `CommandIds` are the ids commands may name, 0 among them in the serial runs; see *Party 0* for the
  constraint of `commands_serial`. `Mortal` are the characters that may be
  deleted; `Maps` has one map, which leaves the vicinity test of `ChangeLeader` true, as it is in
  the code for the two reads of one character unless a map change runs in between.
* `DELETED` may be delivered any number of times. Commands are not kept in a queue: any
  command may arrive next, which includes loss, repetition and reordering.
* `MaxEvents` (4) is how often the character service changes something: enough for a login,
  a change, a logout and a change of the other worker's interest, with restarts between them.
  Characters do not interact but through the party, so there is one; each attribute has two
  values, to tell old from new.
* `MaxId` (2) keys in a new tenant; a `Create` of the party registry begins only while a key is
  left. Two goroutines suffice for each pair of overlapping sections.
* `Arrays`, `Sizes`: `append` of a Go runtime makes arrays of 2, 4 and 8 cells for lists this
  short. With capacity 3, arrays of 2 and 4 give an append in place, an append that moves, and
  one that `Update` rejects after `append` has written. Arrays no slice shows are blanked,
  so four are never used up. One party: that two parties never share an array is part of the proved
  invariant.
* Two services and two functions in `teardown`: one function may join in time and one late.
* Interchangeable values are symmetric in the safety runs; symmetry is off where
  liveness is checked.
* Deadlock is checked except in `tenant_init`, `tenant_race` and `teardown`, where the
  process may stop for good.

### Fairness

`PartyService!LiveSpec` has weak fairness of each worker's steps: a handler is a goroutine,
waits for nothing but registry locks that are held for one call, and is scheduled. A lookup
that fails does so in finite time (the REST client has a timeout), which is a step like the
others. It has strong fairness of the delivery of a `DELETED` event that is on its way:
the topic is read in order, so the event is not overtaken for ever, although the worker
is busy now and again. No fairness of commands is assumed.

`TenantInit!LiveSpec` has strong fairness of each goroutine's steps: a lock may be taken again
and again by others, and Go's mutexes hand themselves to a goroutine that has waited long. No call is
ever forced to begin. `Teardown` has weak fairness of the goroutines, and of a teardown
function's return; the signal need not come.

## The proofs

**The registry.** `PartyRegistryProofs` proves, for every set of characters, every positive capacity
and any set of party ids (the naturals included), that `RegistrySpec` implies
`RegistryTypeOK`, `UniqueIds`, `IndexSound`, `WithinCapacity` (invariants) and
`NeverRevived` (an action property), under `CharactersAssumption`, `CapacityAssumption` and
`PartyIdsAssumption`.

None of the invariants is inductive alone. `RegistryInv` joins them with three facts:
`StoredIds` (an entry carries its own id or zero - the ghost a late update makes),
`CounterStarts` (the counter is zero or at least `StartPartyId`) and `CreatingNew` (a
party between the halves of `Create` has its leader as its only member). `IndexSound` needs
`StoredIds` because an update enters new members under the id *inside* the model, and
`UniqueIds` because a stored party must find its key free. There is one lemma per action;
beneath them lie lemmas on the setters (`AppliedParty`) and on a lookup (`LookupParty`).

**The service over the registry.** `PartyServiceProofs` carries this over to the handlers,
for any number of workers and any distribution of messages (`Workers`, `Serves`,
`CommandIds`, `Mortal`, `LossyBroker` are arbitrary):

* `ServiceKeepsRegistry` - types, `UniqueIds`, `IndexSound` and `WithinCapacity` of the registry hold
  in every state of `Spec`, restarts included, and invitations name ids and characters that exist;
* `ServiceTyped` - `TypeOK` of all of `PartyService`;
* `ServiceViewsChangeNothing` - without restarts, a call that only reads the service changes nothing;
* `ServiceLivingKeepRecords` - `LivingKeepRecords`: an update of a record deleted since it was read leaves a record
  of nobody, but only under the id of a deleted character;
* `ServiceDisbandedGone` - `DisbandedAreGone`: a party whose disbanding is announced is gone when the event is
  published, whatever joins and undoes come late and whoever creates meanwhile.

The invariant `ServiceInv` adds to `RegistryInv` what a registry call needs of the job that
makes it (`JobOK`): a handler at work names an existing character, its ids are ids of
parties, and whoever is about to create has an actor. Ids flow between messages, records of
the registry (`LookedUp`, `UpdatedId`), invitations and jobs, so jobs, invitations and registry
are one induction. Each handler has a lemma that its steps are *orderly*: a step of the
registry or none, with `JobOK` kept; the five shared steps (`GetById`, `SetParty`, ...) have one each.
`TypedInv` adds what the rest of the state is: the difficult part is `mirror`, which is what a follower makes of
the buffers it is sent, so every event that will be published must be of parties and characters, and
`AtMostOne` and `AtMostTwo` say how many a handler can have buffered where it stands. `KnownInv` says
that whoever a party lists is cached or no longer answered for, so that a page of members finds no one to
fetch; a restart empties the cache, hence the condition.

`LivingInv` says that the cached record of a living character is its own, that whoever updates the record of a living
character has found it (and only a deletion drops records), that an answer still to be stored is about the character it was
asked for, and that deletions name characters that are gone. `OldInv` is about ids: one is `Old` when it was handed out and no `Create` is
about to store its party. What is old stays old, and what is old and gone stays gone (`Aging`, of each step of the
registry), since a late update of an absent id stores a party whose own id is 0, which is no party. So it is enough
that handlers hold and records name old ids, and that a buffered `DISBAND` names the party that is removed before
the handler returns.

**One handler at a time.** `SerialProofs` proves what `commands_serial` and `invites_serial` check, first
`RecordsAgree`, `IndexExact` and `DeletedAreGone`, for one worker with any finite
set of characters, any ids in the commands, 0 included, any capacity, messages and restarts (`Serial`). The theorems have the form
`Spec /\ []ZeroVacant => []P`: they hold of the behaviours in which no party is stored under id 0, see *Party 0*. The
only step that needs the hypothesis is `LeadSet` (`LeadsParty`); that no other step stores such a party is part of the proof.
Between two messages the invariant says that the index is the inverse of the member lists
(`Indexed`), that entries and records carry their own ids, that nobody gone is cached, and that
record and index name the same party for every character (`Same`). Inside a handler `Same` fails
for a while, and `SerialInv` says where: for the one character that `Join` or `Create` has entered in
the registry and not yet in its record, or that `Leave` has taken out, and for the members of
a party being disbanded that the loop has passed (`AgreeOK`). The rest is what each handler has
learnt and still may rely on, since nobody else runs: the record is there, so the second of two updates
cannot fail and no undo is ever taken (`JoinUndoSerial`); a `DELETED` event has left the party
before the record goes (`DeleteOK`); an answer of the character service is stored where there is still no
record (`FetchOK`). There is one lemma per action of `PartyService`; `Landed`, `Kept` and `LookupSerial` say
what all of them have in common.

On this invariant stand five more results for one worker:

* `SerialImplementsRoster` - `Spec` implements `RosterSpec` (`ImplementsRoster`), without restarts, which
  would empty the roster. A command changes the roster in one step or not at all: with its one update
  of the party, or, where it ends the party, when the character is taken out.
* `SerialPatchAppoints` - a `PATCH` that names a member appoints it, though its actor is nobody.
* `SerialInvitationsAcceptable` - an invitation could be accepted the moment it is sent: its party is stored and has room,
  the inviter is a member and the invited character in no party. Nothing keeps a character from inviting itself, and
  then it is in the party it is invited to once `Create` has made it; the property excepts that case.
* `SerialPartiesBuildable` - between two messages every party is one the builder would build, where no
  leave is forced (`Unforced`): a forced one may take the leader out and leave it the leader.
* `SerialMirrorAgrees` - between two messages those who follow the events know of every character which party it
  is in. It needs `Faithful`: a broker that loses nothing, no restart, and room for two in a party, since otherwise the
  `CREATED` event of the party an invitation begins with is thrown away with the invitation.

The first four rest on `CommandInv`: what each command has found out where it stands and may still rely on
(the party `CreateStore` stores is its own, the appointed leader is of the party, the inviter has one, a party is
disbanded exactly when its leader goes), so that the step the roster sees is one the roster allows. `MirrorInv` says
what followers hold while a handler is at work: the registry as it was, until the buffer, folded over what they hold
(`Folded`: there is at most one event that tells them anything), is the registry as it is.

**Member lists.** `MemberSlicesProofs` proves `ListsStayAsGiven`: `Spec => SnapshotsStable`, for any
number of goroutines, parties and arrays and any growth of `append`. The invariant says that
the heap is well shaped, that slices of no array are empty, that different parties have different
arrays (`Apart`), and that every slice anyone holds of a party's array ends where the party's own slice ends
or before (`Behind`), so an append in place writes behind all that anyone can see.

`SlicesFit` proves `TypeOK` with `FitInv`: cells hold members, and the slice of a party is longer neither than its
array nor than the capacity, although `AddMember` has written before `Update` looks. That the members
`RemoveMember` copies are there to be copied (`KthExists`) is a pigeonhole argument.

`SlicesImplementLists` proves `ByValue`: the slices implement `MemberLists`. `StoreShown` says that a call
changes the list of one party and what its caller holds, whatever it has written to the heap; then each operation
is one of lists. For the removal two computations must agree: the model copies the k-th of those who stay
for each k, `MemberLists!Without` walks the list, as the code does. `LeftGrows` shows that the first obeys the
equation of the second, and `WithoutIs` that the equation has one solution, by a least counterexample.

**The roster.** `RosterProofs` proves `RosterOneParty`: no character is in two parties of the
roster. `OneParty` is inductive together with the shape of the entries. One worker
implements `RosterSpec`, see above; with two it does not.

**Memberships.** `CharacterServiceProofs` proves `MembershipsSurvive`: `MembershipKept` holds for
any number of workers, characters, parties and events, with restarts. A handler that is about to update
finds its record, because only a restart removes one and it ends the handler as well (`JobsOK`); so each
update starts from the record as it is and keeps the party in it. The cache fill is
left: it writes "in no party", and may do so only where there was no record, hence no membership -
unless it was overtaken, which `late` records.

`RecordsTyped` proves `TypeOK`. The other three are about what changes of a character come to, and hold
where one worker reads the topic (`OneConsumer`, as in `character_service`);
with two, TLC finds the first two violated, as two changes may be applied in either order:

* `AttributesSettle` (`AttributesCurrent`) and `GhostsGone` (`NoGhostPresence`) - by `FlowInv`: what an event, an
  answer or a record says is true, or an event behind it says what is; and a login that found no record finds nobody
  online (`LoginOK`), so the cache may have been filled meanwhile.
* `FellowsKnow` (`FellowsInformed`) - by `FellowsInv`: for each attribute, what the fellows were told is what the record
  says, or was lost, or a handler is on its way to telling them.
  All three exempt what an overtaken fill has written (`late`), but for `GhostsGone`.

**The tenant.** `TenantInitProofs` proves `UniqueIds`, `SettledExclusive`, `SettledStays` and
`SettledKeeps` for any number of goroutines, from `ThreadsAssumption`. `TenantInv` says that a call past
taking a lock has one, that locks exclude writers from readers, that ids come from the counter, and that the
generations made and still to be made are no more than the goroutines and one (`Room`), so the
lock of the installed one exists. In a settled tenant a goroutine holds the one lock
there is exactly while it is inside its section, so each step but the runtime's fault leads to a
settled tenant again: one lemma per step, all by way of `SettledMoves`. `GenerationsTyped` proves `TypeOK`: a call
names only generations that were made.

**Shutdown.** `TeardownProofs` proves `GroupCounts` (the counter is the number of those inside: `TypeOK`)
and `ShutdownClean` (`EndsClean`) for any finite sets of services and functions (`FiniteAssumption`).
When Wait returns the counter has been zero after `doneChan` was closed, so nobody was inside; those who come
later are none that joined in time, and never run.

Every invariant and action property that a passing run checks, and both refinements of abstract specifications, are stated
by a theorem. Only model-checked is liveness: `HandlersReturn`, `DeletionsComplete`, `SettledReturns` and
`SignalEnds` rest on fairness, hence on `ENABLED`, which is out of the prover's reach. So are the findings,
which are counterexamples.

## Not modelled

* A failing `Buffer.Put`: it marshals a value of the service's own, which cannot fail.
* The world-and-channel test of `ChangeLeader` (party/processor.go:526): it demands two
  worlds of one character, which has one.
* Names, worlds and GM ranks, which no handler changes; the old values that level and job events
  announce beside the new ones. Beginners and GMs who may not create are a free choice
  in `CreateCheck`.
* More than one tenant: tenants share no entry of any map. What they share, the outer maps,
  is in `TenantInit`, where the write for another tenant is the write a `Create` makes for its own.
* `ElectLeader` and `Build` have no caller in the service; the rules of the latter are
  `Buildable`, and the slice of the former is shared as `SetLeader` shares it.
* REST decoding (`uint32` of a parsed number, so two paths may name one party), rendering, Kafka
  configuration, tracing and logging: they keep no state.
* The order in which events of two workers reach a consumer: `mirror` is judged for one
  worker only, and with two it is wrong, as message.go:40 publishes with no lock. A broker that loses the
  events of a handler leaves every consumer wrong, too.
