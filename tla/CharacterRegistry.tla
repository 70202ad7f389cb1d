-------------------------- MODULE CharacterRegistry --------------------------
(***************************************************************************)
(* character/registry.go for one tenant: the characters the service has    *)
(* cached, each call one critical section.  Of a character record the      *)
(* membership depends on three fields: the id the record carries, the      *)
(* party it is in and the map it stands on.  Name, level, job, channel and *)
(* online flag are left out, and so is the world, which no setter changes. *)
(***************************************************************************)
EXTENDS PartyModel

CONSTANT Maps  \* map ids, zero excluded

VARIABLE charReg  \* r.characterReg[t]: character id -> record

ZeroMap == 0

ASSUME MapsAssumption == Maps \subseteq Nat \ {ZeroMap} /\ Maps # {}

\* Model{}: what the read of an absent key yields.
ZeroCharacter == [id |-> NoCharacter, partyId |-> NoParty, mapId |-> ZeroMap]

\* The record Create stores: in no party, whatever was cached before.
Fresh(c, map) == [id |-> c, partyId |-> NoParty, mapId |-> map]

Cached(c) == c \in DOMAIN charReg

Character(c) == IF Cached(c) THEN charReg[c] ELSE ZeroCharacter

\* A slip: the literal of the setter forgets the id.
JoinPartyOfNobody(m, p) == [m EXCEPT !.partyId = p, !.id = NoCharacter]

\* Model.JoinParty, Model.LeaveParty and Model.ChangeMap.
JoinParty(m, p)   == [m EXCEPT !.partyId = p]
LeaveParty(m)     == [m EXCEPT !.partyId = NoParty]
ChangeMap(m, map) == [m EXCEPT !.mapId = map]

CreateCharacter(c, map) == charReg' = Put(charReg, c, Fresh(c, map))

\* Update, with what the updater made of Character(c).  It does not ask whether
\* the record is there: for an absent id it stores what the updater makes of
\* Model{}, a record whose own id is zero.
UpdateCharacter(c, updated) == charReg' = Put(charReg, c, updated)

DeleteCharacter(c) == charReg' = DeleteKeys(charReg, {c})

=============================================================================
