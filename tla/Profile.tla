------------------------------- MODULE Profile -------------------------------
(***************************************************************************)
(* profile/index.ts of the client: the operations of ProfileManager on the *)
(* profile it holds in memory, each as a function of the profile.  Where   *)
(* the code throws, the operator named Can... is FALSE.  Persisting the    *)
(* result (persistProfile, one write of the whole profile to the storage)  *)
(* belongs to the actions that use these operators.  Rooms are records in  *)
(* one set per type: no two of a set are told apart by their position.     *)
(***************************************************************************)
EXTENDS Cryptography

CONSTANT NoProfile   \* inMemoryProfile is null; nothing in the storage

RoomTypes   == {"public", "private", "direct"}
ProfileKeys == {"rln_identity_commitment", "root_hash", "leaves", "user_private_key",
                "user_public_key", "rooms", "contacts", "username", "user_id"}

NewProfile(identityCommitment, root, leaves, keyPair, id) ==
  [rln_identity_commitment |-> identityCommitment, root_hash |-> root, leaves |-> leaves,
   user_private_key |-> keyPair, user_public_key |-> keyPair,
   rooms |-> [t \in RoomTypes |-> {}], contacts |-> <<>>, username |-> "", user_id |-> id]

\* LocalStorageProvider.load rejects, and loadProfile returns false, when empty.
CanLoadProfile(stored) == stored # NoProfile

\* validateFormat: the keys of the profile and of its rooms, and no others.
ValidFormat(data) == DOMAIN data = ProfileKeys /\ DOMAIN data.rooms = RoomTypes

\* exportProfile blanks root and leaves in a copy and then returns the original.
ExportWithoutTree(p) == [k \in DOMAIN p \ {"root_hash", "leaves"} |-> p[k]]     \* mutant
ExportProfile(p) == p

UpdateUsername(p, newName) == [p EXCEPT !.username = newName]

UpdateRootHash(p, root)  == [p EXCEPT !.root_hash = root]
UpdateLeaves(p, leaves)  == [p EXCEPT !.leaves = leaves]

-----------------------------------------------------------------------------
(* Trusted contacts: a function from the names to the public keys.         *)

KeyFree(p, publicKey, ignored) ==
  \A c \in DOMAIN p.contacts \ ignored : p.contacts[c] # publicKey

CanInsertContact(p, name, publicKey) ==
  name \notin DOMAIN p.contacts /\ KeyFree(p, publicKey, {})
\* The new name must be free although the old one is about to go: a contact
\* whose name stays cannot be given another key.
CanUpdateContact(p, old, new, publicKey) ==
  old \in DOMAIN p.contacts /\ new \notin DOMAIN p.contacts /\ KeyFree(p, publicKey, {old})
CanDeleteContact(p, name) == name \in DOMAIN p.contacts

DeleteContact(p, name) ==
  [p EXCEPT !.contacts = [c \in DOMAIN @ \ {name} |-> @[c]]]
InsertContact(p, name, publicKey) ==
  [p EXCEPT !.contacts = [c \in DOMAIN @ \cup {name} |-> IF c = name THEN publicKey ELSE @[c]]]
UpdateKeepingOld(p, old, new, publicKey) == InsertContact(p, new, publicKey)         \* mutant
UpdateContact(p, old, new, publicKey) == InsertContact(DeleteContact(p, old), new, publicKey)

-----------------------------------------------------------------------------
(* Rooms.                                                                  *)

Room(id, key)                 == [id |-> id, symmetric_key |-> key]
DirectRoom(id, recipient, dh) ==
  [id |-> id, symmetric_key |-> NoKey, recipient_public_key |-> recipient, dh |-> dh]

\* addPublicRoom, addPrivateRoom: one room per symmetric key.
CanAddRoom(p, type, room) == \A r \in p.rooms[type] : r.symmetric_key # room.symmetric_key
CanAddAnyDirectRoom(p, room) == \A r \in p.rooms["direct"] : r.id # room.id        \* mutant
\* addDirectRoom: one room per recipient.
CanAddDirectRoom(p, room) ==
  \A r \in p.rooms["direct"] : r.recipient_public_key # room.recipient_public_key

AddRoom(p, type, room) == [p EXCEPT !.rooms[type] = @ \cup {room}]

\* The first of public, private, direct that has the id; {} when none has.
RoomsById(p, id) ==
  LET having(t) == {[type |-> t, room |-> r] : r \in {r \in p.rooms[t] : r.id = id}}
  IN  IF having("public") # {} THEN having("public")
      ELSE IF having("private") # {} THEN having("private") ELSE having("direct")
RoomById(p, id) == CHOOSE found \in RoomsById(p, id) : TRUE
RoomIds(p)      == {r.id : r \in UNION {p.rooms[t] : t \in RoomTypes}}

encryptMessageForRoom(p, id, message) ==
  encryptMessageSymmetric(message, RoomById(p, id).room.symmetric_key)

\* ChatManager.decryptMessage tries the rooms of the type of the message.
RoomsForChatType(p, type) == IF type \in RoomTypes THEN p.rooms[type] ELSE {}
RoomsDecrypting(p, type, cipher) ==
  {r \in RoomsForChatType(p, type) : decryptMessageSymmetric(cipher, r.symmetric_key) # Failed}

RoomsAvailableForKeyExchange(p) == {r \in p.rooms["direct"] : r.symmetric_key = NoKey}

DeriveWithUserKey(p, room, dhPublicKey) ==     \* mutant: the user's key pair, not the room's
  LET keyed == [room EXCEPT !.symmetric_key = deriveSharedSecretKey(p.user_private_key, dhPublicKey)]
  IN  [p EXCEPT !.rooms["direct"] = {IF r.id = room.id THEN keyed ELSE r : r \in @}]
\* deriveRoomSecretKey on a room of this profile.
DeriveRoomSecretKey(p, room, dhPublicKey) ==
  LET keyed == [room EXCEPT !.symmetric_key = deriveSharedSecretKey(room.dh, dhPublicKey)]
  IN  [p EXCEPT !.rooms["direct"] =
         {IF r.id = room.id THEN keyed ELSE r : r \in @}]
=============================================================================
