-------------------------------- MODULE Packets --------------------------------
(***************************************************************************)
(* The contents() of the packets: the fields that are encoded, in order.   *)
(* Floating point fields are the integers of their bits, an Angle is its   *)
(* byte, a UUID its two words, an enum the VarInt it is coded as.          *)
(***************************************************************************)
EXTENDS Naturals, Sequences, SequencesExt

Field(kind)    == [kind |-> kind, when |-> 0]
When(i, kind)  == [kind |-> kind, when |-> i]   \* Conditional on field i
Times(n, kind) == [i \in 1 .. n |-> Field(kind)]

UUID == Times(2, "ulong")

Handshake ==
  <<Field("varint"), Field("string"), Field("ushort"), Field("varint")>>

(* key and signature: the sizes of the vectors publicKey and signature.  The *)
(* member playerUUID is not part of contents().                              *)
LoginStart(key, signature) ==
  <<Field("string"), Field("bool"), When(2, "long"), When(2, "varint")>>
  \o [i \in 1 .. key |-> When(2, "ubyte")] \o <<When(2, "varint")>>
  \o [i \in 1 .. signature |-> When(2, "ubyte")] \o <<Field("bool")>>

KeepAlive == <<Field("long")>>

PlayerCommand == <<Field("varint"), Field("varint"), Field("varint")>>

SetHealth == <<Field("int"), Field("varint"), Field("int")>>

SpawnPlayer ==
  <<Field("varint")>> \o UUID \o Times(3, "long") \o Times(2, "ubyte")

SynchronizePlayerPosition ==
  Times(3, "long") \o Times(2, "int")
  \o <<Field("ubyte"), Field("varint"), Field("bool")>>

TeleportEntity ==
  <<Field("varint")>> \o Times(3, "long") \o Times(2, "ubyte") \o <<Field("bool")>>

UpdateEntityPositionAndRotation ==
  <<Field("varint")>> \o Times(3, "short") \o Times(2, "ubyte") \o <<Field("bool")>>

UpdateEntityPosition == <<Field("varint")>> \o Times(3, "short") \o <<Field("bool")>>

UpdateEntityRotation == <<Field("varint")>> \o Times(2, "ubyte") \o <<Field("bool")>>

(* One argument, with a signature of the given number of bytes *)
SignedArgument(signature) ==
  <<Field("string"), Field("varint")>> \o Times(signature, "ubyte")

(* signatures: the sizes of the signatures of the vector signedArguments *)
ChatCommand(signatures) ==
  <<Field("string"), Field("long"), Field("long"), Field("varint")>>
  \o FlattenSeq([i \in DOMAIN signatures |-> SignedArgument(signatures[i])])
  \o <<Field("bool")>>

ConfirmTeleportation == <<Field("varint")>>

SetPlayerPosition == Times(3, "long") \o <<Field("bool")>>

UseItemOn ==
  <<Field("varint"), Field("position"), Field("varint")>> \o Times(3, "int")
  \o <<Field("bool"), Field("varint")>>
===============================================================================
