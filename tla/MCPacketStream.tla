---------------------------- MODULE MCPacketStream ----------------------------
(* Small instance of PacketStream for TLC: bytes of four bits, three of them *)
(* data bits of a VarInteger, VarIntegers of seven bits (two whole groups    *)
(* and a partial one, as 32 = 4 * 7 + 4), positions of 3 + 3 + 2 bits.       *)
EXTENDS PacketStream, TLC

P == INSTANCE Packets

MCBytesOf == [ubyte |-> 1, short |-> 2, ushort |-> 2, int |-> 2, long |-> 2, ulong |-> 2]

Layouts ==
  <<P!Handshake, P!LoginStart(2, 1), P!KeepAlive, P!PlayerCommand, P!SetHealth,
    P!SpawnPlayer, P!SynchronizePlayerPosition, P!TeleportEntity,
    P!UpdateEntityPositionAndRotation, P!UpdateEntityPosition,
    P!UpdateEntityRotation, P!ChatCommand(<<0, 2>>), P!ConfirmTeleportation,
    P!SetPlayerPosition, P!UseItemOn>>

(* Ids beyond those of the layouts: a packet whose tail is not decoded, as  *)
(* Login, one that no case handles, one with nothing but a VarInt and one   *)
(* with a Position; the last three need two bytes.                          *)
LoginID    == 0
UnknownID  == -1
NumberID   == 20
LocationID == 63

AllLayouts ==
  [i \in 1 .. Len(Layouts) |-> Layouts[i]]
  @@ (LoginID :> <<P!Field("int"), P!Field("string")>>)
  @@ (UnknownID :> <<P!Field("string")>>)
  @@ (NumberID :> <<P!Field("varint")>>)
  @@ (LocationID :> <<P!Field("position")>>)

AllDecoders ==
  [i \in DOMAIN AllLayouts \ {UnknownID} |->
     IF i = LoginID THEN <<P!Field("int")>> ELSE AllLayouts[i]]

(* Three values of each kind, among them the extremes *)
Sample(kind, k) ==
  CASE kind = "bool"     -> k # 1
    [] kind = "varint"   -> <<0, -64, 63>>[k]
    [] kind = "string"   -> <<<<>>, <<15, 8>>, <<1, 2, 3, 4, 5, 6, 7, 8, 9>>>>[k]
    [] kind = "position" -> [x |-> k - 3, y |-> 1 - k, z |-> k]
    [] kind = "ubyte"    -> <<15, 0, 8>>[k]
    [] kind \in Signed   -> <<-128, 127, -1>>[k]
    [] OTHER             -> <<255, 16, 15>>[k]

(* Every layout with three different choices of the values, VarInts on both *)
(* sides of each number of bytes they need, positions up to the extremes.   *)
Filled(i, shift) ==
  [id |-> i,
   values |-> [j \in DOMAIN AllLayouts[i] |->
                 Sample(AllLayouts[i][j].kind, 1 + ((j + shift) % 3))]]

Numbers   == <<-64, -63, -9, -8, -7, -1, 1, 7, 8, 9, 15, 62>>
Locations == <<[x |-> -4, y |-> -2, z |-> 2], [x |-> 3, y |-> 1, z |-> -4],
               [x |-> -4, y |-> 1, z |-> -4], [x |-> 3, y |-> -2, z |-> 3]>>

AllPackets ==
  FlattenSeq([shift \in 1 .. 3 |->
    [i \in 1 .. Len(Layouts) |-> Filled(i, shift)]
    \o <<Filled(LoginID, shift), Filled(UnknownID, shift)>>])
  \o [i \in DOMAIN Numbers |-> [id |-> NumberID, values |-> <<Numbers[i]>>]]
  \o [i \in DOMAIN Locations |-> [id |-> LocationID, values |-> <<Locations[i]>>]]

(* TLC evaluates a definition once and what replaces a constant every time: *)
(* these only name what was evaluated.                                      *)
MCLayout   == AllLayouts
MCDecoders == AllDecoders
MCPackets  == AllPackets
===============================================================================
