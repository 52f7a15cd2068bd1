------------------------------ MODULE PacketStream -----------------------------
(***************************************************************************)
(* Packets over a byte stream: encodePacket puts the length, the id and    *)
(* the contents of a packet into a DataSink, and the packet loop of the    *)
(* demo takes them out of a DataSource again.  Nothing marks the end of a  *)
(* packet: the reader finds the next one only if every decoder counts the  *)
(* bytes it used, and so did the encoder that wrote the length.            *)
(*                                                                         *)
(* The stream keeps every byte in order, which is what the endpoints are   *)
(* shown to do (StreamIntegrity of both), and pushes a packet in one piece.*)
(***************************************************************************)
EXTENDS PacketCoder

CONSTANTS
  Layout,       \* the fields of the packets with each id
  Packets,      \* the packets that may be sent, a sequence of [id, values]
  Decoders,     \* the fields the reader decodes, for the ids it handles
  MaxPackets    \* bound: packets sent in a behaviour

-------------------------------------------------------------------------------
(* encodePacket: the bytes of a packet *)

(* Mutant of DataSize: the length is taken before the id is counted. *)
DataSizeWithoutID(packet) == Len(EncodeContents(Layout[packet.id], packet.values))

DataSize(packet) ==
  Len(EncodeContents(Layout[packet.id], packet.values)) + Len(EncodeVarInteger(packet.id))

Encoded(packet) ==
  EncodeVarInteger(DataSize(packet)) \o EncodeVarInteger(packet.id)
  \o EncodeContents(Layout[packet.id], packet.values)

(* The length of a packet is a VarInt; no packet of the protocol is too long  *)
(* for one.                                                                   *)
ASSUME StreamAssumption ==
  /\ \A i \in DOMAIN Packets :
       LET packet == Packets[i]
       IN /\ packet.id \in DOMAIN Layout
          /\ packet.id \in SignedRange(VarBits)
          /\ IsContents(Layout[packet.id], packet.values)
          /\ DataSize(packet) \in SignedRange(VarBits)
  /\ \A i \in DOMAIN Decoders : IsLayout(Decoders[i])
  /\ \A i \in DOMAIN Decoders \cap DOMAIN Layout : IsPrefix(Decoders[i], Layout[i])
  /\ MaxPackets \in Nat

-------------------------------------------------------------------------------
VARIABLES
  stream,     \* the bytes that were pushed and not yet pulled
  sent,       \* history: the packets pushed, by their index
  usedBytes,  \* the sum of what encodePacket returned
  step,       \* where the reader stands in the loop
  dataLength, \* size_t dataLength, below zero for a value that wrapped around
  id,         \* the id of the packet being read
  values,     \* what was decoded of it
  counted,    \* the sum of what decode returned and pullBytes was asked for
  got         \* the packets read: [id, values]

readerVars == <<step, dataLength, id, values, counted, got>>
vars       == <<stream, sent, usedBytes, readerVars>>

Steps == {"length", "id", "body", "again", "thrown"}

(* A packet that was read never wraps dataLength around: more bytes were never *)
(* decoded than the length of the packet announced (main.cpp:324-455).         *)
TypeOK ==
  /\ stream \in Seq(Byte)
  /\ sent \in Seq(DOMAIN Packets)
  /\ usedBytes \in Nat
  /\ step \in Steps
  /\ dataLength \in Nat
  /\ counted \in Nat
  /\ Len(got) <= Len(sent)

Init ==
  /\ stream = <<>>
  /\ sent = <<>>
  /\ usedBytes = 0
  /\ step = "length"
  /\ dataLength = 0
  /\ id = 0
  /\ values = <<>>
  /\ counted = 0
  /\ got = <<>>

-------------------------------------------------------------------------------
EncodePacket(i) ==
  /\ Len(sent) < MaxPackets
  /\ sent' = Append(sent, i)
  /\ stream' = stream \o Encoded(Packets[i])
  /\ LET dataSize == DataSize(Packets[i])
     IN usedBytes' = usedBytes + dataSize + Len(EncodeVarInteger(dataSize))
  /\ UNCHANGED readerVars

-------------------------------------------------------------------------------
(* The packet loop *)

(* pullBytes: it blocks until the bytes are there. *)
Pull(n) ==
  /\ n <= Len(stream)
  /\ stream' = SubSeq(stream, n + 1, Len(stream))

PullLength ==
  /\ step = "length"
  /\ LET length == DecodeVarInteger(stream)
     IN /\ Pull(length.pulled)
        /\ counted' = counted + length.used
        /\ dataLength' = length.value
        /\ step' = IF length.throws THEN "thrown" ELSE "id"
  /\ UNCHANGED <<sent, usedBytes, id, values, got>>

(* Mutant of PullID: the fields of the packet before are still there. *)
PullIDStale ==
  /\ step = "id"
  /\ LET packetID == DecodeVarInteger(stream)
     IN /\ Pull(packetID.pulled)
        /\ counted' = counted + packetID.used
        /\ id' = packetID.value
        /\ dataLength' = dataLength - packetID.used
        /\ step' = IF packetID.throws THEN "thrown" ELSE "body"
  /\ UNCHANGED <<sent, usedBytes, values, got>>

PullID ==
  /\ step = "id"
  /\ LET packetID == DecodeVarInteger(stream)
     IN /\ Pull(packetID.pulled)
        /\ counted' = counted + packetID.used
        /\ id' = packetID.value
        /\ dataLength' = dataLength - packetID.used
        /\ step' = IF packetID.throws THEN "thrown" ELSE "body"
  /\ values' = <<>>
  /\ UNCHANGED <<sent, usedBytes, got>>

(* What the case of the packet decodes; nothing if the switch has none *)
Expected == IF id \in DOMAIN Decoders THEN Decoders[id] ELSE <<>>

NextField == Expected[Len(values) + 1]

(* PacketCoderImpl<Codable>::decode: one field after the other *)
PullField ==
  /\ step = "body"
  /\ Len(values) < Len(Expected)
  /\ IsPresent(NextField.when, values)
  /\ LET field == DecodeField(NextField.kind, stream)
     IN /\ Pull(field.pulled)
        /\ counted' = counted + field.used
        /\ values' = Append(values, field.value)
        /\ dataLength' = dataLength - field.used
        /\ step' = IF field.throws THEN "thrown" ELSE "body"
  /\ UNCHANGED <<sent, usedBytes, id, got>>

(* A Conditional that is not present uses no bytes. *)
SkipField ==
  /\ step = "body"
  /\ Len(values) < Len(Expected)
  /\ ~IsPresent(NextField.when, values)
  /\ values' = Append(values, None)
  /\ UNCHANGED <<stream, sent, usedBytes, step, dataLength, id, counted, got>>

(* Mutant of PullRest: what no case decoded is left in the stream. *)
PullRestSkipped ==
  /\ step = "body"
  /\ Len(values) = Len(Expected)
  /\ dataLength' = 0
  /\ got' = Append(got, [id |-> id, values |-> values])
  /\ step' = "again"
  /\ UNCHANGED <<stream, sent, usedBytes, id, values, counted>>

(* Mutant of PullRest: dataLength is not reset. *)
PullRestKept ==
  /\ step = "body"
  /\ Len(values) = Len(Expected)
  /\ Pull(dataLength)
  /\ counted' = counted + dataLength
  /\ got' = Append(got, [id |-> id, values |-> values])
  /\ step' = "again"
  /\ UNCHANGED <<sent, usedBytes, dataLength, id, values>>

(* pullBytes(dataLength), then dataLength = 0 *)
PullRest ==
  /\ step = "body"
  /\ Len(values) = Len(Expected)
  /\ Pull(dataLength)
  /\ counted' = counted + dataLength
  /\ dataLength' = 0
  /\ got' = Append(got, [id |-> id, values |-> values])
  /\ step' = "again"
  /\ UNCHANGED <<sent, usedBytes, id, values>>

(* The second pullBytes(dataLength), at the end of every round *)
PullAgain ==
  /\ step = "again"
  /\ Pull(dataLength)
  /\ counted' = counted + dataLength
  /\ step' = "length"
  /\ UNCHANGED <<sent, usedBytes, dataLength, id, values, got>>

Reader == PullLength \/ PullID \/ PullField \/ SkipField \/ PullRest \/ PullAgain

Next == (\E i \in DOMAIN Packets : EncodePacket(i)) \/ Reader

Spec == Init /\ [][Next]_vars

-------------------------------------------------------------------------------
(* The bytes of the packets behind the first n of s *)
Unread(s) ==
  LET unread[n \in 0 .. Len(s)] ==
        IF n = Len(s) THEN <<>> ELSE Encoded(Packets[s[n + 1]]) \o unread[n + 1]
  IN unread

(* Behind the dataLength bytes that are left of the packet being read, the     *)
(* stream holds exactly the packets that were not begun, whole: the length     *)
(* written by encodePacket, what each decoder says it used, and the rest that  *)
(* is skipped add up (PacketCoder.hpp:65-84, main.cpp:324-470).  So the reader *)
(* never loses its place.                                                      *)
Aligned ==
  step # "thrown" =>
    /\ dataLength <= Len(stream)
    /\ SubSeq(stream, dataLength + 1, Len(stream)) =
         Unread(sent)[IF step \in {"id", "body"} THEN Len(got) + 1 ELSE Len(got)]

(* The value of the i-th field as the reader gets it: None if it is absent *)
SeenValue(packet, i) ==
  IF IsPresent(Layout[packet.id][i].when, packet.values) THEN packet.values[i] ELSE None

(* What the reader should get of a packet: its id and the values of the fields *)
(* it decodes, those that are present.                                         *)
Seen(packet) ==
  [id     |-> packet.id,
   values |-> IF packet.id \in DOMAIN Decoders
              THEN [i \in DOMAIN Decoders[packet.id] |-> SeenValue(packet, i)]
              ELSE <<>>]

(* The packets that were sent, as the reader should see them *)
SentSeen == [n \in 1 .. Len(sent) |-> Seen(Packets[sent[n]])]

(* Everything a reader may see of a packet *)
SeenPackets == {Seen(Packets[i]) : i \in DOMAIN Packets}

(* The coder and the packet loop are a channel for packets: every step of the  *)
(* two sends one packet, or hands one over whole and in its turn, or changes   *)
(* nothing that a user sees (PacketCoder.hpp:63-88, main.cpp:322-471).         *)
Channel == INSTANCE PacketChannel
             WITH Message <- SeenPackets, sent <- SentSeen
ChannelSpec == Channel!Spec

(* The bytes pullBytes waits for in the reader's next step *)
Demand ==
  CASE step \in {"length", "id"} -> DecodeVarInteger(stream).pulled
    [] step = "body" /\ Len(values) = Len(Expected) -> dataLength
    [] step = "again" -> dataLength
    [] step = "body" /\ Len(values) < Len(Expected) ->
         IF IsPresent(NextField.when, values)
           THEN DecodeField(NextField.kind, stream).pulled ELSE 0
    [] OTHER -> 0

(* The loop sleeps only at the start of a round, when every packet was read:   *)
(* anywhere else, and while there is a packet to read, the bytes of its next   *)
(* step are there.  So no count is too high, and the second pullBytes, which   *)
(* waits for nothing after the reset of dataLength, does not hold the loop up  *)
(* until the next packet comes (PacketCoder.hpp:70-84, main.cpp:323-470).      *)
NeverWaits == step # "length" \/ Len(got) < Len(sent) => Demand <= Len(stream)

(* The packets read are the packets sent, in order, with the same values: the *)
(* decoders of PacketCoder.ipp undo the encoders, negative numbers included.  *)
Delivered ==
  \A i \in 1 .. Len(got) : got[i] = Seen(Packets[sent[i]])

(* No decoder throws on what the encoders wrote (PacketCoder.ipp:35, 75). *)
NeverThrows == step # "thrown"

(* What encodePacket returned is what the decoders say they used and what is    *)
(* still in the stream: both sides count every byte once (PacketCoder.hpp:87,   *)
(* main.cpp:324-470).                                                           *)
BytesAccounted == step # "thrown" => usedBytes = counted + Len(stream)

-------------------------------------------------------------------------------
(* The inductive invariant: where the reader stands in the packet it reads. *)

Reading == Packets[sent[Len(got) + 1]]

(* The bytes of the fields of that packet behind the first n *)
Behind(n) == EncodeBehind(Layout[Reading.id], Reading.values)[n]

BetweenPackets ==
  /\ dataLength = 0
  /\ stream = Unread(sent)[Len(got)]

AtID ==
  /\ Len(got) < Len(sent)
  /\ dataLength = DataSize(Reading)
  /\ stream = (EncodeVarInteger(Reading.id) \o Behind(0)) \o Unread(sent)[Len(got) + 1]

(* m fields of it were decoded. *)
InBody ==
  /\ Len(got) < Len(sent)
  /\ id = Reading.id
  /\ \E m \in 0 .. Len(Expected) :
       /\ values = [i \in 1 .. m |-> SeenValue(Reading, i)]
       /\ dataLength = Len(Behind(m))
       /\ stream = Behind(m) \o Unread(sent)[Len(got) + 1]

(* The packets read are the first n that were sent. *)
Fetched ==
  \E n \in 0 .. Len(sent) : got = [i \in 1 .. n |-> Seen(Packets[sent[i]])]

IInv ==
  /\ TypeOK
  /\ Fetched
  /\ step \in {"length", "again"} => BetweenPackets
  /\ step = "id" => AtID
  /\ step = "body" => InBody
  /\ NeverThrows
  /\ BytesAccounted
===============================================================================
