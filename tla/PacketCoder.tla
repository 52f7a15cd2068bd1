------------------------------ MODULE PacketCoder ------------------------------
(***************************************************************************)
(* PacketCoder: how the values of packets become bytes and bytes values.   *)
(*                                                                         *)
(* A packet is the sequence of its leaf fields.  The code encodes a        *)
(* Codable as its contents() one after the other and a vector as its       *)
(* elements one after the other, so a nested Codable or a vector stands    *)
(* here for its own fields, in place.  A Conditional is a field with the   *)
(* index of the boolean it refers to.  The widths of the code are          *)
(* constants: with 8 bits to a byte no instance could be checked.          *)
(***************************************************************************)
EXTENDS Integers, Sequences, SequencesExt

CONSTANTS
  DataBits,         \* data bits of a byte of a VarInteger, 7 in the code; a
                    \* byte has one bit more
  VarBits,          \* SIZE of VarInteger<SIZE>, 32 for VarInt
  BytesOf,          \* bytes of an integer of each kind: sizeof(T)
  HorizontalBits,   \* bits of Position::x and Position::z, 26 in the code
  VerticalBits      \* bits of Position::y, 12 in the code

Signed == {"short", "int", "long"}

ASSUME CoderAssumption ==
  /\ DataBits \in Nat \ {0}
  /\ VarBits \in Nat \ {0, 1}
  /\ DOMAIN BytesOf = Signed \cup {"ubyte", "ushort", "ulong"}
  /\ \A kind \in DOMAIN BytesOf : BytesOf[kind] \in Nat \ {0}
  /\ HorizontalBits \in Nat \ {0}
  /\ VerticalBits \in Nat \ {0}
  /\ 2 * HorizontalBits + VerticalBits = BytesOf["ulong"] * (DataBits + 1)

(* 1 << n *)
Pow2[n \in Nat] == IF n = 0 THEN 1 ELSE 2 * Pow2[n - 1]

Continue == Pow2[DataBits]         \* CONTINUE_BIT
ByteSize == 2 * Continue
Byte     == 0 .. ByteSize - 1

(* static_cast between a signed type of the given width and its unsigned one *)
ToUnsigned(v, bits) == v % Pow2[bits]
ToSigned(u, bits)   == IF u >= Pow2[bits - 1] THEN u - Pow2[bits] ELSE u

(* Mutant of Coordinate: the most negative coordinate is taken for positive. *)
CoordinateOffByOne(u, bits) == IF u > Pow2[bits - 1] THEN u - Pow2[bits] ELSE u

(* Position::decode restores the sign of its narrower fields by hand. *)
Coordinate(u, bits) == IF u >= Pow2[bits - 1] THEN u - Pow2[bits] ELSE u

Kinds == {"bool", "varint", "string", "position"} \cup DOMAIN BytesOf

SignedRange(bits)   == -Pow2[bits - 1] .. Pow2[bits - 1] - 1
UnsignedRange(bits) == 0 .. Pow2[bits] - 1

(* The values of a field that its encoding has room for: the members of a      *)
(* Position are int64_t of which encode takes the low bits, and the length of  *)
(* a string is coded as a VarInt.                                              *)
ValuesOf(kind) ==
  CASE kind = "bool"     -> BOOLEAN
    [] kind = "varint"   -> SignedRange(VarBits)
    [] kind = "string"   -> {s \in Seq(Byte) : Len(s) \in SignedRange(VarBits)}
    [] kind = "position" -> [x : SignedRange(HorizontalBits), y : SignedRange(VerticalBits),
                             z : SignedRange(HorizontalBits)]
    [] kind \in Signed   -> SignedRange(BytesOf[kind] * (DataBits + 1))
    [] OTHER             -> UnsignedRange(BytesOf[kind] * (DataBits + 1))

-------------------------------------------------------------------------------
(* Encoding: the bytes of a value.  Their number is what encode returns. *)

Groups[u \in 0 .. Pow2[VarBits] - 1] ==
  IF u < Continue THEN <<u>>
  ELSE <<Continue + (u % Continue)>> \o Groups[u \div Continue]

EncodeVarInteger(v) == Groups[ToUnsigned(v, VarBits)]

(* Most significant byte first, as the code compiled for a little-endian *)
(* machine does it                                                        *)
EncodeInteger(v, bytes) ==
  LET u == ToUnsigned(v, bytes * (DataBits + 1))
  IN [i \in 1 .. bytes |-> (u \div Pow2[(DataBits + 1) * (bytes - i)]) % ByteSize]

EncodeBool(b) == IF b THEN <<1>> ELSE <<0>>

EncodeString(s) == EncodeVarInteger(Len(s)) \o s

EncodePosition(p) ==
  EncodeInteger(ToUnsigned(p.x, HorizontalBits) * Pow2[HorizontalBits + VerticalBits]
                + ToUnsigned(p.z, HorizontalBits) * Pow2[VerticalBits]
                + ToUnsigned(p.y, VerticalBits), BytesOf["ulong"])

EncodeField(kind, v) ==
  CASE kind = "bool"     -> EncodeBool(v)
    [] kind = "varint"   -> EncodeVarInteger(v)
    [] kind = "string"   -> EncodeString(v)
    [] kind = "position" -> EncodePosition(v)
    [] OTHER             -> EncodeInteger(v, BytesOf[kind])

(* The value of a field that is absent *)
None == "none"

(* Conditional::isPresent: the condition is an earlier field of the packet *)
IsPresent(when, values) == when # 0 => values[when]

(* A Conditional refers to a bool that comes before it and is always there, as *)
(* hasSigData of LoginStartPacket.                                             *)
IsLayout(fields) ==
  /\ fields \in Seq([kind : Kinds, when : Nat])
  /\ \A i \in 1 .. Len(fields) :
       LET when == fields[i].when
       IN when # 0 => when < i /\ fields[when] = [kind |-> "bool", when |-> 0]

(* The values of the fields that are present have the types of the fields. *)
IsContents(fields, values) ==
  /\ IsLayout(fields)
  /\ DOMAIN values = 1 .. Len(fields)
  /\ \A i \in 1 .. Len(fields) :
       IsPresent(fields[i].when, values) => values[i] \in ValuesOf(fields[i].kind)

(* What is encoded of the i-th field: a Conditional may be absent. *)
EncodeEntry(fields, values, i) ==
  IF IsPresent(fields[i].when, values) THEN EncodeField(fields[i].kind, values[i]) ELSE <<>>

(* The bytes of the fields behind the first n *)
EncodeBehind(fields, values) ==
  LET encoded[n \in 0 .. Len(fields)] ==
        IF n = Len(fields) THEN <<>>
        ELSE EncodeEntry(fields, values, n + 1) \o encoded[n + 1]
  IN encoded

EncodeContents(fields, values) == EncodeBehind(fields, values)[0]

-------------------------------------------------------------------------------
(* Decoding: the value, the number of bytes pulled for it, the number      *)
(* that decode returns, and whether the code throws instead.  A decoder    *)
(* that needs more bytes than there are blocks in pullByte: it pulls more  *)
(* bytes than the stream has.                                              *)

ByteAt(s, i) == IF i <= Len(s) THEN s[i] ELSE 0

(* The loop ends behind the first byte without the continue bit. *)
VarLength(s) ==
  LET last == SelectInSeq(s, LAMBDA byte : byte < Continue)
  IN IF last = 0 THEN Len(s) + 1 ELSE last

(* Mutant of VarTooBig: the bits of the next byte have to fit completely. *)
VarTooBigEarly(s) == DataBits * VarLength(s) > VarBits

(* shiftAmount >= SIZE before another byte is pulled *)
VarTooBig(s) == DataBits * (VarLength(s) - 1) >= VarBits

(* uValue after n bytes *)
Gathered(s) ==
  LET uValue[n \in Nat] ==
        IF n = 0 THEN 0
        ELSE uValue[n - 1] + (ByteAt(s, n) % Continue) * Pow2[DataBits * (n - 1)]
  IN uValue

DecodeVarInteger(s) ==
  LET n == VarLength(s)
      u == Gathered(s)[n] % Pow2[VarBits]
  IN [value |-> ToSigned(u, VarBits), pulled |-> n, used |-> n, throws |-> VarTooBig(s)]

(* uValue after n bytes, the first one most significant *)
Shifted(s) ==
  LET uValue[n \in Nat] ==
        IF n = 0 THEN 0 ELSE uValue[n - 1] * ByteSize + ByteAt(s, n)
  IN uValue

DecodeUnsigned(s, bytes) == Shifted(s)[bytes]

DecodeInteger(s, kind) ==
  LET bytes == BytesOf[kind]
      u     == DecodeUnsigned(s, bytes)
  IN [value  |-> IF kind \in Signed THEN ToSigned(u, bytes * (DataBits + 1)) ELSE u,
      pulled |-> bytes,
      used   |-> bytes,
      throws |-> FALSE]

(* The byte is peeked at once or twice and pulled once. *)
DecodeBool(s) ==
  [value |-> ByteAt(s, 1) = 1, pulled |-> 1, used |-> 1,
   throws |-> ByteAt(s, 1) \notin {0, 1}]

(* Mutant of DecodeString: usedBytes without the bytes of the size. *)
DecodeStringUnsized(s) ==
  LET size == DecodeVarInteger(s)
      last == size.pulled + size.value
  IN [value  |-> SubSeq(s, size.pulled + 1, IF last < Len(s) THEN last ELSE Len(s)),
      pulled |-> last,
      used   |-> size.value,
      throws |-> size.throws]

DecodeString(s) ==
  LET size == DecodeVarInteger(s)
      last == size.pulled + size.value
  IN [value  |-> SubSeq(s, size.pulled + 1, IF last < Len(s) THEN last ELSE Len(s)),
      pulled |-> last,
      used   |-> size.used + size.value,
      throws |-> size.throws]

DecodePosition(s) ==
  LET raw == DecodeUnsigned(s, BytesOf["ulong"])
      X   == (raw \div Pow2[HorizontalBits + VerticalBits]) % Pow2[HorizontalBits]
      Z   == (raw \div Pow2[VerticalBits]) % Pow2[HorizontalBits]
      Y   == raw % Pow2[VerticalBits]
  IN [value  |-> [x |-> Coordinate(X, HorizontalBits), y |-> Coordinate(Y, VerticalBits),
                  z |-> Coordinate(Z, HorizontalBits)],
      pulled |-> BytesOf["ulong"],
      used   |-> BytesOf["ulong"],
      throws |-> FALSE]

DecodeField(kind, s) ==
  CASE kind = "bool"     -> DecodeBool(s)
    [] kind = "varint"   -> DecodeVarInteger(s)
    [] kind = "string"   -> DecodeString(s)
    [] kind = "position" -> DecodePosition(s)
    [] OTHER             -> DecodeInteger(s, kind)
===============================================================================
