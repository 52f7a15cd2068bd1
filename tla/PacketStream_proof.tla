--------------------------- MODULE PacketStream_proof --------------------------
(***************************************************************************)
(* Packets over a byte stream arrive as they were sent: proofs for every   *)
(* set of packets, every layout and every width of the coder.              *)
(***************************************************************************)
EXTENDS PacketStream, PacketCoder_proof, Packets

-------------------------------------------------------------------------------
(* What encodePacket writes                                                    *)

(* The bytes of a packet between its length and its end *)
Body(packet) == EncodeVarInteger(packet.id) \o EncodeBehind(Layout[packet.id], packet.values)[0]

LEMMA PacketFacts ==
  ASSUME NEW i \in DOMAIN Packets
  PROVE  /\ Packets[i].id \in DOMAIN Layout
         /\ Packets[i].id \in SignedRange(VarBits)
         /\ IsContents(Layout[Packets[i].id], Packets[i].values)
         /\ DataSize(Packets[i]) \in SignedRange(VarBits)
BY StreamAssumption

LEMMA EncodedParts ==
  ASSUME NEW i \in DOMAIN Packets
  PROVE  LET packet == Packets[i]
             length == EncodeVarInteger(DataSize(packet))
         IN /\ length \in Seq(Byte) /\ Body(packet) \in Seq(Byte)
            /\ Encoded(packet) = length \o Body(packet)
            /\ Encoded(packet) \in Seq(Byte)
            /\ DataSize(packet) = Len(Body(packet))
            /\ Len(Encoded(packet)) = DataSize(packet) + Len(length)
            /\ DataSize(packet) \in Nat /\ Len(length) \in Nat
<1> DEFINE packet == Packets[i]
           length == EncodeVarInteger(DataSize(packet))
           name == EncodeVarInteger(packet.id)
           contents == EncodeBehind(Layout[packet.id], packet.values)[0]
<1>1. length \in Seq(Byte) /\ name \in Seq(Byte)
  BY PacketFacts, VarIntegerType
<1>2. contents \in Seq(Byte)
  <2>1. 0 \in 0 .. Len(Layout[packet.id])
    BY PacketFacts, BehindDef
  <2> QED BY <2>1, PacketFacts, BehindDef
<1>3. /\ Encoded(packet) = (length \o name) \o contents
      /\ DataSize(packet) = Len(contents) + Len(name)
      /\ Body(packet) = name \o contents
  BY DEF Encoded, EncodeContents, DataSize, Body
<1> HIDE DEF length, name, contents
<1>4. (length \o name) \o contents = length \o (name \o contents)
  <2>1. Regroups(length, name, contents)
    BY <1>1, <1>2, Regroup, Zenon
  <2> QED BY <2>1 DEF Regroups
<1>5. /\ name \o contents \in Seq(Byte)
      /\ Len(name \o contents) = Len(name) + Len(contents)
      /\ Len(name) \in Nat /\ Len(contents) \in Nat /\ Len(length) \in Nat
  BY <1>1, <1>2
<1> DEFINE body == name \o contents
<1>6. body \in Seq(Byte) /\ Len(body) = DataSize(packet) /\ Len(body) \in Nat
  BY <1>3, <1>5
<1>7. Encoded(packet) = length \o body /\ Body(packet) = body
  BY <1>3, <1>4
<1> HIDE DEF body
<1>8. length \o body \in Seq(Byte) /\ Len(length \o body) = Len(length) + Len(body)
  BY <1>1, <1>6, ConcatProperties, Zenon
<1> QED BY <1>1, <1>5, <1>6, <1>7, <1>8 DEF length

(* The packets behind the first n of s *)
LEMMA UnreadDef ==
  ASSUME NEW s \in Seq(DOMAIN Packets)
  PROVE  /\ Len(s) \in Nat
         /\ Unread(s)[Len(s)] = <<>>
         /\ \A n \in 0 .. Len(s) - 1 :
              Unread(s)[n] = Encoded(Packets[s[n + 1]]) \o Unread(s)[n + 1]
         /\ \A n \in 0 .. Len(s) : Unread(s)[n] \in Seq(Byte)
<1> DEFINE V == Seq(Byte)
           N == Len(s)
           entry(n) == Encoded(Packets[s[n + 1]])
           step_ == [n \in 0 .. N |-> [v \in V |-> IF n = N THEN <<>> ELSE entry(n) \o v]]
           unread == Unread(s)
<1>1. N \in Nat
  OBVIOUS
<1>2. <<>> \in V
  BY EmptySeq
<1>3. \A n \in 0 .. N - 1 : entry(n) \in V
  <2> SUFFICES ASSUME NEW n \in 0 .. N - 1 PROVE entry(n) \in V
    OBVIOUS
  <2>1. n + 1 \in 1 .. Len(s)
    BY <1>1
  <2>2. s[n + 1] \in DOMAIN Packets
    BY <2>1, ElementOfSeq
  <2> QED BY <2>2, EncodedParts
<1> HIDE DEF entry, N
<1>4. step_ \in [0 .. N -> [V -> V]]
  <2> SUFFICES ASSUME NEW n \in 0 .. N, NEW v \in V
               PROVE  (IF n = N THEN <<>> ELSE entry(n) \o v) \in V
    OBVIOUS
  <2>1. n # N => n \in 0 .. N - 1
    BY <1>1
  <2> QED BY <1>2, <1>3, <2>1
<1>5. PICK f \in [0 .. N -> V] : RecursDown(f, N, <<>>, step_)
  <2> HIDE DEF V, step_
  <2> QED BY <1>1, <1>2, <1>4, DownRecursion
<1>6. ASSUME NEW n \in 0 .. N
      PROVE  f[n] = IF n = N THEN <<>> ELSE entry(n) \o f[n + 1]
  <2>1. CASE n = N
    BY <1>5, <2>1 DEF RecursDown
  <2>2. CASE n # N
    <3>1. n \in 0 .. N - 1 /\ n + 1 \in 0 .. N
      BY <1>1, <2>2
    <3>2. f[n] = step_[n][f[n + 1]] /\ f[n + 1] \in V
      BY <1>5, <3>1 DEF RecursDown
    <3> QED BY <2>2, <3>2
  <2> QED BY <2>1, <2>2
<1>7. f = [n \in 0 .. N |-> IF n = N THEN <<>> ELSE entry(n) \o f[n + 1]]
  BY <1>6
<1>8. unread = [n \in 0 .. N |-> IF n = N THEN <<>> ELSE entry(n) \o unread[n + 1]]
  BY <1>7, Zenon DEF Unread, entry, N
<1> HIDE DEF unread
<1>9. /\ unread[N] = <<>>
      /\ \A n \in 0 .. N - 1 : unread[n] = entry(n) \o unread[n + 1]
  <2>1. N \in 0 .. N /\ \A n \in 0 .. N - 1 : n \in 0 .. N /\ n # N
    BY <1>1
  <2>2. \A n \in 0 .. N : unread[n] = IF n = N THEN <<>> ELSE entry(n) \o unread[n + 1]
    BY <1>8, Zenon
  <2> QED BY <2>1, <2>2, Zenon
<1> DEFINE S == {n \in 0 .. N : unread[n] \in V}
<1>10. N \in S
  <2>1. N \in 0 .. N
    BY <1>1
  <2> QED BY <1>2, <1>9, <2>1
<1>11. ASSUME NEW n \in 0 .. N - 1, n + 1 \in S
       PROVE  n \in S
  <2>1. n \in 0 .. N /\ entry(n) \in V /\ unread[n + 1] \in V
    BY <1>1, <1>3, <1>11
  <2>2. entry(n) \o unread[n + 1] \in V
    BY <2>1
  <2> QED BY <1>9, <2>1, <2>2
<1> HIDE DEF S
<1>12. 0 .. N \subseteq S
  BY <1>1, <1>10, <1>11, DownInduction
<1> QED BY <1>1, <1>9, <1>12 DEF S, N, entry, unread

(* A packet that is sent comes behind all that was not read. *)
LEMMA UnreadAppend ==
  ASSUME NEW s \in Seq(DOMAIN Packets), NEW i \in DOMAIN Packets
  PROVE  \A n \in 0 .. Len(s) : Unread(Append(s, i))[n] = Unread(s)[n] \o Encoded(Packets[i])
<1> DEFINE t == Append(s, i)
           N == Len(s)
           e == Encoded(Packets[i])
           S == {n \in 0 .. N : Unread(t)[n] = Unread(s)[n] \o e}
<1>1. /\ N \in Nat /\ t \in Seq(DOMAIN Packets) /\ Len(t) = N + 1 /\ t[N + 1] = i
      /\ \A n \in 1 .. N : t[n] = s[n]
  OBVIOUS
<1>2. e \in Seq(Byte)
  BY EncodedParts
<1> HIDE DEF t, e
<1>3. N \in S
  <2>1. Unread(t)[N + 1] = <<>> /\ Unread(s)[N] = <<>>
    BY <1>1, UnreadDef
  <2>2. N \in 0 .. Len(t) - 1
    BY <1>1
  <2>3. Unread(t)[N] = Encoded(Packets[t[N + 1]]) \o Unread(t)[N + 1]
    BY <1>1, <2>2, UnreadDef
  <2>4. Unread(t)[N] = e \o <<>>
    BY <1>1, <2>1, <2>3 DEF e
  <2>5. e \o <<>> = e /\ <<>> \o e = e
    BY <1>2, ConcatEmptySeq
  <2>6. Unread(t)[N] = Unread(s)[N] \o e
    BY <2>1, <2>4, <2>5, Zenon
  <2>7. N \in 0 .. N
    BY <1>1
  <2> QED BY <2>6, <2>7
<1>4. ASSUME NEW n \in 0 .. N - 1, n + 1 \in S
      PROVE  n \in S
  <2> DEFINE p == Encoded(Packets[s[n + 1]])
             r == Unread(s)[n + 1]
  <2>1. n \in 0 .. N /\ n \in 0 .. Len(t) - 1 /\ n + 1 \in 1 .. N /\ n + 1 \in 0 .. N
    BY <1>1
  <2>2. t[n + 1] = s[n + 1] /\ s[n + 1] \in DOMAIN Packets
    BY <1>1, <2>1, ElementOfSeq
  <2>3. Unread(s)[n] = p \o r /\ r \in Seq(Byte)
    BY <1>1, <2>1, UnreadDef
  <2>4. Unread(t)[n] = p \o Unread(t)[n + 1]
    BY <1>1, <2>1, <2>2, UnreadDef
  <2>5. Unread(t)[n + 1] = r \o e
    BY <1>4
  <2>6. p \in Seq(Byte)
    BY <2>2, EncodedParts
  <2> HIDE DEF p, r
  <2>7. p \o (r \o e) = (p \o r) \o e
    <3>1. Regroups(p, r, e)
      BY <1>2, <2>3, <2>6, Regroup, Zenon
    <3> QED BY <3>1 DEF Regroups
  <2> QED BY <2>1, <2>3, <2>4, <2>5, <2>7
<1> HIDE DEF S
<1>5. 0 .. N \subseteq S
  BY <1>1, <1>3, <1>4, DownInduction
<1> QED BY <1>5 DEF S, t, e

-------------------------------------------------------------------------------
(* The invariant                                                               *)

LEMMA GotType ==
  ASSUME Fetched, sent \in Seq(DOMAIN Packets)
  PROVE  /\ Len(got) \in 0 .. Len(sent)
         /\ got = [i \in 1 .. Len(got) |-> Seen(Packets[sent[i]])]
         /\ Len(sent) \in Nat
<1>1. PICK n \in 0 .. Len(sent) : got = [i \in 1 .. n |-> Seen(Packets[sent[i]])]
  BY DEF Fetched
<1> DEFINE g == [i \in 1 .. n |-> Seen(Packets[sent[i]])]
<1>2. Len(sent) \in Nat /\ n \in Nat
  OBVIOUS
<1>3. [i \in 1 .. n |-> g[i]] = got
  BY <1>1
<1> HIDE DEF g
<1>4. Len(got) = n
  BY <1>2, <1>3, FirstOf
<1> QED BY <1>1, <1>2, <1>4

(* Where the reader is in the packets that were sent *)
LEMMA ReadingFacts ==
  ASSUME IInv, Len(got) < Len(sent)
  PROVE  /\ Len(got) + 1 \in 1 .. Len(sent) /\ Len(got) + 1 \in 0 .. Len(sent)
         /\ Len(got) \in 0 .. Len(sent) - 1
         /\ sent[Len(got) + 1] \in DOMAIN Packets
         /\ \E i \in DOMAIN Packets : Reading = Packets[i]
         /\ Unread(sent)[Len(got) + 1] \in Seq(Byte)
<1>1. sent \in Seq(DOMAIN Packets) /\ Fetched
  BY DEF IInv, TypeOK
<1>2. Len(got) \in 0 .. Len(sent) /\ Len(sent) \in Nat
  BY <1>1, GotType
<1>3. /\ Len(got) + 1 \in 1 .. Len(sent) /\ Len(got) + 1 \in 0 .. Len(sent)
      /\ Len(got) \in 0 .. Len(sent) - 1
  BY <1>2
<1>4. sent[Len(got) + 1] \in DOMAIN Packets
  BY <1>1, <1>3, ElementOfSeq
<1>5. Unread(sent)[Len(got) + 1] \in Seq(Byte)
  BY <1>1, <1>3, UnreadDef
<1> QED BY <1>3, <1>4, <1>5 DEF Reading

(* What is expected of the packet being read is a prefix of its fields. *)
LEMMA ExpectedFacts ==
  ASSUME IInv, Len(got) < Len(sent), id = Reading.id
  PROVE  LET fields == Layout[Reading.id]
         IN /\ Expected \in Seq([kind : Kinds, when : Nat])
            /\ Len(Expected) \in Nat /\ Len(fields) \in Nat /\ Len(Expected) <= Len(fields)
            /\ \A i \in 1 .. Len(Expected) : Expected[i] = fields[i]
            /\ IsContents(fields, Reading.values)
            /\ Reading.id \in SignedRange(VarBits)
<1> DEFINE fields == Layout[Reading.id]
<1>1. /\ Reading.id \in DOMAIN Layout /\ Reading.id \in SignedRange(VarBits)
      /\ IsContents(fields, Reading.values)
  BY ReadingFacts, PacketFacts
<1>2. fields \in Seq([kind : Kinds, when : Nat]) /\ Len(fields) \in Nat
  <2>1. fields \in Seq([kind : Kinds, when : Nat])
    BY <1>1 DEF IsContents, IsLayout
  <2> QED BY <2>1, LenProperties
<1>3. CASE id \in DOMAIN Decoders
  <2> DEFINE d == Decoders[id]
  <2>1. Expected = d
    BY <1>3 DEF Expected
  <2>2. IsLayout(d) /\ IsPrefix(d, fields)
    BY <1>1, <1>3, StreamAssumption
  <2>3. d \in Seq([kind : Kinds, when : Nat]) /\ Len(d) \in Nat
    <3>1. d \in Seq([kind : Kinds, when : Nat])
      BY <2>2 DEF IsLayout
    <3> QED BY <3>1, LenProperties
  <2> HIDE DEF d, fields
  <2>4. Len(d) <= Len(fields) /\ SubSeq(d, 1, Len(d)) = SubSeq(fields, 1, Len(d))
    BY <2>2 DEF IsPrefix
  <2>5. \A i \in 1 .. Len(d) : d[i] = fields[i]
    <3> SUFFICES ASSUME NEW i \in 1 .. Len(d) PROVE d[i] = fields[i]
      OBVIOUS
    <3>1. SubSeq(d, 1, Len(d))[i] = d[i]
      BY <2>3
    <3>2. SubSeq(fields, 1, Len(d))[i] = fields[i]
      BY <1>2, <2>3, <2>4
    <3> QED BY <2>4, <3>1, <3>2
  <2> QED BY <1>1, <1>2, <2>1, <2>3, <2>4, <2>5 DEF fields
<1>4. CASE id \notin DOMAIN Decoders
  <2>1. Expected = <<>> /\ Len(<<>>) = 0 /\ <<>> \in Seq([kind : Kinds, when : Nat])
    BY <1>4, EmptySeq DEF Expected
  <2> QED BY <1>1, <1>2, <2>1
<1> QED BY <1>3, <1>4

LEMMA BehindType ==
  ASSUME IInv, Len(got) < Len(sent), id = Reading.id, NEW m \in 0 .. Len(Expected)
  PROVE  Behind(m) \in Seq(Byte)
<1> DEFINE fields == Layout[Reading.id]
<1>1. /\ Len(Expected) \in Nat /\ Len(fields) \in Nat /\ Len(Expected) <= Len(fields)
      /\ IsContents(fields, Reading.values)
  BY ExpectedFacts
<1>2. m \in 0 .. Len(fields)
  BY <1>1
<1> QED BY <1>1, <1>2, BehindDef DEF Behind

LEMMA InitIInv == Init => IInv
<1> SUFFICES ASSUME Init PROVE IInv
  OBVIOUS
<1>1. /\ stream = <<>> /\ sent = <<>> /\ got = <<>>
      /\ usedBytes = 0 /\ step = "length" /\ dataLength = 0 /\ counted = 0
  BY DEF Init
<1>2. stream \in Seq(Byte) /\ sent \in Seq(DOMAIN Packets)
  BY <1>1, EmptySeq
<1>3. Len(stream) = 0 /\ Len(sent) = 0 /\ Len(got) = 0
  BY <1>1
<1>4. TypeOK
  BY <1>1, <1>2, <1>3 DEF TypeOK, Steps
<1>5. Fetched
  <2>1. <<>> = [i \in 1 .. 0 |-> Seen(Packets[sent[i]])]
    OBVIOUS
  <2>2. 0 \in 0 .. Len(sent)
    BY <1>3
  <2> QED BY <1>1, <2>1, <2>2 DEF Fetched
<1>6. BetweenPackets
  <2>1. Unread(sent)[Len(sent)] = <<>>
    BY <1>2, UnreadDef
  <2> QED BY <1>1, <1>3, <2>1 DEF BetweenPackets
<1>7. NeverThrows /\ BytesAccounted
  BY <1>1, <1>3 DEF NeverThrows, BytesAccounted
<1> QED BY <1>1, <1>4, <1>5, <1>6, <1>7 DEF IInv

(* The reader is in the same packet before and after a step that reads none to *)
(* its end.                                                                    *)
LEMMA Continues ==
  ASSUME UNCHANGED <<sent, got>>
  PROVE  /\ Reading' = Reading
         /\ Unread(sent)' = Unread(sent)
         /\ \A n : Behind(n)' = Behind(n)
         /\ Fetched => Fetched'
<1>1. Reading' = Reading
  BY DEF Reading
<1> QED BY <1>1 DEF Behind, Fetched

LEMMA EncodePacketStep ==
  ASSUME IInv, NEW i \in DOMAIN Packets, EncodePacket(i)
  PROVE  IInv'
<1> DEFINE e == Encoded(Packets[i])
           k == Len(got)
           N == Len(sent)
<1>1. /\ sent \in Seq(DOMAIN Packets) /\ stream \in Seq(Byte) /\ usedBytes \in Nat
      /\ step \in Steps /\ dataLength \in Nat /\ counted \in Nat
      /\ k \in 0 .. N /\ got = [j \in 1 .. k |-> Seen(Packets[sent[j]])] /\ N \in Nat
  BY GotType DEF IInv, TypeOK
<1>2. /\ sent' = Append(sent, i)
      /\ stream' = stream \o e
      /\ usedBytes' = usedBytes + DataSize(Packets[i])
                         + Len(EncodeVarInteger(DataSize(Packets[i])))
      /\ step' = step /\ dataLength' = dataLength /\ id' = id /\ values' = values
      /\ counted' = counted /\ got' = got
  BY DEF EncodePacket, readerVars
<1>3. /\ sent' \in Seq(DOMAIN Packets) /\ Len(sent') = N + 1
      /\ \A j \in 1 .. N : sent'[j] = sent[j]
  BY <1>1, <1>2
<1>4. /\ e \in Seq(Byte)
      /\ Len(e) = DataSize(Packets[i]) + Len(EncodeVarInteger(DataSize(Packets[i])))
      /\ DataSize(Packets[i]) \in Nat
      /\ Len(EncodeVarInteger(DataSize(Packets[i]))) \in Nat
  BY EncodedParts
<1> HIDE DEF e
<1>5. stream' \in Seq(Byte) /\ Len(stream') = Len(stream) + Len(e) /\ Len(stream) \in Nat
  <2>1. stream \in Seq(Byte) /\ e \in Seq(Byte) /\ stream' = stream \o e
    BY <1>1, <1>2, <1>4
  <2> QED BY <2>1, RestOfConcat
<1>6. usedBytes' \in Nat /\ usedBytes' = usedBytes + Len(e)
  BY <1>1, <1>2, <1>4
<1>7. TypeOK'
  <2>1. Len(got') <= Len(sent')
    BY <1>1, <1>2, <1>3
  <2> QED BY <1>1, <1>2, <1>3, <1>5, <1>6, <2>1 DEF TypeOK
<1>8. Fetched'
  <2>1. got' = [j \in 1 .. k |-> Seen(Packets[sent'[j]])]
    BY <1>1, <1>2, <1>3
  <2>2. k \in 0 .. Len(sent')
    BY <1>1, <1>3
  <2> QED BY <2>1, <2>2 DEF Fetched
<1>9. \A n \in 0 .. N : Unread(sent')[n] = Unread(sent)[n] \o e /\ Unread(sent)[n] \in Seq(Byte)
  BY <1>1, <1>2, UnreadAppend, UnreadDef DEF e
<1>10. k < N => /\ Reading' = Reading /\ \A n : Behind(n)' = Behind(n)
                /\ k + 1 \in 0 .. N /\ k' < Len(sent')
  <2> SUFFICES ASSUME k < N
               PROVE  /\ Reading' = Reading /\ \A n : Behind(n)' = Behind(n)
                      /\ k + 1 \in 0 .. N /\ k' < Len(sent')
    OBVIOUS
  <2>1. k + 1 \in 1 .. N
    BY <1>1
  <2>2. Reading' = Reading
    BY <1>2, <1>3, <2>1 DEF Reading
  <2> QED BY <1>1, <1>2, <1>3, <2>1, <2>2 DEF Behind
<1>11. step \in {"length", "again"} => BetweenPackets'
  <2> SUFFICES ASSUME step \in {"length", "again"} PROVE BetweenPackets'
    OBVIOUS
  <2>1. BetweenPackets
    BY DEF IInv
  <2> QED BY <1>1, <1>2, <1>9, <2>1 DEF BetweenPackets
<1>12. step = "id" => AtID'
  <2> SUFFICES ASSUME step = "id" PROVE AtID'
    OBVIOUS
  <2> DEFINE b == EncodeVarInteger(Reading.id) \o Behind(0)
             u == Unread(sent)[k + 1]
  <2>1. /\ k < N /\ dataLength = DataSize(Reading) /\ stream = b \o u
    BY DEF IInv, AtID
  <2>2. b \in Seq(Byte) /\ u \in Seq(Byte)
    BY <2>1, ReadingFacts, EncodedParts DEF Body, Behind
  <2>3. b' = b /\ Unread(sent)'[k' + 1] = u \o e /\ DataSize(Reading)' = DataSize(Reading)
    BY <1>2, <1>9, <1>10, <2>1 DEF DataSize
  <2>4. stream' = b \o (u \o e)
    <3> HIDE DEF b, u
    <3>1. (b \o u) \o e = b \o (u \o e)
      <4>1. Regroups(b, u, e)
        BY <1>4, <2>2, Regroup, Zenon
      <4> QED BY <4>1 DEF Regroups
    <3> QED BY <1>2, <2>1, <3>1, Zenon
  <2> QED BY <1>2, <1>10, <2>1, <2>3, <2>4 DEF AtID
<1>13. step = "body" => InBody'
  <2> SUFFICES ASSUME step = "body" PROVE InBody'
    OBVIOUS
  <2> DEFINE u == Unread(sent)[k + 1]
  <2>1. InBody
    BY DEF IInv
  <2>2. PICK m \in 0 .. Len(Expected) :
           /\ values = [j \in 1 .. m |-> SeenValue(Reading, j)]
           /\ dataLength = Len(Behind(m))
           /\ stream = Behind(m) \o u
    BY <2>1 DEF InBody
  <2>3. k < N /\ id = Reading.id
    BY <2>1 DEF InBody
  <2>4. Expected' = Expected /\ Reading' = Reading /\ Behind(m)' = Behind(m)
    BY <1>2, <1>10, <2>3 DEF Expected
  <2>5. Behind(m) \in Seq(Byte) /\ u \in Seq(Byte)
    BY <2>2, <2>3, BehindType, ReadingFacts
  <2>6. Unread(sent)'[k' + 1] = u \o e
    BY <1>2, <1>9, <1>10, <2>3
  <2> HIDE DEF u
  <2>7. stream' = Behind(m) \o (u \o e)
    <3> DEFINE b == Behind(m)
    <3>1. b \in Seq(Byte) /\ u \in Seq(Byte) /\ e \in Seq(Byte)
      BY <1>4, <2>5
    <3> HIDE DEF b
    <3>2. (b \o u) \o e = b \o (u \o e)
      <4>1. Regroups(b, u, e)
        BY <3>1, Regroup, Zenon
      <4> QED BY <4>1 DEF Regroups
    <3> QED BY <1>2, <2>2, <3>2, Zenon DEF b
  <2>8. values' = [j \in 1 .. m |-> SeenValue(Reading', j)]
    BY <1>2, <2>2, <2>4
  <2> QED BY <1>2, <1>10, <2>2, <2>3, <2>4, <2>6, <2>7, <2>8 DEF InBody
<1>14. NeverThrows' /\ BytesAccounted'
  BY <1>1, <1>2, <1>5, <1>6 DEF IInv, NeverThrows, BytesAccounted
<1> QED BY <1>2, <1>7, <1>8, <1>11, <1>12, <1>13, <1>14 DEF IInv

(* pullBytes takes the first part of the stream. *)
LEMMA PulledAway ==
  ASSUME NEW a \in Seq(Byte), NEW b \in Seq(Byte), stream = a \o b, Pull(Len(a))
  PROVE  /\ stream' = b
         /\ Len(stream) = Len(a) + Len(b)
         /\ Len(a) \in Nat /\ Len(b) \in Nat
BY RestOfConcat DEF Pull

(* A VarInteger cannot be decoded from nothing: the decoder waits. *)
LEMMA NothingToDecode == DecodeVarInteger(<<>>).pulled = 1
<1>1. {i \in 1 .. Len(<<>>) : <<>>[i] < Continue} = {}
  OBVIOUS
<1>2. SelectInSeq(<<>>, LAMBDA byte : byte < Continue) = 0
  BY <1>1, Zenon DEF SelectInSeq
<1>3. VarLength(<<>>) = 1
  BY <1>2 DEF VarLength
<1> QED BY <1>3 DEF DecodeVarInteger

(* The bytes a are at the head of the stream, and the decoder makes v of them. *)
Ahead(answer, v, a, r) ==
  /\ a \in Seq(Byte) /\ r \in Seq(Byte)
  /\ stream = a \o r
  /\ answer = Answer(v, Len(a))

(* Between two packets the next one's length is ahead. *)
LEMMA LengthAhead ==
  ASSUME IInv, step = "length", Len(got) < Len(sent)
  PROVE  /\ Ahead(DecodeVarInteger(stream), DataSize(Reading),
                  EncodeVarInteger(DataSize(Reading)),
                  Body(Reading) \o Unread(sent)[Len(got) + 1])
         /\ DataSize(Reading) \in Nat
<1> DEFINE k == Len(got)
           N == Len(sent)
           u == Unread(sent)[k + 1]
           a == EncodeVarInteger(DataSize(Reading))
           b == Body(Reading)
           r == b \o u
<1>1. PICK i \in DOMAIN Packets : Reading = Packets[i]
  BY ReadingFacts
<1>2. a \in Seq(Byte) /\ b \in Seq(Byte) /\ u \in Seq(Byte)
      /\ Encoded(Reading) = a \o b /\ DataSize(Reading) \in Nat
      /\ DataSize(Reading) \in SignedRange(VarBits)
  BY <1>1, ReadingFacts, EncodedParts, PacketFacts
<1>3. stream = a \o r
  <2>1. k \in 0 .. N - 1 /\ sent \in Seq(DOMAIN Packets)
    BY ReadingFacts DEF IInv, TypeOK
  <2>2. stream = Unread(sent)[k]
    BY DEF IInv, BetweenPackets
  <2>3. Unread(sent)[k] = Encoded(Reading) \o u
    BY <2>1, UnreadDef DEF Reading
  <2> HIDE DEF a, b, u
  <2>4. Regroups(a, b, u)
    BY <1>2, Regroup, Zenon
  <2>5. (a \o b) \o u = a \o (b \o u)
    BY <2>4 DEF Regroups
  <2> QED BY <1>2, <2>2, <2>3, <2>5, Zenon
<1>4. r \in Seq(Byte)
  <2> HIDE DEF b, u
  <2> QED BY <1>2, RestOfConcat
<1>5. DecodeVarInteger(stream) = Answer(DataSize(Reading), Len(a))
  <2> HIDE DEF r, a
  <2>1. DecodeVarInteger(a \o r) = Answer(DataSize(Reading), Len(a))
    BY <1>2, <1>4, VarIntegerBack DEF a
  <2> QED BY <1>3, <2>1
<1> HIDE DEF a, r
<1>6. Ahead(DecodeVarInteger(stream), DataSize(Reading), a, r)
  BY <1>2, <1>3, <1>4, <1>5 DEF Ahead
<1> QED BY <1>2, <1>6 DEF a, r

LEMMA PullLengthStep ==
  ASSUME IInv, PullLength
  PROVE  IInv'
<1> DEFINE k == Len(got)
           N == Len(sent)
           length == DecodeVarInteger(stream)
           u == Unread(sent)[k + 1]
           a == EncodeVarInteger(DataSize(Reading))
           b == Body(Reading)
<1>1. /\ step = "length" /\ Pull(length.pulled)
      /\ counted' = counted + length.used
      /\ dataLength' = length.value
      /\ step' = IF length.throws THEN "thrown" ELSE "id"
      /\ UNCHANGED <<sent, usedBytes, id, values, got>>
  BY DEF PullLength
<1>2. /\ sent \in Seq(DOMAIN Packets) /\ stream \in Seq(Byte) /\ usedBytes \in Nat
      /\ counted \in Nat /\ k \in 0 .. N /\ N \in Nat /\ Fetched
  BY GotType DEF IInv, TypeOK
<1>3. BetweenPackets /\ usedBytes = counted + Len(stream)
  BY <1>1 DEF IInv, BytesAccounted
<1>4. k < N
  <2> SUFFICES ASSUME k = N PROVE FALSE
    BY <1>2
  <2>1. stream = <<>>
    BY <1>2, <1>3, UnreadDef DEF BetweenPackets
  <2>2. Pull(1)
    BY <1>1, <2>1, NothingToDecode
  <2> QED BY <2>1, <2>2 DEF Pull
<1> DEFINE r == b \o u
<1>5. Ahead(length, DataSize(Reading), a, r) /\ DataSize(Reading) \in Nat
  BY <1>1, <1>4, LengthAhead
<1> HIDE DEF length, r, a
<1>6. /\ a \in Seq(Byte) /\ r \in Seq(Byte) /\ stream = a \o r
      /\ length = Answer(DataSize(Reading), Len(a))
  BY <1>5 DEF Ahead
<1>7. /\ length.pulled = Len(a) /\ length.used = Len(a)
       /\ length.value = DataSize(Reading) /\ length.throws = FALSE
  BY <1>6 DEF Answer
<1>8. stream' = r /\ Len(stream) = Len(a) + Len(r) /\ Len(a) \in Nat /\ Len(r) \in Nat
  BY <1>1, <1>6, <1>7, PulledAway
<1>9. step' = "id" /\ counted' = counted + Len(a) /\ dataLength' = DataSize(Reading)
  BY <1>1, <1>7
<1>10. /\ Reading' = Reading /\ Unread(sent)' = Unread(sent)
       /\ \A n : Behind(n)' = Behind(n)
       /\ Fetched'
  BY <1>1, <1>2, Continues
<1>11. TypeOK'
  <2>1. counted' \in Nat /\ step' \in Steps
    BY <1>2, <1>8, <1>9 DEF Steps
  <2> QED BY <1>1, <1>2, <1>5, <1>6, <1>8, <1>9, <2>1 DEF TypeOK
<1>12. AtID'
  <2>1. DataSize(Reading)' = DataSize(Reading)
    BY <1>10 DEF DataSize
  <2>2. stream' = (EncodeVarInteger(Reading.id) \o Behind(0)) \o Unread(sent)[k + 1]
    BY <1>8 DEF r, Body, Behind
  <2> HIDE DEF u, b
  <2> QED BY <1>1, <1>4, <1>9, <1>10, <2>1, <2>2 DEF AtID
<1>13. usedBytes' = counted' + Len(stream')
  BY <1>1, <1>2, <1>3, <1>8, <1>9
<1> QED BY <1>9, <1>10, <1>11, <1>12, <1>13 DEF IInv, NeverThrows, BytesAccounted

(* Behind the length the id of the packet is ahead. *)
LEMMA IDAhead ==
  ASSUME IInv, step = "id"
  PROVE  LET a == EncodeVarInteger(Reading.id)
         IN /\ Ahead(DecodeVarInteger(stream), Reading.id, a,
                     Behind(0) \o Unread(sent)[Len(got) + 1])
            /\ Len(got) < Len(sent)
            /\ dataLength = Len(a) + Len(Behind(0))
            /\ Behind(0) \in Seq(Byte)
<1> DEFINE k == Len(got)
           u == Unread(sent)[k + 1]
           a == EncodeVarInteger(Reading.id)
           b == Behind(0)
           r == b \o u
<1>1. k < Len(sent) /\ dataLength = DataSize(Reading) /\ stream = (a \o b) \o u
  BY DEF IInv, AtID
<1>2. PICK i \in DOMAIN Packets : Reading = Packets[i]
  BY <1>1, ReadingFacts
<1>3. /\ u \in Seq(Byte) /\ Reading.id \in SignedRange(VarBits)
      /\ a \in Seq(Byte) /\ DataSize(Reading) = Len(a \o b)
      /\ IsContents(Layout[Reading.id], Reading.values)
  BY <1>1, <1>2, ReadingFacts, EncodedParts, PacketFacts, VarIntegerType DEF Body, Behind
<1>4. b \in Seq(Byte)
  <2>1. 0 \in 0 .. Len(Layout[Reading.id])
    BY <1>3, BehindDef
  <2> QED BY <1>3, <2>1, BehindDef DEF Behind
<1> HIDE DEF a, b, u
<1>5. stream = a \o r /\ r \in Seq(Byte) /\ dataLength = Len(a) + Len(b)
  <2>1. Regroups(a, b, u)
    BY <1>3, <1>4, Regroup, Zenon
  <2>2. (a \o b) \o u = a \o r
    BY <2>1 DEF Regroups, r
  <2> QED BY <1>1, <1>3, <1>4, <2>2, RestOfConcat
<1> HIDE DEF r
<1>6. DecodeVarInteger(stream) = Answer(Reading.id, Len(a))
  BY <1>3, <1>5, VarIntegerBack DEF a
<1>7. Ahead(DecodeVarInteger(stream), Reading.id, a, r)
  BY <1>3, <1>5, <1>6 DEF Ahead
<1> QED BY <1>1, <1>4, <1>5, <1>7 DEF a, b, r, u

LEMMA PullIDStep ==
  ASSUME IInv, PullID
  PROVE  IInv'
<1> DEFINE k == Len(got)
           N == Len(sent)
           packetID == DecodeVarInteger(stream)
           u == Unread(sent)[k + 1]
           a == EncodeVarInteger(Reading.id)
           b == Behind(0)
           r == b \o u
<1>1. /\ step = "id" /\ Pull(packetID.pulled)
      /\ counted' = counted + packetID.used
      /\ id' = packetID.value
      /\ dataLength' = dataLength - packetID.used
      /\ step' = IF packetID.throws THEN "thrown" ELSE "body"
      /\ values' = <<>>
      /\ UNCHANGED <<sent, usedBytes, got>>
  BY DEF PullID
<1>2. /\ sent \in Seq(DOMAIN Packets) /\ stream \in Seq(Byte) /\ usedBytes \in Nat
      /\ counted \in Nat /\ k \in 0 .. N /\ N \in Nat /\ Fetched
  BY GotType DEF IInv, TypeOK
<1>3. AtID /\ usedBytes = counted + Len(stream)
  BY <1>1 DEF IInv, BytesAccounted
<1>4. /\ k < N /\ dataLength = Len(a) + Len(b) /\ b \in Seq(Byte)
      /\ Ahead(packetID, Reading.id, a, r)
  BY <1>1, IDAhead
<1> HIDE DEF a, b, u, r, packetID
<1>5. /\ a \in Seq(Byte) /\ r \in Seq(Byte) /\ stream = a \o r
      /\ packetID = Answer(Reading.id, Len(a))
  BY <1>4 DEF Ahead
<1>6. Len(b) \in Nat /\ Len(a) \in Nat
  BY <1>4, <1>5, LenProperties
<1>7. /\ packetID.pulled = Len(a) /\ packetID.used = Len(a)
       /\ packetID.value = Reading.id /\ packetID.throws = FALSE
  BY <1>5 DEF Answer
<1>8. stream' = r /\ Len(stream) = Len(a) + Len(r) /\ Len(a) \in Nat /\ Len(r) \in Nat
  BY <1>1, <1>5, <1>7, PulledAway
<1>9. /\ step' = "body" /\ counted' = counted + Len(a) /\ id' = Reading.id
       /\ dataLength' = Len(b)
  BY <1>1, <1>4, <1>6, <1>7, <1>8
<1>10. /\ Reading' = Reading /\ Unread(sent)' = Unread(sent)
       /\ \A n : Behind(n)' = Behind(n)
       /\ Fetched'
  BY <1>1, <1>2, Continues
<1>11. TypeOK'
  <2>1. counted' \in Nat /\ step' \in Steps /\ dataLength' \in Nat
    BY <1>2, <1>6, <1>8, <1>9 DEF Steps
  <2> QED BY <1>1, <1>2, <1>5, <1>8, <2>1 DEF TypeOK
<1>12. InBody'
  <2>1. values' = [j \in 1 .. 0 |-> SeenValue(Reading', j)]
    BY <1>1
  <2>2. Len(Expected') \in Nat
    <3> DEFINE expected == Expected'
    <3>1. expected = IF Reading.id \in DOMAIN Decoders THEN Decoders[Reading.id] ELSE <<>>
      BY <1>9 DEF Expected
    <3>2. Reading.id \in DOMAIN Decoders =>
            Decoders[Reading.id] \in Seq([kind : Kinds, when : Nat])
      BY StreamAssumption DEF IsLayout
    <3>3. <<>> \in Seq([kind : Kinds, when : Nat])
      BY EmptySeq
    <3> HIDE DEF expected
    <3>4. expected \in Seq([kind : Kinds, when : Nat])
      BY <3>1, <3>2, <3>3
    <3>5. Len(expected) \in Nat
      BY <3>4, LenProperties
    <3> QED BY <3>5 DEF expected
  <2>3. 0 \in 0 .. Len(Expected')
    BY <2>2
  <2>4. dataLength' = Len(Behind(0)') /\ stream' = Behind(0)' \o Unread(sent)'[k' + 1]
    BY <1>1, <1>8, <1>9, <1>10 DEF r, b, u
  <2>5. k' < Len(sent') /\ id' = Reading'.id
    BY <1>1, <1>4, <1>9, <1>10
  <2> QED BY <2>1, <2>3, <2>4, <2>5 DEF InBody
<1>13. usedBytes' = counted' + Len(stream')
  BY <1>1, <1>2, <1>3, <1>8, <1>9
<1> QED BY <1>9, <1>10, <1>11, <1>12, <1>13 DEF IInv, NeverThrows, BytesAccounted

(* Halfway through a packet the first m fields that are expected were seen.    *)
HalfWay(m) ==
  /\ m \in 0 .. Len(Expected)
  /\ Len(values) = m
  /\ values = [i \in 1 .. m |-> SeenValue(Reading, i)]
  /\ dataLength = Len(Behind(m))
  /\ stream = Behind(m) \o Unread(sent)[Len(got) + 1]

LEMMA BodyFacts ==
  ASSUME IInv, step = "body"
  PROVE  /\ Len(got) < Len(sent) /\ id = Reading.id
         /\ \E m \in Nat : HalfWay(m)
<1>1. /\ Len(got) < Len(sent) /\ id = Reading.id
      /\ \E m \in 0 .. Len(Expected) :
           /\ values = [i \in 1 .. m |-> SeenValue(Reading, i)]
           /\ dataLength = Len(Behind(m))
           /\ stream = Behind(m) \o Unread(sent)[Len(got) + 1]
  BY DEF IInv, InBody
<1>2. PICK m \in 0 .. Len(Expected) :
        /\ values = [i \in 1 .. m |-> SeenValue(Reading, i)]
        /\ dataLength = Len(Behind(m))
        /\ stream = Behind(m) \o Unread(sent)[Len(got) + 1]
  BY <1>1
<1>3. m \in Nat
  BY <1>1, ExpectedFacts
<1> DEFINE g == [i \in 1 .. m |-> SeenValue(Reading, i)]
<1>4. [i \in 1 .. m |-> g[i]] = values
  BY <1>2
<1> HIDE DEF g
<1>5. Len(values) = m
  BY <1>3, <1>4, FirstOf
<1> QED BY <1>1, <1>2, <1>3, <1>5 DEF HalfWay

(* Whether a Conditional is present is known when it is decoded: the bool it   *)
(* refers to was decoded before it.                                            *)
LEMMA SamePresence ==
  ASSUME IInv, step = "body", NEW m \in Nat, HalfWay(m), m < Len(Expected)
  PROVE  LET fields == Layout[Reading.id]
         IN /\ NextField = fields[m + 1] /\ m + 1 \in 1 .. Len(fields)
            /\ IsPresent(NextField.when, values) <=>
                 IsPresent(fields[m + 1].when, Reading.values)
<1> DEFINE fields == Layout[Reading.id]
           w == fields[m + 1].when
<1>1. Len(got) < Len(sent) /\ id = Reading.id
  BY BodyFacts
<1>2. /\ Len(Expected) \in Nat /\ Len(fields) \in Nat /\ Len(Expected) <= Len(fields)
      /\ \A i \in 1 .. Len(Expected) : Expected[i] = fields[i]
      /\ IsLayout(fields)
  BY <1>1, ExpectedFacts DEF IsContents
<1>3. Len(values) = m /\ m + 1 \in 1 .. Len(Expected) /\ m + 1 \in 1 .. Len(fields)
  BY <1>2 DEF HalfWay
<1>4. NextField = fields[m + 1]
  BY <1>2, <1>3 DEF NextField
<1>5. w \in Nat /\ (w # 0 => w < m + 1 /\ fields[w] = [kind |-> "bool", when |-> 0])
  <2>1. fields \in Seq([kind : Kinds, when : Nat])
    BY <1>2 DEF IsLayout
  <2>2. fields[m + 1] \in [kind : Kinds, when : Nat]
    BY <1>3, <2>1, ElementOfSeq
  <2>3. w \in Nat
    BY <2>2
  <2> QED BY <1>2, <1>3, <2>3 DEF IsLayout
<1>6. w # 0 => values[w] = Reading.values[w]
  <2> SUFFICES ASSUME w # 0 PROVE values[w] = Reading.values[w]
    OBVIOUS
  <2>1. w \in 1 .. m /\ fields[w].when = 0
    BY <1>5
  <2> HIDE DEF w
  <2>2. values[w] = SeenValue(Reading, w)
    BY <2>1 DEF HalfWay
  <2>3. IsPresent(fields[w].when, Reading.values)
    BY <2>1 DEF IsPresent
  <2> QED BY <2>2, <2>3 DEF SeenValue
<1> HIDE DEF w
<1>7. IsPresent(w, values) <=> IsPresent(w, Reading.values)
  BY <1>6, Zenon DEF IsPresent
<1> QED BY <1>3, <1>4, <1>7 DEF w

(* The next field is done: the invariant goes on with one more. *)
LEMMA FieldDone ==
  ASSUME IInv, step = "body", NEW m \in Nat, HalfWay(m), m < Len(Expected),
         UNCHANGED <<sent, got, id, usedBytes>>, step' = "body",
         values' = Append(values, SeenValue(Reading, m + 1)),
         stream' = Behind(m + 1) \o Unread(sent)[Len(got) + 1],
         dataLength' = Len(Behind(m + 1)),
         counted' \in Nat, usedBytes' = counted' + Len(stream')
  PROVE  IInv'
<1> DEFINE u == Unread(sent)[Len(got) + 1]
           b == Behind(m + 1)
           g == [i \in 1 .. m + 1 |-> SeenValue(Reading, i)]
<1>1. /\ sent \in Seq(DOMAIN Packets) /\ usedBytes \in Nat
      /\ Len(got) <= Len(sent) /\ Fetched
      /\ Len(got) < Len(sent) /\ id = Reading.id
  BY BodyFacts DEF IInv, TypeOK
<1>2. m + 1 \in 0 .. Len(Expected) /\ Len(Expected) \in Nat
  BY <1>1, ExpectedFacts
<1>3. b \in Seq(Byte) /\ u \in Seq(Byte)
  BY <1>1, <1>2, BehindType, ReadingFacts
<1>4. stream' \in Seq(Byte) /\ dataLength' \in Nat
  <2> HIDE DEF b, u
  <2>1. stream' = b \o u /\ dataLength' = Len(b)
    BY DEF b, u
  <2>2. b \o u \in Seq(Byte)
    BY <1>3, ConcatProperties, Zenon
  <2>3. Len(b) \in Nat
    BY <1>3, LenProperties
  <2> QED BY <2>1, <2>2, <2>3, Zenon
<1>5. TypeOK'
  BY <1>1, <1>4 DEF TypeOK, Steps
<1>6. /\ Reading' = Reading /\ Unread(sent)' = Unread(sent)
      /\ \A n : Behind(n)' = Behind(n)
      /\ Fetched'
  BY <1>1, Continues
<1>7. values' = [i \in 1 .. m + 1 |-> SeenValue(Reading, i)]
  <2>1. values = [i \in 1 .. m |-> g[i]]
    BY DEF HalfWay
  <2>2. g[m + 1] = SeenValue(Reading, m + 1)
    OBVIOUS
  <2>3. g = [i \in 1 .. m + 1 |-> g[i]]
    OBVIOUS
  <2> HIDE DEF g
  <2>4. Append([i \in 1 .. m |-> g[i]], g[m + 1]) = [i \in 1 .. m + 1 |-> g[i]]
    BY FirstGrows
  <2>5. values' = g
    BY <2>1, <2>2, <2>3, <2>4, Zenon
  <2> QED BY <2>5 DEF g
<1>8. Expected' = Expected
  BY DEF Expected
<1>9. InBody'
  <2>1. values' = [i \in 1 .. m + 1 |-> SeenValue(Reading', i)]
    BY <1>6, <1>7
  <2>2. /\ dataLength' = Len(Behind(m + 1)')
        /\ stream' = Behind(m + 1)' \o Unread(sent)'[Len(got)' + 1]
    BY <1>6
  <2>3. m + 1 \in 0 .. Len(Expected')
    BY <1>2, <1>8
  <2> QED BY <1>1, <1>6, <2>1, <2>2, <2>3 DEF InBody
<1> QED BY <1>5, <1>6, <1>9 DEF IInv, NeverThrows, BytesAccounted

(* In the body the next field is ahead, unless it is not present. *)
LEMMA FieldAhead ==
  ASSUME IInv, step = "body", NEW m \in Nat, HalfWay(m), m < Len(Expected),
         IsPresent(NextField.when, values)
  PROVE  LET v == Reading.values[m + 1]
             a == EncodeField(NextField.kind, v)
         IN /\ Ahead(DecodeField(NextField.kind, stream), v, a,
                     Behind(m + 1) \o Unread(sent)[Len(got) + 1])
            /\ SeenValue(Reading, m + 1) = v
            /\ dataLength = Len(a) + Len(Behind(m + 1))
            /\ Behind(m + 1) \in Seq(Byte)
<1> DEFINE fields == Layout[Reading.id]
           kind == NextField.kind
           u == Unread(sent)[Len(got) + 1]
           v == Reading.values[m + 1]
           a == EncodeField(kind, v)
           b == Behind(m + 1)
           r == b \o u
<1>1. Len(got) < Len(sent) /\ id = Reading.id
  BY BodyFacts
<1>2. stream = Behind(m) \o u /\ dataLength = Len(Behind(m))
  BY DEF HalfWay
<1>3. /\ NextField = fields[m + 1] /\ m + 1 \in 1 .. Len(fields)
      /\ IsPresent(fields[m + 1].when, Reading.values)
  BY SamePresence
<1>4. IsContents(fields, Reading.values) /\ Len(fields) \in Nat /\ Len(Expected) \in Nat
  BY <1>1, ExpectedFacts
<1>5. kind \in Kinds /\ v \in ValuesOf(kind)
  <2>1. fields \in Seq([kind : Kinds, when : Nat])
    BY <1>4 DEF IsContents, IsLayout
  <2>2. fields[m + 1] \in [kind : Kinds, when : Nat]
    BY <1>3, <2>1, ElementOfSeq
  <2>3. kind \in Kinds
    BY <1>3, <2>2
  <2> QED BY <1>3, <1>4, <2>3 DEF IsContents
<1>6. SeenValue(Reading, m + 1) = v
  BY <1>3 DEF SeenValue
<1>7. Behind(m) = a \o b
  <2>1. m < Len(fields)
    BY <1>3, <1>4
  <2>2. EncodeEntry(fields, Reading.values, m + 1) = a
    BY <1>3 DEF EncodeEntry
  <2>3. EncodeBehind(fields, Reading.values)[m] =
          EncodeEntry(fields, Reading.values, m + 1) \o EncodeBehind(fields, Reading.values)[m + 1]
    <3> HIDE DEF fields
    <3> DEFINE contents == Reading.values
    <3>1. IsContents(fields, contents) /\ m < Len(fields) /\ m \in Nat
      BY <1>4, <2>1
    <3> HIDE DEF contents
    <3>2. EncodeBehind(fields, contents)[m] =
            EncodeEntry(fields, contents, m + 1) \o EncodeBehind(fields, contents)[m + 1]
      BY <3>1, BehindStep
    <3> QED BY <3>2 DEF contents
  <2> QED BY <2>2, <2>3 DEF Behind
<1>8. b \in Seq(Byte) /\ u \in Seq(Byte)
  <2>1. m + 1 \in 0 .. Len(Expected)
    BY <1>4
  <2> QED BY <1>1, <2>1, BehindType, ReadingFacts
<1> HIDE DEF b, u, v
<1>9. r \in Seq(Byte)
  BY <1>8, RestOfConcat
<1>10. a \in Seq(Byte) /\ DecodeField(kind, a \o r) = Answer(v, Len(a))
  <2> HIDE DEF r, kind
  <2> QED BY <1>5, <1>9, FieldBack
<1> HIDE DEF a
<1>11. stream = a \o r /\ Len(Behind(m)) = Len(a) + Len(b) /\ Len(b) \in Nat
  <2>1. (a \o b) \o u = a \o r
    <3>1. Regroups(a, b, u)
      BY <1>8, <1>10, Regroup, Zenon
    <3> QED BY <3>1 DEF Regroups, r
  <2>2. Len(a \o b) = Len(a) + Len(b) /\ Len(b) \in Nat
    BY <1>8, <1>10, RestOfConcat
  <2> QED BY <1>2, <1>7, <2>1, <2>2
<1> HIDE DEF r
<1>12. DecodeField(kind, stream) = Answer(v, Len(a))
  BY <1>10, <1>11
<1>13. Ahead(DecodeField(kind, stream), v, a, r)
  BY <1>9, <1>10, <1>11, <1>12 DEF Ahead
<1>14. dataLength = Len(a) + Len(b)
  BY <1>2, <1>11
<1> QED BY <1>6, <1>8, <1>13, <1>14 DEF a, b, r, u, v

LEMMA PullFieldStep ==
  ASSUME IInv, PullField
  PROVE  IInv'
<1> DEFINE kind == NextField.kind
           field == DecodeField(kind, stream)
           u == Unread(sent)[Len(got) + 1]
<1>1. /\ step = "body" /\ Len(values) < Len(Expected)
      /\ IsPresent(NextField.when, values)
      /\ Pull(field.pulled)
      /\ counted' = counted + field.used
      /\ values' = Append(values, field.value)
      /\ dataLength' = dataLength - field.used
      /\ step' = IF field.throws THEN "thrown" ELSE "body"
      /\ UNCHANGED <<sent, usedBytes, id, got>>
  BY DEF PullField
<1>2. /\ Len(got) < Len(sent) /\ id = Reading.id /\ counted \in Nat /\ usedBytes \in Nat
      /\ usedBytes = counted + Len(stream)
  BY <1>1, BodyFacts DEF IInv, TypeOK, BytesAccounted
<1>3. PICK m \in Nat : HalfWay(m)
  BY <1>1, BodyFacts
<1>4. m < Len(Expected)
  BY <1>1, <1>3 DEF HalfWay
<1> DEFINE v == Reading.values[m + 1]
           a == EncodeField(kind, v)
           b == Behind(m + 1)
           r == b \o u
<1>5. /\ Ahead(field, v, a, r) /\ SeenValue(Reading, m + 1) = v
      /\ dataLength = Len(a) + Len(b) /\ b \in Seq(Byte)
  BY <1>1, <1>3, <1>4, FieldAhead
<1> HIDE DEF a, b, r, u, v, field
<1>6. /\ a \in Seq(Byte) /\ r \in Seq(Byte) /\ stream = a \o r
      /\ field = Answer(v, Len(a))
  BY <1>5 DEF Ahead
<1>7. Len(a) \in Nat /\ Len(b) \in Nat
  BY <1>5, <1>6, LenProperties
<1>8. /\ field.pulled = Len(a) /\ field.used = Len(a)
       /\ field.value = v /\ field.throws = FALSE
  BY <1>6 DEF Answer
<1>9. stream' = r /\ Len(stream) = Len(a) + Len(r) /\ Len(a) \in Nat /\ Len(r) \in Nat
  BY <1>1, <1>6, <1>8, PulledAway
<1>10. /\ step' = "body" /\ counted' = counted + Len(a)
       /\ values' = Append(values, SeenValue(Reading, m + 1))
       /\ dataLength' = Len(b)
  BY <1>1, <1>5, <1>7, <1>8, <1>9
<1>11. counted' \in Nat /\ usedBytes' = counted' + Len(stream')
  <2> DEFINE all == Len(stream)
             own == Len(a)
             rest == Len(r)
  <2>1. /\ counted \in Nat /\ own \in Nat /\ rest \in Nat
        /\ usedBytes' = counted + all /\ all = own + rest
        /\ counted' = counted + own /\ Len(stream') = rest
    BY <1>1, <1>2, <1>9, <1>10
  <2> HIDE DEF all, own, rest
  <2> QED BY <2>1
<1>12. stream' = Behind(m + 1) \o Unread(sent)[Len(got) + 1] /\ dataLength' = Len(Behind(m + 1))
  BY <1>9, <1>10 DEF r, b, u
<1> QED BY <1>1, <1>3, <1>4, <1>10, <1>11, <1>12, FieldDone

LEMMA SkipFieldStep ==
  ASSUME IInv, SkipField
  PROVE  IInv'
<1> DEFINE fields == Layout[Reading.id]
<1>1. /\ step = "body" /\ Len(values) < Len(Expected)
      /\ ~IsPresent(NextField.when, values)
      /\ values' = Append(values, None)
      /\ UNCHANGED <<stream, sent, usedBytes, step, dataLength, id, counted, got>>
  BY DEF SkipField
<1>2. /\ Len(got) < Len(sent) /\ id = Reading.id /\ counted \in Nat
      /\ usedBytes = counted + Len(stream)
  BY <1>1, BodyFacts DEF IInv, TypeOK, BytesAccounted
<1>3. PICK m \in Nat : HalfWay(m)
  BY <1>1, BodyFacts
<1>4. /\ m < Len(Expected) /\ stream = Behind(m) \o Unread(sent)[Len(got) + 1]
      /\ dataLength = Len(Behind(m))
  BY <1>1, <1>3 DEF HalfWay
<1>5. m + 1 \in 1 .. Len(fields) /\ ~IsPresent(fields[m + 1].when, Reading.values)
  BY <1>1, <1>3, <1>4, SamePresence
<1>6. IsContents(fields, Reading.values) /\ Len(fields) \in Nat /\ Len(Expected) \in Nat
  BY <1>2, ExpectedFacts
<1>7. SeenValue(Reading, m + 1) = None
  BY <1>5 DEF SeenValue
<1>8. Behind(m) = Behind(m + 1)
  <2>1. m < Len(fields)
    BY <1>5, <1>6
  <2>2. EncodeEntry(fields, Reading.values, m + 1) = <<>>
    BY <1>5 DEF EncodeEntry
  <2>3. EncodeBehind(fields, Reading.values)[m] =
          EncodeEntry(fields, Reading.values, m + 1) \o EncodeBehind(fields, Reading.values)[m + 1]
    <3> HIDE DEF fields
    <3> DEFINE contents == Reading.values
    <3>1. IsContents(fields, contents) /\ m < Len(fields) /\ m \in Nat
      BY <1>6, <2>1
    <3> HIDE DEF contents
    <3>2. EncodeBehind(fields, contents)[m] =
            EncodeEntry(fields, contents, m + 1) \o EncodeBehind(fields, contents)[m + 1]
      BY <3>1, BehindStep
    <3> QED BY <3>2 DEF contents
  <2>4. Behind(m) = <<>> \o Behind(m + 1)
    BY <2>2, <2>3 DEF Behind
  <2>5. Behind(m + 1) \in Seq(Byte)
    <3>1. m + 1 \in 0 .. Len(Expected)
      BY <1>4, <1>6
    <3> QED BY <1>2, <3>1, BehindType
  <2> QED BY <2>4, <2>5, ConcatEmptySeq
<1>9. /\ stream' = Behind(m + 1) \o Unread(sent)[Len(got) + 1]
      /\ dataLength' = Len(Behind(m + 1)) /\ step' = "body"
      /\ values' = Append(values, SeenValue(Reading, m + 1))
      /\ counted' \in Nat /\ usedBytes' = counted' + Len(stream')
  BY <1>1, <1>2, <1>4, <1>7, <1>8
<1> QED BY <1>1, <1>3, <1>4, <1>9, FieldDone

(* When all fields that are expected were decoded, what was decoded is what    *)
(* the reader should see of the packet.                                        *)
LEMMA WholePacket ==
  ASSUME IInv, step = "body", Len(values) = Len(Expected)
  PROVE  [id |-> id, values |-> values] = Seen(Reading)
<1>1. id = Reading.id
  BY BodyFacts
<1>2. PICK m \in Nat : HalfWay(m)
  BY BodyFacts
<1>3. m = Len(Expected) /\ values = [i \in 1 .. m |-> SeenValue(Reading, i)]
  BY <1>2 DEF HalfWay
<1>4. CASE Reading.id \in DOMAIN Decoders
  <2> DEFINE d == Decoders[Reading.id]
  <2>1. d \in Seq([kind : Kinds, when : Nat]) /\ m = Len(d)
    BY <1>1, <1>3, <1>4, StreamAssumption DEF Expected, IsLayout
  <2> HIDE DEF d
  <2>2. DOMAIN d = 1 .. m
    BY <2>1, LenProperties
  <2>3. Seen(Reading) = [id |-> Reading.id,
                         values |-> [i \in DOMAIN d |-> SeenValue(Reading, i)]]
    BY <1>4 DEF Seen, d
  <2> QED BY <1>1, <1>3, <2>2, <2>3
<1>5. CASE Reading.id \notin DOMAIN Decoders
  <2>1. Expected = <<>>
    BY <1>1, <1>5 DEF Expected
  <2>2. m = 0
    BY <1>3, <2>1
  <2>3. values = <<>>
    BY <1>3, <2>2
  <2> QED BY <1>1, <1>5, <2>3 DEF Seen
<1> QED BY <1>4, <1>5

LEMMA PullRestStep ==
  ASSUME IInv, PullRest
  PROVE  IInv'
<1> DEFINE k == Len(got)
           u == Unread(sent)[k + 1]
           g == [i \in 1 .. k + 1 |-> Seen(Packets[sent[i]])]
<1>1. /\ step = "body" /\ Len(values) = Len(Expected)
      /\ Pull(dataLength)
      /\ counted' = counted + dataLength
      /\ dataLength' = 0
      /\ got' = Append(got, [id |-> id, values |-> values])
      /\ step' = "again"
      /\ UNCHANGED <<sent, usedBytes, id, values>>
  BY DEF PullRest
<1>2. /\ k < Len(sent) /\ id = Reading.id /\ counted \in Nat /\ usedBytes \in Nat
      /\ usedBytes = counted + Len(stream) /\ sent \in Seq(DOMAIN Packets) /\ Fetched
  BY <1>1, BodyFacts DEF IInv, TypeOK, BytesAccounted
<1>3. PICK m \in Nat : HalfWay(m)
  BY <1>1, BodyFacts
<1>4. /\ m = Len(Expected) /\ stream = Behind(m) \o u /\ dataLength = Len(Behind(m))
      /\ values = [i \in 1 .. m |-> SeenValue(Reading, i)]
  BY <1>1, <1>3 DEF HalfWay
<1>5. Behind(m) \in Seq(Byte) /\ u \in Seq(Byte)
  <2>1. m \in 0 .. Len(Expected)
    BY <1>3 DEF HalfWay
  <2> QED BY <1>2, <2>1, BehindType, ReadingFacts
<1>6. stream' = u /\ Len(stream) = dataLength + Len(u) /\ dataLength \in Nat /\ Len(u) \in Nat
  <2> DEFINE c == Behind(m)
  <2>1. c \in Seq(Byte) /\ stream = c \o u /\ dataLength = Len(c)
    BY <1>4, <1>5
  <2> HIDE DEF c, u
  <2> QED BY <1>1, <1>5, <2>1, PulledAway
<1>7. [id |-> id, values |-> values] = Seen(Reading)
  BY <1>1, WholePacket
<1>8. k \in Nat /\ k + 1 \in 0 .. Len(sent) /\ got = [i \in 1 .. k |-> g[i]]
  <2>1. k \in 0 .. Len(sent) /\ Len(sent) \in Nat
        /\ got = [i \in 1 .. k |-> Seen(Packets[sent[i]])]
    BY <1>2, GotType
  <2> QED BY <1>2, <2>1
<1>9. got' = g /\ Len(g) = k + 1
  <2>1. g[k + 1] = Seen(Reading) /\ g = [i \in 1 .. k + 1 |-> g[i]]
    BY <1>8 DEF Reading
  <2>2. k + 1 \in Nat
    BY <1>8
  <2> HIDE DEF g, k
  <2>3. Append([i \in 1 .. k |-> g[i]], g[k + 1]) = [i \in 1 .. k + 1 |-> g[i]]
    BY <1>8, FirstGrows
  <2>4. Len([i \in 1 .. k + 1 |-> g[i]]) = k + 1
    BY <2>2, FirstOf
  <2>5. got' = Append([i \in 1 .. k |-> g[i]], g[k + 1])
    BY <1>1, <1>7, <1>8, <2>1
  <2> QED BY <2>1, <2>3, <2>4, <2>5, Zenon
<1>10. Fetched'
  <2>1. got' = [i \in 1 .. k + 1 |-> Seen(Packets[sent'[i]])]
    BY <1>1, <1>9
  <2>2. k + 1 \in 0 .. Len(sent')
    BY <1>1, <1>8
  <2> QED BY <2>1, <2>2 DEF Fetched
<1> HIDE DEF g
<1>11. Len(got') = k + 1
  BY <1>9
<1>12. TypeOK'
  <2>1. counted' \in Nat /\ Len(got') <= Len(sent')
    BY <1>1, <1>2, <1>6, <1>8, <1>11
  <2> QED BY <1>1, <1>2, <1>5, <1>6, <2>1 DEF TypeOK, Steps
<1>13. BetweenPackets'
  <2>1. Unread(sent)' = Unread(sent)
    BY <1>1
  <2> QED BY <1>1, <1>6, <1>11, <2>1 DEF BetweenPackets
<1>14. usedBytes' = counted' + Len(stream')
  <2>1. Len(stream') = Len(u)
    BY <1>6
  <2> DEFINE l == Len(u)
  <2>2. /\ usedBytes' = counted + Len(stream) /\ Len(stream) = dataLength + l
        /\ counted' = counted + dataLength /\ l \in Nat
    BY <1>1, <1>2, <1>6
  <2> HIDE DEF l, u
  <2>3. usedBytes' = counted' + l
    BY <1>2, <1>6, <2>2
  <2> QED BY <2>1, <2>3 DEF l
<1> QED BY <1>1, <1>10, <1>12, <1>13, <1>14 DEF IInv, NeverThrows, BytesAccounted

(* The second pull of a round finds dataLength reset and takes nothing. *)
LEMMA PullAgainStep ==
  ASSUME IInv, PullAgain
  PROVE  IInv'
<1>1. /\ step = "again" /\ Pull(dataLength)
      /\ counted' = counted + dataLength
      /\ step' = "length"
      /\ UNCHANGED <<sent, usedBytes, dataLength, id, values, got>>
  BY DEF PullAgain
<1>2. BetweenPackets /\ TypeOK /\ Fetched /\ BytesAccounted
  BY <1>1 DEF IInv
<1>3. stream \in Seq(Byte) /\ counted \in Nat /\ dataLength = 0
  BY <1>2 DEF TypeOK, BetweenPackets
<1>4. SubSeq(stream, 1, Len(stream)) = stream
  BY <1>3, SubSeqFull
<1>5. stream' = stream /\ counted' = counted
  BY <1>1, <1>3, <1>4 DEF Pull
<1>6. TypeOK'
  BY <1>1, <1>2, <1>5 DEF TypeOK, Steps
<1>7. Fetched' /\ Unread(sent)' = Unread(sent)
  BY <1>1, <1>2, Continues
<1>8. BetweenPackets'
  BY <1>1, <1>2, <1>5, <1>7 DEF BetweenPackets
<1> QED BY <1>1, <1>2, <1>5, <1>6, <1>7, <1>8 DEF IInv, NeverThrows, BytesAccounted

-------------------------------------------------------------------------------
LEMMA NextIInv == IInv /\ [Next]_vars => IInv'
<1> SUFFICES ASSUME IInv, [Next]_vars PROVE IInv'
  OBVIOUS
<1>1. ASSUME NEW i \in DOMAIN Packets, EncodePacket(i) PROVE IInv'
  BY <1>1, EncodePacketStep
<1>2. CASE PullLength
  BY <1>2, PullLengthStep
<1>3. CASE PullID
  BY <1>3, PullIDStep
<1>4. CASE PullField
  BY <1>4, PullFieldStep
<1>5. CASE SkipField
  BY <1>5, SkipFieldStep
<1>6. CASE PullRest
  BY <1>6, PullRestStep
<1>7. CASE PullAgain
  BY <1>7, PullAgainStep
<1>8. CASE UNCHANGED vars
  <2>1. UNCHANGED <<stream, sent, usedBytes, step, dataLength, id, values, counted, got>>
    BY <1>8 DEF vars, readerVars
  <2>2. TypeOK' /\ Fetched' /\ NeverThrows' /\ BytesAccounted'
    BY <2>1 DEF IInv, TypeOK, Fetched, NeverThrows, BytesAccounted
  <2>3. step' \in {"length", "again"} => BetweenPackets'
    BY <2>1 DEF IInv, BetweenPackets
  <2>4. step' = "id" => AtID'
    BY <2>1 DEF IInv, AtID, Reading, Behind
  <2>5. step' = "body" => InBody'
    BY <2>1 DEF IInv, InBody, Reading, Behind, Expected
  <2> QED BY <2>2, <2>3, <2>4, <2>5 DEF IInv
<1> QED BY <1>1, <1>2, <1>3, <1>4, <1>5, <1>6, <1>7, <1>8 DEF Next, Reader

(* The reader stands where the invariant says it does, whatever is sent.       *)
THEOREM Invariant == Spec => []IInv
BY InitIInv, NextIInv, PTL DEF Spec

(* dataLength never wraps around: no more bytes of a packet are decoded than   *)
(* its length announced (main.cpp:324-455).                                    *)
THEOREM TypeCorrect == Spec => []TypeOK
<1>1. IInv => TypeOK
  BY DEF IInv
<1> QED BY <1>1, Invariant, PTL

(* Behind what is left of the packet being read the stream holds exactly the   *)
(* packets that were not begun: the reader never loses its place               *)
(* (PacketCoder.hpp:65-84, main.cpp:324-470).                                  *)
THEOREM AlignedCorrect == Spec => []Aligned
<1>1. ASSUME IInv PROVE Aligned
  <2> DEFINE k == Len(got)
             u == Unread(sent)[k + 1]
  <2>1. /\ sent \in Seq(DOMAIN Packets) /\ stream \in Seq(Byte) /\ step \in Steps
        /\ k \in 0 .. Len(sent)
    BY <1>1, GotType DEF IInv, TypeOK
  <2>2. CASE step \in {"length", "again"}
    <3>1. dataLength = 0 /\ stream = Unread(sent)[k] /\ Len(stream) \in Nat
      BY <1>1, <2>1, <2>2 DEF IInv, BetweenPackets
    <3>2. SubSeq(stream, 1, Len(stream)) = stream
      BY <2>1, SubSeqFull
    <3> QED BY <2>2, <3>1, <3>2 DEF Aligned
  <2>3. ASSUME NEW c \in Seq(Byte), u \in Seq(Byte), stream = c \o u, dataLength = Len(c),
               step \in {"id", "body"}
        PROVE  Aligned
    <3> HIDE DEF u
    <3>1. SubSeq(stream, dataLength + 1, Len(stream)) = u /\ dataLength <= Len(stream)
      BY <2>3, RestOfConcat
    <3> QED BY <2>3, <3>1 DEF Aligned, u
  <2>4. CASE step = "id"
    <3> DEFINE c == Body(Reading)
    <3>1. k < Len(sent) /\ dataLength = DataSize(Reading) /\ stream = c \o u
      BY <1>1, <2>4 DEF IInv, AtID, Body, Behind
    <3>2. c \in Seq(Byte) /\ DataSize(Reading) = Len(c)
      <4>1. PICK i \in DOMAIN Packets : Reading = Packets[i]
        BY <1>1, <3>1, ReadingFacts
      <4> QED BY <4>1, EncodedParts
    <3>3. u \in Seq(Byte)
      BY <1>1, <3>1, ReadingFacts
    <3>4. step \in {"id", "body"}
      BY <2>4
    <3> HIDE DEF c, u
    <3> QED BY <2>3, <3>1, <3>2, <3>3, <3>4
  <2>5. CASE step = "body"
    <3>1. k < Len(sent) /\ id = Reading.id
      BY <1>1, <2>5, BodyFacts
    <3>2. PICK m \in Nat : HalfWay(m)
      BY <1>1, <2>5, BodyFacts
    <3> DEFINE c == Behind(m)
    <3>3. m \in 0 .. Len(Expected) /\ stream = c \o u /\ dataLength = Len(c)
      BY <3>2 DEF HalfWay
    <3>4. c \in Seq(Byte) /\ u \in Seq(Byte)
      BY <1>1, <3>1, <3>3, BehindType, ReadingFacts
    <3>5. step \in {"id", "body"}
      BY <2>5
    <3> HIDE DEF c, u
    <3> QED BY <2>3, <3>3, <3>4, <3>5
  <2>6. CASE step = "thrown"
    BY <2>6 DEF Aligned
  <2> QED BY <2>1, <2>2, <2>4, <2>5, <2>6 DEF Steps
<1> QED BY <1>1, Invariant, PTL

(* The packets read are the packets sent, in order, with the values they were  *)
(* sent with (PacketCoder.ipp:9-211).                                          *)
THEOREM DeliveredCorrect == Spec => []Delivered
<1>1. ASSUME IInv PROVE Delivered
  <2>1. got = [i \in 1 .. Len(got) |-> Seen(Packets[sent[i]])]
    BY <1>1, GotType DEF IInv, TypeOK
  <2> QED BY <2>1, Zenon DEF Delivered
<1> QED BY <1>1, Invariant, PTL

(* No decoder throws on what an encoder wrote (PacketCoder.ipp:35, 75).        *)
THEOREM NeverThrowsCorrect == Spec => []NeverThrows
<1>1. IInv => NeverThrows
  BY DEF IInv
<1> QED BY <1>1, Invariant, PTL

(* Both sides count every byte once (PacketCoder.hpp:87, main.cpp:324-470).    *)
THEOREM BytesCorrect == Spec => []BytesAccounted
<1>1. IInv => BytesAccounted
  BY DEF IInv
<1> QED BY <1>1, Invariant, PTL

-------------------------------------------------------------------------------
(* The packet channel                                                          *)

(* SentSeen has an entry for each packet that was sent. *)
LEMMA SentSeenFacts ==
  ASSUME sent \in Seq(DOMAIN Packets)
  PROVE  /\ Len(SentSeen) = Len(sent)
         /\ \A n \in 1 .. Len(sent) : SentSeen[n] = Seen(Packets[sent[n]])
<1> DEFINE g == [n \in 1 .. Len(sent) |-> Seen(Packets[sent[n]])]
           N == Len(sent)
<1>1. N \in Nat /\ SentSeen = [n \in 1 .. N |-> g[n]]
  BY DEF SentSeen
<1>2. \A n \in 1 .. N : g[n] = Seen(Packets[sent[n]])
  OBVIOUS
<1> HIDE DEF g
<1>3. Len([n \in 1 .. N |-> g[n]]) = N
  BY <1>1, FirstOf
<1> QED BY <1>1, <1>2, <1>3

(* What encodePacket pushes is one more packet on the channel. *)
LEMMA EncodeSends ==
  ASSUME sent \in Seq(DOMAIN Packets), NEW i \in DOMAIN Packets, EncodePacket(i)
  PROVE  \E m \in SeenPackets : Channel!Send(m)
<1> DEFINE N == Len(sent)
           t == Append(sent, i)
           g == [n \in 1 .. N + 1 |-> Seen(Packets[t[n]])]
           m == Seen(Packets[i])
<1>1. sent' = t /\ got' = got
  BY DEF EncodePacket, readerVars
<1>2. /\ N \in Nat /\ Len(t) = N + 1 /\ t[N + 1] = i
      /\ \A n \in 1 .. N : t[n] = sent[n]
  OBVIOUS
<1> HIDE DEF t
<1>3. SentSeen = [n \in 1 .. N |-> g[n]]
  BY <1>2 DEF SentSeen
<1>4. SentSeen' = [n \in 1 .. N + 1 |-> g[n]]
  BY <1>1, <1>2 DEF SentSeen
<1>5. g[N + 1] = m
  BY <1>2
<1> HIDE DEF g
<1>6. Append([n \in 1 .. N |-> g[n]], g[N + 1]) = [n \in 1 .. N + 1 |-> g[n]]
  BY <1>2, FirstGrows
<1>7. SentSeen' = Append(SentSeen, m)
  BY <1>3, <1>4, <1>5, <1>6, Zenon
<1>8. m \in SeenPackets
  BY DEF SeenPackets
<1> QED BY <1>1, <1>7, <1>8 DEF Channel!Send

(* A turn of the packet loop that ends hands over the next packet. *)
LEMMA RestReceives ==
  ASSUME IInv, PullRest
  PROVE  Channel!Receive
<1>1. /\ step = "body" /\ Len(values) = Len(Expected)
      /\ got' = Append(got, [id |-> id, values |-> values])
      /\ sent' = sent
  BY DEF PullRest
<1>2. [id |-> id, values |-> values] = Seen(Reading)
  BY <1>1, WholePacket
<1>3. Len(got) < Len(sent) /\ Len(got) + 1 \in 1 .. Len(sent)
  BY <1>1, BodyFacts, ReadingFacts
<1>4. /\ Len(SentSeen) = Len(sent)
      /\ SentSeen[Len(got) + 1] = Seen(Reading)
  BY <1>3, SentSeenFacts DEF IInv, TypeOK, Reading
<1>5. SentSeen' = SentSeen
  BY <1>1 DEF SentSeen
<1> QED BY <1>1, <1>2, <1>3, <1>4, <1>5 DEF Channel!Receive

LEMMA ChannelNext == IInv /\ [Next]_vars => [Channel!Next]_<<SentSeen, got>>
<1> SUFFICES ASSUME IInv, [Next]_vars PROVE [Channel!Next]_<<SentSeen, got>>
  OBVIOUS
<1>1. ASSUME NEW i \in DOMAIN Packets, EncodePacket(i) PROVE Channel!Next
  BY <1>1, EncodeSends DEF IInv, TypeOK, Channel!Next
<1>2. CASE PullRest
  BY <1>2, RestReceives DEF Channel!Next
<1>3. ASSUME UNCHANGED <<sent, got>> PROVE UNCHANGED <<SentSeen, got>>
  BY <1>3 DEF SentSeen
<1>4. CASE PullLength \/ PullID \/ PullField \/ SkipField \/ PullAgain \/ UNCHANGED vars
  <2>1. UNCHANGED <<sent, got>>
    BY <1>4 DEF PullLength, PullID, PullField, SkipField, PullAgain, vars, readerVars
  <2> QED BY <1>3, <2>1
<1> QED BY <1>1, <1>2, <1>4 DEF Next, Reader

(* The coder and the packet loop implement a channel for packets, for every    *)
(* layout, every width and whatever part of a packet its case decodes          *)
(* (PacketCoder.hpp:63-88, main.cpp:322-471).                                  *)
THEOREM ChannelRefinement == Spec => ChannelSpec
<1>1. Init => Channel!Init
  BY DEF Init, SentSeen, Channel!Init
<1> QED BY <1>1, ChannelNext, Invariant, PTL DEF Spec, ChannelSpec, Channel!Spec

-------------------------------------------------------------------------------
(* The reader never waits for a packet that has arrived                        *)

LEMMA AheadFits ==
  ASSUME NEW answer, NEW v, NEW a, NEW r, Ahead(answer, v, a, r)
  PROVE  answer.pulled <= Len(stream)
<1>1. a \in Seq(Byte) /\ r \in Seq(Byte) /\ stream = a \o r /\ answer.pulled = Len(a)
  BY DEF Ahead, Answer
<1>2. Len(a \o r) = Len(a) + Len(r) /\ Len(a) \in Nat /\ Len(r) \in Nat
  BY <1>1, RestOfConcat
<1> QED BY <1>1, <1>2

(* The loop sleeps only at the start of a round, when every packet was read,   *)
(* for every layout and every width: no count of the coder or of the loop is   *)
(* too high, and the second pullBytes waits for nothing                        *)
(* (PacketCoder.hpp:70-84, main.cpp:323-470).                                  *)
THEOREM NeverWaitsCorrect == Spec => []NeverWaits
<1>1. ASSUME IInv, step # "length" \/ Len(got) < Len(sent)
      PROVE  Demand <= Len(stream)
  <2>1. step \in Steps /\ stream \in Seq(Byte) /\ Len(stream) \in Nat /\ NeverThrows
    BY <1>1 DEF IInv, TypeOK
  <2>2. CASE step = "length"
    <3>1. DecodeVarInteger(stream).pulled <= Len(stream)
      BY <1>1, <2>2, LengthAhead, AheadFits
    <3>2. Demand = DecodeVarInteger(stream).pulled
      BY <2>2 DEF Demand
    <3> QED BY <3>1, <3>2
  <2>3. CASE step = "id"
    <3>1. DecodeVarInteger(stream).pulled <= Len(stream)
      BY <1>1, <2>3, IDAhead, AheadFits
    <3>2. Demand = DecodeVarInteger(stream).pulled
      BY <2>3 DEF Demand
    <3> QED BY <3>1, <3>2
  <2>4. CASE step = "body"
    <3>1. Len(got) < Len(sent) /\ id = Reading.id
      BY <1>1, <2>4, BodyFacts
    <3>2. PICK m \in Nat : HalfWay(m)
      BY <1>1, <2>4, BodyFacts
    <3>3. /\ m \in 0 .. Len(Expected) /\ Len(values) = m /\ Len(Expected) \in Nat
          /\ dataLength = Len(Behind(m)) /\ stream = Behind(m) \o Unread(sent)[Len(got) + 1]
      BY <1>1, <3>1, <3>2, ExpectedFacts DEF HalfWay
    <3>4. CASE Len(values) = Len(Expected)
      <4> DEFINE a == Behind(m)
                 u == Unread(sent)[Len(got) + 1]
      <4>1. a \in Seq(Byte) /\ u \in Seq(Byte)
        BY <1>1, <3>1, <3>3, BehindType, ReadingFacts
      <4>2. stream = a \o u /\ dataLength = Len(a)
        BY <3>3
      <4> HIDE DEF a, u
      <4>3. dataLength <= Len(stream)
        BY <4>1, <4>2, RestOfConcat
      <4>4. Demand = dataLength
        BY <2>4, <3>4 DEF Demand
      <4> QED BY <4>3, <4>4
    <3>5. CASE Len(values) < Len(Expected) /\ IsPresent(NextField.when, values)
      <4>1. DecodeField(NextField.kind, stream).pulled <= Len(stream)
        BY <1>1, <2>4, <3>2, <3>3, <3>5, FieldAhead, AheadFits
      <4>2. Demand = DecodeField(NextField.kind, stream).pulled
        BY <2>4, <3>3, <3>5 DEF Demand
      <4> QED BY <4>1, <4>2
    <3>6. CASE Len(values) < Len(Expected) /\ ~IsPresent(NextField.when, values)
      <4>1. Demand = 0
        BY <2>4, <3>3, <3>6 DEF Demand
      <4> QED BY <2>1, <4>1
    <3> QED BY <3>3, <3>4, <3>5, <3>6
  <2>5. CASE step = "again"
    <3>1. dataLength = 0
      BY <1>1, <2>5 DEF IInv, BetweenPackets
    <3>2. Demand = dataLength
      BY <2>5 DEF Demand
    <3> QED BY <2>1, <3>1, <3>2
  <2> QED BY <2>1, <2>2, <2>3, <2>4, <2>5 DEF Steps, NeverThrows
<1>2. IInv => NeverWaits
  BY <1>1 DEF NeverWaits
<1> QED BY <1>2, Invariant, PTL

-------------------------------------------------------------------------------
(* The layouts of the protocol                                                 *)

(* Fields that are always present *)
PlainFields == [kind : Kinds, when : {0}]

LEMMA SeqMonotone ==
  ASSUME NEW S, NEW T, S \subseteq T, NEW s \in Seq(S)
  PROVE  s \in Seq(T)
<1>1. Len(s) \in Nat /\ s \in [1 .. Len(s) -> S]
  BY LenProperties
<1>2. s \in [1 .. Len(s) -> T]
  BY <1>1
<1> QED BY <1>1, <1>2, SeqDef

LEMMA PlainLayout ==
  ASSUME NEW fields \in Seq(PlainFields)
  PROVE  IsLayout(fields)
<1>1. PlainFields \subseteq [kind : Kinds, when : Nat]
  BY DEF PlainFields
<1>2. \A i \in 1 .. Len(fields) : fields[i] \in PlainFields
  BY ElementOfSeq
<1>3. \A i \in 1 .. Len(fields) : fields[i].when = 0
  BY <1>2 DEF PlainFields
<1>4. fields \in Seq([kind : Kinds, when : Nat])
  BY <1>1, SeqMonotone
<1> QED BY <1>3, <1>4 DEF IsLayout

LEMMA FieldPlain ==
  /\ \A kind \in Kinds : Field(kind) \in PlainFields
  /\ "bool" \in Kinds /\ "varint" \in Kinds /\ "string" \in Kinds /\ "position" \in Kinds
  /\ "short" \in Kinds /\ "int" \in Kinds /\ "long" \in Kinds
  /\ "ubyte" \in Kinds /\ "ushort" \in Kinds /\ "ulong" \in Kinds
BY CoderAssumption DEF Field, PlainFields, Kinds, Signed

(* A vector of numbers stands for its elements. *)
LEMMA TimesPlain ==
  ASSUME NEW n \in Nat, NEW kind \in Kinds
  PROVE  Times(n, kind) \in Seq(PlainFields)
<1>1. Field(kind) \in PlainFields
  BY FieldPlain
<1>2. [i \in 1 .. n |-> Field(kind)] \in [1 .. n -> PlainFields]
  BY <1>1
<1> QED BY <1>2, SeqDef DEF Times

LEMMA Joined ==
  ASSUME NEW S, NEW s \in Seq(S), NEW t \in Seq(S)
  PROVE  s \o t \in Seq(S)
BY ConcatProperties

(* Joining sequences gives a sequence. *)
LEMMA FlattenType ==
  ASSUME NEW S, NEW seqs \in Seq(Seq(S))
  PROVE  FlattenSeq(seqs) \in Seq(S)
<1> DEFINE V == Seq(S)
           N == Len(seqs)
           grow == [n \in Nat |-> [v \in V |-> IF n + 1 \in 1 .. N THEN v \o seqs[n + 1] ELSE v]]
           flatten == CHOOSE f : f = [i \in 1 .. N |->
                        IF i = 1 THEN seqs[i] ELSE f[i - 1] \o seqs[i]]
<1>1. N \in Nat /\ \A i \in 1 .. N : seqs[i] \in V
  BY LenProperties, ElementOfSeq
<1>2. CASE N = 0
  <2>1. seqs = <<>>
    BY <1>2, EmptySeq
  <2>2. FlattenSeq(seqs) = <<>>
    BY <1>2, <2>1 DEF FlattenSeq
  <2> QED BY <2>2, EmptySeq
<1>3. CASE N # 0
  <2>1. 1 \in 1 .. N /\ N \in 1 .. N /\ seqs[1] \in V
    BY <1>1, <1>3
  <2>2. grow \in [Nat -> [V -> V]]
    <3> SUFFICES ASSUME NEW n \in Nat, NEW v \in V
                 PROVE  (IF n + 1 \in 1 .. N THEN v \o seqs[n + 1] ELSE v) \in V
      OBVIOUS
    <3>1. ASSUME n + 1 \in 1 .. N PROVE v \o seqs[n + 1] \in V
      <4>1. seqs[n + 1] \in Seq(S)
        BY <1>1, <3>1
      <4> QED BY <4>1, Joined, Zenon
    <3> QED BY <3>1
  <2>3. PICK f \in [Nat -> V] : RecursUp(f, seqs[1], grow)
    <3> HIDE DEF V, grow
    <3> QED BY <2>1, <2>2, UpRecursion
  <2> DEFINE g == [i \in 1 .. N |-> f[i - 1]]
  <2>4. ASSUME NEW i \in 1 .. N
        PROVE  g[i] = IF i = 1 THEN seqs[i] ELSE g[i - 1] \o seqs[i]
    <3>1. CASE i = 1
      BY <2>3, <3>1 DEF RecursUp
    <3>2. CASE i # 1
      <4>1. i - 1 \in Nat \ {0} /\ i - 1 \in 1 .. N /\ (i - 1) + 1 = i /\ (i - 1) - 1 \in Nat
        BY <1>1, <3>2
      <4>2. f[i - 1] = grow[i - 1][f[(i - 1) - 1]] /\ f[(i - 1) - 1] \in V
        BY <2>3, <4>1 DEF RecursUp
      <4>3. f[i - 1] = f[(i - 1) - 1] \o seqs[i]
        BY <4>1, <4>2
      <4> QED BY <3>2, <4>1, <4>3
    <3> QED BY <3>1, <3>2
  <2>5. g = [i \in 1 .. N |-> IF i = 1 THEN seqs[i] ELSE g[i - 1] \o seqs[i]]
    BY <2>4
  <2>6. flatten = [i \in 1 .. N |-> IF i = 1 THEN seqs[i] ELSE flatten[i - 1] \o seqs[i]]
    <3> HIDE DEF g
    <3> QED BY <2>5, Zenon
  <2>7. FlattenSeq(seqs) = flatten[N]
    BY <1>3, Zenon DEF FlattenSeq
  <2> HIDE DEF flatten
  <2> DEFINE T == {n \in Nat : n + 1 \in 1 .. N => flatten[n + 1] \in V}
  <2>8. 0 \in T
    BY <2>1, <2>6
  <2>9. ASSUME NEW n \in Nat, n \in T
        PROVE  n + 1 \in T
    <3> SUFFICES ASSUME (n + 1) + 1 \in 1 .. N PROVE flatten[(n + 1) + 1] \in V
      OBVIOUS
    <3> DEFINE i == (n + 1) + 1
    <3>1. i # 1 /\ i \in 1 .. N /\ i - 1 = n + 1 /\ n + 1 \in 1 .. N
      <4>1. N \in Nat
        BY <1>1
      <4> HIDE DEF N, T
      <4> QED BY <4>1
    <3>2. flatten[n + 1] \in Seq(S) /\ seqs[i] \in Seq(S)
      BY <1>1, <2>9, <3>1
    <3>3. flatten[i] = flatten[n + 1] \o seqs[i]
      BY <2>6, <3>1
    <3>4. flatten[n + 1] \o seqs[i] \in Seq(S)
      BY <3>2, Joined, Zenon
    <3> QED BY <3>3, <3>4
  <2> HIDE DEF T
  <2>10. Nat \subseteq T
    BY <2>8, <2>9, SetInduction
  <2>11. N - 1 \in T /\ (N - 1) + 1 = N
    BY <1>1, <1>3, <2>10
  <2> QED BY <2>1, <2>7, <2>11 DEF T
<1> QED BY <1>2, <1>3

(* Layouts whose conditional fields depend on the bool in the second place *)
AfterBool(fields) ==
  /\ fields \in Seq([kind : Kinds, when : {0, 2}])
  /\ Len(fields) >= 2
  /\ fields[1].when = 0
  /\ fields[2] = [kind |-> "bool", when |-> 0]

LEMMA AfterBoolLayout ==
  ASSUME NEW fields, AfterBool(fields)
  PROVE  IsLayout(fields)
<1>1. Len(fields) \in Nat /\ \A i \in 1 .. Len(fields) : fields[i] \in [kind : Kinds, when : {0, 2}]
  BY LenProperties, ElementOfSeq DEF AfterBool
<1>2. fields \in Seq([kind : Kinds, when : Nat])
  <2> DEFINE W == [kind : Kinds, when : {0, 2}]
             F == [kind : Kinds, when : Nat]
  <2>1. W \subseteq F
    OBVIOUS
  <2>2. fields \in Seq(W)
    BY DEF AfterBool
  <2> HIDE DEF W, F
  <2>3. fields \in Seq(F)
    BY <2>1, <2>2, SeqMonotone
  <2> QED BY <2>3 DEF F
<1>3. ASSUME NEW i \in 1 .. Len(fields), fields[i].when # 0
      PROVE  fields[i].when = 2 /\ 2 < i /\ fields[2] = [kind |-> "bool", when |-> 0]
  <2>1. fields[i].when = 2
    BY <1>1, <1>3
  <2>2. i # 1 /\ i # 2
    BY <1>3 DEF AfterBool
  <2> QED BY <2>1, <2>2 DEF AfterBool
<1> QED BY <1>2, <1>3 DEF IsLayout

LEMMA AfterBoolGrows ==
  ASSUME NEW s, AfterBool(s), NEW t \in Seq([kind : Kinds, when : {0, 2}])
  PROVE  AfterBool(s \o t)
<1> DEFINE S == [kind : Kinds, when : {0, 2}]
<1>1. s \in Seq(S) /\ t \in Seq(S) /\ Len(s) \in Nat /\ Len(t) \in Nat /\ Len(s) >= 2
  BY LenProperties DEF AfterBool
<1> HIDE DEF S
<1>2. /\ s \o t \in Seq(S) /\ Len(s \o t) = Len(s) + Len(t)
      /\ \A i \in 1 .. Len(s) : (s \o t)[i] = s[i]
  BY <1>1
<1> QED BY <1>1, <1>2 DEF AfterBool, S

(* Every layout of the packets is one the coder can decode again, whatever the *)
(* sizes of the vectors: a Conditional refers to a bool that comes before it,  *)
(* so the assumptions of the theorems above hold of the protocol.              *)
THEOREM ProtocolLayouts ==
  /\ \A fields \in {Handshake, KeepAlive, PlayerCommand, SetHealth, SpawnPlayer,
                    SynchronizePlayerPosition, TeleportEntity,
                    UpdateEntityPositionAndRotation, UpdateEntityPosition,
                    UpdateEntityRotation, ConfirmTeleportation, SetPlayerPosition,
                    UseItemOn} :
       IsLayout(fields)
  /\ \A key, signature \in Nat : IsLayout(LoginStart(key, signature))
  /\ \A signatures \in Seq(Nat) : IsLayout(ChatCommand(signatures))
<1> DEFINE S == PlainFields
<1>1. \A kind \in Kinds : Field(kind) \in S
  BY FieldPlain
<1>2. /\ \A a \in S : <<a>> \in Seq(S)
      /\ \A a, b \in S : <<a, b>> \in Seq(S)
      /\ \A a, b, c \in S : <<a, b, c>> \in Seq(S)
      /\ \A a, b, c, d \in S : <<a, b, c, d>> \in Seq(S)
  <2> HIDE DEF S
  <2> QED OBVIOUS
<1>3. /\ \A n \in {2, 3} : \A kind \in Kinds : Times(n, kind) \in Seq(S)
      /\ \A s, t \in Seq(S) : s \o t \in Seq(S)
  BY TimesPlain, Joined
<1>4. /\ Handshake \in Seq(S) /\ KeepAlive \in Seq(S) /\ PlayerCommand \in Seq(S)
      /\ SetHealth \in Seq(S) /\ ConfirmTeleportation \in Seq(S)
  <2> HIDE DEF S
  <2> QED BY <1>1, <1>2, FieldPlain
      DEF Handshake, KeepAlive, PlayerCommand, SetHealth, ConfirmTeleportation
<1>5. SpawnPlayer \in Seq(S)
  <2> HIDE DEF S
  <2> QED BY <1>1, <1>2, <1>3, FieldPlain DEF SpawnPlayer, UUID
<1>6. SynchronizePlayerPosition \in Seq(S)
  <2> HIDE DEF S
  <2> QED BY <1>1, <1>2, <1>3, FieldPlain DEF SynchronizePlayerPosition
<1>7. TeleportEntity \in Seq(S) /\ UpdateEntityPositionAndRotation \in Seq(S)
  <2> HIDE DEF S
  <2> QED BY <1>1, <1>2, <1>3, FieldPlain DEF TeleportEntity, UpdateEntityPositionAndRotation
<1>8. /\ UpdateEntityPosition \in Seq(S) /\ UpdateEntityRotation \in Seq(S)
      /\ SetPlayerPosition \in Seq(S)
  <2> HIDE DEF S
  <2> QED BY <1>1, <1>2, <1>3, FieldPlain
      DEF UpdateEntityPosition, UpdateEntityRotation, SetPlayerPosition
<1>9. UseItemOn \in Seq(S)
  <2> HIDE DEF S
  <2> QED BY <1>1, <1>2, <1>3, FieldPlain DEF UseItemOn
<1>10. ASSUME NEW key \in Nat, NEW signature \in Nat
       PROVE  IsLayout(LoginStart(key, signature))
  <2> DEFINE W == [kind : Kinds, when : {0, 2}]
             head == <<Field("string"), Field("bool"), When(2, "long"), When(2, "varint")>>
             keys == [i \in 1 .. key |-> When(2, "ubyte")]
             size == <<When(2, "varint")>>
             signs == [i \in 1 .. signature |-> When(2, "ubyte")]
             last == <<Field("bool")>>
  <2>1. \A kind \in Kinds : Field(kind) \in W /\ When(2, kind) \in W
    BY DEF Field, When
  <2>2. head \in Seq(W) /\ size \in Seq(W) /\ last \in Seq(W)
    <3> HIDE DEF W
    <3> QED BY <2>1, FieldPlain
  <2>3. keys \in Seq(W) /\ signs \in Seq(W)
    <3>1. When(2, "ubyte") \in W
      BY <2>1, FieldPlain
    <3> HIDE DEF W
    <3>2. keys \in [1 .. key -> W] /\ signs \in [1 .. signature -> W]
      BY <3>1
    <3> QED BY <3>2, SeqDef
  <2>4. AfterBool(head)
    BY <2>2 DEF AfterBool, Field
  <2> HIDE DEF head, keys, size, signs, last
  <2>5. AfterBool(head \o keys)
    BY <2>3, <2>4, AfterBoolGrows
  <2>6. AfterBool((head \o keys) \o size)
    BY <2>2, <2>5, AfterBoolGrows
  <2>7. AfterBool(((head \o keys) \o size) \o signs)
    BY <2>3, <2>6, AfterBoolGrows
  <2>8. AfterBool((((head \o keys) \o size) \o signs) \o last)
    BY <2>2, <2>7, AfterBoolGrows
  <2>9. LoginStart(key, signature) = (((head \o keys) \o size) \o signs) \o last
    BY DEF LoginStart, head, keys, size, signs, last
  <2> QED BY <2>8, <2>9, AfterBoolLayout
<1>11. ASSUME NEW signatures \in Seq(Nat)
       PROVE  ChatCommand(signatures) \in Seq(S)
  <2> DEFINE args == [i \in DOMAIN signatures |-> SignedArgument(signatures[i])]
             head == <<Field("string"), Field("long"), Field("long"), Field("varint")>>
             last == <<Field("bool")>>
  <2> HIDE DEF S
  <2>1. \A n \in Nat : SignedArgument(n) \in Seq(S)
    <3> SUFFICES ASSUME NEW n \in Nat PROVE SignedArgument(n) \in Seq(S)
      OBVIOUS
    <3>1. Times(n, "ubyte") \in Seq(S)
      BY TimesPlain, FieldPlain DEF S
    <3>2. <<Field("string"), Field("varint")>> \in Seq(S)
      BY <1>1, <1>2, FieldPlain
    <3> QED BY <1>3, <3>1, <3>2 DEF SignedArgument
  <2>2. args \in Seq(Seq(S))
    <3>1. DOMAIN signatures = 1 .. Len(signatures) /\ Len(signatures) \in Nat
          /\ \A i \in 1 .. Len(signatures) : signatures[i] \in Nat
      BY LenProperties, ElementOfSeq
    <3>2. args \in [1 .. Len(signatures) -> Seq(S)]
      BY <2>1, <3>1
    <3> QED BY <3>1, <3>2, SeqDef
  <2>3. head \in Seq(S) /\ last \in Seq(S)
    BY <1>1, <1>2, FieldPlain
  <2> HIDE DEF args, head, last
  <2>4. FlattenSeq(args) \in Seq(S)
    BY <2>2, FlattenType
  <2>5. ChatCommand(signatures) = (head \o FlattenSeq(args)) \o last
    BY Zenon DEF ChatCommand, args, head, last
  <2>6. (head \o FlattenSeq(args)) \o last \in Seq(S)
    BY <1>3, <2>3, <2>4
  <2> QED BY <2>5, <2>6
<1> QED BY <1>4, <1>5, <1>6, <1>7, <1>8, <1>9, <1>10, <1>11, PlainLayout
===============================================================================
