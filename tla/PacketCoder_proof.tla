--------------------------- MODULE PacketCoder_proof ---------------------------
(***************************************************************************)
(* What the encoders of PacketCoder write, the decoders read back: proofs  *)
(* for every width of bytes, integers and coordinates.                     *)
(***************************************************************************)
EXTENDS PacketCoder, StreamLemmas

-------------------------------------------------------------------------------
(* Powers of two                                                               *)

LEMMA Pow2Def == Pow2 = [n \in Nat |-> IF n = 0 THEN 1 ELSE 2 * Pow2[n - 1]]
<1> DEFINE step == [n \in Nat |-> [v \in Nat |-> 2 * v]]
<1>1. 1 \in Nat /\ step \in [Nat -> [Nat -> Nat]]
  OBVIOUS
<1>2. PICK f \in [Nat -> Nat] : RecursUp(f, 1, step)
  <2> HIDE DEF step
  <2> QED BY <1>1, UpRecursion
<1>3. ASSUME NEW n \in Nat
      PROVE  f[n] = IF n = 0 THEN 1 ELSE 2 * f[n - 1]
  <2>1. CASE n = 0
    BY <1>2, <2>1 DEF RecursUp
  <2>2. CASE n # 0
    <3>1. n \in Nat \ {0} /\ f[n - 1] \in Nat
      BY <2>2
    <3>2. f[n] = step[n][f[n - 1]]
      BY <1>2, <3>1 DEF RecursUp
    <3> QED BY <2>2, <3>1, <3>2
  <2> QED BY <2>1, <2>2
<1>4. f = [n \in Nat |-> IF n = 0 THEN 1 ELSE 2 * f[n - 1]]
  BY <1>3
<1> QED BY <1>4, Zenon DEF Pow2

LEMMA Pow2Step ==
  /\ Pow2[0] = 1
  /\ \A n \in Nat : Pow2[n] \in Nat \ {0} /\ Pow2[n + 1] = 2 * Pow2[n]
<1>1. \A n \in Nat : Pow2[n] = IF n = 0 THEN 1 ELSE 2 * Pow2[n - 1]
  BY Pow2Def
<1>2. \A n \in Nat : Pow2[n + 1] = 2 * Pow2[n]
  <2> SUFFICES ASSUME NEW n \in Nat PROVE Pow2[n + 1] = 2 * Pow2[n]
    OBVIOUS
  <2>1. n + 1 \in Nat /\ n + 1 # 0 /\ (n + 1) - 1 = n
    OBVIOUS
  <2> QED BY <1>1, <2>1
<1> DEFINE S == {n \in Nat : Pow2[n] \in Nat \ {0}}
<1>3. 0 \in S
  BY <1>1
<1>4. \A n \in Nat : n \in S => n + 1 \in S
  BY <1>2
<1> HIDE DEF S
<1>5. Nat \subseteq S
  BY <1>3, <1>4, SetInduction
<1> QED BY <1>1, <1>2, <1>5 DEF S

LEMMA Pow2Sum == \A m, n \in Nat : Pow2[m + n] = Pow2[m] * Pow2[n]
<1> SUFFICES ASSUME NEW m \in Nat
             PROVE  \A n \in Nat : Pow2[m + n] = Pow2[m] * Pow2[n]
  OBVIOUS
<1> DEFINE S == {n \in Nat : Pow2[m + n] = Pow2[m] * Pow2[n]}
<1>1. 0 \in S
  <2>1. Pow2[m] \in Nat /\ m + 0 = m
    BY Pow2Step
  <2> QED BY <2>1, Pow2Step
<1>2. ASSUME NEW n \in Nat, n \in S
      PROVE  n + 1 \in S
  <2>1. Pow2[m] \in Nat /\ Pow2[n] \in Nat /\ Pow2[m + n] \in Nat
    BY Pow2Step
  <2>2. m + (n + 1) = (m + n) + 1 /\ m + n \in Nat
    OBVIOUS
  <2>3. Pow2[m + (n + 1)] = 2 * Pow2[m + n] /\ Pow2[n + 1] = 2 * Pow2[n]
    BY <2>2, Pow2Step
  <2>4. 2 * Pow2[m + n] = Pow2[m] * (2 * Pow2[n])
    BY <1>2, <2>1
  <2> QED BY <2>3, <2>4
<1> HIDE DEF S
<1>3. Nat \subseteq S
  BY <1>1, <1>2, SetInduction
<1> QED BY <1>3 DEF S

LEMMA Pow2Monotone == \A m, n \in Nat : m <= n => Pow2[m] <= Pow2[n]
<1> SUFFICES ASSUME NEW m \in Nat, NEW n \in Nat, m <= n
             PROVE  Pow2[m] <= Pow2[n]
  OBVIOUS
<1> DEFINE k == n - m
<1>1. k \in Nat /\ n = m + k
  OBVIOUS
<1> HIDE DEF k
<1>2. Pow2[m] \in Nat \ {0} /\ Pow2[k] \in Nat \ {0} /\ Pow2[n] = Pow2[m] * Pow2[k]
  BY <1>1, Pow2Step, Pow2Sum
<1> QED BY <1>2

-------------------------------------------------------------------------------
(* Division                                                                    *)

LEMMA Division ==
  ASSUME NEW a \in Int, NEW P \in Nat \ {0}
  PROVE  /\ a \div P \in Int
         /\ a % P \in 0 .. P - 1
         /\ a = P * (a \div P) + (a % P)
OBVIOUS

LEMMA DivisionUnique ==
  ASSUME NEW P \in Nat \ {0}, NEW q \in Int, NEW r \in 0 .. P - 1
  PROVE  (q * P + r) \div P = q /\ (q * P + r) % P = r
OBVIOUS

LEMMA DivideTwice ==
  ASSUME NEW a \in Nat, NEW P \in Nat \ {0}, NEW Q \in Nat \ {0}
  PROVE  (a \div P) \div Q = a \div (P * Q)
OBVIOUS

LEMMA DivideNat ==
  ASSUME NEW a \in Nat, NEW P \in Nat \ {0}
  PROVE  a \div P \in Nat /\ a \div P <= a /\ (a < P => a \div P = 0) /\ (a >= P => a \div P > 0)
OBVIOUS

(* The remainder of division by P * Q, one digit more than that by P *)
LEMMA NextDigit ==
  ASSUME NEW a \in Nat, NEW P \in Nat \ {0}, NEW Q \in Nat \ {0}
  PROVE  (a % P) + ((a \div P) % Q) * P = a % (P * Q)
OBVIOUS

-------------------------------------------------------------------------------
(* Signed integers in two's complement                                         *)

LEMMA SignedAndBack ==
  ASSUME NEW bits \in Nat \ {0}, NEW v \in SignedRange(bits)
  PROVE  /\ ToUnsigned(v, bits) \in UnsignedRange(bits)
         /\ ToSigned(ToUnsigned(v, bits), bits) = v
         /\ Coordinate(ToUnsigned(v, bits), bits) = v
<1> DEFINE P == Pow2[bits]
           H == Pow2[bits - 1]
<1>1. H \in Nat \ {0} /\ P = 2 * H /\ P \in Nat \ {0}
  <2>1. bits - 1 \in Nat /\ (bits - 1) + 1 = bits
    OBVIOUS
  <2> QED BY <2>1, Pow2Step
<1>2. v \in Int /\ -H <= v /\ v < H
  BY <1>1 DEF SignedRange
<1>3. v % P = IF v < 0 THEN v + P ELSE v
  <2>1. CASE v < 0
    <3> DEFINE q == -1
               r == v + P
    <3>1. q \in Int /\ r \in 0 .. P - 1 /\ v = q * P + r
      BY <1>1, <1>2, <2>1
    <3> HIDE DEF P, q, r
    <3>2. (q * P + r) % P = r
      BY <1>1, <3>1, DivisionUnique
    <3> QED BY <2>1, <3>1, <3>2 DEF r
  <2>2. CASE v >= 0
    <3>1. v \in 0 .. P - 1 /\ v = 0 * P + v
      BY <1>1, <1>2, <2>2
    <3> HIDE DEF P
    <3> QED BY <1>1, <2>2, <3>1, DivisionUnique
  <2> QED BY <1>2, <2>1, <2>2
<1> QED BY <1>1, <1>2, <1>3 DEF ToUnsigned, ToSigned, Coordinate, UnsignedRange

-------------------------------------------------------------------------------
(* Integers of variable length                                                 *)

LEMMA ByteFacts ==
  /\ DataBits \in Nat \ {0} /\ VarBits \in Nat \ {0, 1}
  /\ Continue \in Nat \ {0, 1} /\ ByteSize = 2 * Continue /\ ByteSize = Pow2[DataBits + 1]
  /\ Byte = 0 .. ByteSize - 1
<1>1. DataBits \in Nat \ {0} /\ VarBits \in Nat \ {0, 1}
  BY CoderAssumption
<1>2. Pow2[DataBits] = 2 * Pow2[DataBits - 1] /\ Pow2[DataBits - 1] \in Nat \ {0}
  <2>1. DataBits - 1 \in Nat /\ (DataBits - 1) + 1 = DataBits
    BY <1>1
  <2> QED BY <2>1, Pow2Step
<1>3. Continue \in Nat \ {0, 1}
  BY <1>2 DEF Continue
<1>4. Pow2[DataBits + 1] = 2 * Pow2[DataBits]
  BY <1>1, Pow2Step
<1> QED BY <1>1, <1>3, <1>4 DEF ByteSize, Byte, Continue

VarUnsigned == 0 .. Pow2[VarBits] - 1

LEMMA Smaller ==
  ASSUME NEW u \in Nat, u >= Continue
  PROVE  u \div Continue \in Nat /\ u \div Continue < u /\ u \div Continue > 0
BY ByteFacts

LEMMA GroupsDef ==
  Groups = [u \in VarUnsigned |-> IF u < Continue THEN <<u>>
              ELSE <<Continue + (u % Continue)>> \o Groups[u \div Continue]]
<1> DEFINE V == Seq(Nat)
           base == [u \in Nat |-> <<u>>]
           before == [u \in Nat |-> IF u < Continue THEN u ELSE u \div Continue]
           step == [u \in Nat |-> [v \in V |-> <<Continue + (u % Continue)>> \o v]]
<1>1. Continue \in Nat \ {0, 1} /\ Pow2[VarBits] \in Nat
  BY ByteFacts, Pow2Step
<1>2. base \in [Nat -> V] /\ before \in [Nat -> Nat] /\ step \in [Nat -> [V -> V]]
  <2>1. base \in [Nat -> V]
    OBVIOUS
  <2>2. before \in [Nat -> Nat]
    BY <1>1, Smaller
  <2>3. step \in [Nat -> [V -> V]]
    <3> SUFFICES ASSUME NEW u \in Nat, NEW v \in V
                 PROVE  <<Continue + (u % Continue)>> \o v \in V
      OBVIOUS
    <3>1. Continue + (u % Continue) \in Nat
      BY <1>1
    <3> QED BY <3>1
  <2> QED BY <2>1, <2>2, <2>3
<1>3. PICK f \in [Nat -> V] : IsRecursive(f, base, before, step)
  <2> HIDE DEF V, base, before, step
  <2> QED BY <1>2, Recursion
<1>4. ASSUME NEW u \in Nat
      PROVE  f[u] = IF u < Continue THEN <<u>>
                    ELSE <<Continue + (u % Continue)>> \o f[u \div Continue]
  <2>1. CASE u < Continue
    <3>1. before[u] = u /\ base[u] = <<u>>
      BY <2>1
    <3> HIDE DEF base, before, step
    <3> QED BY <1>3, <2>1, <3>1 DEF IsRecursive
  <2>2. CASE u >= Continue
    <3> DEFINE w == u \div Continue
    <3>1. w \in Nat /\ w < u
      BY <2>2, Smaller
    <3>2. ~(u < Continue) /\ before[u] = w
      BY <1>1, <2>2
    <3> HIDE DEF w
    <3>3. step[u][f[w]] = <<Continue + (u % Continue)>> \o f[w]
      BY <3>1
    <3> HIDE DEF base, before, step
    <3>4. f[u] = step[u][f[w]]
      BY <1>3, <3>1, <3>2 DEF IsRecursive
    <3> QED BY <3>2, <3>3, <3>4 DEF w
  <2>3. u < Continue \/ u >= Continue
    BY <1>1
  <2> QED BY <2>1, <2>2, <2>3, Zenon
<1> DEFINE g == [u \in VarUnsigned |-> f[u]]
<1>5. g = [u \in VarUnsigned |-> IF u < Continue THEN <<u>>
             ELSE <<Continue + (u % Continue)>> \o g[u \div Continue]]
  <2> SUFFICES ASSUME NEW u \in VarUnsigned
               PROVE  f[u] = IF u < Continue THEN <<u>>
                             ELSE <<Continue + (u % Continue)>> \o g[u \div Continue]
    OBVIOUS
  <2>1. u \in Nat /\ u < Pow2[VarBits]
    BY <1>1 DEF VarUnsigned
  <2>2. CASE u < Continue
    BY <1>4, <2>1, <2>2
  <2>3. CASE u >= Continue
    <3> DEFINE w == u \div Continue
    <3>1. w \in Nat /\ w < u
      BY <2>1, <2>3, Smaller
    <3> HIDE DEF w
    <3>2. w \in VarUnsigned
      BY <1>1, <2>1, <3>1 DEF VarUnsigned
    <3>3. g[w] = f[w] /\ ~(u < Continue)
      BY <1>1, <2>1, <2>3, <3>2
    <3>4. f[u] = <<Continue + (u % Continue)>> \o f[w]
      BY <1>4, <2>1, <3>3 DEF w
    <3> QED BY <3>3, <3>4 DEF w
  <2>4. u < Continue \/ u >= Continue
    BY <1>1, <2>1
  <2> QED BY <2>2, <2>3, <2>4, Zenon
<1> HIDE DEF g
<1> QED BY <1>5, Zenon DEF Groups, VarUnsigned

(* The weight of the k-th group *)
Weight(k) == Pow2[DataBits * k]

LEMMA WeightStep ==
  /\ Weight(0) = 1 /\ Weight(1) = Continue
  /\ \A k \in Nat : Weight(k) \in Nat \ {0} /\ Weight(k + 1) = Continue * Weight(k)
<1>1. DataBits * 0 = 0 /\ DataBits * 1 = DataBits
  BY ByteFacts
<1>2. ASSUME NEW k \in Nat
      PROVE  Weight(k) \in Nat \ {0} /\ Weight(k + 1) = Continue * Weight(k)
  <2> DEFINE m == DataBits * k
  <2>1. m \in Nat /\ DataBits \in Nat /\ DataBits * (k + 1) = DataBits + m
    BY ByteFacts
  <2> HIDE DEF m
  <2>2. Pow2[DataBits + m] = Pow2[DataBits] * Pow2[m] /\ Pow2[m] \in Nat \ {0}
    BY <2>1, Pow2Step, Pow2Sum
  <2> QED BY <2>1, <2>2 DEF Weight, Continue, m
<1> QED BY <1>1, <1>2, Pow2Step DEF Weight, Continue

(* s consists of the groups of u: all but the last byte have the continue bit, *)
(* and there are as many as u needs.                                           *)
GroupsOf(u, s) ==
  /\ s \in Seq(Byte) /\ Len(s) \in Nat \ {0}
  /\ \A i \in 1 .. Len(s) :
       /\ s[i] < Continue <=> i = Len(s)
       /\ s[i] % Continue = (u \div Weight(i - 1)) % Continue
  /\ u < Weight(Len(s))
  /\ Len(s) > 1 => u >= Weight(Len(s) - 1)

LEMMA OneGroup ==
  ASSUME NEW u \in Nat, u < Continue
  PROVE  GroupsOf(u, <<u>>)
<1>1. u \in Byte /\ Weight(0) = 1 /\ Weight(1) = Continue
  <2>1. u \in Byte
    BY ByteFacts
  <2> QED BY <2>1, WeightStep
<1>2. <<u>> \in Seq(Byte) /\ Len(<<u>>) = 1 /\ <<u>>[1] = u
  BY <1>1
<1>3. u \div 1 = u
  OBVIOUS
<1>4. \A i \in 1 .. 1 : i = 1 /\ i - 1 = 0
  OBVIOUS
<1> QED BY <1>1, <1>2, <1>3, <1>4 DEF GroupsOf

LEMMA MoreGroups ==
  ASSUME NEW u \in Nat, u >= Continue, NEW t, GroupsOf(u \div Continue, t)
  PROVE  GroupsOf(u, <<Continue + (u % Continue)>> \o t)
<1> DEFINE b == Continue + (u % Continue)
           w == u \div Continue
           n == Len(t)
           s == <<b>> \o t
<1>1. /\ Continue \in Nat \ {0, 1} /\ w \in Nat /\ w > 0
      /\ u % Continue \in 0 .. Continue - 1 /\ u = Continue * w + (u % Continue)
  <2>1. Continue \in Nat \ {0, 1}
    BY ByteFacts
  <2>2. w \in Nat /\ w > 0
    BY Smaller
  <2>3. u % Continue \in 0 .. Continue - 1 /\ u = Continue * w + (u % Continue)
    BY <2>1, Division
  <2> QED BY <2>1, <2>2, <2>3
<1>2. b \in Byte /\ b >= Continue /\ b % Continue = u % Continue
  <2> DEFINE r == u % Continue
  <2>1. r \in 0 .. Continue - 1
    BY <1>1
  <2> HIDE DEF r
  <2>2. Continue + r \in Byte /\ Continue + r >= Continue
    BY <1>1, <2>1, ByteFacts
  <2>3. (1 * Continue + r) % Continue = r
    BY <1>1, <2>1, DivisionUnique
  <2>4. 1 * Continue + r = Continue + r
    BY <1>1, <2>1
  <2> QED BY <2>2, <2>3, <2>4 DEF r
<1>3. t \in Seq(Byte) /\ n \in Nat \ {0}
  BY DEF GroupsOf
<1> HIDE DEF b
<1>4. /\ s \in Seq(Byte) /\ Len(s) = n + 1 /\ s[1] = b
      /\ \A i \in 2 .. n + 1 : s[i] = t[i - 1]
  BY <1>2, <1>3
<1> HIDE DEF s, n
<1>5. ASSUME NEW i \in 1 .. n + 1
      PROVE  /\ s[i] < Continue <=> i = n + 1
             /\ s[i] % Continue = (u \div Weight(i - 1)) % Continue
  <2>1. CASE i = 1
    <3>1. i - 1 = 0 /\ u \div 1 = u /\ i # n + 1 /\ s[i] = b
      BY <1>3, <1>4, <2>1
    <3>2. (u \div Weight(i - 1)) % Continue = u % Continue
      BY <3>1, WeightStep
    <3>3. ~(b < Continue)
      BY <1>1, <1>2, ByteFacts
    <3> QED BY <1>2, <3>1, <3>2, <3>3
  <2>2. CASE i # 1
    <3> DEFINE j == i - 1
    <3>1. j \in 1 .. n /\ s[i] = t[j] /\ (i = n + 1 <=> j = n)
      BY <1>3, <1>4, <2>2
    <3>2. /\ t[j] < Continue <=> j = n
          /\ t[j] % Continue = (w \div Weight(j - 1)) % Continue
      BY <3>1 DEF GroupsOf, n
    <3>3. Weight(j) = Continue * Weight(j - 1) /\ Weight(j - 1) \in Nat \ {0}
      <4>1. j - 1 \in Nat /\ (j - 1) + 1 = j
        BY <1>3, <3>1
      <4> HIDE DEF j
      <4> QED BY <4>1, WeightStep
    <3>4. w \div Weight(j - 1) = u \div Weight(j)
      <4> DEFINE p == Weight(j - 1)
      <4>1. p \in Nat \ {0} /\ Weight(j) = Continue * p
        BY <3>3
      <4> HIDE DEF p, j
      <4>2. (u \div Continue) \div p = u \div (Continue * p)
        <5>1. u \in Nat /\ Continue \in Nat \ {0}
          BY <1>1, ByteFacts
        <5> QED BY <4>1, <5>1, DivideTwice, Zenon
      <4> QED BY <4>1, <4>2 DEF p
    <3> QED BY <3>1, <3>2, <3>4
  <2> QED BY <2>1, <2>2
<1>6. u < Weight(n + 1)
  <2> DEFINE p == Weight(n)
  <2>1. w < p /\ p \in Nat \ {0} /\ Weight(n + 1) = Continue * p
    BY <1>3, WeightStep DEF GroupsOf, n
  <2> HIDE DEF w, p
  <2>2. Continue * (w + 1) <= Continue * p
    BY <1>1, <2>1
  <2> QED BY <1>1, <2>1, <2>2
<1>7. u >= Weight(n)
  <2>1. CASE n = 1
    BY <2>1, WeightStep
  <2>2. CASE n # 1
    <3> DEFINE p == Weight(n - 1)
    <3>1. n - 1 \in Nat /\ (n - 1) + 1 = n
      BY <1>3
    <3>2. w >= p
      <4>1. n > 1
        BY <1>3, <2>2
      <4> HIDE DEF w
      <4> QED BY <4>1 DEF GroupsOf, n, w
    <3>3. p \in Nat \ {0} /\ Weight(n) = Continue * p
      <4> DEFINE m == n - 1
      <4> HIDE DEF m
      <4>1. Weight(m) \in Nat \ {0} /\ Weight(m + 1) = Continue * Weight(m)
        BY <3>1, WeightStep DEF m
      <4> QED BY <3>1, <4>1 DEF m
    <3> HIDE DEF w, p
    <3>4. Continue * w >= Continue * p
      BY <1>1, <3>2, <3>3
    <3> QED BY <1>1, <3>3, <3>4
  <2> QED BY <2>1, <2>2
<1>8. Len(s) - 1 = n /\ Len(s) \in Nat \ {0}
  BY <1>3, <1>4
<1>9. GroupsOf(u, s)
  BY <1>4, <1>5, <1>6, <1>7, <1>8 DEF GroupsOf
<1> QED BY <1>9 DEF s, b

LEMMA GroupsCorrect == \A u \in VarUnsigned : GroupsOf(u, Groups[u])
<1> DEFINE S == {n \in Nat : \A u \in 0 .. n : u \in VarUnsigned => GroupsOf(u, Groups[u])}
<1>0. Continue \in Nat \ {0, 1} /\ Pow2[VarBits] \in Nat
  BY ByteFacts, Pow2Step
<1>1. ASSUME NEW u \in VarUnsigned, \A w \in VarUnsigned : w < u => GroupsOf(w, Groups[w])
      PROVE  GroupsOf(u, Groups[u])
  <2>1. u \in Nat
    BY <1>0 DEF VarUnsigned
  <2>2. CASE u < Continue
    <3>1. Groups[u] = <<u>>
      BY <2>2, GroupsDef
    <3> QED BY <2>1, <2>2, <3>1, OneGroup
  <2>3. CASE u >= Continue
    <3> DEFINE w == u \div Continue
    <3>1. w \in VarUnsigned /\ w < u
      <4>1. w \in Nat /\ w < u
        BY <2>1, <2>3, Smaller
      <4> HIDE DEF w
      <4> QED BY <1>0, <4>1 DEF VarUnsigned
    <3>2. Groups[u] = <<Continue + (u % Continue)>> \o Groups[u \div Continue]
      <4>1. ~(u < Continue)
        BY <1>0, <2>1, <2>3
      <4> QED BY <4>1, GroupsDef
    <3>3. GroupsOf(u \div Continue, Groups[u \div Continue])
      BY <1>1, <3>1
    <3> QED BY <2>1, <2>3, <3>2, <3>3, MoreGroups
  <2> QED BY <1>0, <2>1, <2>2, <2>3
<1>2. 0 \in S
  <2> SUFFICES ASSUME NEW u \in 0 .. 0, u \in VarUnsigned PROVE GroupsOf(u, Groups[u])
    OBVIOUS
  <2>1. \A w \in VarUnsigned : ~(w < u)
    BY <1>0 DEF VarUnsigned
  <2> QED BY <1>1, <2>1
<1>3. ASSUME NEW n \in Nat, n \in S
      PROVE  n + 1 \in S
  <2> SUFFICES ASSUME NEW u \in 0 .. n + 1, u \in VarUnsigned PROVE GroupsOf(u, Groups[u])
    OBVIOUS
  <2>1. \A w \in VarUnsigned : w < u => w \in 0 .. n
    BY <1>0 DEF VarUnsigned
  <2> QED BY <1>1, <1>3, <2>1
<1> HIDE DEF S
<1>4. Nat \subseteq S
  BY <1>2, <1>3, SetInduction
<1> QED
  <2> SUFFICES ASSUME NEW u \in VarUnsigned PROVE GroupsOf(u, Groups[u])
    OBVIOUS
  <2>1. u \in Nat /\ u \in 0 .. u
    BY <1>0 DEF VarUnsigned
  <2> QED BY <1>4, <2>1 DEF S

(* The first byte without the continue bit is the last group. *)
LEMMA VarLengthOf ==
  ASSUME NEW u, NEW s, GroupsOf(u, s), NEW rest \in Seq(Byte)
  PROVE  VarLength(s \o rest) = Len(s)
<1> DEFINE t == s \o rest
           n == Len(s)
           I == {i \in 1 .. Len(t) : t[i] < Continue}
<1>1. s \in Seq(Byte) /\ n \in Nat \ {0}
  BY DEF GroupsOf
<1>2. n \in 1 .. Len(t) /\ \A i \in 1 .. n : t[i] = s[i]
  BY <1>1
<1>3. \A i \in 1 .. n : t[i] < Continue <=> i = n
  BY <1>2 DEF GroupsOf
<1>4. Len(t) \in Nat
  BY <1>1
<1> HIDE DEF t, n
<1>5. n \in I /\ \A i \in I : n <= i
  BY <1>1, <1>2, <1>3, <1>4
<1>6. Min(I) = n
  <2>1. \A x \in I : (\A y \in I : x <= y) => x = n
    BY <1>1, <1>4, <1>5
  <2> HIDE DEF I
  <2> QED BY <1>5, <2>1 DEF Min
<1>7. SelectInSeq(t, LAMBDA byte : byte < Continue) = n
  BY <1>5, <1>6 DEF SelectInSeq
<1>8. VarLength(t) = n
  BY <1>1, <1>7 DEF VarLength
<1> QED BY <1>8 DEF t, n

LEMMA ByteAtType ==
  ASSUME NEW s \in Seq(Byte), NEW i \in Nat \ {0}
  PROVE  ByteAt(s, i) \in Nat
BY ByteFacts DEF ByteAt

LEMMA GatheredStep ==
  ASSUME NEW s \in Seq(Byte)
  PROVE  /\ Gathered(s)[0] = 0
         /\ \A n \in Nat : Gathered(s)[n + 1] =
                Gathered(s)[n] + (ByteAt(s, n + 1) % Continue) * Weight(n)
<1> DEFINE digit(n) == (ByteAt(s, n) % Continue) * Pow2[DataBits * (n - 1)]
           step == [n \in Nat |-> [v \in Nat |-> IF n = 0 THEN 0 ELSE v + digit(n)]]
<1>1. \A n \in Nat \ {0} : digit(n) \in Nat
  <2> SUFFICES ASSUME NEW n \in Nat \ {0} PROVE digit(n) \in Nat
    OBVIOUS
  <2>1. ByteAt(s, n) % Continue \in Nat
    BY ByteAtType, ByteFacts
  <2>2. Pow2[DataBits * (n - 1)] \in Nat
    <3>1. DataBits * (n - 1) \in Nat
      BY ByteFacts
    <3> QED BY <3>1, Pow2Step
  <2> QED BY <2>1, <2>2
<1> HIDE DEF digit
<1>2. 0 \in Nat /\ step \in [Nat -> [Nat -> Nat]]
  BY <1>1
<1>3. PICK f \in [Nat -> Nat] : RecursUp(f, 0, step)
  <2> HIDE DEF step
  <2> QED BY <1>2, UpRecursion
<1>4. ASSUME NEW n \in Nat
      PROVE  f[n] = IF n = 0 THEN 0 ELSE f[n - 1] + digit(n)
  <2>1. CASE n = 0
    BY <1>3, <2>1 DEF RecursUp
  <2>2. CASE n # 0
    <3>1. n \in Nat \ {0} /\ f[n - 1] \in Nat
      BY <2>2
    <3>2. f[n] = step[n][f[n - 1]]
      BY <1>3, <3>1 DEF RecursUp
    <3> QED BY <2>2, <3>1, <3>2
  <2> QED BY <2>1, <2>2
<1>5. f = [n \in Nat |-> IF n = 0 THEN 0 ELSE f[n - 1] + digit(n)]
  BY <1>4
<1>6. Gathered(s) = [n \in Nat |-> IF n = 0 THEN 0 ELSE Gathered(s)[n - 1] + digit(n)]
  BY <1>5, Zenon DEF Gathered, digit
<1>7. ASSUME NEW n \in Nat
      PROVE  Gathered(s)[n + 1] = Gathered(s)[n] + (ByteAt(s, n + 1) % Continue) * Weight(n)
  <2>1. n + 1 \in Nat /\ n + 1 # 0 /\ (n + 1) - 1 = n
    OBVIOUS
  <2>2. Gathered(s)[n + 1] = Gathered(s)[n] + digit(n + 1)
    BY <1>6, <2>1
  <2> QED BY <2>1, <2>2 DEF digit, Weight
<1> QED BY <1>6, <1>7

(* After n bytes the decoder has the low bits of u. *)
LEMMA GatheredOf ==
  ASSUME NEW u \in Nat, NEW s, GroupsOf(u, s), NEW rest \in Seq(Byte)
  PROVE  \A n \in 0 .. Len(s) : Gathered(s \o rest)[n] = u % Weight(n)
<1> DEFINE t == s \o rest
           S == {n \in Nat : n <= Len(s) => Gathered(t)[n] = u % Weight(n)}
<1>1. s \in Seq(Byte) /\ t \in Seq(Byte) /\ Len(s) \in Nat
  BY DEF GroupsOf
<1>2. 0 \in S
  <2>1. u % 1 = 0
    OBVIOUS
  <2> HIDE DEF t
  <2> QED BY <1>1, <2>1, GatheredStep, WeightStep
<1>3. ASSUME NEW n \in Nat, n \in S
      PROVE  n + 1 \in S
  <2> SUFFICES ASSUME n + 1 <= Len(s) PROVE Gathered(t)[n + 1] = u % Weight(n + 1)
    OBVIOUS
  <2>1. n + 1 \in 1 .. Len(s) /\ (n + 1) - 1 = n
    BY <1>1
  <2>2. ByteAt(t, n + 1) = s[n + 1]
    BY <1>1, <2>1 DEF ByteAt
  <2>3. s[n + 1] % Continue = (u \div Weight(n)) % Continue
    BY <2>1 DEF GroupsOf
  <2>4. Gathered(t)[n] = u % Weight(n)
    BY <1>1, <1>3, <2>1
  <2> HIDE DEF t
  <2>5. Gathered(t)[n + 1] = (u % Weight(n)) + ((u \div Weight(n)) % Continue) * Weight(n)
    BY <1>1, <2>2, <2>3, <2>4, GatheredStep
  <2> DEFINE p == Weight(n)
  <2>6. p \in Nat \ {0} /\ Continue \in Nat \ {0} /\ Weight(n + 1) = p * Continue
    <3>1. Continue \in Nat \ {0}
      BY ByteFacts
    <3>2. p \in Nat \ {0} /\ Weight(n + 1) = Continue * p
      BY WeightStep
    <3> HIDE DEF p
    <3> QED BY <3>1, <3>2
  <2> HIDE DEF p
  <2>7. (u % p) + ((u \div p) % Continue) * p = u % (p * Continue)
    BY <2>6, NextDigit
  <2> QED BY <2>5, <2>6, <2>7 DEF p
<1> HIDE DEF S
<1>4. Nat \subseteq S
  BY <1>2, <1>3, SetInduction
<1> QED BY <1>1, <1>4 DEF S

(* What decode answers when it took n bytes for the value v *)
Answer(v, n) == [value |-> v, pulled |-> n, used |-> n, throws |-> FALSE]

LEMMA VarIntegerType ==
  ASSUME NEW v \in SignedRange(VarBits)
  PROVE  EncodeVarInteger(v) \in Seq(Byte) /\ Len(EncodeVarInteger(v)) \in Nat \ {0}
<1>1. ToUnsigned(v, VarBits) \in VarUnsigned
  BY ByteFacts, SignedAndBack DEF VarUnsigned, UnsignedRange
<1> QED BY <1>1, GroupsCorrect DEF EncodeVarInteger, GroupsOf

LEMMA VarIntegerBack ==
  ASSUME NEW v \in SignedRange(VarBits), NEW rest \in Seq(Byte)
  PROVE  DecodeVarInteger(EncodeVarInteger(v) \o rest) = Answer(v, Len(EncodeVarInteger(v)))
<1> DEFINE u == ToUnsigned(v, VarBits)
           s == Groups[u]
           t == s \o rest
           n == Len(s)
<1>1. u \in VarUnsigned /\ ToSigned(u, VarBits) = v
  BY ByteFacts, SignedAndBack DEF VarUnsigned, UnsignedRange
<1> HIDE DEF u
<1>2. GroupsOf(u, s) /\ u \in Nat /\ u < Pow2[VarBits] /\ Pow2[VarBits] \in Nat \ {0}
  <2>1. Pow2[VarBits] \in Nat \ {0}
    BY ByteFacts, Pow2Step
  <2> QED BY <1>1, <2>1, GroupsCorrect DEF VarUnsigned
<1> HIDE DEF s
<1>3. n \in Nat \ {0} /\ u < Weight(n) /\ (n > 1 => u >= Weight(n - 1))
  BY <1>2 DEF GroupsOf
<1>4. VarLength(t) = n
  BY <1>2, VarLengthOf
<1>5. Gathered(t)[n] = u
  <2>1. Gathered(t)[n] = u % Weight(n)
    BY <1>2, <1>3, GatheredOf
  <2>2. Weight(n) \in Nat \ {0}
    BY <1>3, WeightStep
  <2>3. u % Weight(n) = u
    BY <1>2, <1>3, <2>2
  <2> QED BY <2>1, <2>3
<1>6. ~VarTooBig(t)
  <2> SUFFICES ASSUME DataBits * (n - 1) >= VarBits PROVE FALSE
    BY <1>4 DEF VarTooBig
  <2> HIDE DEF n
  <2> DEFINE m == DataBits * (n - 1)
  <2>1. m \in Nat /\ VarBits \in Nat \ {0, 1} /\ VarBits <= m
    BY <1>3, ByteFacts
  <2>2. n > 1
    <3>1. ASSUME n = 1 PROVE FALSE
      <4>1. DataBits * (1 - 1) = 0
        BY ByteFacts
      <4> QED BY <2>1, <3>1, <4>1
    <3> QED BY <1>3, <3>1
  <2>3. u >= Pow2[m]
    BY <1>3, <2>2 DEF Weight, n
  <2> HIDE DEF m
  <2>4. Pow2[VarBits] <= Pow2[m] /\ Pow2[m] \in Nat
    BY <2>1, Pow2Monotone, Pow2Step
  <2> QED BY <1>2, <2>3, <2>4
<1>7. u % Pow2[VarBits] = u
  BY <1>2
<1> HIDE DEF t, n
<1>8. DecodeVarInteger(t) = Answer(v, n)
  <2>1. Gathered(t)[VarLength(t)] % Pow2[VarBits] = u
    BY <1>4, <1>5, <1>7
  <2>2. VarTooBig(t) = FALSE
    BY <1>6 DEF VarTooBig
  <2> QED BY <1>1, <1>4, <2>1, <2>2, Zenon DEF DecodeVarInteger, Answer
<1> QED BY <1>8 DEF t, n, s, u, EncodeVarInteger

-------------------------------------------------------------------------------
(* Integers of fixed length                                                    *)

(* The weight of the k-th byte from the end *)
ByteWeight(k) == Pow2[(DataBits + 1) * k]

LEMMA ByteWeightStep ==
  /\ ByteWeight(0) = 1
  /\ \A k \in Nat : ByteWeight(k) \in Nat \ {0} /\ ByteWeight(k + 1) = ByteSize * ByteWeight(k)
<1> DEFINE B == DataBits + 1
<1>1. B \in Nat /\ Pow2[B] = ByteSize /\ B * 0 = 0
  BY ByteFacts
<1> HIDE DEF B
<1>2. ASSUME NEW k \in Nat
      PROVE  Pow2[B * k] \in Nat \ {0} /\ Pow2[B * (k + 1)] = ByteSize * Pow2[B * k]
  <2> DEFINE m == B * k
  <2>1. m \in Nat /\ B * (k + 1) = B + m
    BY <1>1
  <2> HIDE DEF m
  <2>2. Pow2[B + m] = Pow2[B] * Pow2[m] /\ Pow2[m] \in Nat \ {0}
    BY <1>1, <2>1, Pow2Step, Pow2Sum
  <2> QED BY <1>1, <2>1, <2>2 DEF m
<1>3. Pow2[B * 0] = 1
  BY <1>1, Pow2Step
<1> QED BY <1>2, <1>3 DEF ByteWeight, B

LEMMA IntegerType ==
  ASSUME NEW v \in Int, NEW bytes \in Nat \ {0}
  PROVE  EncodeInteger(v, bytes) \in Seq(Byte) /\ Len(EncodeInteger(v, bytes)) = bytes
<1> DEFINE u == ToUnsigned(v, bytes * (DataBits + 1))
           byte(i) == (u \div Pow2[(DataBits + 1) * (bytes - i)]) % ByteSize
<1>1. u \in Int
  <2>1. bytes * (DataBits + 1) \in Nat
    BY ByteFacts
  <2>2. Pow2[bytes * (DataBits + 1)] \in Nat \ {0}
    BY <2>1, Pow2Step
  <2> QED BY <2>2 DEF ToUnsigned
<1>2. ASSUME NEW i \in 1 .. bytes
      PROVE  byte(i) \in Byte
  <2>1. (DataBits + 1) * (bytes - i) \in Nat
    BY ByteFacts
  <2>2. Pow2[(DataBits + 1) * (bytes - i)] \in Nat \ {0}
    BY <2>1, Pow2Step
  <2> HIDE DEF u
  <2>3. u \div Pow2[(DataBits + 1) * (bytes - i)] \in Int
    BY <1>1, <2>2
  <2> QED BY <2>3, ByteFacts
<1> HIDE DEF byte
<1>3. [i \in 1 .. bytes |-> byte(i)] \in Seq(Byte) /\ Len([i \in 1 .. bytes |-> byte(i)]) = bytes
  BY <1>2
<1> QED BY <1>3, Zenon DEF EncodeInteger, byte

LEMMA ShiftedStep ==
  ASSUME NEW s \in Seq(Byte)
  PROVE  /\ Shifted(s)[0] = 0
         /\ \A n \in Nat : Shifted(s)[n + 1] = Shifted(s)[n] * ByteSize + ByteAt(s, n + 1)
<1> DEFINE step == [n \in Nat |-> [v \in Nat |-> IF n = 0 THEN 0 ELSE v * ByteSize + ByteAt(s, n)]]
<1>1. 0 \in Nat /\ step \in [Nat -> [Nat -> Nat]]
  <2> SUFFICES ASSUME NEW n \in Nat \ {0}, NEW v \in Nat
               PROVE  v * ByteSize + ByteAt(s, n) \in Nat
    OBVIOUS
  <2>1. ByteAt(s, n) \in Nat
    BY ByteAtType
  <2>2. ByteSize \in Nat
    BY ByteFacts
  <2>3. v * ByteSize \in Nat
    BY <2>2
  <2> QED BY <2>1, <2>3
<1>2. PICK f \in [Nat -> Nat] : RecursUp(f, 0, step)
  <2> HIDE DEF step
  <2> QED BY <1>1, UpRecursion
<1>3. ASSUME NEW n \in Nat
      PROVE  f[n] = IF n = 0 THEN 0 ELSE f[n - 1] * ByteSize + ByteAt(s, n)
  <2>1. CASE n = 0
    BY <1>2, <2>1 DEF RecursUp
  <2>2. CASE n # 0
    <3>1. n \in Nat \ {0} /\ f[n - 1] \in Nat
      BY <2>2
    <3>2. f[n] = step[n][f[n - 1]]
      BY <1>2, <3>1 DEF RecursUp
    <3> QED BY <2>2, <3>1, <3>2
  <2> QED BY <2>1, <2>2
<1>4. f = [n \in Nat |-> IF n = 0 THEN 0 ELSE f[n - 1] * ByteSize + ByteAt(s, n)]
  BY <1>3
<1>5. Shifted(s) = [n \in Nat |-> IF n = 0 THEN 0
                                  ELSE Shifted(s)[n - 1] * ByteSize + ByteAt(s, n)]
  BY <1>4, Zenon DEF Shifted
<1>6. ASSUME NEW n \in Nat
      PROVE  Shifted(s)[n + 1] = Shifted(s)[n] * ByteSize + ByteAt(s, n + 1)
  <2>1. n + 1 \in Nat /\ n + 1 # 0 /\ (n + 1) - 1 = n
    OBVIOUS
  <2> QED BY <1>5, <2>1
<1> QED BY <1>5, <1>6

(* The bytes of u, shifted in one after the other, give u again. *)
LEMMA UnsignedBack ==
  ASSUME NEW v \in Int, NEW bytes \in Nat \ {0}, NEW rest \in Seq(Byte)
  PROVE  DecodeUnsigned(EncodeInteger(v, bytes) \o rest, bytes) =
           ToUnsigned(v, bytes * (DataBits + 1))
<1> DEFINE u == ToUnsigned(v, bytes * (DataBits + 1))
           s == EncodeInteger(v, bytes)
           t == s \o rest
           S == {n \in Nat : n <= bytes => Shifted(t)[n] = u \div ByteWeight(bytes - n)}
<1>1. u \in Nat /\ u < ByteWeight(bytes)
  <2>1. bytes * (DataBits + 1) = (DataBits + 1) * bytes
    BY ByteFacts
  <2>2. ByteWeight(bytes) \in Nat \ {0} /\ u = v % ByteWeight(bytes)
    BY <2>1, ByteWeightStep DEF ToUnsigned, ByteWeight
  <2> HIDE DEF u
  <2> QED BY <2>2
<1>2. s \in Seq(Byte) /\ Len(s) = bytes /\ t \in Seq(Byte) /\ bytes \in Nat
  BY IntegerType
<1>3. \A i \in 1 .. bytes : s[i] = (u \div ByteWeight(bytes - i)) % ByteSize
  BY DEF EncodeInteger, ByteWeight
<1>4. \A i \in 1 .. bytes : ByteAt(t, i) = s[i]
  <2> HIDE DEF s
  <2> QED BY <1>2 DEF ByteAt
<1> HIDE DEF u, s, t
<1>5. 0 \in S
  <2> DEFINE p == ByteWeight(bytes)
  <2>1. p \in Nat \ {0} /\ u < p
    BY <1>1, <1>2, ByteWeightStep
  <2> HIDE DEF p
  <2>2. u \div p = 0
    BY <1>1, <2>1, DivideNat
  <2>3. bytes - 0 = bytes /\ Shifted(t)[0] = 0
    BY <1>2, ShiftedStep
  <2> QED BY <2>2, <2>3 DEF p
<1>6. ASSUME NEW n \in Nat, n \in S
      PROVE  n + 1 \in S
  <2> SUFFICES ASSUME n + 1 <= bytes
               PROVE  Shifted(t)[n + 1] = u \div ByteWeight(bytes - (n + 1))
    OBVIOUS
  <2> DEFINE k == bytes - (n + 1)
             p == ByteWeight(k)
             q == u \div p
  <2>1. k \in Nat /\ bytes - n = k + 1 /\ n + 1 \in 1 .. bytes /\ n <= bytes
    OBVIOUS
  <2> HIDE DEF k
  <2>2. p \in Nat \ {0} /\ ByteWeight(bytes - n) = ByteSize * p
    BY <2>1, ByteWeightStep
  <2>3. Shifted(t)[n] = u \div (ByteSize * p)
    BY <1>6, <2>1, <2>2
  <2>4. ByteAt(t, n + 1) = q % ByteSize
    BY <1>3, <1>4, <2>1 DEF k
  <2>5. Shifted(t)[n + 1] = Shifted(t)[n] * ByteSize + ByteAt(t, n + 1)
    BY <1>2, ShiftedStep
  <2> HIDE DEF p
  <2>6. ByteSize \in Nat \ {0}
    BY ByteFacts
  <2>7. q \in Nat
    BY <1>1, <2>2, DivideNat
  <2>8. p * ByteSize = ByteSize * p
    BY <2>2, <2>6
  <2>9. u \div (p * ByteSize) = q \div ByteSize
    BY <1>1, <2>2, <2>6, DivideTwice
  <2> HIDE DEF q
  <2>10. /\ q = ByteSize * (q \div ByteSize) + (q % ByteSize)
         /\ q \div ByteSize \in Int /\ q % ByteSize \in Int
    BY <2>6, <2>7, Division
  <2>11. Shifted(t)[n] = q \div ByteSize
    BY <2>3, <2>8, <2>9
  <2>12. Shifted(t)[n + 1] = q
    BY <2>4, <2>5, <2>6, <2>10, <2>11
  <2> QED BY <2>12 DEF q, p, k
<1> HIDE DEF S
<1>7. Nat \subseteq S
  BY <1>5, <1>6, SetInduction
<1>8. Shifted(t)[bytes] = u \div ByteWeight(0)
  BY <1>2, <1>7 DEF S
<1>9. u \div 1 = u
  BY <1>1
<1> QED BY <1>8, <1>9, ByteWeightStep DEF DecodeUnsigned, t, s, u

LEMMA WidthFacts ==
  ASSUME NEW kind \in DOMAIN BytesOf
  PROVE  /\ BytesOf[kind] \in Nat \ {0}
         /\ BytesOf[kind] * (DataBits + 1) \in Nat \ {0}
<1>1. BytesOf[kind] \in Nat \ {0} /\ DataBits + 1 \in Nat \ {0}
  BY CoderAssumption
<1> QED BY <1>1

LEMMA IntegerValues ==
  ASSUME NEW kind \in DOMAIN BytesOf, NEW v \in ValuesOf(kind)
  PROVE  v \in IF kind \in Signed THEN SignedRange(BytesOf[kind] * (DataBits + 1))
               ELSE UnsignedRange(BytesOf[kind] * (DataBits + 1))
<1>1. kind \notin {"bool", "varint", "string", "position"}
  BY CoderAssumption DEF Signed
<1> QED BY <1>1 DEF ValuesOf

LEMMA IntegerBack ==
  ASSUME NEW kind \in DOMAIN BytesOf, NEW v \in ValuesOf(kind), NEW rest \in Seq(Byte)
  PROVE  /\ EncodeInteger(v, BytesOf[kind]) \in Seq(Byte)
         /\ Len(EncodeInteger(v, BytesOf[kind])) = BytesOf[kind]
         /\ DecodeInteger(EncodeInteger(v, BytesOf[kind]) \o rest, kind) =
              Answer(v, BytesOf[kind])
<1> DEFINE bytes == BytesOf[kind]
           bits == bytes * (DataBits + 1)
           t == EncodeInteger(v, bytes) \o rest
           u == ToUnsigned(v, bits)
<1>1. bytes \in Nat \ {0} /\ bits \in Nat \ {0}
  BY WidthFacts
<1>2. v \in IF kind \in Signed THEN SignedRange(bits) ELSE UnsignedRange(bits)
  BY IntegerValues
<1> HIDE DEF bits
<1>3. Pow2[bits] \in Nat \ {0} /\ Pow2[bits - 1] \in Nat
  <2>1. bits \in Nat /\ bits - 1 \in Nat
    BY <1>1
  <2> QED BY <2>1, Pow2Step
<1>4. v \in Int
  BY <1>2, <1>3 DEF SignedRange, UnsignedRange
<1>5. (IF kind \in Signed THEN ToSigned(u, bits) ELSE u) = v
  <2>1. CASE kind \in Signed
    BY <1>1, <1>2, <2>1, SignedAndBack
  <2>2. CASE kind \notin Signed
    <3>1. v \in 0 .. Pow2[bits] - 1
      BY <1>2, <2>2 DEF UnsignedRange
    <3>2. v % Pow2[bits] = v
      BY <1>3, <3>1
    <3> QED BY <2>2, <3>2 DEF ToUnsigned
  <2> QED BY <2>1, <2>2
<1>6. DecodeUnsigned(t, bytes) = u
  BY <1>1, <1>4, UnsignedBack DEF bits
<1> HIDE DEF u, t
<1>7. DecodeInteger(t, kind) = Answer(v, bytes)
  BY <1>5, <1>6, Zenon DEF DecodeInteger, Answer, bits
<1> QED BY <1>1, <1>4, <1>7, IntegerType DEF t

-------------------------------------------------------------------------------
(* The other kinds                                                             *)

LEMMA BoolBack ==
  ASSUME NEW b \in BOOLEAN, NEW rest \in Seq(Byte)
  PROVE  /\ EncodeBool(b) \in Seq(Byte) /\ Len(EncodeBool(b)) = 1
         /\ DecodeBool(EncodeBool(b) \o rest) = Answer(b, 1)
<1>1. 0 \in Byte /\ 1 \in Byte
  BY ByteFacts
<1>2. CASE b = TRUE
  <2> DEFINE t == <<1>> \o rest
  <2>1. ByteAt(t, 1) = 1
    BY <1>1 DEF ByteAt
  <2> HIDE DEF t
  <2>2. (ByteAt(t, 1) = 1) = TRUE /\ (ByteAt(t, 1) \notin {0, 1}) = FALSE
    BY <2>1
  <2>3. DecodeBool(t) = Answer(TRUE, 1)
    BY <2>2, Zenon DEF DecodeBool, Answer
  <2> QED BY <1>1, <1>2, <2>3 DEF t, EncodeBool
<1>3. CASE b = FALSE
  <2> DEFINE t == <<0>> \o rest
  <2>1. ByteAt(t, 1) = 0
    BY <1>1 DEF ByteAt
  <2> HIDE DEF t
  <2>2. (ByteAt(t, 1) = 1) = FALSE /\ (ByteAt(t, 1) \notin {0, 1}) = FALSE
    BY <2>1
  <2>3. DecodeBool(t) = Answer(FALSE, 1)
    BY <2>2, Zenon DEF DecodeBool, Answer
  <2>4. EncodeBool(b) = <<0>>
    BY <1>3 DEF EncodeBool
  <2>5. <<0>> \in Seq(Byte) /\ Len(<<0>>) = 1
    BY <1>1
  <2> QED BY <1>3, <2>3, <2>4, <2>5 DEF t
<1> QED BY <1>2, <1>3

LEMMA StringBack ==
  ASSUME NEW str \in Seq(Byte), Len(str) \in SignedRange(VarBits), NEW rest \in Seq(Byte)
  PROVE  /\ EncodeString(str) \in Seq(Byte)
         /\ DecodeString(EncodeString(str) \o rest) = Answer(str, Len(EncodeString(str)))
<1> DEFINE size == EncodeVarInteger(Len(str))
           tail == str \o rest
           t == size \o tail
           n == Len(size)
           last == n + Len(str)
<1>1. size \in Seq(Byte) /\ n \in Nat \ {0} /\ Len(str) \in Nat /\ tail \in Seq(Byte)
  BY VarIntegerType
<1>2. DecodeVarInteger(t) = Answer(Len(str), n)
  BY <1>1, VarIntegerBack
<1> HIDE DEF size
<1>3. EncodeString(str) \o rest = t
  BY <1>1 DEF EncodeString, size
<1>4. Len(EncodeString(str)) = last /\ EncodeString(str) \in Seq(Byte)
  BY <1>1 DEF EncodeString, size
<1>5. Len(tail) \in Nat /\ Len(str) \in 0 .. Len(tail)
  BY <1>1
<1>6. SubSeq(t, n + 1, last) = str
  <2>1. SubSeq(t, n + 1, last) = SubSeq(tail, 1, Len(str))
    BY <1>1, <1>5, PieceOfConcat
  <2> QED BY <1>1, <2>1, PrefixOfConcat
<1>7. (IF last < Len(t) THEN last ELSE Len(t)) = last
  <2>1. Len(t) = n + Len(tail)
    BY <1>1
  <2> DEFINE a == Len(str)
             b == Len(tail)
             c == Len(t)
  <2>2. n \in Nat /\ a \in Nat /\ b \in Nat /\ a <= b /\ c = n + b
    BY <1>1, <1>5, <2>1
  <2> HIDE DEF tail, t, n, a, b, c
  <2>3. (IF n + a < c THEN n + a ELSE c) = n + a
    BY <2>2
  <2> QED BY <2>3 DEF a, c
<1> HIDE DEF t, tail, n
<1>8. DecodeString(t) = Answer(str, last)
  <2>1. /\ DecodeVarInteger(t).value = Len(str)
        /\ DecodeVarInteger(t).pulled = n
        /\ DecodeVarInteger(t).used = n
        /\ DecodeVarInteger(t).throws = FALSE
    BY <1>2 DEF Answer
  <2> QED BY <1>6, <1>7, <2>1, Zenon DEF DecodeString, Answer
<1> QED BY <1>3, <1>4, <1>8

(* Three digits packed into one number, as Position::encode does it *)
Unpacks(raw, A, B, X, Z, Y) ==
  /\ raw \in 0 .. A * (A * B) - 1
  /\ raw \div (A * B) = X
  /\ (raw \div B) % A = Z
  /\ raw % B = Y

LEMMA Packing ==
  ASSUME NEW A \in Nat \ {0}, NEW B \in Nat \ {0},
         NEW X \in 0 .. A - 1, NEW Z \in 0 .. A - 1, NEW Y \in 0 .. B - 1
  PROVE  Unpacks(X * (A * B) + Z * B + Y, A, B, X, Z, Y)
<1> DEFINE C == A * B
           low == Z * B + Y
           high == X * A + Z
           raw == X * C + Z * B + Y
<1>1. C \in Nat \ {0}
  OBVIOUS
<1>2. low \in 0 .. C - 1
  <2>1. Z * B \in Nat /\ (Z + 1) * B = Z * B + B
    OBVIOUS
  <2>2. (Z + 1) * B <= A * B
    OBVIOUS
  <2> DEFINE p == Z * B
             q == (Z + 1) * B
  <2>3. p \in Nat /\ q = p + B /\ q <= C /\ low = p + Y
    BY <2>1, <2>2
  <2> HIDE DEF p, q, C, low
  <2> QED BY <1>1, <2>3
<1>3. raw = X * C + low /\ X * C \in Nat
  <2>1. X * C \in Nat /\ Z * B \in Nat
    BY <1>1
  <2> QED BY <2>1
<1>4. raw = high * B + Y
  <2>1. X * (A * B) = (X * A) * B /\ (X * A + Z) * B = (X * A) * B + Z * B
    OBVIOUS
  <2> QED BY <2>1
<1>5. high \in Nat /\ high % A = Z
  <2>1. high \in Nat
    OBVIOUS
  <2> QED BY <2>1, DivisionUnique
<1> HIDE DEF C, low, high, raw
<1>6. raw \div C = X
  BY <1>1, <1>2, <1>3, DivisionUnique
<1>7. raw \div B = high /\ raw % B = Y
  BY <1>4, <1>5, DivisionUnique
<1>8. raw \in 0 .. A * C - 1
  <2> DEFINE p == X * C
             q == (X + 1) * C
  <2>1. q = p + C /\ q <= A * C /\ p \in Nat /\ A * C \in Nat
    BY <1>1
  <2> DEFINE r == A * C
  <2>2. raw = p + low /\ q = p + C /\ q <= r /\ p \in Nat /\ r \in Nat
    BY <1>3, <2>1
  <2> HIDE DEF p, q, r
  <2>3. raw \in 0 .. r - 1
    BY <1>1, <1>2, <2>2
  <2> QED BY <2>3 DEF r
<1>9. (raw \div B) % A = Z
  BY <1>5, <1>7
<1> QED BY <1>6, <1>7, <1>8, <1>9 DEF Unpacks, raw, C

LEMMA PositionBack ==
  ASSUME NEW p \in ValuesOf("position"), NEW rest \in Seq(Byte)
  PROVE  /\ EncodePosition(p) \in Seq(Byte) /\ Len(EncodePosition(p)) = BytesOf["ulong"]
         /\ DecodePosition(EncodePosition(p) \o rest) = Answer(p, BytesOf["ulong"])
<1> DEFINE H == HorizontalBits
           V == VerticalBits
           bytes == BytesOf["ulong"]
           bits == bytes * (DataBits + 1)
           X == ToUnsigned(p.x, H)
           Y == ToUnsigned(p.y, V)
           Z == ToUnsigned(p.z, H)
           A == Pow2[H]
           B == Pow2[V]
           C == Pow2[H + V]
           raw == X * C + Z * B + Y
           t == EncodeInteger(raw, bytes) \o rest
<1>1. /\ H \in Nat \ {0} /\ V \in Nat \ {0} /\ bits = H + (H + V)
      /\ bytes \in Nat \ {0} /\ bits \in Nat \ {0}
  <2>1. "ulong" \in DOMAIN BytesOf
    BY CoderAssumption
  <2> QED BY <2>1, CoderAssumption, WidthFacts
<1>2. /\ p = [x |-> p.x, y |-> p.y, z |-> p.z]
      /\ p.x \in SignedRange(H) /\ p.y \in SignedRange(V) /\ p.z \in SignedRange(H)
  BY DEF ValuesOf, Signed
<1> HIDE DEF bits, H, V
<1>3. A \in Nat \ {0} /\ B \in Nat \ {0} /\ C = A * B /\ Pow2[bits] = A * C
  <2>1. H \in Nat /\ V \in Nat /\ H + V \in Nat /\ bits = H + (H + V)
    BY <1>1
  <2> QED BY <2>1, Pow2Step, Pow2Sum
<1>4. X \in 0 .. A - 1 /\ Y \in 0 .. B - 1 /\ Z \in 0 .. A - 1
  BY <1>1, <1>2, SignedAndBack DEF UnsignedRange
<1>5. /\ Coordinate(X, H) = p.x
      /\ Coordinate(Y, V) = p.y
      /\ Coordinate(Z, H) = p.z
  BY <1>1, <1>2, SignedAndBack
<1> HIDE DEF X, Y, Z, A, B, C
<1>6. /\ raw \in 0 .. A * C - 1
      /\ raw \div C = X
      /\ (raw \div B) % A = Z
      /\ raw % B = Y
  <2>1. Unpacks(X * (A * B) + Z * B + Y, A, B, X, Z, Y)
    BY <1>3, <1>4, Packing
  <2> QED BY <1>3, <2>1 DEF Unpacks
<1>7. EncodePosition(p) = EncodeInteger(raw, bytes)
  BY DEF EncodePosition, X, Y, Z, B, C, H, V
<1> HIDE DEF raw
<1>8. raw \in Int
  <2> DEFINE AC == A * C
  <2>1. raw \in 0 .. AC - 1 /\ AC \in Int
    BY <1>3, <1>6
  <2> HIDE DEF AC
  <2> QED BY <2>1
<1>9. DecodeUnsigned(t, bytes) = raw
  <2>1. DecodeUnsigned(t, bytes) = ToUnsigned(raw, bits)
    BY <1>1, <1>8, UnsignedBack DEF bits
  <2> DEFINE m == A * C
  <2>2. m \in Nat /\ raw \in 0 .. m - 1 /\ Pow2[bits] = m
    BY <1>3, <1>6
  <2> HIDE DEF m
  <2>3. raw % m = raw
    BY <2>2
  <2> QED BY <2>1, <2>2, <2>3 DEF ToUnsigned
<1> HIDE DEF t
<1>10. X % A = X
  BY <1>3, <1>4
<1>11. DecodePosition(t) = Answer([x |-> p.x, y |-> p.y, z |-> p.z], bytes)
  <2>1. (DecodeUnsigned(t, bytes) \div Pow2[H + V]) % Pow2[H] = X
    BY <1>6, <1>9, <1>10 DEF A, C
  <2>2. (DecodeUnsigned(t, bytes) \div Pow2[V]) % Pow2[H] = Z
    BY <1>6, <1>9 DEF A, B
  <2>3. DecodeUnsigned(t, bytes) % Pow2[V] = Y
    BY <1>6, <1>9 DEF B
  <2> QED BY <1>5, <2>1, <2>2, <2>3, Zenon DEF DecodePosition, Answer, H, V
<1>12. EncodeInteger(raw, bytes) \in Seq(Byte) /\ Len(EncodeInteger(raw, bytes)) = bytes
  BY <1>1, <1>8, IntegerType
<1> QED BY <1>2, <1>7, <1>11, <1>12 DEF t

-------------------------------------------------------------------------------
(* PacketCoder<T>::decode undoes PacketCoder<T>::encode for every T and every  *)
(* value of it, whatever follows in the stream: it gives the value back, pulls *)
(* and counts the bytes that encode wrote, and does not throw                  *)
(* (PacketCoder.ipp:20-164).                                                   *)
THEOREM FieldBack ==
  ASSUME NEW kind \in Kinds, NEW v \in ValuesOf(kind), NEW rest \in Seq(Byte)
  PROVE  /\ EncodeField(kind, v) \in Seq(Byte)
         /\ DecodeField(kind, EncodeField(kind, v) \o rest) =
              Answer(v, Len(EncodeField(kind, v)))
<1>1. {"bool", "varint", "string", "position"} \cap DOMAIN BytesOf = {}
  BY CoderAssumption DEF Signed
<1>2. CASE kind = "bool"
  <2>1. v \in BOOLEAN
    BY <1>2 DEF ValuesOf, Signed
  <2> QED BY <1>2, <2>1, BoolBack DEF EncodeField, DecodeField
<1>3. CASE kind = "varint"
  <2>1. v \in SignedRange(VarBits)
    BY <1>3 DEF ValuesOf, Signed
  <2> QED BY <1>3, <2>1, VarIntegerType, VarIntegerBack DEF EncodeField, DecodeField
<1>4. CASE kind = "string"
  <2>1. v \in Seq(Byte) /\ Len(v) \in SignedRange(VarBits)
    BY <1>4 DEF ValuesOf, Signed
  <2> QED BY <1>4, <2>1, StringBack DEF EncodeField, DecodeField
<1>5. CASE kind = "position"
  <2>1. v \in ValuesOf("position")
    BY <1>5
  <2> QED BY <1>5, <2>1, PositionBack DEF EncodeField, DecodeField
<1>6. CASE kind \in DOMAIN BytesOf
  <2>1. /\ EncodeField(kind, v) = EncodeInteger(v, BytesOf[kind])
        /\ \A s : DecodeField(kind, s) = DecodeInteger(s, kind)
    BY <1>1, <1>6 DEF EncodeField, DecodeField
  <2> QED BY <1>6, <2>1, IntegerBack
<1> QED BY <1>2, <1>3, <1>4, <1>5, <1>6 DEF Kinds

-------------------------------------------------------------------------------
(* The contents of a packet                                                    *)

LEMMA EntryType ==
  ASSUME NEW fields, NEW values, IsContents(fields, values), NEW i \in 1 .. Len(fields)
  PROVE  EncodeEntry(fields, values, i) \in Seq(Byte)
<1>1. fields[i].kind \in Kinds
  <2>1. fields \in Seq([kind : Kinds, when : Nat])
    BY DEF IsContents, IsLayout
  <2>2. fields[i] \in [kind : Kinds, when : Nat]
    BY <2>1, ElementOfSeq
  <2> QED BY <2>2
<1>2. CASE IsPresent(fields[i].when, values)
  <2>1. values[i] \in ValuesOf(fields[i].kind)
    BY <1>2 DEF IsContents
  <2>2. <<>> \in Seq(Byte)
    BY EmptySeq
  <2>3. EncodeField(fields[i].kind, values[i]) \in Seq(Byte)
    BY <1>1, <2>1, <2>2, FieldBack
  <2> QED BY <1>2, <2>3 DEF EncodeEntry
<1>3. CASE ~IsPresent(fields[i].when, values)
  BY <1>3, EmptySeq DEF EncodeEntry
<1> QED BY <1>2, <1>3

LEMMA BehindDef ==
  ASSUME NEW fields, NEW values, IsContents(fields, values)
  PROVE  /\ Len(fields) \in Nat
         /\ EncodeBehind(fields, values)[Len(fields)] = <<>>
         /\ \A n \in 0 .. Len(fields) - 1 :
              EncodeBehind(fields, values)[n] =
                EncodeEntry(fields, values, n + 1) \o EncodeBehind(fields, values)[n + 1]
         /\ \A n \in 0 .. Len(fields) : EncodeBehind(fields, values)[n] \in Seq(Byte)
<1> DEFINE V == Seq(Byte)
           N == Len(fields)
           entry(n) == EncodeEntry(fields, values, n + 1)
           step == [n \in 0 .. N |-> [v \in V |-> IF n = N THEN <<>> ELSE entry(n) \o v]]
           encoded == EncodeBehind(fields, values)
<1>1. N \in Nat
  <2>1. fields \in Seq([kind : Kinds, when : Nat])
    BY DEF IsContents, IsLayout
  <2> QED BY <2>1
<1>2. <<>> \in V
  BY EmptySeq
<1>3. \A n \in 0 .. N - 1 : entry(n) \in V
  <2> SUFFICES ASSUME NEW n \in 0 .. N - 1 PROVE entry(n) \in V
    OBVIOUS
  <2>1. n + 1 \in 1 .. Len(fields)
    BY <1>1
  <2> QED BY <2>1, EntryType
<1> HIDE DEF entry, N
<1>4. step \in [0 .. N -> [V -> V]]
  <2> SUFFICES ASSUME NEW n \in 0 .. N, NEW v \in V
               PROVE  (IF n = N THEN <<>> ELSE entry(n) \o v) \in V
    OBVIOUS
  <2>1. n # N => n \in 0 .. N - 1
    BY <1>1
  <2> QED BY <1>2, <1>3, <2>1
<1>5. PICK f \in [0 .. N -> V] : RecursDown(f, N, <<>>, step)
  <2> HIDE DEF V, step
  <2> QED BY <1>1, <1>2, <1>4, DownRecursion
<1>6. ASSUME NEW n \in 0 .. N
      PROVE  f[n] = IF n = N THEN <<>> ELSE entry(n) \o f[n + 1]
  <2>1. CASE n = N
    BY <1>5, <2>1 DEF RecursDown
  <2>2. CASE n # N
    <3>1. n \in 0 .. N - 1 /\ n + 1 \in 0 .. N
      BY <1>1, <2>2
    <3>2. f[n] = step[n][f[n + 1]] /\ f[n + 1] \in V
      BY <1>5, <3>1 DEF RecursDown
    <3> QED BY <2>2, <3>2
  <2> QED BY <2>1, <2>2
<1>7. f = [n \in 0 .. N |-> IF n = N THEN <<>> ELSE entry(n) \o f[n + 1]]
  BY <1>6
<1>8. encoded = [n \in 0 .. N |-> IF n = N THEN <<>> ELSE entry(n) \o encoded[n + 1]]
  BY <1>7, Zenon DEF EncodeBehind, entry, N
<1> HIDE DEF encoded
<1>9. /\ encoded[N] = <<>>
      /\ \A n \in 0 .. N - 1 : encoded[n] = entry(n) \o encoded[n + 1]
  <2>1. N \in 0 .. N /\ \A n \in 0 .. N - 1 : n \in 0 .. N /\ n # N
    BY <1>1
  <2>2. \A n \in 0 .. N : encoded[n] = IF n = N THEN <<>> ELSE entry(n) \o encoded[n + 1]
    BY <1>8, Zenon
  <2> QED BY <2>1, <2>2, Zenon
<1> DEFINE S == {n \in 0 .. N : encoded[n] \in V}
<1>10. N \in S
  <2>1. N \in 0 .. N
    BY <1>1
  <2> QED BY <1>2, <1>9, <2>1
<1>11. ASSUME NEW n \in 0 .. N - 1, n + 1 \in S
       PROVE  n \in S
  <2>1. n \in 0 .. N /\ entry(n) \in V /\ encoded[n + 1] \in V
    BY <1>1, <1>3, <1>11
  <2>2. entry(n) \o encoded[n + 1] \in V
    BY <2>1
  <2> QED BY <1>9, <2>1, <2>2
<1> HIDE DEF S
<1>12. 0 .. N \subseteq S
  BY <1>1, <1>10, <1>11, DownInduction
<1> QED BY <1>1, <1>9, <1>12 DEF S, N, entry, encoded

LEMMA BehindStep ==
  ASSUME NEW fields, NEW values, IsContents(fields, values), NEW n \in Nat, n < Len(fields)
  PROVE  EncodeBehind(fields, values)[n] =
           EncodeEntry(fields, values, n + 1) \o EncodeBehind(fields, values)[n + 1]
<1>1. n \in 0 .. Len(fields) - 1
  BY BehindDef
<1> QED BY <1>1, BehindDef
===============================================================================
