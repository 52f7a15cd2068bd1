----------------------------- MODULE StreamLemmas -----------------------------
(***************************************************************************)
(* Facts about cutting and joining sequences, and about induction and      *)
(* recursive functions, that the proofs of the components rest on.         *)
(***************************************************************************)
EXTENDS Integers, Sequences, SequenceTheorems, WellFoundedInduction, TLAPS

(* Joining three sequences in either order *)
Regroups(s, t, u) == (s \o t) \o u = s \o (t \o u)

LEMMA Regroup ==
  ASSUME NEW S, NEW s \in Seq(S), NEW t \in Seq(S), NEW u \in Seq(S)
  PROVE  Regroups(s, t, u)
BY ConcatAssociative DEF Regroups

(* Cutting a sequence after n elements loses nothing. *)
LEMMA CutAndJoin ==
  ASSUME NEW S, NEW s \in Seq(S), NEW n \in 0 .. Len(s)
  PROVE  SubSeq(s, 1, n) \o SubSeq(s, n + 1, Len(s)) = s
<1>1. Len(s) \in Nat
  BY LenProperties
<1>2. 1 \in 1 .. Len(s) + 1 /\ n \in 1 - 1 .. Len(s) /\ Len(s) \in n .. Len(s)
  BY <1>1
<1>3. SubSeq(s, 1, n) \o SubSeq(s, n + 1, Len(s)) = SubSeq(s, 1, Len(s))
  BY <1>2, ConcatAdjacentSubSeq
<1> QED BY <1>3, SubSeqFull

(* The piece between two positions of a sequence is a sequence over S. *)
LEMMA PieceType ==
  ASSUME NEW S, NEW s \in Seq(S), NEW m \in Nat \ {0}, NEW n \in 0 .. Len(s)
  PROVE  /\ SubSeq(s, m, n) \in Seq(S)
         /\ Len(SubSeq(s, m, n)) = IF m <= n THEN n - m + 1 ELSE 0
<1>1. \A i \in m .. n : s[i] \in S
  BY LenProperties, ElementOfSeq
<1> QED BY <1>1, LenProperties, SubSeqProperties

(* Cutting a sequence in two leaves two sequences. *)
LEMMA HalvesType ==
  ASSUME NEW S, NEW s \in Seq(S), NEW n \in 0 .. Len(s)
  PROVE  SubSeq(s, 1, n) \in Seq(S) /\ SubSeq(s, n + 1, Len(s)) \in Seq(S)
<1>1. Len(s) \in Nat
  BY LenProperties
<1>2. n + 1 \in Nat \ {0} /\ Len(s) \in 0 .. Len(s)
  BY <1>1
<1> QED BY <1>2, PieceType

(* A sequence is the prefix of its length of whatever it is continued to. *)
LEMMA PrefixOfConcat ==
  ASSUME NEW S, NEW s \in Seq(S), NEW t \in Seq(S)
  PROVE  SubSeq(s \o t, 1, Len(s)) = s
<1>1. CASE s = <<>>
  BY <1>1, EmptySeq, SubSeqEmpty
<1>2. CASE s # <<>>
  <2>1. Len(s) \in Nat \ {0}
    BY <1>2, EmptySeq
  <2>2. SubSeq(s \o t, 1, Len(s)) = SubSeq(s, 1, Len(s))
    BY <2>1, SubSeqOfConcat1
  <2> QED BY <2>2, SubSeqFull
<1> QED BY <1>1, <1>2

(* Moving the first element of t to the end of s keeps the concatenation. *)
LEMMA MoveHead ==
  ASSUME NEW S, NEW s \in Seq(S), NEW t \in Seq(S), t # <<>>
  PROVE  Append(s, Head(t)) \o Tail(t) = s \o t
<1> DEFINE l == Append(s, Head(t)) \o Tail(t)
           r == s \o t
<1>1. /\ Head(t) \in S
      /\ Tail(t) \in Seq(S)
      /\ Len(Tail(t)) = Len(t) - 1
      /\ \A i \in 1 .. Len(Tail(t)) : Tail(t)[i] = t[i + 1]
  BY HeadTailProperties
<1>2. Head(t) = t[1] /\ Len(t) \in Nat \ {0} /\ Len(s) \in Nat
  BY EmptySeq, LenProperties
<1>3. /\ Append(s, Head(t)) \in Seq(S)
      /\ Len(Append(s, Head(t))) = Len(s) + 1
      /\ \A i \in 1 .. Len(s) : Append(s, Head(t))[i] = s[i]
      /\ Append(s, Head(t))[Len(s) + 1] = t[1]
  BY <1>1, <1>2, AppendProperties
<1>4. l \in Seq(S) /\ r \in Seq(S) /\ Len(l) = Len(r)
  BY <1>1, <1>2, <1>3, ConcatProperties
<1>5. ASSUME NEW i \in 1 .. Len(l) PROVE l[i] = r[i]
  <2>1. i \in 1 .. Len(s) + Len(t) /\ i \in Int
    BY <1>2, <1>4, ConcatProperties
  <2>2. r[i] = IF i <= Len(s) THEN s[i] ELSE t[i - Len(s)]
    BY <2>1, ConcatProperties
  <2>3. l[i] = IF i <= Len(s) + 1 THEN Append(s, Head(t))[i]
                                  ELSE Tail(t)[i - (Len(s) + 1)]
    BY <1>1, <1>2, <1>3, <2>1, ConcatProperties
  <2>4. CASE i <= Len(s)
    BY <1>2, <1>3, <2>1, <2>2, <2>3, <2>4
  <2>5. CASE i = Len(s) + 1
    BY <1>2, <1>3, <2>1, <2>2, <2>3, <2>5
  <2>6. CASE i > Len(s) + 1
    <3>1. i - (Len(s) + 1) \in 1 .. Len(Tail(t))
      BY <1>1, <1>2, <2>1, <2>6
    <3>2. Tail(t)[i - (Len(s) + 1)] = t[i - (Len(s) + 1) + 1]
      BY <1>1, <3>1
    <3>3. i - (Len(s) + 1) + 1 = i - Len(s)
      BY <1>2, <2>1
    <3> QED BY <1>2, <2>1, <2>2, <2>3, <2>6, <3>2, <3>3
  <2> QED BY <1>2, <2>1, <2>4, <2>5, <2>6
<1> HIDE DEF l, r
<1>6. l = r
  BY <1>4, <1>5, SeqEqual
<1> QED BY <1>6 DEF l, r

(* The n elements that follow s in a longer sequence are the first n of what  *)
(* comes next.                                                                *)
LEMMA PieceOfConcat ==
  ASSUME NEW S, NEW s \in Seq(S), NEW t \in Seq(S), NEW n \in 0 .. Len(t)
  PROVE  SubSeq(s \o t, Len(s) + 1, Len(s) + n) = SubSeq(t, 1, n)
<1>1. Len(s) \in Nat /\ Len(t) \in Nat
  BY LenProperties
<1>2. CASE n = 0
  <2>1. SubSeq(t, 1, n) = <<>>
    BY <1>2, SubSeqEmpty
  <2>2. SubSeq(s \o t, Len(s) + 1, Len(s) + n) = <<>>
    BY <1>1, <1>2, SubSeqEmpty
  <2> QED BY <2>1, <2>2
<1>3. CASE n # 0
  <2>1. /\ Len(s) + 1 \in Len(s) + 1 .. Len(s) + Len(t)
        /\ Len(s) + n \in Len(s) + 1 .. Len(s) + Len(t)
    BY <1>1, <1>3
  <2>2. SubSeq(s \o t, Len(s) + 1, Len(s) + n)
          = SubSeq(t, Len(s) + 1 - Len(s), Len(s) + n - Len(s))
    BY <2>1, SubSeqOfConcat2
  <2>3. Len(s) + 1 - Len(s) = 1 /\ Len(s) + n - Len(s) = n
    BY <1>1
  <2> QED BY <2>2, <2>3
<1> QED BY <1>2, <1>3

(* What is left of a concatenation when its first part is taken away *)
LEMMA RestOfConcat ==
  ASSUME NEW S, NEW s \in Seq(S), NEW t \in Seq(S)
  PROVE  /\ SubSeq(s \o t, Len(s) + 1, Len(s \o t)) = t
         /\ s \o t \in Seq(S)
         /\ Len(s \o t) = Len(s) + Len(t)
         /\ Len(s) \in Nat /\ Len(t) \in Nat
<1>1. Len(s) \in Nat /\ Len(t) \in Nat /\ s \o t \in Seq(S) /\ Len(s \o t) = Len(s) + Len(t)
  OBVIOUS
<1>2. Len(t) \in 0 .. Len(t)
  BY <1>1
<1>3. SubSeq(s \o t, Len(s) + 1, Len(s) + Len(t)) = SubSeq(t, 1, Len(t))
  BY <1>2, PieceOfConcat
<1> QED BY <1>1, <1>3, SubSeqFull

(* The first n elements of s are those of every continuation of s. *)
LEMMA FirstOfConcat ==
  ASSUME NEW S, NEW s \in Seq(S), NEW t \in Seq(S), NEW n \in 0 .. Len(s)
  PROVE  SubSeq(s \o t, 1, n) = SubSeq(s, 1, n)
<1>1. Len(s) \in Nat
  BY LenProperties
<1>2. CASE n = 0
  BY <1>2, SubSeqEmpty
<1>3. CASE n # 0
  <2>1. 1 \in 1 .. Len(s) /\ n \in 1 .. Len(s)
    BY <1>1, <1>3
  <2> QED BY <2>1, SubSeqOfConcat1
<1> QED BY <1>2, <1>3

(* What follows the n-th element of s begins with the next one. *)
LEMMA RestTakes ==
  ASSUME NEW S, NEW s \in Seq(S), NEW n \in Nat, n < Len(s)
  PROVE  /\ SubSeq(s, n + 1, Len(s)) # <<>>
         /\ Head(SubSeq(s, n + 1, Len(s))) = s[n + 1]
         /\ Tail(SubSeq(s, n + 1, Len(s))) = SubSeq(s, n + 2, Len(s))
<1> DEFINE l == Tail(SubSeq(s, n + 1, Len(s)))
           r == SubSeq(s, n + 2, Len(s))
<1>1. Len(s) \in Nat
  BY LenProperties
<1>2. /\ SubSeq(s, n + 1, Len(s)) \in Seq(S)
      /\ Len(SubSeq(s, n + 1, Len(s))) = Len(s) - n
      /\ \A i \in 1 .. Len(s) - n : SubSeq(s, n + 1, Len(s))[i] = s[n + i]
  <2>1. \A i \in n + 1 .. Len(s) : s[i] \in S
    BY <1>1, ElementOfSeq
  <2> QED BY <1>1, <2>1, SubSeqProperties
<1>3. /\ r \in Seq(S)
      /\ Len(r) = Len(s) - n - 1
      /\ \A i \in 1 .. Len(s) - n - 1 : r[i] = s[n + 1 + i]
  <2>1. \A i \in n + 2 .. Len(s) : s[i] \in S
    BY <1>1, ElementOfSeq
  <2> QED BY <1>1, <2>1, SubSeqProperties
<1>4. SubSeq(s, n + 1, Len(s)) # <<>>
  <2>1. Len(SubSeq(s, n + 1, Len(s))) # Len(<<>>)
    BY <1>1, <1>2
  <2> QED BY <2>1
<1>5. /\ Head(SubSeq(s, n + 1, Len(s))) = s[n + 1]
      /\ l \in Seq(S)
      /\ Len(l) = Len(s) - n - 1
      /\ \A i \in 1 .. Len(l) : l[i] = SubSeq(s, n + 1, Len(s))[i + 1]
  BY <1>1, <1>2, <1>4, HeadTailProperties
<1>6. \A i \in 1 .. Len(l) : l[i] = r[i]
  BY <1>1, <1>2, <1>3, <1>5
<1> HIDE DEF l, r
<1>7. l = r
  BY <1>3, <1>5, <1>6, SeqEqual
<1> QED BY <1>4, <1>5, <1>7 DEF l, r

(* Appending to s appends to what follows its n-th element. *)
LEMMA RestGrows ==
  ASSUME NEW S, NEW s \in Seq(S), NEW e \in S, NEW n \in Nat, n <= Len(s)
  PROVE  SubSeq(Append(s, e), n + 1, Len(s) + 1) = Append(SubSeq(s, n + 1, Len(s)), e)
<1> DEFINE t == Append(s, e)
           l == SubSeq(t, n + 1, Len(s) + 1)
           m == SubSeq(s, n + 1, Len(s))
           r == Append(m, e)
<1>1. Len(s) \in Nat
  BY LenProperties
<1>2. /\ t \in Seq(S)
      /\ Len(t) = Len(s) + 1
      /\ \A i \in 1 .. Len(s) : t[i] = s[i]
      /\ t[Len(s) + 1] = e
  BY <1>1, AppendProperties
<1> HIDE DEF t
<1>3. /\ l \in Seq(S)
      /\ Len(l) = Len(s) - n + 1
      /\ \A i \in 1 .. Len(s) - n + 1 : l[i] = t[n + i]
  <2>1. \A i \in n + 1 .. Len(s) + 1 : t[i] \in S
    BY <1>1, <1>2, ElementOfSeq
  <2> QED BY <1>1, <2>1, SubSeqProperties
<1>4. /\ m \in Seq(S)
      /\ Len(m) = Len(s) - n
      /\ \A i \in 1 .. Len(s) - n : m[i] = s[n + i]
  <2>1. \A i \in n + 1 .. Len(s) : s[i] \in S
    BY <1>1, ElementOfSeq
  <2> QED BY <1>1, <2>1, SubSeqProperties
<1> HIDE DEF m, l
<1>5. /\ r \in Seq(S)
      /\ Len(r) = Len(s) - n + 1
      /\ \A i \in 1 .. Len(s) - n : r[i] = m[i]
      /\ r[Len(s) - n + 1] = e
  BY <1>1, <1>4, AppendProperties
<1> HIDE DEF r
<1>6. ASSUME NEW i \in 1 .. Len(l) PROVE l[i] = r[i]
  <2>1. CASE i <= Len(s) - n
    BY <1>1, <1>2, <1>3, <1>4, <1>5, <2>1
  <2>2. CASE i = Len(s) - n + 1
    BY <1>1, <1>2, <1>3, <1>5, <2>2
  <2> QED BY <1>1, <1>3, <2>1, <2>2
<1>7. l = r
  BY <1>3, <1>5, <1>6, SeqEqual
<1> QED BY <1>7 DEF l, m, r, t

(* The first n values of g, as a sequence, and with one more *)
LEMMA FirstOf ==
  ASSUME NEW g, NEW n \in Nat
  PROVE  /\ [i \in 1 .. n |-> g[i]] \in Seq({g[i] : i \in 1 .. n})
         /\ Len([i \in 1 .. n |-> g[i]]) = n
OBVIOUS

LEMMA FirstGrows ==
  ASSUME NEW g, NEW n \in Nat
  PROVE  Append([i \in 1 .. n |-> g[i]], g[n + 1]) = [i \in 1 .. n + 1 |-> g[i]]
<1> DEFINE V == {g[i] : i \in 1 .. n + 1}
           s == [i \in 1 .. n |-> g[i]]
           l == Append(s, g[n + 1])
           r == [i \in 1 .. n + 1 |-> g[i]]
<1>1. s \in Seq(V) /\ Len(s) = n /\ r \in Seq(V) /\ Len(r) = n + 1 /\ g[n + 1] \in V
  OBVIOUS
<1>2. \A i \in 1 .. n : s[i] = g[i]
  OBVIOUS
<1>3. \A i \in 1 .. n + 1 : r[i] = g[i]
  OBVIOUS
<1> HIDE DEF V, s, r
<1>4. /\ l \in Seq(V) /\ Len(l) = n + 1
      /\ \A i \in 1 .. n : l[i] = s[i]
      /\ l[n + 1] = g[n + 1]
  BY <1>1, AppendProperties
<1> HIDE DEF l
<1>5. \A i \in 1 .. n + 1 : l[i] = r[i]
  BY <1>2, <1>3, <1>4
<1>6. l = r
  BY <1>1, <1>4, <1>5, SeqEqual
<1> QED BY <1>6 DEF l, r, s

-------------------------------------------------------------------------------
(* Induction and recursion                                                     *)

(* The numbers have no infinite descent. *)
LEMMA NatOrder == IsWellFoundedOn({p \in Nat \X Nat : p[1] < p[2]}, Nat)
<1>1. OpToRel(<, Nat) = {p \in Nat \X Nat : p[1] < p[2]}
  BY Zenon DEF OpToRel
<1> QED BY <1>1, NatLessThanWellFounded, Zenon

(* A set of numbers that is not empty has a least one. *)
LEMMA LeastOf ==
  ASSUME NEW S \in SUBSET Nat, S # {}
  PROVE  \E m \in S : \A n \in S : m <= n
<1> DEFINE R == {p \in Nat \X Nat : p[1] < p[2]}
<1>1. PICK m \in S : \A n \in S : ~(<<n, m>> \in R)
  <2>1. IsWellFoundedOn(R, Nat)
    BY NatOrder
  <2> HIDE DEF R
  <2> QED BY <2>1, WFMin
<1>2. ASSUME NEW n \in S PROVE m <= n
  <2>1. m \in Nat /\ n \in Nat
    OBVIOUS
  <2>2. n < m => <<n, m>> \in R
    BY <2>1
  <2> QED BY <1>1, <2>1, <2>2
<1> QED BY <1>2

(* Induction over the numbers, with a set for the property: theorems with an  *)
(* operator for it cannot be instantiated.                                    *)
LEMMA SetInduction ==
  ASSUME NEW S, 0 \in S, \A n \in Nat : n \in S => n + 1 \in S
  PROVE  Nat \subseteq S
<1> SUFFICES ASSUME Nat \ S # {} PROVE FALSE
  OBVIOUS
<1>1. PICK x \in Nat \ S : \A y \in Nat \ S : x <= y
  <2>1. Nat \ S \in SUBSET Nat
    OBVIOUS
  <2> QED BY <2>1, LeastOf
<1>2. x - 1 \in Nat /\ ~(x <= x - 1)
  OBVIOUS
<1>3. x - 1 \in S
  BY <1>1, <1>2
<1> QED BY <1>2, <1>3

(* From N down to 0 *)
LEMMA DownInduction ==
  ASSUME NEW S, NEW N \in Nat, N \in S, \A n \in 0 .. N - 1 : n + 1 \in S => n \in S
  PROVE  0 .. N \subseteq S
<1> DEFINE T == {k \in Nat : k <= N => N - k \in S}
<1>1. 0 \in T
  OBVIOUS
<1>2. ASSUME NEW k \in Nat, k \in T
      PROVE  k + 1 \in T
  <2> SUFFICES ASSUME k + 1 <= N PROVE N - (k + 1) \in S
    OBVIOUS
  <2>1. N - (k + 1) \in 0 .. N - 1 /\ (N - (k + 1)) + 1 = N - k
    OBVIOUS
  <2> QED BY <1>2, <2>1
<1> HIDE DEF T
<1>3. Nat \subseteq T
  BY <1>1, <1>2, SetInduction
<1>4. ASSUME NEW n \in 0 .. N
      PROVE  n \in S
  <2>1. N - n \in Nat /\ N - n <= N /\ N - (N - n) = n
    OBVIOUS
  <2> QED BY <1>3, <2>1 DEF T
<1> QED BY <1>4

(* f satisfies the equation of a recursive definition up to n: the value at k  *)
(* is made of the one at before[k] if that comes before k.                     *)
Solves(f, n, base, before, step) ==
  \A k \in 0 .. n : f[k] = IF before[k] < k THEN step[k][f[before[k]]] ELSE base[k]

(* A solution up to n can be continued to n + 1. *)
LEMMA SolutionUpTo ==
  ASSUME NEW V, NEW base \in [Nat -> V], NEW before \in [Nat -> Nat],
         NEW step \in [Nat -> [V -> V]]
  PROVE  \A n \in Nat : \E f \in [0 .. n -> V] : Solves(f, n, base, before, step)
<1> DEFINE S == {n \in Nat : \E f \in [0 .. n -> V] : Solves(f, n, base, before, step)}
<1>1. 0 \in S
  <2> DEFINE f == [k \in 0 .. 0 |-> base[k]]
  <2>1. f \in [0 .. 0 -> V] /\ Solves(f, 0, base, before, step)
    BY DEF Solves
  <2> QED BY <2>1
<1>2. ASSUME NEW n \in Nat, n \in S
      PROVE  n + 1 \in S
  <2>1. PICK f \in [0 .. n -> V] : Solves(f, n, base, before, step)
    BY <1>2
  <2> DEFINE next == IF before[n + 1] < n + 1 THEN step[n + 1][f[before[n + 1]]]
                     ELSE base[n + 1]
             g == [k \in 0 .. n + 1 |-> IF k = n + 1 THEN next ELSE f[k]]
  <2>2. next \in V
    <3>1. before[n + 1] < n + 1 => before[n + 1] \in 0 .. n
      OBVIOUS
    <3>2. before[n + 1] < n + 1 => f[before[n + 1]] \in V
      BY <3>1
    <3>3. n + 1 \in Nat /\ step[n + 1] \in [V -> V]
      OBVIOUS

    <3>4. base[n + 1] \in V
      OBVIOUS
    <3> QED BY <3>2, <3>3, <3>4
  <2> HIDE DEF next
  <2>3. g \in [0 .. n + 1 -> V]
    BY <2>2
  <2>4. ASSUME NEW k \in 0 .. n + 1
        PROVE  g[k] = IF before[k] < k THEN step[k][g[before[k]]] ELSE base[k]
    <3>1. before[k] < k => before[k] \in 0 .. n /\ g[before[k]] = f[before[k]]
      <4>1. k \in Nat /\ before[k] \in Nat
        OBVIOUS
      <4>2. before[k] < k => before[k] \in 0 .. n + 1 /\ before[k] # n + 1
        BY <4>1
      <4> QED BY <4>1, <4>2
    <3>2. CASE k = n + 1
      BY <3>1, <3>2 DEF next
    <3>3. CASE k # n + 1
      <4>1. k \in 0 .. n /\ g[k] = f[k]
        BY <3>3
      <4> QED BY <2>1, <3>1, <4>1 DEF Solves
    <3> QED BY <3>2, <3>3
  <2> HIDE DEF g
  <2>5. Solves(g, n + 1, base, before, step)
    BY <2>4, Zenon DEF Solves
  <2> QED BY <2>3, <2>5
<1> HIDE DEF S
<1>3. Nat \subseteq S
  BY <1>1, <1>2, SetInduction
<1> QED BY <1>3 DEF S

(* Two solutions are the same where both are. *)
LEMMA SolutionsAgree ==
  ASSUME NEW base, NEW before \in [Nat -> Nat], NEW step, NEW f, NEW g, NEW m \in Nat, NEW n \in Nat,
         Solves(f, m, base, before, step), Solves(g, n, base, before, step)
  PROVE  \A k \in Nat : k <= m /\ k <= n => f[k] = g[k]
<1> DEFINE S == {k \in Nat : \A j \in 0 .. k : j <= m /\ j <= n => f[j] = g[j]}
<1>1. 0 \in S
  <2>1. ~(before[0] < 0)
    OBVIOUS
  <2>2. 0 \in 0 .. m /\ 0 \in 0 .. n
    OBVIOUS
  <2>3. f[0] = base[0] /\ g[0] = base[0]
    BY <2>1, <2>2 DEF Solves
  <2> QED BY <2>3
<1>2. ASSUME NEW k \in Nat, k \in S
      PROVE  k + 1 \in S
  <2> SUFFICES ASSUME k + 1 <= m, k + 1 <= n PROVE f[k + 1] = g[k + 1]
    <3>1. \A j \in 0 .. k + 1 : j \in 0 .. k \/ j = k + 1
      OBVIOUS
    <3> QED BY <1>2, <3>1
  <2>1. before[k + 1] < k + 1 => f[before[k + 1]] = g[before[k + 1]]
    <3>1. before[k + 1] < k + 1 => before[k + 1] \in 0 .. k
      OBVIOUS
    <3> QED BY <1>2, <3>1
  <2>2. k + 1 \in 0 .. m /\ k + 1 \in 0 .. n
    OBVIOUS
  <2> QED BY <2>1, <2>2 DEF Solves
<1> HIDE DEF S
<1>3. Nat \subseteq S
  BY <1>1, <1>2, SetInduction
<1> QED BY <1>3 DEF S

(* The equation of a recursive definition over all numbers *)
IsRecursive(f, base, before, step) ==
  \A n \in Nat : f[n] = IF before[n] < n THEN step[n][f[before[n]]] ELSE base[n]

(* What the step makes of a value of V is in V again: the definition has a     *)
(* solution.                                                                   *)
LEMMA Recursion ==
  ASSUME NEW V, NEW base \in [Nat -> V], NEW before \in [Nat -> Nat],
         NEW step \in [Nat -> [V -> V]]
  PROVE  \E f \in [Nat -> V] : IsRecursive(f, base, before, step)
<1> DEFINE F(n) == CHOOSE g : g \in [0 .. n -> V] /\ Solves(g, n, base, before, step)
           f == [n \in Nat |-> F(n)[n]]
<1>1. \A n \in Nat : F(n) \in [0 .. n -> V] /\ Solves(F(n), n, base, before, step)
  BY SolutionUpTo
<1> HIDE DEF F
<1>2. f \in [Nat -> V]
  <2> SUFFICES ASSUME NEW n \in Nat PROVE F(n)[n] \in V
    OBVIOUS
  <2>1. n \in 0 .. n
    OBVIOUS
  <2> QED BY <1>1, <2>1
<1>3. ASSUME NEW n \in Nat
      PROVE  f[n] = IF before[n] < n THEN step[n][f[before[n]]] ELSE base[n]
  <2>1. f[n] = F(n)[n] /\ f[before[n]] = F(before[n])[before[n]]
    OBVIOUS
  <2>2. F(n)[n] = IF before[n] < n THEN step[n][F(n)[before[n]]] ELSE base[n]
    BY <1>1 DEF Solves
  <2>3. before[n] < n => F(n)[before[n]] = F(before[n])[before[n]]
    <3> DEFINE m == before[n]
    <3>1. m \in Nat
      OBVIOUS
    <3> HIDE DEF m
    <3>2. Solves(F(n), n, base, before, step) /\ Solves(F(m), m, base, before, step)
      BY <1>1, <3>1
    <3>3. m < n => F(n)[m] = F(m)[m]
      BY <3>1, <3>2, SolutionsAgree
    <3> QED BY <3>3 DEF m
  <2> QED BY <2>1, <2>2, <2>3
<1> QED BY <1>2, <1>3 DEF IsRecursive

(* The value at 0 is given, the one at n is made of the one at n - 1. *)
RecursUp(f, first, step) ==
  f[0] = first /\ \A n \in Nat \ {0} : f[n] = step[n][f[n - 1]]

LEMMA UpRecursion ==
  ASSUME NEW V, NEW first \in V, NEW step \in [Nat -> [V -> V]]
  PROVE  \E f \in [Nat -> V] : RecursUp(f, first, step)
<1> DEFINE base == [n \in Nat |-> first]
           before == [n \in Nat |-> IF n = 0 THEN 0 ELSE n - 1]
<1>1. base \in [Nat -> V] /\ before \in [Nat -> Nat]
  OBVIOUS
<1>2. PICK f \in [Nat -> V] : IsRecursive(f, base, before, step)
  <2> HIDE DEF base, before
  <2> QED BY <1>1, Recursion
<1>3. f[0] = first
  <2>1. before[0] = 0
    OBVIOUS
  <2> QED BY <1>2, <2>1 DEF IsRecursive
<1>4. ASSUME NEW n \in Nat \ {0}
      PROVE  f[n] = step[n][f[n - 1]]
  <2>1. before[n] = n - 1
    OBVIOUS
  <2> QED BY <1>2, <2>1 DEF IsRecursive
<1> QED BY <1>3, <1>4 DEF RecursUp

(* The value at N is given, the one at n is made of the one at n + 1. *)
RecursDown(f, N, last, step) ==
  f[N] = last /\ \A n \in 0 .. N - 1 : f[n] = step[n][f[n + 1]]

LEMMA DownRecursion ==
  ASSUME NEW V, NEW last \in V, NEW N \in Nat, NEW step \in [0 .. N -> [V -> V]]
  PROVE  \E f \in [0 .. N -> V] : RecursDown(f, N, last, step)
<1> DEFINE up == [k \in Nat |-> IF k <= N THEN step[N - k] ELSE [v \in V |-> v]]
<1>1. up \in [Nat -> [V -> V]]
  <2> SUFFICES ASSUME NEW k \in Nat
               PROVE  (IF k <= N THEN step[N - k] ELSE [v \in V |-> v]) \in [V -> V]
    OBVIOUS
  <2>1. k <= N => N - k \in 0 .. N
    OBVIOUS
  <2> QED BY <2>1
<1>2. PICK g \in [Nat -> V] : RecursUp(g, last, up)
  <2> HIDE DEF up
  <2> QED BY <1>1, UpRecursion
<1> DEFINE f == [n \in 0 .. N |-> g[N - n]]
<1>3. f \in [0 .. N -> V]
  <2>1. \A n \in 0 .. N : N - n \in Nat
    OBVIOUS
  <2> QED BY <2>1
<1>4. f[N] = last
  <2>1. f[N] = g[0]
    OBVIOUS
  <2> QED BY <1>2, <2>1 DEF RecursUp
<1>5. ASSUME NEW n \in 0 .. N - 1
      PROVE  f[n] = step[n][f[n + 1]]
  <2> DEFINE k == N - n
  <2>1. k \in Nat \ {0} /\ N - (n + 1) = k - 1 /\ N - k = n /\ k <= N
    OBVIOUS
  <2>2. f[n] = g[k] /\ f[n + 1] = g[k - 1]
    BY <2>1
  <2>3. up[k] = step[n]
    BY <2>1
  <2> HIDE DEF k, up, f
  <2>4. g[k] = up[k][g[k - 1]]
    BY <1>2, <2>1 DEF RecursUp
  <2> QED BY <2>2, <2>3, <2>4
<1> QED BY <1>3, <1>4, <1>5 DEF RecursDown
===============================================================================
