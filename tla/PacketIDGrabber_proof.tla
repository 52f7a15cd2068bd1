-------------------------- MODULE PacketIDGrabber_proof ------------------------
(***************************************************************************)
(* Theorems about PacketIDGrabber: whatever the page looks like, no        *)
(* heading names two packets, and the loop over the names makes them       *)
(* unique whenever state and target tell packets of one name apart.        *)
(***************************************************************************)
EXTENDS PacketIDGrabber, SequenceTheorems, TLAPS

(* What appending to names does to the prefix order *)
LEMMA PrefixOfItself ==
  ASSUME NEW W, NEW s \in Seq(W)
  PROVE  Prefix(s, s)
BY DEF Prefix

LEMMA PrefixShortened ==
  ASSUME NEW W, NEW s \in Seq(W), NEW t \in Seq(W), NEW x \in W, Prefix(Append(s, x), t)
  PROVE  Prefix(s, t)
<1>1. Len(Append(s, x)) = Len(s) + 1 /\ \A k \in 1 .. Len(s) : Append(s, x)[k] = s[k]
  OBVIOUS
<1> QED BY <1>1 DEF Prefix

LEMMA PrefixExtended ==
  ASSUME NEW W, NEW s \in Seq(W), NEW t \in Seq(W), NEW y \in W, Prefix(s, Append(t, y))
  PROVE  Prefix(s, t) \/ s = Append(t, y)
<1>1. Len(Append(t, y)) = Len(t) + 1 /\ \A k \in 1 .. Len(t) : Append(t, y)[k] = t[k]
  OBVIOUS
<1>2. CASE Len(s) <= Len(t)
  BY <1>1, <1>2 DEF Prefix
<1>3. CASE Len(s) = Len(t) + 1
  <2>1. Append(t, y) \in Seq(W)
    OBVIOUS
  <2>2. Len(s) = Len(Append(t, y)) /\ \A k \in 1 .. Len(s) : s[k] = Append(t, y)[k]
    BY <1>1, <1>3 DEF Prefix
  <2> QED BY <2>1, <2>2
<1> QED BY <1>1, <1>2, <1>3 DEF Prefix

LEMMA SameAppended ==
  ASSUME NEW W, NEW s \in Seq(W), NEW x \in W, NEW y \in W, Prefix(Append(s, x), Append(s, y))
  PROVE  x = y
<1>1. Len(Append(s, x)) = Len(s) + 1 /\ Len(s) + 1 \in 1 .. Len(Append(s, x))
  OBVIOUS
<1>2. Append(s, x)[Len(s) + 1] = Append(s, y)[Len(s) + 1]
  BY <1>1 DEF Prefix
<1>3. Append(s, x)[Len(s) + 1] = x /\ Append(s, y)[Len(s) + 1] = y
  OBVIOUS
<1> QED BY <1>2, <1>3

(***************************************************************************)
(* Giving suffixes to all the names that equal one keeps the names free   *)
(* of prefixes, makes no two names equal that were not, and leaves those   *)
(* equal that got the same suffix.                                         *)
(***************************************************************************)
Extended(n, S, f) == [j \in DOMAIN n |-> IF j \in S THEN Append(n[j], f[j]) ELSE n[j]]

Chosen(n, S) == \A j, k \in DOMAIN n : j \in S => (k \in S <=> n[k] = n[j])

Separated(n, S, f) ==
  \A j, k \in DOMAIN n :
    Extended(n, S, f)[j] = Extended(n, S, f)[k] => n[j] = n[k] /\ (j \in S => f[j] = f[k])

LEMMA ExtendedNames ==
  ASSUME NEW W, NEW N \in Nat, NEW n \in [1 .. N -> Seq(W)], NEW f \in [1 .. N -> W],
         NEW S, Chosen(n, S), PrefixFree(n)
  PROVE  /\ Extended(n, S, f) \in [1 .. N -> Seq(W)]
         /\ PrefixFree(Extended(n, S, f))
         /\ Separated(n, S, f)
<1> DEFINE m == Extended(n, S, f)
<1>1. DOMAIN n = 1 .. N /\ DOMAIN m = 1 .. N /\ m \in [1 .. N -> Seq(W)]
  BY DEF Extended
<1>2. \A j \in 1 .. N : m[j] = IF j \in S THEN Append(n[j], f[j]) ELSE n[j]
  BY <1>1 DEF Extended
<1>3. \A j, k \in 1 .. N : n[j] = n[k] => (j \in S <=> k \in S)
  BY <1>1 DEF Chosen
<1>4. \A j, k \in 1 .. N : j \in S /\ k \in S => n[j] = n[k]
  BY <1>1 DEF Chosen
<1>5. ASSUME NEW j \in 1 .. N, NEW k \in 1 .. N, Prefix(n[j], n[k])
      PROVE  n[j] = n[k]
  BY <1>1, <1>5 DEF PrefixFree
<1> HIDE DEF m
<1>6. ASSUME NEW j \in 1 .. N, NEW k \in 1 .. N, Prefix(m[j], m[k])
      PROVE  /\ m[j] = m[k]
             /\ \/ n[j] = n[k] /\ (j \in S => f[j] = f[k])
                \/ j \notin S /\ k \in S
  <2>0. n[j] \in Seq(W) /\ n[k] \in Seq(W) /\ f[j] \in W /\ f[k] \in W
    OBVIOUS
  <2>1. CASE j \notin S /\ k \notin S
    BY <1>2, <1>5, <1>6, <2>1
  <2>2. CASE j \in S /\ k \notin S
    <3>1. Prefix(n[j], n[k])
      BY <1>2, <1>6, <2>0, <2>2, PrefixShortened
    <3> QED BY <1>3, <1>5, <2>2, <3>1
  <2>3. CASE j \notin S /\ k \in S
    <3>1. Prefix(n[j], n[k]) \/ n[j] = Append(n[k], f[k])
      BY <1>2, <1>6, <2>0, <2>3, PrefixExtended
    <3>2. n[j] # n[k]
      BY <1>3, <2>3
    <3> QED BY <1>2, <1>5, <2>3, <3>1, <3>2
  <2>4. CASE j \in S /\ k \in S
    <3>1. n[j] = n[k] /\ Prefix(Append(n[j], f[j]), Append(n[j], f[k]))
      BY <1>2, <1>4, <1>6, <2>4
    <3>2. f[j] = f[k]
      BY <2>0, <3>1, SameAppended
    <3> QED BY <1>2, <2>4, <3>1, <3>2
  <2> QED BY <2>1, <2>2, <2>3, <2>4
<1>7. PrefixFree(m)
  BY <1>1, <1>6 DEF PrefixFree
<1>8. ASSUME NEW j \in 1 .. N, NEW k \in 1 .. N, m[j] = m[k]
      PROVE  n[j] = n[k] /\ (j \in S => f[j] = f[k])
  <2>0. n[j] \in Seq(W) /\ n[k] \in Seq(W) /\ f[j] \in W /\ f[k] \in W
    OBVIOUS
  <2>1. Prefix(m[j], m[k]) /\ Prefix(m[k], m[j])
    BY <1>1, <1>8, PrefixOfItself
  <2>2. CASE j \in S <=> k \in S
    BY <1>6, <2>1, <2>2
  <2>3. CASE j \in S /\ k \notin S
    <3>1. Append(n[j], f[j]) = n[k]
      BY <1>2, <1>8, <2>3
    <3>2. Prefix(n[j], n[k])
      BY <2>0, <2>1, <2>3, <1>2, PrefixShortened
    <3> QED BY <1>3, <1>5, <2>3, <3>2
  <2>4. CASE j \notin S /\ k \in S
    <3>1. Prefix(n[k], n[j])
      BY <2>0, <2>1, <2>4, <1>2, PrefixShortened
    <3> QED BY <1>3, <1>5, <2>4, <3>1
  <2> QED BY <2>2, <2>3, <2>4
<1> QED BY <1>1, <1>7, <1>8 DEF m, Separated

-------------------------------------------------------------------------------
(* What the handlers do to the types *)

(* A flag that is set alone *)
LEMMA Alone ==
  ASSUME TypeOK
  PROVE  /\ "H4_DATA" \in expected => expected = {"H4_DATA"}
         /\ "H4_BEGIN" \in expected => expected = {"H4_BEGIN"}
         /\ "TABLE_END" \in expected => expected = {"ROW_BEGIN", "TABLE_END"}
         /\ (\E flag \in {"TABLE_BEGIN", "ROW_BEGIN", "COLUMN_BEGIN", "COLUMN_DATA", "H4_END",
                          "COLUMN_END", "ROW_END", "TABLE_END"} :
               flag \in expected) => "H4_BEGIN" \notin expected /\ "H4_DATA" \notin expected
<1>1. expected \in Expectations
  BY DEF TypeOK
<1>2. \/ expected = {"H4_BEGIN"} \/ expected = {"H4_DATA"} \/ expected = {"H4_END"}
      \/ expected = {"TABLE_BEGIN"} \/ expected = {"ROW_BEGIN"} \/ expected = {"COLUMN_BEGIN"}
      \/ expected = {"COLUMN_DATA"} \/ expected = {"COLUMN_END"}
      \/ expected = {"COLUMN_BEGIN", "ROW_END"} \/ expected = {"ROW_BEGIN", "TABLE_END"}
  BY <1>1, Zenon DEF Expectations
<1> QED BY <1>2

LEMMA StartTyped ==
  ASSUME TypeOK, NEW tag, handle_starttag(tag)
  PROVE  /\ expected' \in Expectations
         /\ row_count' \in Nat \cup {-1} /\ col_count' \in Nat \cup {-1}
         /\ UNCHANGED <<phase, is_packet, packet, packet_list, names>>
<1>0. UNCHANGED <<phase, is_packet, packet, packet_list, names>>
  BY DEF handle_starttag
<1>1. expected' \in {expected, {"H4_DATA"}, {"ROW_BEGIN"}, {"COLUMN_BEGIN"}, {"COLUMN_DATA"}}
  BY DEF handle_starttag
<1>2. expected' \in Expectations
  BY <1>1 DEF TypeOK, Expectations
<1>3. row_count' \in {row_count, row_count + 1, -1} /\ col_count' \in {col_count, col_count + 1, -1}
  BY DEF handle_starttag
<1>4. row_count' \in Nat \cup {-1} /\ col_count' \in Nat \cup {-1}
  BY <1>3 DEF TypeOK
<1> QED BY <1>0, <1>2, <1>4

LEMMA CellTyped ==
  ASSUME TypeOK, NEW text, TakeCell(text)
  PROVE  /\ phase' \in {phase, "failed"}
         /\ is_packet' \in BOOLEAN
         /\ packet' \in Packets /\ packet'.name = packet.name
BY DEF TypeOK, TakeCell, Packets

LEMMA DataTyped ==
  ASSUME TypeOK, NEW text, handle_data(text),
         "H4_DATA" \in expected => text \in Headings \cup {Text}
  PROVE  /\ expected' \in Expectations
         /\ phase' \in {phase, "failed"}
         /\ is_packet' \in BOOLEAN
         /\ packet' \in Packets
         /\ UNCHANGED <<row_count, col_count, packet_list, names>>
<1>0. UNCHANGED <<row_count, col_count, packet_list, names>>
  BY DEF handle_data
<1>1. CASE "H4_DATA" \in expected
  <2>1. /\ packet' = [packet EXCEPT !.name = text]
        /\ expected' = {"H4_END"}
        /\ UNCHANGED <<phase, is_packet>>
    <3>1. "COLUMN_DATA" \notin expected
      BY <1>1, Alone
    <3> QED BY <1>1, <3>1 DEF handle_data
  <2>2. packet' \in Packets
    BY <1>1, <2>1 DEF TypeOK, Packets
  <2> QED BY <1>0, <2>1, <2>2 DEF TypeOK, Expectations
<1>2. CASE "H4_DATA" \notin expected /\ "COLUMN_DATA" \in expected
  <2>1. TakeCell(text) /\ expected' = {"COLUMN_END"}
    BY <1>2 DEF handle_data
  <2> QED BY <1>0, <2>1, CellTyped DEF Expectations
<1>3. CASE "H4_DATA" \notin expected /\ "COLUMN_DATA" \notin expected
  BY <1>0, <1>3 DEF TypeOK, handle_data
<1> QED BY <1>1, <1>2, <1>3

LEMMA AddTyped ==
  ASSUME TypeOK, AddPacket
  PROVE  /\ phase' \in {phase, "failed"}
         /\ packet' \in Packets /\ packet'.name = packet.name
         /\ packet_list' \in Seq(Packets)
         /\ names' \in Seq(Seq(Words))
         /\ Len(names') = Len(packet_list') /\ Len(names') >= Len(names)
<1>1. CASE packet.text
  BY <1>1 DEF TypeOK, AddPacket
<1>2. CASE ~packet.text
  <2>1. /\ packet' = [packet EXCEPT !.text = TRUE]
        /\ packet_list' = Append(packet_list, packet)
        /\ names' = Append(names, <<ShortName(packet.name)>>)
        /\ phase' = phase
    BY <1>2 DEF AddPacket
  <2>2. ShortName(packet.name) \in Words
    BY DEF TypeOK, Packets, Words
  <2>3. <<ShortName(packet.name)>> \in Seq(Words)
    BY <2>2
  <2>4. packet' \in Packets /\ packet'.name = packet.name
    BY <2>1 DEF TypeOK, Packets
  <2> QED BY <2>1, <2>3, <2>4 DEF TypeOK
<1> QED BY <1>1, <1>2

LEMMA EndTyped ==
  ASSUME TypeOK, NEW tag, handle_endtag(tag)
  PROVE  /\ expected' \in Expectations
         /\ phase' \in {phase, "failed"}
         /\ packet' \in Packets /\ packet'.name = packet.name
         /\ packet_list' \in Seq(Packets)
         /\ names' \in Seq(Seq(Words))
         /\ Len(names') = Len(packet_list') /\ Len(names') >= Len(names)
         /\ UNCHANGED <<row_count, col_count, is_packet>>
<1>1. expected' \in Expectations /\ UNCHANGED <<row_count, col_count, is_packet>>
  BY DEF TypeOK, handle_endtag, AfterTable, Expectations
<1>2. AddPacket \/ UNCHANGED <<phase, packet, packet_list, names>>
  BY DEF handle_endtag
<1> QED BY <1>1, <1>2, AddTyped DEF TypeOK

LEMMA SuffixedTyped ==
  ASSUME TypeOK, NEW n \in [1 .. Len(names) -> Seq(Words)], NEW S,
         NEW field \in {"id", "state", "bound_to"}
  PROVE  Suffixed(n, S, field) \in [1 .. Len(names) -> Seq(Words)]
<1>1. \A i \in 1 .. Len(names) : packet_list[i][field] \in Words
  <2> SUFFICES ASSUME NEW i \in 1 .. Len(names) PROVE packet_list[i][field] \in Words
    OBVIOUS
  <2>1. packet_list[i] \in Packets
    BY DEF TypeOK
  <2>2. /\ packet_list[i].id \in Words
        /\ packet_list[i].state \in Words
        /\ packet_list[i].bound_to \in Words
    BY <2>1 DEF Packets, Words
  <2> QED BY <2>2
<1> QED BY <1>1 DEF Suffixed

LEMMA NamesAsFunction ==
  ASSUME TypeOK
  PROVE  names \in [1 .. Len(names) -> Seq(Words)] /\ DOMAIN packet_list = 1 .. Len(names)
BY DEF TypeOK

LEMMA UniqueTyped ==
  ASSUME TypeOK, MakeUnique
  PROVE  names' \in Seq(Seq(Words)) /\ Len(names') = Len(names)
<1> DEFINE stated == Suffixed(names, SameName(names, DOMAIN names), "state")
<1>1. stated \in [1 .. Len(names) -> Seq(Words)]
  BY NamesAsFunction, SuffixedTyped
<1>2. names' = Suffixed(stated, SameName(stated, SameName(names, DOMAIN names)), "bound_to")
  BY DEF MakeUnique
<1>3. names' \in [1 .. Len(names) -> Seq(Words)]
  <2> HIDE DEF stated
  <2> QED BY <1>1, <1>2, SuffixedTyped
<1>4. Len(names) \in Nat
  BY DEF TypeOK
<1> HIDE DEF stated
<1> QED BY <1>3, <1>4

-------------------------------------------------------------------------------
(* The inductive invariant *)

LEMMA InitInvariant == Init => IInv
<1> SUFFICES ASSUME Init PROVE IInv
  OBVIOUS
<1>1. packet \in Packets
  BY DEF Init, Packets
<1>2. packet_list = <<>> /\ names = <<>> /\ at = 1 /\ expected = {"H4_BEGIN"}
  BY DEF Init
<1>3. packet_list \in Seq(Packets) /\ names \in Seq(Seq(Words))
  BY <1>2, EmptySeq
<1>4. Len(names) = 0 /\ Len(packet_list) = 0 /\ DOMAIN packet_list = {} /\ DOMAIN names = {}
  <2>1. Len(names) = 0 /\ Len(packet_list) = 0
    BY <1>2, EmptySeq
  <2> QED BY <1>3, <2>1
<1>9. expected \in Expectations
  BY <1>2 DEF Expectations
<1>5. /\ phase = "download" /\ page.in = "body" /\ unused = Headings /\ odd = 0
      /\ row_count = 0 /\ col_count = 0 /\ is_packet = FALSE
  BY DEF Init
<1>6. TypeOK
  <2>1. at = 1 /\ Len(names) = 0 /\ Len(packet_list) = 0
    BY <1>2, <1>4
  <2>2. at \in 1 .. Len(names) + 1 /\ Len(names) = Len(packet_list)
    BY <2>1
  <2>3. odd \in 0 .. MaxOdd /\ row_count \in Nat \cup {-1} /\ col_count \in Nat \cup {-1}
    BY <1>5, GrabberAssumption
  <2>4. /\ phase \in {"download", "unreachable", "feed", "unique", "done", "failed"}
        /\ is_packet \in BOOLEAN /\ unused \subseteq Headings
    BY <1>5
  <2>5. page \in Pages
    BY DEF Init, Pages
  <2> QED BY <2>2, <2>3, <2>4, <2>5, <1>1, <1>3, <1>9 DEF TypeOK
<1>7. HeadingsOnce /\ HeadingsTaken
  BY <1>2, <1>4, <1>5 DEF HeadingsOnce, HeadingsTaken
<1>8. NamesMade
  BY <1>2, <1>4, <1>5 DEF NamesMade, PrefixFree
<1> QED BY <1>6, <1>7, <1>8 DEF IInv

LEMMA PageTyped ==
  ASSUME TypeOK, [Next]_vars
  PROVE  page' \in Pages
<1> USE DEF TypeOK
<1>0. page \in Pages /\ unused \subseteq Headings
  OBVIOUS
<1>00. page.tables + 1 \in Nat /\ page.row + 1 \in Nat /\ page.col + 1 \in Nat
  <2>1. page.tables \in Nat /\ page.row \in Nat /\ page.col \in Nat
    BY <1>0 DEF Pages
  <2> QED BY <2>1
<1>1. CASE StartH4
  <2>1. PICK h \in unused : page' = [page EXCEPT !.in = "h4", !.heading = h, !.fresh = TRUE]
    BY <1>1 DEF StartH4
  <2> QED BY <1>0, <2>1 DEF Pages
<1>2. CASE StartTable
  <2>1. PICK table \in Tables \cup {NoTable} :
          page' = [page EXCEPT !.in = "table", !.table = table, !.row = 0,
                               !.tables = page.tables + 1]
    BY <1>2 DEF StartTable
  <2> QED BY <1>0, <1>00, <2>1 DEF Pages
<1>3. CASE H4Text
  BY <1>0, <1>3 DEF H4Text, Pages
<1>4. CASE EndH4
  BY <1>0, <1>4 DEF EndH4, Pages
<1>5. CASE StartRow
  <2>1. page' = [page EXCEPT !.in = "tr", !.row = page.row + 1, !.col = 0]
    BY <1>5 DEF StartRow
  <2> QED BY <1>0, <1>00, <2>1 DEF Pages
<1>6. CASE StartCell
  <2>1. page' = [page EXCEPT !.in = "td", !.col = page.col + 1]
    BY <1>6 DEF StartCell
  <2> QED BY <1>0, <1>00, <2>1 DEF Pages
<1>7. CASE CellText
  BY <1>0, <1>7 DEF CellText, Pages
<1>8. CASE EmptyCell
  BY <1>0, <1>8 DEF EmptyCell, Pages
<1>9. CASE EndCell
  BY <1>0, <1>9 DEF EndCell, Pages
<1>10. CASE EndRow
  BY <1>0, <1>10 DEF EndRow, Pages
<1>11. CASE EndTable
  <2>1. page' = [page EXCEPT !.in = "body", !.fresh = FALSE]
    BY <1>11 DEF EndTable
  <2> QED BY <1>0, <2>1 DEF Pages
<1>12. CASE Between \/ Download \/ EndOfPage \/ MakeUnique \/ WriteFile \/ UNCHANGED vars
  <2>1. page' = page
    BY <1>12 DEF Between, Download, EndOfPage, MakeUnique, WriteFile, vars, pageVars
  <2> QED BY <1>0, <2>1
<1> QED BY <1>1, <1>2, <1>3, <1>4, <1>5, <1>6, <1>7, <1>8, <1>9, <1>10, <1>11, <1>12 DEF Next

LEMMA TypePreserved ==
  ASSUME IInv, [Next]_vars
  PROVE  TypeOK'
<1> USE DEF IInv
<1>0. Len(names) \in Nat /\ Len(packet_list) \in Nat
  BY DEF TypeOK
<1>00. page' \in Pages
  BY PageTyped
<1>1. ASSUME NEW tag, handle_starttag(tag), UNCHANGED at, unused' \subseteq unused,
             odd' \in 0 .. MaxOdd
      PROVE  TypeOK'
  BY <1>00, <1>1, StartTyped DEF TypeOK
<1>2. ASSUME NEW text, handle_data(text), "H4_DATA" \in expected => text \in Headings \cup {Text},
             UNCHANGED <<at, unused>>, odd' \in 0 .. MaxOdd
      PROVE  TypeOK'
  BY <1>00, <1>2, DataTyped DEF TypeOK
<1>3. ASSUME NEW tag, handle_endtag(tag), UNCHANGED <<at, unused>>, odd' \in 0 .. MaxOdd
      PROVE  TypeOK'
  BY <1>0, <1>00, <1>3, EndTyped DEF TypeOK
<1>4. ASSUME NEW condition \in BOOLEAN, Deviates(condition)
      PROVE  odd' \in 0 .. MaxOdd
  BY <1>4, GrabberAssumption DEF Deviates, TypeOK
<1>5. odd \in 0 .. MaxOdd
  BY DEF TypeOK
<1>6. CASE StartH4
  <2>1. (page.fresh) \in BOOLEAN => odd' \in 0 .. MaxOdd
    BY <1>4, <1>6 DEF StartH4
  <2>2. odd' \in {odd, odd + 1} /\ odd' <= MaxOdd
    BY <1>6 DEF StartH4, Deviates
  <2> QED BY <1>1, <1>5, <1>6, <2>2, GrabberAssumption DEF StartH4
<1>7. CASE H4Text
  <2>1. page.heading \in Headings
    BY <1>7 DEF H4Text, Feed, HeadingsTaken
  <2> QED BY <1>2, <1>5, <1>7, <2>1 DEF H4Text
<1>8. CASE EndH4
  BY <1>3, <1>5, <1>8 DEF EndH4
<1>9. CASE StartTable
  BY <1>1, <1>5, <1>9 DEF StartTable
<1>10. CASE StartRow
  BY <1>1, <1>5, <1>10 DEF StartRow
<1>11. CASE StartCell
  BY <1>1, <1>5, <1>11 DEF StartCell
<1>12. CASE CellText
  <2>1. "H4_DATA" \notin expected
    BY <1>12 DEF CellText, Feed, HeadingsTaken
  <2>2. PICK text : handle_data(text) /\ Deviates(text # CellSays)
    BY <1>12 DEF CellText
  <2> QED BY <1>2, <1>4, <1>12, <2>1, <2>2 DEF CellText
<1>13. CASE EmptyCell
  BY <1>00, <1>4, <1>13 DEF EmptyCell, TypeOK, parserVars
<1>14. CASE EndCell
  BY <1>3, <1>5, <1>14 DEF EndCell
<1>15. CASE EndRow
  <2>1. odd' \in 0 .. MaxOdd
    BY <1>4, <1>15 DEF EndRow
  <2> QED BY <1>3, <1>15, <2>1 DEF EndRow
<1>16. CASE EndTable
  <2>1. odd' \in 0 .. MaxOdd
    BY <1>4, <1>16 DEF EndTable
  <2> QED BY <1>3, <1>16, <2>1 DEF EndTable
<1>17. CASE Between
  BY <1>2, <1>5, <1>17 DEF Between, pageVars
<1>18. CASE Download
  BY <1>18 DEF Download, TypeOK, parserVars, pageVars
<1>19. CASE EndOfPage
  BY <1>19 DEF EndOfPage, TypeOK, parserVars, pageVars
<1>20. CASE MakeUnique
  <2>1. /\ names' \in Seq(Seq(Words)) /\ Len(names') = Len(names)
        /\ at' = at + 1 /\ at <= Len(names)
    BY <1>20, UniqueTyped DEF MakeUnique
  <2>2. UNCHANGED <<phase, expected, row_count, col_count, is_packet, packet, packet_list, unused, odd>>
    BY <1>20 DEF MakeUnique, pageVars
  <2> QED BY <1>0, <1>00, <2>1, <2>2 DEF TypeOK
<1>21. CASE WriteFile
  BY <1>21 DEF WriteFile, TypeOK, parserVars, pageVars
<1>22. CASE UNCHANGED vars
  BY <1>22 DEF vars, TypeOK, parserVars, pageVars
<1> QED BY <1>6, <1>7, <1>8, <1>9, <1>10, <1>11, <1>12, <1>13, <1>14, <1>15, <1>16, <1>17,
           <1>18, <1>19, <1>20, <1>21, <1>22 DEF Next

(* Reading a text: only the text of a heading renames self.packet. *)
LEMMA DataHeadings ==
  ASSUME TypeOK, HeadingsTaken, HeadingsOnce, NEW text, handle_data(text),
         "H4_DATA" \in expected => page.in = "h4" /\ text = page.heading,
         UNCHANGED unused, page'.in # "h4"
  PROVE  HeadingsTaken' /\ HeadingsOnce'
<1>1. packet_list' = packet_list
  BY DEF handle_data
<1>2. CASE "H4_DATA" \in expected
  <2>1. "COLUMN_DATA" \notin expected
    BY <1>2, Alone
  <2>2. packet' = [packet EXCEPT !.name = text] /\ expected' = {"H4_END"}
    BY <1>2, <2>1 DEF handle_data
  <2>3. packet'.name = page.heading
    BY <1>2, <2>2 DEF TypeOK, Packets
  <2> QED BY <1>1, <1>2, <2>2, <2>3 DEF HeadingsTaken, HeadingsOnce
<1>3. CASE "H4_DATA" \notin expected
  <2>1. CASE "COLUMN_DATA" \in expected
    <3>1. packet'.name = packet.name /\ expected' = {"COLUMN_END"}
      BY <1>3, <2>1, CellTyped DEF handle_data
    <3>2. "H4_BEGIN" \notin expected
      BY <2>1, Alone
    <3> QED BY <1>1, <1>3, <3>1, <3>2 DEF HeadingsTaken, HeadingsOnce
  <2>2. CASE "COLUMN_DATA" \notin expected
    <3>1. UNCHANGED <<expected, packet>>
      BY <1>3, <2>2 DEF handle_data
    <3> QED BY <1>1, <1>3, <3>1 DEF HeadingsTaken, HeadingsOnce
  <2> QED BY <2>1, <2>2
<1> QED BY <1>2, <1>3

(* An end tag: only the end of a table adds a packet, and then the parser      *)
(* waits for the next heading.                                                 *)
LEMMA EndHeadings ==
  ASSUME TypeOK, HeadingsTaken, HeadingsOnce, NEW tag, handle_endtag(tag),
         UNCHANGED unused, page.in # "h4", page'.in # "h4"
  PROVE  HeadingsTaken' /\ HeadingsOnce'
<1>0. packet'.name = packet.name
  BY EndTyped
<1>1. CASE "TABLE_END" \in expected /\ tag = "table"
  <2>1. expected' = {"H4_BEGIN"}
    BY <1>1 DEF handle_endtag, AfterTable
  <2>2. /\ packet.name \in Headings \ unused
        /\ \A i \in DOMAIN packet_list : packet_list[i].name # packet.name
    BY <1>1, Alone DEF HeadingsTaken
  <2>3. packet_list' = packet_list \/ packet_list' = Append(packet_list, packet)
    BY <1>1 DEF handle_endtag, AddPacket
  <2>4. CASE packet_list' = packet_list
    BY <2>1, <2>4 DEF HeadingsTaken, HeadingsOnce
  <2>5. CASE packet_list' = Append(packet_list, packet)
    <3>1. /\ DOMAIN packet_list = 1 .. Len(packet_list)
          /\ DOMAIN packet_list' = 1 .. Len(packet_list) + 1
          /\ \A i \in 1 .. Len(packet_list) : packet_list'[i] = packet_list[i]
          /\ packet_list'[Len(packet_list) + 1] = packet
          /\ Len(packet_list) \in Nat
      BY <2>5 DEF TypeOK
    <3>2. ASSUME NEW i \in DOMAIN packet_list'
          PROVE  packet_list'[i].name \in Headings \ unused'
      <4>1. CASE i \in DOMAIN packet_list
        BY <3>1, <4>1 DEF HeadingsTaken
      <4>2. CASE i = Len(packet_list) + 1
        BY <2>2, <3>1, <4>2
      <4> QED BY <3>1, <4>1, <4>2
    <3>3. HeadingsOnce'
      BY <2>2, <3>1 DEF HeadingsOnce
    <3> QED BY <2>1, <3>2, <3>3 DEF HeadingsTaken
  <2> QED BY <2>3, <2>4, <2>5
<1>2. CASE ~("TABLE_END" \in expected /\ tag = "table")
  <2>1. packet_list' = packet_list /\ packet' = packet
    BY <1>2 DEF handle_endtag
  <2>2. \/ expected' = expected
        \/ /\ \E flag \in {"H4_END", "COLUMN_END", "ROW_END"} : flag \in expected
           /\ "H4_DATA" \notin expected'
    BY <1>2 DEF handle_endtag
  <2>3. CASE expected' = expected
    BY <2>1, <2>3 DEF HeadingsTaken, HeadingsOnce
  <2>4. CASE /\ \E flag \in {"H4_END", "COLUMN_END", "ROW_END"} : flag \in expected
             /\ "H4_DATA" \notin expected'
    <3>1. "H4_BEGIN" \notin expected /\ "H4_DATA" \notin expected
      BY <2>4, Alone
    <3> QED BY <2>1, <2>4, <3>1 DEF HeadingsTaken, HeadingsOnce
  <2> QED BY <2>2, <2>3, <2>4
<1> QED BY <1>1, <1>2

LEMMA HeadingsPreserved ==
  ASSUME IInv, [Next]_vars
  PROVE  HeadingsTaken' /\ HeadingsOnce'
<1> USE DEF IInv
<1>1. CASE StartH4
  <2>1. PICK h \in unused : /\ page' = [page EXCEPT !.in = "h4", !.heading = h, !.fresh = TRUE]
                            /\ unused' = unused \ {h}
    BY <1>1 DEF StartH4
  <2>2. UNCHANGED <<packet, packet_list>>
    BY <1>1 DEF StartH4, handle_starttag
  <2>3. expected' = {"H4_DATA"} \/ expected' = expected
    BY <1>1 DEF StartH4, handle_starttag
  <2>4. page'.in = "h4" /\ page'.heading = h
    BY <2>1 DEF TypeOK, Pages
  <2>5. h \in Headings \ unused' /\ unused' \subseteq unused
    BY <2>1 DEF TypeOK
  <2>6. \A i \in DOMAIN packet_list : packet_list[i].name # h
    BY <2>1 DEF HeadingsTaken
  <2>7. "H4_BEGIN" \notin expected' /\ "H4_DATA" \notin expected' =>
          "H4_BEGIN" \notin expected /\ "H4_DATA" \notin expected
    BY <2>3
  <2> QED BY <2>2, <2>4, <2>5, <2>6, <2>7 DEF HeadingsTaken, HeadingsOnce
<1>2. CASE H4Text
  <2>1. page.in = "h4" /\ page'.in = "h4_text"
    BY <1>2 DEF H4Text, Feed, TypeOK, Pages
  <2> QED BY <1>2, <2>1, DataHeadings DEF H4Text
<1>3. CASE EndH4
  <2>1. page.in = "h4_text" /\ page'.in = "body"
    BY <1>3 DEF EndH4, Feed, TypeOK, Pages
  <2> QED BY <1>3, <2>1, EndHeadings DEF EndH4
<1>4. ASSUME NEW tag, tag # "h4", handle_starttag(tag), UNCHANGED unused, page.in # "h4", page'.in # "h4"
      PROVE  HeadingsTaken' /\ HeadingsOnce'
  <2>1. UNCHANGED <<packet, packet_list>>
    BY <1>4 DEF handle_starttag
  <2>2. \/ expected' = expected
        \/ /\ \E flag \in {"TABLE_BEGIN", "ROW_BEGIN", "COLUMN_BEGIN"} : flag \in expected
           /\ "H4_DATA" \notin expected'
    <3>1. CASE "TABLE_BEGIN" \in expected /\ tag = "table"
      <4>1. expected' = {"ROW_BEGIN"}
        BY <1>4, <3>1 DEF handle_starttag
      <4> QED BY <3>1, <4>1
    <3>2. CASE "ROW_BEGIN" \in expected /\ tag = "tr"
      <4>1. expected' = {"COLUMN_BEGIN"}
        BY <1>4, <3>2 DEF handle_starttag
      <4> QED BY <3>2, <4>1
    <3>3. CASE "COLUMN_BEGIN" \in expected /\ tag = "td"
      <4>1. expected' = {"COLUMN_DATA"}
        BY <1>4, <3>3 DEF handle_starttag
      <4> QED BY <3>3, <4>1
    <3>4. CASE /\ ~("TABLE_BEGIN" \in expected /\ tag = "table")
               /\ ~("ROW_BEGIN" \in expected /\ tag = "tr")
               /\ ~("COLUMN_BEGIN" \in expected /\ tag = "td")
      BY <1>4, <3>4 DEF handle_starttag
    <3> QED BY <3>1, <3>2, <3>3, <3>4
  <2>3. CASE expected' = expected
    BY <1>4, <2>1, <2>3 DEF HeadingsTaken, HeadingsOnce
  <2>4. CASE /\ \E flag \in {"TABLE_BEGIN", "ROW_BEGIN", "COLUMN_BEGIN"} : flag \in expected
             /\ "H4_DATA" \notin expected'
    <3>1. "H4_BEGIN" \notin expected /\ "H4_DATA" \notin expected
      BY <2>4, Alone
    <3> QED BY <1>4, <2>1, <2>4, <3>1 DEF HeadingsTaken, HeadingsOnce
  <2> QED BY <2>2, <2>3, <2>4
<1>5. CASE StartTable
  <2>1. page.in = "body" /\ page'.in = "table"
    BY <1>5 DEF StartTable, Feed, TypeOK, Pages
  <2> QED BY <1>4, <1>5, <2>1 DEF StartTable
<1>6. CASE StartRow
  <2>1. page.in = "table" /\ page'.in = "tr"
    BY <1>6 DEF StartRow, Feed, TypeOK, Pages
  <2> QED BY <1>4, <1>6, <2>1 DEF StartRow
<1>7. CASE StartCell
  <2>1. page.in = "tr" /\ page'.in = "td"
    BY <1>7 DEF StartCell, Feed, TypeOK, Pages
  <2> QED BY <1>4, <1>7, <2>1 DEF StartCell
<1>8. CASE CellText
  <2>1. page.in = "td" /\ page'.in = "td_text"
    BY <1>8 DEF CellText, Feed, TypeOK, Pages
  <2>2. "H4_DATA" \notin expected
    BY <2>1 DEF HeadingsTaken
  <2>3. PICK text : handle_data(text)
    BY <1>8 DEF CellText
  <2> QED BY <1>8, <2>1, <2>2, <2>3, DataHeadings DEF CellText
<1>9. CASE EmptyCell
  <2>1. page.in = "td" /\ page'.in = "td_text"
    BY <1>9 DEF EmptyCell, Feed, TypeOK, Pages
  <2>2. UNCHANGED <<expected, packet, packet_list, unused>>
    BY <1>9 DEF EmptyCell, parserVars
  <2> QED BY <2>1, <2>2 DEF HeadingsTaken, HeadingsOnce
<1>10. CASE EndCell
  <2>1. page.in = "td_text" /\ page'.in = "tr"
    BY <1>10 DEF EndCell, Feed, TypeOK, Pages
  <2> QED BY <1>10, <2>1, EndHeadings DEF EndCell
<1>11. CASE EndRow
  <2>1. page.in = "tr" /\ page'.in = "table"
    BY <1>11 DEF EndRow, Feed, TypeOK, Pages
  <2> QED BY <1>11, <2>1, EndHeadings DEF EndRow
<1>12. CASE EndTable
  <2>0. page.in = "table" /\ page' = [page EXCEPT !.in = "body", !.fresh = FALSE]
    BY <1>12 DEF EndTable, Feed
  <2>1. page'.in = "body"
    BY <2>0 DEF TypeOK, Pages
  <2>2. handle_endtag("table") /\ unused' = unused
    BY <1>12 DEF EndTable
  <2> QED BY <2>0, <2>1, <2>2, EndHeadings DEF EndTable
<1>13. CASE Between
  <2>1. page.in # "h4" /\ page' = page /\ unused' = unused /\ handle_data(Text)
    BY <1>13 DEF Between, pageVars
  <2>2. "H4_DATA" \notin expected
    BY <2>1 DEF HeadingsTaken
  <2> QED BY <2>1, <2>2, DataHeadings
<1>14. CASE Download \/ EndOfPage \/ MakeUnique \/ WriteFile \/ UNCHANGED vars
  <2>1. UNCHANGED <<expected, packet, packet_list, page, unused>>
    BY <1>14 DEF Download, EndOfPage, MakeUnique, WriteFile, vars, parserVars, pageVars
  <2> QED BY <2>1 DEF HeadingsTaken, HeadingsOnce
<1> QED BY <1>1, <1>2, <1>3, <1>5, <1>6, <1>7, <1>8, <1>9, <1>10, <1>11, <1>12, <1>13, <1>14 DEF Next

-------------------------------------------------------------------------------
(* The names *)

(* While the page is read the names are the short names of the headings. *)
LEMMA ParserNames ==
  ASSUME TypeOK, NamesMade, TypeOK', UNCHANGED at, phase = "feed", phase' \in {"feed", "failed"},
         \/ UNCHANGED <<names, packet_list>>
         \/ /\ names' = Append(names, <<ShortName(packet.name)>>)
            /\ packet_list' = Append(packet_list, packet)
  PROVE  NamesMade'
<1>0. Len(names) \in Nat /\ Len(packet_list) = Len(names) /\ Len(names') = Len(packet_list')
  BY DEF TypeOK
<1>1. at = 1 /\ \A i \in DOMAIN names : Len(names[i]) = 1
  BY DEF NamesMade
<1>2. \A i \in DOMAIN names' : /\ names'[i] # <<>> /\ Len(names'[i]) = 1
                              /\ names'[i][1] = ShortName(packet_list'[i].name)
  <2>1. CASE UNCHANGED <<names, packet_list>>
    BY <1>1, <2>1 DEF NamesMade
  <2>2. CASE /\ names' = Append(names, <<ShortName(packet.name)>>)
             /\ packet_list' = Append(packet_list, packet)
    <3>1. /\ DOMAIN names = 1 .. Len(names) /\ DOMAIN names' = 1 .. Len(names) + 1
          /\ \A i \in 1 .. Len(names) : names'[i] = names[i] /\ packet_list'[i] = packet_list[i]
          /\ names'[Len(names) + 1] = <<ShortName(packet.name)>>
          /\ packet_list'[Len(names) + 1] = packet
      BY <1>0, <2>2 DEF TypeOK
    <3>2. ASSUME NEW i \in DOMAIN names'
          PROVE  /\ names'[i] # <<>> /\ Len(names'[i]) = 1
                 /\ names'[i][1] = ShortName(packet_list'[i].name)
      <4>1. CASE i \in DOMAIN names
        BY <1>1, <3>1, <4>1 DEF NamesMade
      <4>2. CASE i = Len(names) + 1
        <5>1. <<ShortName(packet.name)>> # <<>> /\ Len(<<ShortName(packet.name)>>) = 1
          OBVIOUS
        <5>2. names'[i] = <<ShortName(packet.name)>> /\ packet_list'[i] = packet
          BY <3>1, <4>2
        <5> QED BY <5>1, <5>2
      <4> QED BY <1>0, <3>1, <4>1, <4>2
    <3> QED BY <3>2
  <2> QED BY <2>1, <2>2
<1>3. PrefixFree(names')
  <2> SUFFICES ASSUME NEW i \in DOMAIN names', NEW j \in DOMAIN names', Prefix(names'[i], names'[j])
               PROVE  names'[i] = names'[j]
    BY DEF PrefixFree
  <2>1. names'[i] \in Seq(Words) /\ names'[j] \in Seq(Words)
    BY DEF TypeOK
  <2>2. Len(names'[i]) = 1 /\ Len(names'[j]) = 1
    BY <1>2
  <2>3. names'[i][1] = names'[j][1]
    BY <2>2 DEF Prefix
  <2> QED BY <2>1, <2>2, <2>3
<1>4. at' = 1 /\ 1 .. at' - 1 = {} /\ phase' # "done"
  BY <1>1
<1> QED BY <1>2, <1>3, <1>4 DEF NamesMade

(* The suffixed names, as an extension of the names *)
LEMMA SuffixedIsExtended ==
  ASSUME TypeOK, at <= Len(names), NEW n \in [1 .. Len(names) -> Seq(Words)],
         NEW field \in {"id", "state", "bound_to"}, NEW S \in SUBSET (1 .. Len(names)),
         S = {} \/ S \cup {at} = {j \in 1 .. Len(names) : n[j] = n[at]}
  PROVE  LET f == [j \in 1 .. Len(names) |-> packet_list[j][field]]
             m == Suffixed(n, S, field)
         IN  /\ f \in [1 .. Len(names) -> Words]
             /\ PrefixFree(n) =>
                  /\ m \in [1 .. Len(names) -> Seq(Words)] /\ PrefixFree(m)
                  /\ \A j, k \in 1 .. Len(names) : m[j] = m[k] =>
                       n[j] = n[k] /\ (S # {} /\ j \in S \cup {at} => f[j] = f[k])
<1> DEFINE f == [j \in 1 .. Len(names) |-> packet_list[j][field]]
           m == Suffixed(n, S, field)
           E == IF S = {} THEN {} ELSE S \cup {at}
<1>0. Len(names) \in Nat /\ at \in 1 .. Len(names) /\ DOMAIN n = 1 .. Len(names)
  BY DEF TypeOK
<1>1. f \in [1 .. Len(names) -> Words]
  <2> SUFFICES ASSUME NEW i \in 1 .. Len(names) PROVE packet_list[i][field] \in Words
    OBVIOUS
  <2>1. packet_list[i] \in Packets
    BY DEF TypeOK
  <2>2. /\ packet_list[i].id \in Words
        /\ packet_list[i].state \in Words
        /\ packet_list[i].bound_to \in Words
    BY <2>1 DEF Packets, Words
  <2> QED BY <2>2
<1>2. m = Extended(n, E, f)
  BY <1>0 DEF Suffixed, Extended
<1>3. E = {j \in 1 .. Len(names) : n[j] = n[at]} \/ E = {}
  OBVIOUS
<1> HIDE DEF f, m
<1>5. PrefixFree(n) => /\ m \in [1 .. Len(names) -> Seq(Words)] /\ PrefixFree(m)
                       /\ \A j, k \in 1 .. Len(names) :
                            m[j] = m[k] => n[j] = n[k] /\ (j \in E => f[j] = f[k])
  <2> SUFFICES ASSUME PrefixFree(n)
               PROVE  /\ m \in [1 .. Len(names) -> Seq(Words)] /\ PrefixFree(m)
                      /\ \A j, k \in 1 .. Len(names) :
                           m[j] = m[k] => n[j] = n[k] /\ (j \in E => f[j] = f[k])
    OBVIOUS
  <2>1. /\ Extended(n, E, f) \in [1 .. Len(names) -> Seq(Words)]
        /\ PrefixFree(Extended(n, E, f))
        /\ \A j, k \in 1 .. Len(names) :
             Extended(n, E, f)[j] = Extended(n, E, f)[k] =>
               n[j] = n[k] /\ (j \in E => f[j] = f[k])
    <3>1. Chosen(n, E)
      BY <1>0, <1>3 DEF Chosen
    <3> DEFINE N == Len(names)
    <3>2. N \in Nat /\ n \in [1 .. N -> Seq(Words)] /\ f \in [1 .. N -> Words]
      BY <1>0, <1>1
    <3> HIDE DEF E, N
    <3>3. PrefixFree(Extended(n, E, f))
      BY <3>1, <3>2, ExtendedNames
    <3>4. Extended(n, E, f) \in [1 .. N -> Seq(Words)]
      BY <3>1, <3>2, ExtendedNames
    <3>5. Separated(n, E, f)
      BY <3>1, <3>2, ExtendedNames
    <3>6. \A j, k \in 1 .. N :
            Extended(n, E, f)[j] = Extended(n, E, f)[k] =>
              n[j] = n[k] /\ (j \in E => f[j] = f[k])
      BY <3>2, <3>5 DEF Separated
    <3> QED BY <3>3, <3>4, <3>6 DEF N
  <2> QED BY <1>2, <2>1
<1> QED BY <1>1, <1>5 DEF f, m

(* A suffix leaves the beginning of a name alone. *)
LEMMA SuffixedHeads ==
  ASSUME TypeOK, NEW n \in [1 .. Len(names) -> Seq(Words)],
         NEW field \in {"id", "state", "bound_to"}, NEW S,
         NEW j \in 1 .. Len(names), n[j] # <<>>
  PROVE  Suffixed(n, S, field)[j] # <<>> /\ Suffixed(n, S, field)[j][1] = n[j][1]
<1>1. packet_list[j][field] \in Words
  <2>1. packet_list[j] \in Packets
    BY DEF TypeOK
  <2>2. /\ packet_list[j].id \in Words
        /\ packet_list[j].state \in Words
        /\ packet_list[j].bound_to \in Words
    BY <2>1 DEF Packets, Words
  <2> QED BY <2>2
<1>2. n[j] \in Seq(Words) /\ Len(n[j]) >= 1
  <2>1. n[j] \in Seq(Words)
    OBVIOUS
  <2> QED BY <2>1
<1>3. Append(n[j], packet_list[j][field]) # <<>> /\ Append(n[j], packet_list[j][field])[1] = n[j][1]
  BY <1>1, <1>2
<1>4. Suffixed(n, S, field)[j] \in {n[j], Append(n[j], packet_list[j][field])}
  BY DEF Suffixed
<1> QED BY <1>3, <1>4

(* A round of the loop: the packet at `at' gets a name no other one has, and   *)
(* no two names become equal that were not.                                    *)
LEMMA RoundNames ==
  ASSUME IInv, MakeUnique
  PROVE  NamesMade'
<1> USE DEF IInv
<1> DEFINE byName  == SameName(names, DOMAIN names)
           stated  == Suffixed(names, byName, "state")
           byState == SameName(stated, byName)
           state   == [j \in 1 .. Len(names) |-> packet_list[j]["state"]]
           target  == [j \in 1 .. Len(names) |-> packet_list[j]["bound_to"]]
<1>1. /\ names \in [1 .. Len(names) -> Seq(Words)] /\ DOMAIN names = 1 .. Len(names)
      /\ DOMAIN packet_list = 1 .. Len(names)
      /\ Len(names) \in Nat /\ at \in 1 .. Len(names)
  BY NamesAsFunction DEF TypeOK, MakeUnique
<1>2. /\ names' = Suffixed(stated, byState, "bound_to")
      /\ at' = at + 1 /\ phase = "unique" /\ phase' = phase /\ packet_list' = packet_list
  BY DEF MakeUnique
<1>3. stated \in [1 .. Len(names) -> Seq(Words)] /\ DOMAIN stated = 1 .. Len(names)
  BY <1>1, SuffixedTyped
<1>4. names' \in [1 .. Len(names) -> Seq(Words)] /\ DOMAIN names' = 1 .. Len(names)
  <2> HIDE DEF stated
  <2> QED BY <1>2, <1>3, SuffixedTyped
<1>5. \A j \in DOMAIN names' : names'[j] # <<>> /\ names'[j][1] = ShortName(packet_list'[j].name)
  <2> SUFFICES ASSUME NEW j \in 1 .. Len(names)
               PROVE  names'[j] # <<>> /\ names'[j][1] = ShortName(packet_list[j].name)
    BY <1>2, <1>4
  <2>1. names[j] # <<>> /\ names[j][1] = ShortName(packet_list[j].name)
    BY <1>1 DEF NamesMade
  <2>2. stated[j] # <<>> /\ stated[j][1] = names[j][1]
    BY <1>1, <2>1, SuffixedHeads
  <2> HIDE DEF stated, byState
  <2>3. names'[j] # <<>> /\ names'[j][1] = stated[j][1]
    BY <1>2, <1>3, <2>2, SuffixedHeads
  <2> QED BY <2>1, <2>2, <2>3
<1>6. ASSUME ToldApart
      PROVE  PrefixFree(names') /\ \A i \in 1 .. at : \A j \in 1 .. Len(names) :
                                     names'[i] = names'[j] => i = j
  <2>1. ASSUME NEW j \in 1 .. Len(names), names[j] = names[at], j # at
        PROVE  \/ packet_list[j]["state"] # packet_list[at]["state"]
               \/ packet_list[j]["bound_to"] # packet_list[at]["bound_to"]
    <3>1. ShortName(packet_list[j].name) = ShortName(packet_list[at].name)
      BY <1>1, <2>1 DEF NamesMade
    <3> QED BY <1>1, <1>6, <2>1, <3>1 DEF ToldApart
  <2>2. PrefixFree(names)
    BY <1>6 DEF NamesMade
  <2>3. byName \cup {at} = {j \in 1 .. Len(names) : names[j] = names[at]}
    BY <1>1, <2>1 DEF SameName
  <2>4. byName \in SUBSET (1 .. Len(names)) /\ byState \subseteq byName
    BY <1>1 DEF SameName
  <2>5. /\ PrefixFree(stated)
        /\ \A j, k \in 1 .. Len(names) : stated[j] = stated[k] =>
             names[j] = names[k] /\ (byName # {} /\ j \in byName \cup {at} => state[j] = state[k])
    <3> HIDE DEF byName
    <3> QED BY <1>1, <2>2, <2>3, <2>4, SuffixedIsExtended
  <2>6. byState \cup {at} = {j \in 1 .. Len(names) : stated[j] = stated[at]}
    <3>1. ASSUME NEW j \in 1 .. Len(names), stated[j] = stated[at], j # at
          PROVE  j \in byState
      <4>1. names[j] = names[at]
        BY <1>1, <2>5, <3>1
      <4>2. j \in byName
        BY <2>3, <3>1, <4>1
      <4> HIDE DEF byName, stated
      <4> QED BY <2>1, <3>1, <4>1, <4>2 DEF SameName
    <3>2. \A j \in byState : j \in 1 .. Len(names) /\ stated[j] = stated[at]
      <4> HIDE DEF byName, stated
      <4> QED BY <2>4 DEF SameName
    <3> HIDE DEF byState, stated
    <3> QED BY <1>1, <3>1, <3>2
  <2>7. /\ PrefixFree(names')
        /\ \A j, k \in 1 .. Len(names) : names'[j] = names'[k] =>
             stated[j] = stated[k] /\ (byState # {} /\ j \in byState \cup {at} => target[j] = target[k])
    <3>1. byState \in SUBSET (1 .. Len(names))
      BY <2>4
    <3> DEFINE m == Suffixed(stated, byState, "bound_to")
    <3>2. at <= Len(names)
      BY <1>1
    <3>3. PrefixFree(m) /\ \A j, k \in 1 .. Len(names) : m[j] = m[k] =>
             stated[j] = stated[k] /\ (byState # {} /\ j \in byState \cup {at} => target[j] = target[k])
      <4> HIDE DEF byState, stated, byName
      <4> QED BY <1>3, <2>5, <2>6, <3>1, <3>2, SuffixedIsExtended
    <3> QED BY <1>2, <3>3
  <2> HIDE DEF byName, byState, stated
  <2>8. ASSUME NEW j \in 1 .. Len(names), names'[at] = names'[j]
        PROVE  at = j
    <3>1. SUFFICES ASSUME j # at PROVE FALSE
      OBVIOUS
    <3>2. stated[at] = stated[j] /\ names[at] = names[j]
      BY <1>1, <2>5, <2>7, <2>8
    <3>3. j \in byState /\ j \in byName
      BY <2>4, <2>6, <3>1, <3>2
    <3>4. state[at] = state[j] /\ target[at] = target[j]
      BY <1>1, <2>5, <2>7, <2>8, <3>2, <3>3
    <3> QED BY <1>1, <2>1, <3>1, <3>2, <3>4
  <2>9. ASSUME NEW i \in 1 .. at - 1, NEW j \in 1 .. Len(names), names'[i] = names'[j]
        PROVE  i = j
    <3>1. i \in 1 .. Len(names)
      BY <1>1
    <3>2. names[i] = names[j]
      BY <2>5, <2>7, <2>9, <3>1
    <3> QED BY <1>1, <1>6, <3>2 DEF NamesMade
  <2>10. \A i \in 1 .. at : i = at \/ i \in 1 .. at - 1
    BY <1>1
  <2> QED BY <2>7, <2>8, <2>9, <2>10
<1>7. ToldApart' <=> ToldApart
  BY <1>2 DEF ToldApart
<1>8. at' - 1 = at
  BY <1>1, <1>2
<1> QED
  <2>1. phase' = "unique"
    BY <1>2
  <2> HIDE DEF byName, byState, stated, state, target
  <2> QED BY <1>4, <1>5, <1>6, <1>7, <1>8, <2>1 DEF NamesMade

LEMMA NamesPreserved ==
  ASSUME IInv, TypeOK', [Next]_vars
  PROVE  NamesMade'
<1> USE DEF IInv
<1>1. ASSUME NEW tag, handle_starttag(tag), phase = "feed", UNCHANGED at
      PROVE  NamesMade'
  BY <1>1, ParserNames DEF handle_starttag
<1>2. ASSUME NEW text, handle_data(text), phase = "feed", UNCHANGED at
      PROVE  NamesMade'
  <2>1. UNCHANGED <<names, packet_list>>
    BY <1>2 DEF handle_data
  <2>2. phase' \in {"feed", "failed"}
    <3>1. TakeCell(text) \/ UNCHANGED phase
      BY <1>2 DEF handle_data
    <3> QED BY <1>2, <3>1, CellTyped
  <2> QED BY <1>2, <2>1, <2>2, ParserNames
<1>3. ASSUME NEW tag, handle_endtag(tag), phase = "feed", UNCHANGED at
      PROVE  NamesMade'
  <2>1. phase' \in {"feed", "failed"}
    BY <1>3, EndTyped
  <2>2. AddPacket \/ UNCHANGED <<names, packet_list>>
    BY <1>3 DEF handle_endtag
  <2> QED BY <1>3, <2>1, <2>2, ParserNames DEF AddPacket
<1>4. CASE StartH4
  BY <1>1, <1>4 DEF StartH4, Feed
<1>5. CASE H4Text
  BY <1>2, <1>5 DEF H4Text, Feed
<1>6. CASE EndH4
  BY <1>3, <1>6 DEF EndH4, Feed
<1>7. CASE StartTable
  BY <1>1, <1>7 DEF StartTable, Feed
<1>8. CASE StartRow
  BY <1>1, <1>8 DEF StartRow, Feed
<1>9. CASE StartCell
  BY <1>1, <1>9 DEF StartCell, Feed
<1>10. CASE CellText
  BY <1>2, <1>10 DEF CellText, Feed
<1>11. CASE EmptyCell
  BY <1>11, ParserNames DEF EmptyCell, Feed, parserVars
<1>12. CASE EndCell
  BY <1>3, <1>12 DEF EndCell, Feed
<1>13. CASE EndRow
  BY <1>3, <1>13 DEF EndRow, Feed
<1>14. CASE EndTable
  BY <1>3, <1>14 DEF EndTable, Feed
<1>15. CASE Between
  BY <1>2, <1>15 DEF Between
<1>16. CASE Download
  <2>1. UNCHANGED <<names, packet_list, at>> /\ phase = "download" /\ phase' \notin {"unique", "done"}
    BY <1>16 DEF Download, parserVars
  <2> QED BY <2>1 DEF NamesMade, ToldApart
<1>17. CASE EndOfPage
  <2>1. UNCHANGED <<names, packet_list, at>> /\ phase = "feed" /\ phase' = "unique"
    BY <1>17 DEF EndOfPage, Feed, parserVars
  <2> QED BY <2>1 DEF NamesMade, ToldApart
<1>18. CASE MakeUnique
  BY <1>18, RoundNames
<1>19. CASE WriteFile
  <2>1. /\ UNCHANGED <<names, packet_list, at>> /\ phase = "unique" /\ phase' = "done"
        /\ at = Len(names) + 1
    BY <1>19 DEF WriteFile, parserVars
  <2> QED BY <2>1 DEF NamesMade, ToldApart
<1>20. CASE UNCHANGED vars
  <2>1. UNCHANGED <<names, packet_list, at, phase>>
    BY <1>20 DEF vars, parserVars
  <2> QED BY <2>1 DEF NamesMade, ToldApart
<1> QED BY <1>4, <1>5, <1>6, <1>7, <1>8, <1>9, <1>10, <1>11, <1>12, <1>13, <1>14, <1>15, <1>16,
           <1>17, <1>18, <1>19, <1>20 DEF Next

LEMMA Invariance == Spec => []IInv
<1>1. IInv /\ [Next]_vars => IInv'
  BY TypePreserved, HeadingsPreserved, NamesPreserved DEF IInv
<1> QED BY InitInvariant, <1>1, PTL DEF Spec

(* The variables of the script keep their types on every page: the flags of    *)
(* `expected' are set in one of ten combinations (PacketIDGrabber.py:79-122).  *)
THEOREM TypeCorrect == Spec => []TypeOK
<1>1. IInv => TypeOK
  BY DEF IInv
<1> QED BY Invariance, <1>1, PTL

(* No heading of the page gives its name to two packets, on any page           *)
(* (PacketIDGrabber.py:121-129).                                               *)
THEOREM HeadingsCorrect == Spec => []HeadingsOnce
<1>1. IInv => HeadingsOnce
  BY DEF IInv
<1> QED BY Invariance, <1>1, PTL

(* When the file is written the names of the packets are pairwise different,   *)
(* provided that state and target tell packets of one short name apart         *)
(* (PacketIDGrabber.py:183-198).                                               *)
THEOREM NamesCorrect == Spec => []UniqueNames
<1>1. IInv => UniqueNames
  <2> SUFFICES ASSUME IInv, phase = "done", ToldApart,
                      NEW i \in DOMAIN names, NEW j \in DOMAIN names, names[i] = names[j]
               PROVE  i = j
    BY DEF UniqueNames
  <2>1. DOMAIN names = 1 .. Len(names) /\ Len(names) \in Nat
    BY DEF IInv, TypeOK
  <2>2. at - 1 = Len(names)
    BY <2>1 DEF IInv, NamesMade
  <2> QED BY <2>1, <2>2 DEF IInv, NamesMade
<1> QED BY Invariance, <1>1, PTL

-------------------------------------------------------------------------------
(* A page of the expected layout                                               *)

LEMMA PageFacts ==
  ASSUME TypeOK
  PROVE  /\ Row \in Nat /\ Col \in Nat /\ page.fresh \in BOOLEAN
         /\ page.table \in Tables \cup {NoTable}
         /\ page.in \in {"body", "h4", "h4_text", "table", "tr", "td", "td_text"}
         /\ is_packet \in BOOLEAN
         /\ odd \in Nat
         /\ row_count \in Int /\ col_count \in Int
<1>1. page \in Pages
  BY DEF TypeOK
<1>2. Row \in Nat /\ Col \in Nat
  BY <1>1 DEF Pages, Row, Col
<1>3. page.fresh \in BOOLEAN
  BY <1>1 DEF Pages
<1>4. /\ page.table \in Tables \cup {NoTable}
      /\ page.in \in {"body", "h4", "h4_text", "table", "tr", "td", "td_text"}
  BY <1>1 DEF Pages
<1>5. is_packet \in BOOLEAN /\ odd \in Nat /\ row_count \in Int /\ col_count \in Int
  BY GrabberAssumption DEF TypeOK
<1> QED BY <1>2, <1>3, <1>4, <1>5

(* What the cells of a packet's table say *)
LEMMA Says ==
  /\ Row = 1 /\ Col = 1 => (CellSays = Title <=> page.table # NoTable)
  /\ Row = 2 /\ Col = 1 => CellSays = page.table.id
  /\ Row = 2 /\ Col = 2 => CellSays = page.table.state
  /\ Row = 2 /\ Col = 3 => CellSays = page.table.bound_to
BY GrabberAssumption DEF CellSays, Row, Col

LEMMA TableSays ==
  ASSUME TypeOK, page.table # NoTable
  PROVE  /\ page.table.id \in Ids
         /\ page.table.state \in States
         /\ page.table.bound_to \in Targets
BY PageFacts DEF Tables

(* A step of the page that is no deviation *)
LEMMA NotOdd ==
  ASSUME TypeOK, NEW condition \in BOOLEAN, Deviates(condition), odd' = 0
  PROVE  ~condition
BY PageFacts DEF Deviates

(* A handler that expects something else does nothing. *)
LEMMA StartIgnored ==
  ASSUME handle_starttag("table") \/ handle_starttag("tr") \/ handle_starttag("td"),
         expected = {"H4_BEGIN"}
  PROVE  UNCHANGED <<phase, expected, packet, packet_list>>
<1>1. CASE handle_starttag("table")
  BY <1>1 DEF handle_starttag
<1>2. CASE handle_starttag("tr")
  BY <1>2 DEF handle_starttag
<1>3. CASE handle_starttag("td")
  BY <1>3 DEF handle_starttag
<1> QED BY <1>1, <1>2, <1>3

LEMMA DataIgnored ==
  ASSUME NEW text, handle_data(text), "H4_DATA" \notin expected, "COLUMN_DATA" \notin expected
  PROVE  UNCHANGED <<phase, expected, packet, packet_list, is_packet, row_count, col_count>>
BY DEF handle_data

LEMMA EndIgnored ==
  ASSUME handle_endtag("td") \/ handle_endtag("tr") \/ handle_endtag("table"),
         expected = {"H4_BEGIN"}
  PROVE  UNCHANGED <<phase, expected, packet, packet_list>>
<1>1. CASE handle_endtag("td")
  BY <1>1 DEF handle_endtag
<1>2. CASE handle_endtag("tr")
  BY <1>2 DEF handle_endtag
<1>3. CASE handle_endtag("table")
  BY <1>3 DEF handle_endtag
<1> QED BY <1>1, <1>2, <1>3

(* Between two tables the parser takes notice of nothing. *)
LEMMA RegularWaits ==
  ASSUME Regular, ~page.fresh, page'.fresh = FALSE, page'.in \notin {"h4", "h4_text"},
         wanted' = wanted, UNCHANGED <<phase, expected, packet, packet_list>>
  PROVE  Regular'
BY DEF Regular, Awaited

LEMMA StartH4Regular ==
  ASSUME IInv, Regular, StartH4, odd' = 0
  PROVE  Regular'
<1>1. ~page.fresh
  BY NotOdd, PageFacts DEF IInv, StartH4
<1>2. expected = {"H4_BEGIN"}
  BY <1>1 DEF Regular, Awaited
<1>3. expected' = {"H4_DATA"} /\ UNCHANGED <<phase, packet_list>>
  BY <1>2 DEF StartH4, handle_starttag
<1>4. page'.in = "h4" /\ page'.fresh = TRUE
  BY DEF IInv, StartH4, TypeOK, Pages, Row, Col
<1>5. wanted' = wanted
  BY DEF StartH4
<1> QED BY <1>3, <1>4, <1>5 DEF Regular, Awaited

LEMMA H4TextRegular ==
  ASSUME IInv, Regular, H4Text
  PROVE  Regular'
<1>1. page.in = "h4" /\ page.fresh = TRUE /\ handle_data(page.heading) /\ wanted' = wanted
  BY PageFacts DEF IInv, Regular, H4Text, Feed
<1>2. expected = {"H4_DATA"}
  BY <1>1 DEF Regular, Awaited
<1>3. /\ packet' = [packet EXCEPT !.name = page.heading]
      /\ expected' = {"H4_END"}
      /\ UNCHANGED <<phase, packet_list>>
  BY <1>1, <1>2 DEF handle_data
<1>4. packet'.name = page.heading
  BY <1>3 DEF IInv, TypeOK, Packets
<1>5. page'.in = "h4_text" /\ page'.fresh = TRUE /\ page'.heading = page.heading
  BY <1>1 DEF IInv, H4Text, TypeOK, Pages, Row, Col
<1> QED BY <1>1, <1>3, <1>4, <1>5 DEF Regular, Awaited

LEMMA EndH4Regular ==
  ASSUME IInv, Regular, EndH4
  PROVE  Regular'
<1>1. page.in = "h4_text" /\ page.fresh = TRUE /\ handle_endtag("h4") /\ wanted' = wanted
  BY PageFacts DEF IInv, Regular, EndH4, Feed
<1>2. expected = {"H4_END"}
  BY <1>1 DEF Regular, Awaited
<1>3. expected' = {"TABLE_BEGIN"} /\ UNCHANGED <<phase, packet, packet_list>>
  BY <1>1, <1>2 DEF handle_endtag
<1>4. page'.in = "body" /\ page'.fresh = TRUE /\ page'.heading = page.heading
  BY <1>1 DEF IInv, EndH4, TypeOK, Pages, Row, Col
<1> QED BY <1>1, <1>3, <1>4 DEF Regular, Awaited

LEMMA StartTableRegular ==
  ASSUME IInv, Regular, StartTable
  PROVE  Regular'
<1>1. page.in = "body" /\ handle_starttag("table") /\ wanted' = wanted
  BY DEF StartTable, Feed
<1>2. /\ page'.in = "table" /\ page'.fresh = page.fresh /\ page'.heading = page.heading
      /\ Row' = 0
  BY DEF IInv, StartTable, TypeOK, Pages, Row, Col
<1>3. CASE ~page.fresh
  <2>1. expected = {"H4_BEGIN"}
    BY <1>3 DEF Regular, Awaited
  <2>2. UNCHANGED <<phase, expected, packet, packet_list>>
    BY <1>1, <2>1, StartIgnored
  <2>3. page'.fresh = FALSE
    BY <1>2, <1>3, PageFacts DEF IInv
  <2> QED BY <1>1, <1>2, <1>3, <2>2, <2>3, RegularWaits
<1>4. CASE page.fresh
  <2>1. expected = {"TABLE_BEGIN"}
    BY <1>1, <1>4 DEF Regular, Awaited
  <2>2. expected' = {"ROW_BEGIN"} /\ row_count' = -1 /\ UNCHANGED <<phase, packet, packet_list>>
    BY <1>1, <2>1 DEF handle_starttag
  <2>3. Counted' /\ Taken'
    BY <1>2, <2>2 DEF Counted, Taken, Came
  <2>4. expected' = Awaited'
    BY <1>2, <1>4, <2>2 DEF Awaited
  <2> QED BY <1>1, <1>2, <1>4, <2>2, <2>3, <2>4 DEF Regular
<1> QED BY <1>3, <1>4

LEMMA StartRowRegular ==
  ASSUME IInv, Regular, StartRow
  PROVE  Regular'
<1>1. page.in = "table" /\ handle_starttag("tr") /\ wanted' = wanted
  BY DEF StartRow, Feed
<1>2. /\ page'.in = "tr" /\ page'.fresh = page.fresh /\ page'.heading = page.heading
      /\ page'.table = page.table /\ Row' = Row + 1 /\ Col' = 0
  BY DEF IInv, StartRow, TypeOK, Pages, Row, Col
<1>3. CASE ~page.fresh
  <2>1. expected = {"H4_BEGIN"}
    BY <1>3 DEF Regular, Awaited
  <2>2. UNCHANGED <<phase, expected, packet, packet_list>>
    BY <1>1, <2>1, StartIgnored
  <2>3. page'.fresh = FALSE
    BY <1>2, <1>3, PageFacts DEF IInv
  <2> QED BY <1>1, <1>2, <1>3, <2>2, <2>3, RegularWaits
<1>4. CASE page.fresh
  <2>1. expected = {"ROW_BEGIN"} \/ expected = {"ROW_BEGIN", "TABLE_END"}
    BY <1>1, <1>4 DEF Regular, Awaited
  <2>2. /\ expected' = {"COLUMN_BEGIN"}
        /\ row_count' = row_count + 1
        /\ col_count' = -1
        /\ UNCHANGED <<phase, packet, packet_list, is_packet>>
    BY <1>1, <2>1 DEF handle_starttag
  <2>3. Row \in Nat /\ Col \in Nat
    BY PageFacts DEF IInv
  <2>4. Counted /\ Taken
    BY <1>1, <1>4 DEF Regular
  <2>5. Counted'
    BY <1>2, <2>2, <2>3, <2>4 DEF Counted
  <2>6. Row \in {1, 2} => Col >= 3
    BY <1>1, <2>3, <2>4 DEF Counted, PacketCells
  <2>7. \A row \in {1, 2}, col \in {1, 2, 3} : Came(row, col)' => Came(row, col)
    BY <1>1, <1>2, <2>3, <2>6 DEF Came
  <2>8. Taken'
    BY <1>2, <2>2, <2>4, <2>7 DEF Taken
  <2>9. expected' = Awaited'
    BY <1>2, <1>4, <2>2 DEF Awaited
  <2> QED BY <1>1, <1>2, <1>4, <2>2, <2>5, <2>8, <2>9 DEF Regular
<1> QED BY <1>3, <1>4

LEMMA StartCellRegular ==
  ASSUME IInv, Regular, StartCell
  PROVE  Regular'
<1>1. page.in = "tr" /\ handle_starttag("td") /\ wanted' = wanted
  BY DEF StartCell, Feed
<1>2. /\ page'.in = "td" /\ page'.fresh = page.fresh /\ page'.heading = page.heading
      /\ page'.table = page.table /\ Row' = Row /\ Col' = Col + 1
  BY DEF IInv, StartCell, TypeOK, Pages, Row, Col
<1>3. CASE ~page.fresh
  <2>1. expected = {"H4_BEGIN"}
    BY <1>3 DEF Regular, Awaited
  <2>2. UNCHANGED <<phase, expected, packet, packet_list>>
    BY <1>1, <2>1, StartIgnored
  <2>3. page'.fresh = FALSE
    BY <1>2, <1>3, PageFacts DEF IInv
  <2> QED BY <1>1, <1>2, <1>3, <2>2, <2>3, RegularWaits
<1>4. CASE page.fresh
  <2>1. expected = {"COLUMN_BEGIN"} \/ expected = {"COLUMN_BEGIN", "ROW_END"}
    BY <1>1, <1>4 DEF Regular, Awaited
  <2>2. /\ expected' = {"COLUMN_DATA"}
        /\ col_count' = col_count + 1
        /\ UNCHANGED <<phase, packet, packet_list, is_packet, row_count>>
    BY <1>1, <2>1 DEF handle_starttag
  <2>3. Row \in Nat /\ Col \in Nat
    BY PageFacts DEF IInv
  <2>4. Counted /\ Taken
    BY <1>1, <1>4 DEF Regular
  <2>5. Counted'
    BY <1>1, <1>2, <2>2, <2>3, <2>4 DEF Counted
  <2>7. \A row \in {1, 2}, col \in {1, 2, 3} : Came(row, col)' => Came(row, col)
    BY <1>1, <1>2, <2>3 DEF Came
  <2>8. Taken'
    BY <1>2, <2>2, <2>4, <2>7 DEF Taken
  <2>9. expected' = Awaited'
    BY <1>2, <1>4, <2>2 DEF Awaited
  <2> QED BY <1>1, <1>2, <1>4, <2>2, <2>5, <2>8, <2>9 DEF Regular
<1> QED BY <1>3, <1>4

(* What the texts of the cells of a packet's table do *)
LEMMA CellTaken ==
  ASSUME IInv, page.in = "td", Counted, Taken, TakeCell(CellSays), UNCHANGED <<row_count, col_count>>,
         page'.in = "td_text", page'.table = page.table, Row' = Row,
         Col' = Col
  PROVE  /\ phase' = phase /\ packet'.name = packet.name
         /\ Counted' /\ Taken'
<1>1. Row \in Nat \ {0} /\ Col \in Nat \ {0}
  BY PageFacts DEF IInv, Counted
<1>2. row_count = Row - 1 /\ col_count = Col - 1
  BY DEF Counted
<1>3. Counted'
  BY <1>1, <1>2 DEF Counted
<1>4. \A row, col \in {1, 2, 3} :
        Came(row, col)' <=> Came(row, col) \/ (Row = row /\ Col = col)
  BY <1>1 DEF Came
<1>5. \A row, col \in {1, 2, 3} : Row = row /\ Col = col => ~Came(row, col)
  BY <1>1 DEF Came
<1>6. is_packet \in BOOLEAN /\ packet \in Packets
  BY PageFacts DEF IInv, TypeOK
<1>7. CASE Row = 1 /\ Col = 1
  <2>1. Cell(0, 0) /\ ~Cell(1, 0) /\ ~Cell(1, 1) /\ ~Cell(1, 2)
    BY <1>2, <1>7 DEF Cell
  <2>2. is_packet' = (CellSays = Title) /\ UNCHANGED <<phase, packet>>
    BY <2>1 DEF TakeCell
  <2>3. CellSays = Title <=> page.table # NoTable
    BY <1>7, Says
  <2>4. ~Came(2, 1)' /\ ~Came(2, 2)' /\ ~Came(2, 3)'
    BY <1>1, <1>7 DEF Came
  <2>5. Taken'
    BY <2>2, <2>3, <2>4 DEF Taken
  <2> QED BY <1>3, <2>2, <2>5
<1>8. CASE Row = 2 /\ Col \in {1, 2, 3}
  <2>1. Came(1, 1) /\ Came(1, 1)'
    BY <1>8 DEF Came
  <2>2. is_packet <=> page.table # NoTable
    BY <2>1 DEF Taken
  <2>3. ~Cell(0, 0)
    BY <1>2, <1>8 DEF Cell
  <2>4. CASE page.table = NoTable
    <3>1. UNCHANGED <<phase, packet, is_packet>>
      BY <2>2, <2>3, <2>4 DEF TakeCell
    <3> QED BY <1>3, <2>2, <2>4, <3>1 DEF Taken
  <2>5. CASE page.table # NoTable
    <3>1. is_packet = TRUE
      BY <1>6, <2>2, <2>5
    <3>2. page.table.id \in Ids /\ page.table.state \in States /\ page.table.bound_to \in Targets
      BY <2>5, TableSays DEF IInv
    <3>3. CASE Col = 1
      <4>1. Cell(1, 0) /\ ~Cell(1, 1) /\ ~Cell(1, 2) /\ CellSays = page.table.id
        BY <1>2, <1>8, <3>3, Says DEF Cell
      <4>2. /\ packet' = [packet EXCEPT !.id = page.table.id, !.text = FALSE]
            /\ UNCHANGED <<phase, is_packet>>
        BY <2>3, <3>1, <3>2, <4>1 DEF TakeCell
      <4>3. packet'.id = page.table.id /\ packet'.text = FALSE /\ packet'.name = packet.name
        BY <1>6, <4>2 DEF Packets
      <4>4. ~Came(2, 2)' /\ ~Came(2, 3)'
        BY <1>8, <3>3 DEF Came
      <4> QED BY <1>3, <2>2, <4>2, <4>3, <4>4 DEF Taken
    <3>4. CASE Col = 2
      <4>1. Cell(1, 1) /\ ~Cell(1, 0) /\ ~Cell(1, 2) /\ CellSays = page.table.state
        BY <1>2, <1>8, <3>4, Says DEF Cell
      <4>2. /\ packet' = [packet EXCEPT !.state = page.table.state]
            /\ UNCHANGED <<phase, is_packet>>
        BY <2>3, <3>1, <3>2, <4>1 DEF TakeCell
      <4>3. /\ packet'.state = page.table.state /\ packet'.name = packet.name
            /\ packet'.id = packet.id /\ packet'.text = packet.text
        BY <1>6, <4>2 DEF Packets
      <4>4. Came(2, 1) /\ ~Came(2, 3)'
        BY <1>8, <3>4 DEF Came
      <4> QED BY <1>3, <2>2, <2>5, <4>2, <4>3, <4>4 DEF Taken
    <3>5. CASE Col = 3
      <4>1. Cell(1, 2) /\ ~Cell(1, 0) /\ ~Cell(1, 1) /\ CellSays = page.table.bound_to
        BY <1>2, <1>8, <3>5, Says DEF Cell
      <4>2. /\ packet' = [packet EXCEPT !.bound_to = page.table.bound_to]
            /\ UNCHANGED <<phase, is_packet>>
        BY <2>3, <3>1, <3>2, <4>1 DEF TakeCell
      <4>3. /\ packet'.bound_to = page.table.bound_to /\ packet'.name = packet.name
            /\ packet'.id = packet.id /\ packet'.text = packet.text
            /\ packet'.state = packet.state
        BY <1>6, <4>2 DEF Packets
      <4>4. Came(2, 1) /\ Came(2, 2)
        BY <1>8, <3>5 DEF Came
      <4> QED BY <1>3, <2>2, <2>5, <4>2, <4>3, <4>4 DEF Taken
    <3> QED BY <1>8, <3>3, <3>4, <3>5
  <2> QED BY <2>4, <2>5
<1>9. CASE ~(Row = 1 /\ Col = 1) /\ ~(Row = 2 /\ Col \in {1, 2, 3})
  <2>1. ~Cell(0, 0) /\ ~Cell(1, 0) /\ ~Cell(1, 1) /\ ~Cell(1, 2)
    BY <1>1, <1>2, <1>9 DEF Cell
  <2>2. UNCHANGED <<phase, packet, is_packet>>
    BY <2>1 DEF TakeCell
  <2>3. /\ Came(1, 1)' <=> Came(1, 1)
        /\ \A col \in {1, 2, 3} : Came(2, col)' <=> Came(2, col)
    BY <1>4, <1>9
  <2>4. Taken'
    BY <2>2, <2>3 DEF Taken
  <2> QED BY <1>3, <2>2, <2>4
<1> QED BY <1>7, <1>8, <1>9

LEMMA CellTextRegular ==
  ASSUME IInv, Regular, CellText, odd' = 0
  PROVE  Regular'
<1>1. page.in = "td" /\ wanted' = wanted
  BY DEF CellText, Feed
<1>2. /\ page'.in = "td_text" /\ page'.fresh = page.fresh /\ page'.heading = page.heading
      /\ page'.table = page.table /\ Row' = Row /\ Col' = Col
  BY DEF IInv, CellText, TypeOK, Pages, Row, Col
<1>3. handle_data(CellSays)
  <2>1. PICK text : Deviates(text # CellSays) /\ handle_data(text)
    BY DEF CellText
  <2>2. ~(text # CellSays)
    BY <2>1, NotOdd DEF IInv
  <2> QED BY <2>1, <2>2
<1>4. CASE ~page.fresh
  <2>1. expected = {"H4_BEGIN"}
    BY <1>4 DEF Regular, Awaited
  <2>2. UNCHANGED <<phase, expected, packet, packet_list>>
    BY <1>3, <2>1, DataIgnored
  <2>3. page'.fresh = FALSE
    BY <1>2, <1>4, PageFacts DEF IInv
  <2> QED BY <1>1, <1>2, <1>4, <2>2, <2>3, RegularWaits
<1>5. CASE page.fresh
  <2>1. expected = {"COLUMN_DATA"}
    BY <1>1, <1>5 DEF Regular, Awaited
  <2>2. /\ TakeCell(CellSays)
        /\ expected' = {"COLUMN_END"}
        /\ UNCHANGED <<row_count, col_count, packet_list>>
    BY <1>3, <2>1 DEF handle_data
  <2>3. Counted /\ Taken
    BY <1>1, <1>5 DEF Regular
  <2>4. phase' = phase /\ packet'.name = packet.name /\ Counted' /\ Taken'
    BY <1>1, <1>2, <2>2, <2>3, CellTaken
  <2>5. expected' = Awaited'
    BY <1>2, <1>5, <2>2 DEF Awaited
  <2> QED BY <1>1, <1>2, <1>5, <2>2, <2>4, <2>5 DEF Regular
<1> QED BY <1>4, <1>5

LEMMA EndCellRegular ==
  ASSUME IInv, Regular, EndCell
  PROVE  Regular'
<1>1. page.in = "td_text" /\ handle_endtag("td") /\ wanted' = wanted
  BY DEF EndCell, Feed
<1>2. /\ page'.in = "tr" /\ page'.fresh = page.fresh /\ page'.heading = page.heading
      /\ page'.table = page.table /\ Row' = Row /\ Col' = Col
  BY DEF IInv, EndCell, TypeOK, Pages, Row, Col
<1>3. CASE ~page.fresh
  <2>1. expected = {"H4_BEGIN"}
    BY <1>3 DEF Regular, Awaited
  <2>2. UNCHANGED <<phase, expected, packet, packet_list>>
    BY <1>1, <2>1, EndIgnored
  <2>3. page'.fresh = FALSE
    BY <1>2, <1>3, PageFacts DEF IInv
  <2> QED BY <1>1, <1>2, <1>3, <2>2, <2>3, RegularWaits
<1>4. CASE page.fresh
  <2>1. expected = {"COLUMN_END"}
    BY <1>1, <1>4 DEF Regular, Awaited
  <2>2. /\ expected' = {"COLUMN_BEGIN", "ROW_END"}
        /\ UNCHANGED <<phase, packet, packet_list, is_packet, row_count, col_count>>
    BY <1>1, <2>1 DEF handle_endtag
  <2>3. Counted /\ Taken
    BY <1>1, <1>4 DEF Regular
  <2>4. Counted'
    BY <1>1, <1>2, <2>2, <2>3 DEF Counted
  <2>5. \A row \in {1, 2}, col \in {1, 2, 3} : Came(row, col)' <=> Came(row, col)
    BY <1>1, <1>2 DEF Came
  <2>6. Taken'
    BY <1>2, <2>2, <2>3, <2>5 DEF Taken
  <2>7. Col >= 1
    BY <1>1, <2>3 DEF Counted
  <2>8. expected' = Awaited'
    BY <1>2, <1>4, <2>2, <2>7 DEF Awaited
  <2> QED BY <1>1, <1>2, <1>4, <2>2, <2>4, <2>6, <2>8 DEF Regular
<1> QED BY <1>3, <1>4

LEMMA EndRowRegular ==
  ASSUME IInv, Regular, EndRow, odd' = 0
  PROVE  Regular'
<1>1. page.in = "tr" /\ Col > 0 /\ handle_endtag("tr") /\ wanted' = wanted
  BY DEF EndRow, Feed, Col
<1>2. /\ page'.in = "table" /\ page'.fresh = page.fresh /\ page'.heading = page.heading
      /\ page'.table = page.table /\ Row' = Row /\ Col' = Col
  BY DEF IInv, EndRow, TypeOK, Pages, Row, Col
<1>3. CASE ~page.fresh
  <2>1. expected = {"H4_BEGIN"}
    BY <1>3 DEF Regular, Awaited
  <2>2. UNCHANGED <<phase, expected, packet, packet_list>>
    BY <1>1, <2>1, EndIgnored
  <2>3. page'.fresh = FALSE
    BY <1>2, <1>3, PageFacts DEF IInv
  <2> QED BY <1>1, <1>2, <1>3, <2>2, <2>3, RegularWaits
<1>4. CASE page.fresh
  <2>0. Row \in Nat /\ Col \in Nat
    BY PageFacts DEF IInv
  <2>1. expected = {"COLUMN_BEGIN", "ROW_END"}
    BY <1>1, <1>4, <2>0 DEF Regular, Awaited
  <2>2. /\ expected' = {"ROW_BEGIN", "TABLE_END"}
        /\ UNCHANGED <<phase, packet, packet_list, is_packet, row_count, col_count>>
    BY <1>1, <2>1 DEF handle_endtag
  <2>3. Counted /\ Taken
    BY <1>1, <1>4 DEF Regular
  <2>4. ~(Row <= 2 /\ Col < PacketCells)
    BY NotOdd DEF IInv, EndRow, Row, Col
  <2>5. Counted' /\ Row >= 1
    BY <1>1, <1>2, <2>0, <2>2, <2>3, <2>4 DEF Counted, PacketCells
  <2>6. \A row \in {1, 2}, col \in {1, 2, 3} : Came(row, col)' <=> Came(row, col)
    BY <1>1, <1>2 DEF Came
  <2>7. Taken'
    BY <1>2, <2>2, <2>3, <2>6 DEF Taken
  <2>8. expected' = Awaited'
    BY <1>2, <1>4, <2>2, <2>5 DEF Awaited
  <2> QED BY <1>1, <1>2, <1>4, <2>2, <2>5, <2>7, <2>8 DEF Regular
<1> QED BY <1>3, <1>4

LEMMA EndTableRegular ==
  ASSUME IInv, Regular, EndTable, odd' = 0
  PROVE  Regular'
<1>1. page.in = "table" /\ Row > 0 /\ handle_endtag("table")
  BY DEF EndTable, Feed, Row
<1>2. page'.in = "body" /\ page'.fresh = FALSE
  BY DEF IInv, EndTable, TypeOK, Pages, Row, Col
<1>3. Row \in Nat /\ Col \in Nat /\ page.fresh \in BOOLEAN
  BY PageFacts DEF IInv
<1>4. CASE ~page.fresh
  <2>1. expected = {"H4_BEGIN"}
    BY <1>4 DEF Regular, Awaited
  <2>2. UNCHANGED <<phase, expected, packet, packet_list>>
    BY <1>1, <2>1, EndIgnored
  <2>3. wanted' = wanted
    BY <1>4 DEF EndTable
  <2> QED BY <1>2, <1>4, <2>2, <2>3, RegularWaits
<1>5. CASE page.fresh
  <2>1. expected = {"ROW_BEGIN", "TABLE_END"}
    BY <1>1, <1>3, <1>5 DEF Regular, Awaited
  <2>2. expected' = {"H4_BEGIN"} /\ expected' = Awaited'
    BY <1>1, <1>2, <2>1 DEF handle_endtag, AfterTable, Awaited
  <2>3. Counted /\ Taken
    BY <1>1, <1>5 DEF Regular
  <2>4. Row \in {1, 2} => Col >= 3
    BY <1>1, <1>3, <2>3 DEF Counted, PacketCells
  <2>5. is_packet <=> page.table # NoTable
    BY <1>1, <1>3, <2>3, <2>4 DEF Taken, Came
  <2>6. phase' = phase /\ packet_list' = wanted'
    <3>1. CASE page.table = NoTable
      <4>1. UNCHANGED <<phase, packet_list>>
        BY <1>1, <2>1, <2>5, <3>1 DEF handle_endtag
      <4>2. wanted' = wanted
        BY <3>1 DEF EndTable
      <4> QED BY <4>1, <4>2 DEF Regular
    <3>2. CASE page.table # NoTable
      <4>1. Row >= 2
        <5> DEFINE early == page.table # NoTable /\ page.row < 2
        <5>1. Deviates(early)
          BY DEF EndTable
        <5> HIDE DEF early
        <5>2. ~early
          BY <5>1, NotOdd DEF IInv
        <5> QED BY <1>3, <3>2, <5>2 DEF early, Row
      <4>2. Came(2, 1) /\ Came(2, 2) /\ Came(2, 3)
        BY <1>1, <1>3, <2>4, <4>1 DEF Came
      <4>3. /\ packet.id = page.table.id
            /\ packet.text = FALSE
            /\ packet.state = page.table.state
            /\ packet.bound_to = page.table.bound_to
            /\ packet.name = page.heading
        BY <1>1, <1>5, <2>3, <3>2, <4>2 DEF Taken, Regular
      <4>4. AddPacket
        BY <1>1, <2>1, <2>5, <3>2 DEF handle_endtag
      <4>5. packet_list' = Append(packet_list, packet) /\ phase' = phase
        BY <4>3, <4>4 DEF AddPacket
      <4>6. packet = [name |-> page.heading, id |-> page.table.id, text |-> FALSE,
                      state |-> page.table.state, bound_to |-> page.table.bound_to]
        <5>1. packet = [name |-> packet.name, id |-> packet.id, text |-> packet.text,
                        state |-> packet.state, bound_to |-> packet.bound_to]
          BY DEF IInv, TypeOK, Packets
        <5> QED BY <4>3, <5>1
      <4>7. wanted' = Append(wanted, [name |-> page.heading, id |-> page.table.id, text |-> FALSE,
                                      state |-> page.table.state,
                                      bound_to |-> page.table.bound_to])
        BY <1>5, <3>2 DEF EndTable
      <4> QED BY <4>5, <4>6, <4>7 DEF Regular
    <3> QED BY <3>1, <3>2
  <2> QED BY <1>2, <2>2, <2>6 DEF Regular
<1> QED BY <1>4, <1>5

LEMMA BetweenRegular ==
  ASSUME IInv, Regular, Between
  PROVE  Regular'
<1>1. /\ page.in \in {"body", "table", "tr"}
      /\ handle_data(Text)
      /\ UNCHANGED <<page, wanted>>
  BY DEF Between, pageVars
<1>2. "H4_DATA" \notin expected /\ "COLUMN_DATA" \notin expected
  BY <1>1 DEF Regular, Awaited
<1>3. UNCHANGED <<phase, expected, packet, packet_list, is_packet, row_count, col_count>>
  BY <1>1, <1>2, DataIgnored
<1> QED BY <1>1, <1>3 DEF Regular, Awaited, Counted, Taken, Came, Row, Col

LEMMA RegularNext ==
  ASSUME IInv, Regular, [Next]_vars, odd' = 0
  PROVE  Regular'
<1>1. CASE EmptyCell
  <2>1. odd' = odd + 1
    BY <1>1 DEF EmptyCell, Deviates
  <2> QED BY <2>1, PageFacts DEF IInv
<1>2. CASE Download \/ EndOfPage \/ MakeUnique \/ WriteFile \/ UNCHANGED vars
  <2>1. /\ UNCHANGED <<expected, row_count, col_count, is_packet, packet, packet_list, page, wanted>>
        /\ phase' # "failed"
    BY <1>2 DEF Download, EndOfPage, MakeUnique, WriteFile, vars, parserVars, pageVars, Regular
  <2> QED BY <2>1 DEF Regular, Awaited, Counted, Taken, Came, Row, Col
<1> QED
  BY <1>1, <1>2, StartH4Regular, H4TextRegular, EndH4Regular, StartTableRegular, StartRowRegular,
     StartCellRegular, CellTextRegular, EndCellRegular, EndRowRegular, EndTableRegular,
     BetweenRegular DEF Next

LEMMA FollowedNext == IInv /\ Followed /\ [Next]_vars => Followed'
<1> SUFFICES ASSUME IInv, Followed, [Next]_vars, odd' = 0 PROVE Regular'
  BY DEF Followed
<1>1. odd' \in {odd, odd + 1}
  BY DEF Next, StartH4, H4Text, EndH4, StartTable, StartRow, StartCell, CellText, EmptyCell,
         EndCell, EndRow, EndTable, Between, Download, EndOfPage, MakeUnique, WriteFile,
         Deviates, vars, pageVars
<1>2. odd = 0
  BY <1>1, PageFacts DEF IInv
<1> QED BY <1>2, RegularNext DEF Followed

(* From a page of the expected layout, with any number of headings, tables,     *)
(* rows and cells, the parser extracts every packet with its own id, state and  *)
(* target, and raises no exception (PacketIDGrabber.py:72-138).                 *)
THEOREM ExtractedCorrect == Spec => []Extracted
<1>1. Init => Followed
  BY DEF Init, Followed, Regular, Awaited
<1>2. Followed => Extracted
  BY DEF Followed, Regular, Extracted
<1> QED BY <1>1, <1>2, FollowedNext, Invariance, PTL DEF Spec
===============================================================================
