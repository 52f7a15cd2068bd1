----------------------------- MODULE PacketIDGrabber ---------------------------
(***************************************************************************)
(* The script that generates PacketID.hpp when the project is configured.  *)
(* MyHTMLParser is an automaton over the tags and texts of the protocol's  *)
(* wiki page: it looks for an h4 heading, the table after it, and the      *)
(* first two rows of that table.  Afterwards a loop makes the names of the *)
(* packets unique, since they become the enumerators of PacketID.          *)
(*                                                                         *)
(* The page is part of the model: `page' says where the reader stands and  *)
(* what the table it is in says.  A page may deviate from the layout the   *)
(* script was written for, MaxOdd times.                                   *)
(***************************************************************************)
EXTENDS Integers, Sequences

CONSTANTS
  Headings,       \* the h4 headings of the page, each once, in any order
  ShortName(_),   \* a heading without blanks and what is in parentheses
  Ids, States, Targets,  \* what the cells of the first row of a packet say
  MaxTables,      \* bound: tables of the page
  MaxRows, MaxCols,      \* bounds: rows and columns of a table
  MaxOdd,         \* bound: deviations of the page from its layout
  Text            \* any other text

(* What the first cell of a packet's table says, in any case and between blanks *)
Title == "PacketID"

(* The cells of a row that are for a packet: its id, its state and its target; *)
(* a row may have more of them.                                                *)
PacketCells == 3

ASSUME GrabberAssumption ==
  /\ Text \notin Ids \cup States \cup Targets \cup {Title}
  /\ MaxTables \in Nat /\ MaxRows \in Nat /\ MaxCols \in Nat /\ MaxOdd \in Nat

VARIABLES
  phase,          \* what the script is doing
  expected,       \* the flags of MyHTMLParser.expected
  row_count, col_count, is_packet,
  packet,         \* self.packet, one object for all packets; text: its id is a str
  packet_list,
  names,          \* the names of the packets of packet_list
  at,             \* the packet whose name is made unique
  page,           \* where the page is, and what the open table says
  unused,         \* the headings that are still to come
  wanted,         \* history: what the tables of the page say
  odd             \* number of deviations so far

parserVars == <<expected, row_count, col_count, is_packet, packet, packet_list, names>>
pageVars   == <<page, unused, wanted, odd>>
vars       == <<phase, parserVars, at, pageVars>>

NoTable == [id |-> Text, state |-> Text, bound_to |-> Text]
Tables  == [id : Ids, state : States, bound_to : Targets]
Packets == [name : Headings \cup {Text}, id : Ids \cup {Text}, text : BOOLEAN,
            state : States \cup {Text}, bound_to : Targets \cup {Text}]
Pages   == [in : {"body", "h4", "h4_text", "table", "tr", "td", "td_text"},
            heading : Headings \cup {Text}, fresh : BOOLEAN, tables : Nat,
            table : Tables \cup {NoTable}, row : Nat, col : Nat]
Words   == {ShortName(h) : h \in Headings \cup {Text}} \cup Ids \cup States \cup Targets
           \cup {Text}

Expectations ==
  {{"H4_BEGIN"}, {"H4_DATA"}, {"H4_END"}, {"TABLE_BEGIN"}, {"ROW_BEGIN"}, {"COLUMN_BEGIN"},
   {"COLUMN_DATA"}, {"COLUMN_END"}, {"COLUMN_BEGIN", "ROW_END"}, {"ROW_BEGIN", "TABLE_END"}}

TypeOK ==
  /\ phase \in {"download", "unreachable", "feed", "unique", "done", "failed"}
  /\ expected \in Expectations
  /\ row_count \in Nat \cup {-1}
  /\ col_count \in Nat \cup {-1}
  /\ is_packet \in BOOLEAN
  /\ packet \in Packets
  /\ packet_list \in Seq(Packets)
  /\ names \in Seq(Seq(Words))
  /\ Len(names) = Len(packet_list)
  /\ at \in 1 .. Len(names) + 1
  /\ page \in Pages
  /\ unused \subseteq Headings
  /\ odd \in 0 .. MaxOdd

Init ==
  /\ phase = "download"
  /\ expected = {"H4_BEGIN"}
  /\ row_count = 0 /\ col_count = 0 /\ is_packet = FALSE
  /\ packet = [name |-> Text, id |-> Text, text |-> FALSE, state |-> Text, bound_to |-> Text]
  /\ packet_list = <<>> /\ names = <<>> /\ at = 1
  /\ page = [in |-> "body", heading |-> Text, fresh |-> FALSE, tables |-> 0,
             table |-> NoTable, row |-> 0, col |-> 0]
  /\ unused = Headings /\ wanted = <<>> /\ odd = 0

-------------------------------------------------------------------------------
(* The handlers of MyHTMLParser *)

handle_starttag(tag) ==
  /\ CASE "H4_BEGIN" \in expected /\ tag = "h4" ->
            expected' = {"H4_DATA"} /\ UNCHANGED <<row_count, col_count>>
       [] "TABLE_BEGIN" \in expected /\ tag = "table" ->
            expected' = {"ROW_BEGIN"} /\ row_count' = -1 /\ UNCHANGED col_count
       [] "ROW_BEGIN" \in expected /\ tag = "tr" ->
            expected' = {"COLUMN_BEGIN"} /\ row_count' = row_count + 1 /\ col_count' = -1
       [] "COLUMN_BEGIN" \in expected /\ tag = "td" ->
            expected' = {"COLUMN_DATA"} /\ col_count' = col_count + 1 /\ UNCHANGED row_count
       [] OTHER -> UNCHANGED <<expected, row_count, col_count>>
  /\ UNCHANGED <<phase, is_packet, packet, packet_list, names>>

(* Mutant of Cell: every row but the first one is the packet's. *)
CellAnyRow(row, col) == (row_count = 0 <=> row = 0) /\ col_count = col

Cell(row, col) == row_count = row /\ col_count = col

(* int() raises an exception when the text is not a number. *)
TakeCell(text) ==
  CASE is_packet /\ Cell(1, 0) ->
         /\ phase' = IF text \in Ids THEN phase ELSE "failed"
         /\ packet' = IF text \in Ids THEN [packet EXCEPT !.id = text, !.text = FALSE] ELSE packet
         /\ UNCHANGED is_packet
    [] is_packet /\ Cell(1, 1) ->
         /\ packet' = IF text \in States THEN [packet EXCEPT !.state = text] ELSE packet
         /\ UNCHANGED <<phase, is_packet>>
    [] is_packet /\ Cell(1, 2) ->
         /\ packet' = IF text \in Targets THEN [packet EXCEPT !.bound_to = text] ELSE packet
         /\ UNCHANGED <<phase, is_packet>>
    [] Cell(0, 0) -> is_packet' = (text = Title) /\ UNCHANGED <<phase, packet>>
    [] OTHER -> UNCHANGED <<phase, is_packet, packet>>

handle_data(text) ==
  /\ CASE "H4_DATA" \in expected ->
            /\ packet' = [packet EXCEPT !.name = text]
            /\ expected' = {"H4_END"}
            /\ UNCHANGED <<phase, is_packet>>
       [] "COLUMN_DATA" \in expected -> TakeCell(text) /\ expected' = {"COLUMN_END"}
       [] OTHER -> UNCHANGED <<phase, expected, is_packet, packet>>
  /\ UNCHANGED <<row_count, col_count, packet_list, names>>

(* hex() raises an exception when the id is the text of the packet before. *)
AddPacket ==
  IF packet.text
    THEN phase' = "failed" /\ UNCHANGED <<packet, packet_list, names>>
    ELSE /\ packet' = [packet EXCEPT !.text = TRUE]
         /\ packet_list' = Append(packet_list, packet)
         /\ names' = Append(names, <<ShortName(packet.name)>>)
         /\ UNCHANGED phase

(* Mutant of AfterTable: a heading may have another table. *)
AfterTableAnother == {"TABLE_BEGIN"}

AfterTable == {"H4_BEGIN"}

handle_endtag(tag) ==
  /\ expected' = CASE "H4_END" \in expected /\ tag = "h4"     -> {"TABLE_BEGIN"}
                   [] "COLUMN_END" \in expected /\ tag = "td" -> {"COLUMN_BEGIN", "ROW_END"}
                   [] "ROW_END" \in expected /\ tag = "tr"    -> {"ROW_BEGIN", "TABLE_END"}
                   [] "TABLE_END" \in expected /\ tag = "table" -> AfterTable
                   [] OTHER -> expected
  /\ IF "TABLE_END" \in expected /\ tag = "table" /\ is_packet
       THEN AddPacket
       ELSE UNCHANGED <<phase, packet, packet_list, names>>
  /\ UNCHANGED <<row_count, col_count, is_packet>>

-------------------------------------------------------------------------------
(* The page, whose tags and texts feed() hands to the handlers.  A regular     *)
(* page has a table after each heading; the first row of a packet's table says *)
(* the Title and the second one its id, state and target.                      *)

Feed(in) == phase = "feed" /\ page.in = in

Deviates(condition) ==
  /\ odd' = IF condition THEN odd + 1 ELSE odd
  /\ odd' <= MaxOdd

StartH4 ==
  /\ Feed("body")
  /\ \E h \in unused :
       /\ page' = [page EXCEPT !.in = "h4", !.heading = h, !.fresh = TRUE]
       /\ unused' = unused \ {h}
  /\ Deviates(page.fresh)
  /\ handle_starttag("h4")
  /\ UNCHANGED <<at, wanted>>

H4Text ==
  /\ Feed("h4")
  /\ page' = [page EXCEPT !.in = "h4_text"]
  /\ handle_data(page.heading)
  /\ UNCHANGED <<at, unused, wanted, odd>>

EndH4 ==
  /\ Feed("h4_text")
  /\ page' = [page EXCEPT !.in = "body"]
  /\ handle_endtag("h4")
  /\ UNCHANGED <<at, unused, wanted, odd>>

StartTable ==
  /\ Feed("body")
  /\ page.tables < MaxTables
  /\ \E table \in Tables \cup {NoTable} :
       page' = [page EXCEPT !.in = "table", !.table = table, !.row = 0, !.tables = @ + 1]
  /\ handle_starttag("table")
  /\ UNCHANGED <<at, unused, wanted, odd>>

StartRow ==
  /\ Feed("table")
  /\ page.row < MaxRows
  /\ page' = [page EXCEPT !.in = "tr", !.row = @ + 1, !.col = 0]
  /\ handle_starttag("tr")
  /\ UNCHANGED <<at, unused, wanted, odd>>

StartCell ==
  /\ Feed("tr")
  /\ page.col < MaxCols
  /\ page' = [page EXCEPT !.in = "td", !.col = @ + 1]
  /\ handle_starttag("td")
  /\ UNCHANGED <<at, unused, wanted, odd>>

CellSays ==
  CASE page.row = 1 /\ page.col = 1 /\ page.table # NoTable -> Title
    [] page.row = 2 /\ page.col = 1 -> page.table.id
    [] page.row = 2 /\ page.col = 2 -> page.table.state
    [] page.row = 2 /\ page.col = 3 -> page.table.bound_to
    [] OTHER -> Text

CellText ==
  /\ Feed("td")
  /\ page' = [page EXCEPT !.in = "td_text"]
  /\ \E text \in {CellSays, Text} : Deviates(text # CellSays) /\ handle_data(text)
  /\ UNCHANGED <<at, unused, wanted>>

EmptyCell ==
  /\ Feed("td")
  /\ page' = [page EXCEPT !.in = "td_text"]
  /\ Deviates(TRUE)
  /\ UNCHANGED <<phase, parserVars, at, unused, wanted>>

EndCell ==
  /\ Feed("td_text")
  /\ page' = [page EXCEPT !.in = "tr"]
  /\ handle_endtag("td")
  /\ UNCHANGED <<at, unused, wanted, odd>>

EndRow ==
  /\ Feed("tr")
  /\ page.col > 0
  /\ page' = [page EXCEPT !.in = "table"]
  /\ Deviates(page.row <= 2 /\ page.col < PacketCells)
  /\ handle_endtag("tr")
  /\ UNCHANGED <<at, unused, wanted>>

EndTable ==
  /\ Feed("table")
  /\ page.row > 0
  /\ page' = [page EXCEPT !.in = "body", !.fresh = FALSE]
  /\ Deviates(page.table # NoTable /\ page.row < 2)
  /\ wanted' = IF page.fresh /\ page.table # NoTable
                 THEN Append(wanted, [name |-> page.heading, id |-> page.table.id,
                                      text |-> FALSE, state |-> page.table.state,
                                      bound_to |-> page.table.bound_to])
                 ELSE wanted
  /\ handle_endtag("table")
  /\ UNCHANGED <<at, unused>>

(* Line breaks between tags, and the text of the page *)
Between ==
  /\ phase = "feed"
  /\ page.in \in {"body", "table", "tr"}
  /\ handle_data(Text)
  /\ UNCHANGED <<at, pageVars>>

-------------------------------------------------------------------------------
(* The script *)

Download ==
  /\ phase = "download"
  /\ phase' \in {"feed", "unreachable"}
  /\ UNCHANGED <<parserVars, at, pageVars>>

EndOfPage ==
  /\ Feed("body")
  /\ phase' = "unique"
  /\ UNCHANGED <<parserVars, at, pageVars>>

(* Mutant of SameName: two packets with the same state count as the same one. *)
SameNameState(n, S) ==
  {i \in S : n[i] = n[at] /\ packet_list[i].state # packet_list[at].state}

(* The packets of S that are other packets of the same name.  Packets are      *)
(* compared by their name, id, state and target.                               *)
SameName(n, S) ==
  {i \in S : n[i] = n[at] /\ \E field \in {"id", "state", "bound_to"} :
                               packet_list[i][field] # packet_list[at][field]}

(* If there are any, they and the packet itself get the field as a suffix. *)
Suffixed(n, S, field) ==
  [i \in DOMAIN n |-> IF S # {} /\ i \in S \cup {at}
                        THEN Append(n[i], packet_list[i][field]) ELSE n[i]]

(* Mutant of MakeUnique: the packet after this one is taken to be renamed. *)
MakeUniqueSkips ==
  /\ phase = "unique"
  /\ at <= Len(names)
  /\ at' = at + 2
  /\ UNCHANGED <<phase, parserVars, pageVars>>

MakeUnique ==
  /\ phase = "unique"
  /\ at <= Len(names)
  /\ LET byName  == SameName(names, DOMAIN names)
         stated  == Suffixed(names, byName, "state")
         byState == SameName(stated, byName)
     IN names' = Suffixed(stated, byState, "bound_to")
  /\ at' = at + 1
  /\ UNCHANGED <<phase, expected, row_count, col_count, is_packet, packet, packet_list, pageVars>>

WriteFile ==
  /\ phase = "unique"
  /\ at = Len(names) + 1
  /\ phase' = "done"
  /\ UNCHANGED <<parserVars, at, pageVars>>

Next ==
  \/ StartH4 \/ H4Text \/ EndH4 \/ StartTable \/ StartRow \/ StartCell
  \/ CellText \/ EmptyCell \/ EndCell \/ EndRow \/ EndTable \/ Between
  \/ Download \/ EndOfPage \/ MakeUnique \/ WriteFile

Spec == Init /\ [][Next]_vars

-------------------------------------------------------------------------------
(* From a page of the expected layout the parser extracts what the page says,  *)
(* packet by packet and field by field, although one object serves all packets *)
(* and nothing resets it, and it raises no exception (PacketIDGrabber.py:79).  *)
Extracted ==
  odd = 0 =>
    /\ phase # "failed"
    /\ page.in = "body" => packet_list = wanted

(* Whatever the page looks like, no heading gives its name to two packets: a   *)
(* missing or an additional table never repeats one (PacketIDGrabber.py:123).  *)
HeadingsOnce ==
  \A i, j \in DOMAIN packet_list : packet_list[i].name = packet_list[j].name => i = j

(* Packets of one short name can be told apart by state and target. *)
ToldApart ==
  \A i, j \in DOMAIN packet_list :
    /\ ShortName(packet_list[i].name) = ShortName(packet_list[j].name)
    /\ packet_list[i].state = packet_list[j].state
    /\ packet_list[i].bound_to = packet_list[j].bound_to
    => i = j

(* "make all packet names unique": the enumerators of the generated PacketID   *)
(* are pairwise different, for any number of packets of one name in any order  *)
(* (PacketIDGrabber.py:183-198).                                               *)
UniqueNames ==
  phase = "done" /\ ToldApart =>
    \A i, j \in DOMAIN names : names[i] = names[j] => i = j

-------------------------------------------------------------------------------
(* The inductive invariant behind HeadingsOnce and UniqueNames                 *)

(* The heading self.packet holds was given to no packet yet, from its text to  *)
(* the end of its table.                                                       *)
HeadingsTaken ==
  /\ \A i \in DOMAIN packet_list : packet_list[i].name \in Headings \ unused
  /\ "H4_DATA" \in expected => page.in = "h4"
  /\ page.in = "h4" =>
       /\ page.heading \in Headings \ unused
       /\ \A i \in DOMAIN packet_list : packet_list[i].name # page.heading
  /\ "H4_BEGIN" \notin expected /\ "H4_DATA" \notin expected =>
       /\ packet.name \in Headings \ unused
       /\ \A i \in DOMAIN packet_list : packet_list[i].name # packet.name

Prefix(s, t) == Len(s) <= Len(t) /\ \A k \in 1 .. Len(s) : s[k] = t[k]

PrefixFree(n) == \A i, j \in DOMAIN n : Prefix(n[i], n[j]) => n[i] = n[j]

(* Each name begins with the short name of its heading.  No name continues     *)
(* another, so no suffix makes a name meet one that is left alone; the names   *)
(* the loop is done with are unique, and stay so.                              *)
NamesMade ==
  /\ \A i \in DOMAIN names : names[i] # <<>> /\ names[i][1] = ShortName(packet_list[i].name)
  /\ phase \notin {"unique", "done"} => at = 1 /\ \A i \in DOMAIN names : Len(names[i]) = 1
  /\ ToldApart => PrefixFree(names)
  /\ ToldApart => \A i \in 1 .. at - 1 : \A j \in DOMAIN names : names[i] = names[j] => i = j
  /\ phase = "done" => at = Len(names) + 1

IInv == TypeOK /\ HeadingsOnce /\ HeadingsTaken /\ NamesMade

-------------------------------------------------------------------------------
(* The inductive invariant behind Extracted                                    *)

Row == page.row
Col == page.col

(* What the parser expects of a regular page: after the table of a heading it   *)
(* takes notice of nothing but the next heading.                                *)
Awaited ==
  IF ~page.fresh THEN {"H4_BEGIN"}
  ELSE CASE page.in = "h4"      -> {"H4_DATA"}
         [] page.in = "h4_text" -> {"H4_END"}
         [] page.in = "body"    -> {"TABLE_BEGIN"}
         [] page.in = "table"   -> IF Row = 0 THEN {"ROW_BEGIN"}
                                   ELSE {"ROW_BEGIN", "TABLE_END"}
         [] page.in = "tr"      -> IF Col = 0 THEN {"COLUMN_BEGIN"}
                                   ELSE {"COLUMN_BEGIN", "ROW_END"}
         [] page.in = "td"      -> {"COLUMN_DATA"}
         [] page.in = "td_text" -> {"COLUMN_END"}

(* The text of this cell has come. *)
Came(row, col) ==
  \/ Row > row
  \/ Row = row /\ Col > col
  \/ Row = row /\ Col = col /\ page.in # "td"

(* In the table of a heading the parser counts rows and columns as the page does *)
Counted ==
  /\ row_count = Row - 1
  /\ page.in \in {"tr", "td", "td_text"} => Row >= 1 /\ col_count = Col - 1
  /\ page.in \in {"td", "td_text"} => Col >= 1
  /\ page.in = "table" /\ Row \in {1, 2} => Col >= PacketCells

(* and has what the cells said, and of the packet before it nothing but the rest. *)
Taken ==
  /\ Came(1, 1) => (is_packet <=> page.table # NoTable)
  /\ page.table # NoTable =>
       /\ Came(2, 1) => packet.id = page.table.id /\ packet.text = FALSE
       /\ Came(2, 2) => packet.state = page.table.state
       /\ Came(2, 3) => packet.bound_to = page.table.bound_to

Regular ==
  /\ phase # "failed"
  /\ packet_list = wanted
  /\ expected = Awaited
  /\ page.in \in {"h4", "h4_text"} => page.fresh
  /\ page.fresh /\ page.in # "h4" => packet.name = page.heading
  /\ page.fresh /\ page.in \in {"table", "tr", "td", "td_text"} => Counted /\ Taken

Followed == odd = 0 => Regular
===============================================================================
