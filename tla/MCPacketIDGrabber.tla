---------------------------- MODULE MCPacketIDGrabber --------------------------
(* Small instance of PacketIDGrabber for TLC: headings that shorten to the    *)
(* same name, so that up to three packets share it, and one that does not;    *)
(* two values for each field.                                                 *)
EXTENDS PacketIDGrabber, TLC

CONSTANTS
  Shared,      \* the headings of one short name
  Single       \* a heading with a short name of its own

MCHeadings == Shared \cup {Single}
MCShortName(heading) == IF heading = Single THEN "B" ELSE "A"

(* The headings of one name are alike, and so are the ids. *)
MCSymmetry == Permutations(Shared) \cup Permutations(Ids)
===============================================================================
