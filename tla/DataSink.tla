------------------------------- MODULE DataSink -------------------------------
(***************************************************************************)
(* What a DataSink promises its callers: bytes leave it in the order in    *)
(* which they were pushed, each exactly once, and the bytes of one         *)
(* pushBytes call stay together.  DataSink.hpp states the interface; the   *)
(* class that implements it over a socket is SendingConnectionEndpoint,    *)
(* whose module refines this one.                                          *)
(***************************************************************************)
EXTENDS Integers, Sequences

CONSTANTS
  Byte,       \* the values of a byte
  Packets     \* the byte sequences that callers push

VARIABLES
  stream,     \* every byte pushed so far, in the order of the calls
  sent        \* the bytes that have left the sink

vars == <<stream, sent>>

Init ==
  /\ stream = <<>>
  /\ sent = <<>>

(* One call of pushBytes, or of pushByte for a packet of length 1. *)
PushBytes(packet) ==
  /\ stream' = stream \o packet
  /\ UNCHANGED sent

(* The sink hands the next n bytes on to whatever is behind it. *)
Forward(n) ==
  /\ Len(sent) + n <= Len(stream)
  /\ sent' = SubSeq(stream, 1, Len(sent) + n)
  /\ UNCHANGED stream

Next ==
  \/ \E packet \in Packets : PushBytes(packet)
  \/ \E n \in 1 .. (Len(stream) - Len(sent)) : Forward(n)

Spec == Init /\ [][Next]_vars
===============================================================================
