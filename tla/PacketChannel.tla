----------------------------- MODULE PacketChannel -----------------------------
(***************************************************************************)
(* What a user of the library gets from PacketCoder over a DataSink and a  *)
(* DataSource: the packets one side encodes come out of the packet loop of *)
(* the other side one by one, in order, none twice.  There are no bytes    *)
(* here, no lengths and no fields.  PacketStream refines this module.      *)
(***************************************************************************)
EXTENDS Integers, Sequences

CONSTANT Message   \* what a reader may see of a packet

VARIABLES
  sent,   \* the packets that were encoded, as the reader should see them
  got     \* the packets that came out of the loop

Init ==
  /\ sent = <<>>
  /\ got = <<>>

Send(m) ==
  /\ sent' = Append(sent, m)
  /\ UNCHANGED got

Receive ==
  /\ Len(got) < Len(sent)
  /\ got' = Append(got, sent[Len(got) + 1])
  /\ UNCHANGED sent

Next == (\E m \in Message : Send(m)) \/ Receive

Spec == Init /\ [][Next]_<<sent, got>>
===============================================================================
