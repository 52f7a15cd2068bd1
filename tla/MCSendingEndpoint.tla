--------------------------- MODULE MCSendingEndpoint ---------------------------
(* Small instances of SendingEndpoint for TLC. *)
EXTENDS SendingEndpoint

MCByte == {1, 2}

(* A packet longer than the intermediate buffer, which would be visibly torn   *)
(* if an insertion came between its bytes, and a single pushByte.              *)
MCPackets == {<<1, 1, 1>>, <<2>>}

MCShortPackets == {<<1, 1>>, <<2>>}
===============================================================================
