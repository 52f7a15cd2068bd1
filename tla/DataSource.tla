------------------------------ MODULE DataSource ------------------------------
(***************************************************************************)
(* What a DataSource promises its readers (DataSource.hpp): pullBytes      *)
(* returns the next bytes of the stream and removes them, readBytes        *)
(* returns the same bytes and leaves them, whoever else reads meanwhile.   *)
(* ReceivingEndpoint refines this module.                                  *)
(***************************************************************************)
EXTENDS Integers, Sequences

CONSTANTS
  Readers,    \* the threads that pull and read
  Demands     \* the numbers of bytes they ask for

VARIABLES
  arrived,    \* every byte that has come in
  taken,      \* the bytes that have been pulled
  result      \* what the last call of each reader returned

vars == <<arrived, taken, result>>

Init ==
  /\ arrived = <<>>
  /\ taken = <<>>
  /\ result = [r \in Readers |-> <<>>]

NextBytes(n) == SubSeq(arrived, Len(taken) + 1, Len(taken) + n)

Arrive ==
  /\ Len(arrived) < Len(arrived')
  /\ SubSeq(arrived', 1, Len(arrived)) = arrived
  /\ UNCHANGED <<taken, result>>

PullBytes(r, n) ==
  /\ Len(taken) + n <= Len(arrived)
  /\ result' = [result EXCEPT ![r] = NextBytes(n)]
  /\ taken' = taken \o NextBytes(n)
  /\ UNCHANGED arrived

ReadBytes(r, n) ==
  /\ Len(taken) + n <= Len(arrived)
  /\ result' = [result EXCEPT ![r] = NextBytes(n)]
  /\ UNCHANGED <<arrived, taken>>

Next ==
  \/ Arrive
  \/ \E r \in Readers, n \in Demands : PullBytes(r, n) \/ ReadBytes(r, n)

Spec == Init /\ [][Next]_vars
===============================================================================
