------------------------------- MODULE Responder -------------------------------
(***************************************************************************)
(* What a client promises its server: the questions are worked off in      *)
(* their order, each is answered once and with what answers it, and        *)
(* commands of its own come between the answers but never within them.     *)
(***************************************************************************)
EXTENDS Integers, Sequences

CONSTANTS
  Questions,     \* what the server sends
  Commands,      \* what the client sends unasked
  Answers(_)     \* the sequence that answers a question

VARIABLES
  inbox,         \* questions that were not worked off yet
  output         \* everything the client sent

vars == <<inbox, output>>

Init ==
  /\ inbox = <<>>
  /\ output = <<>>

(* s became longer by one element of S *)
Grows(s, S) ==
  /\ Len(s') = Len(s) + 1
  /\ s'[Len(s')] \in S
  /\ s' = Append(s, s'[Len(s')])

Ask ==
  /\ Grows(inbox, Questions)
  /\ UNCHANGED output

Answer ==
  /\ inbox # <<>>
  /\ output' = output \o Answers(Head(inbox))
  /\ inbox' = Tail(inbox)

Command ==
  /\ Grows(output, Commands)
  /\ UNCHANGED inbox

Next == Ask \/ Answer \/ Command

Spec == Init /\ [][Next]_vars
===============================================================================
