------------------------ MODULE ReceivingEndpoint_proof ------------------------
(***************************************************************************)
(* Proofs about ReceivingEndpoint, for every set of readers, every set of  *)
(* demands, every buffer size and every bound.                             *)
(***************************************************************************)
EXTENDS ReceivingEndpoint, StreamLemmas

-------------------------------------------------------------------------------
(* Type correctness. *)

LEMMA TypeInit == Init => TypeOK
<1> SUFFICES ASSUME Init PROVE TypeOK
  OBVIOUS
<1> DEFINE empty == <<>>
<1>1. empty \in Seq(Byte)
  BY EmptySeq
<1>2. /\ buffer = empty /\ chunk = empty /\ incoming = empty
      /\ received = empty /\ taken = empty
      /\ result = [r \in Readers |-> empty]
  BY DEF Init
<1>3. CallsTyped
  BY DEF Init, CallsTyped
<1> HIDE DEF empty
<1>4. /\ buffer \in Seq(Byte) /\ chunk \in Seq(Byte) /\ incoming \in Seq(Byte)
      /\ received \in Seq(Byte) /\ taken \in Seq(Byte)
      /\ result \in [Readers -> Seq(Byte)]
  BY <1>1, <1>2
<1> QED
  BY <1>3, <1>4 DEF Init, TypeOK

(* A notify_one only moves readers out of their sleep. *)
LEMMA NotifyType ==
  ASSUME NEW rs \in [Readers -> {"idle", "ready", "waiting", "notify"}],
         NotifyOne(rs)
  PROVE  /\ reader' \in [Readers -> {"idle", "ready", "waiting", "notify"}]
         /\ \A r \in Readers : reader'[r] # "idle" => rs[r] # "idle"
BY DEF NotifyOne

LEMMA CallsNext == TypeOK /\ [Next]_vars => CallsTyped'
<1> SUFFICES ASSUME TypeOK, [Next]_vars PROVE CallsTyped'
  OBVIOUS
<1>0. /\ CallsTyped
      /\ reader \in [Readers -> {"idle", "ready", "waiting", "notify"}]
  BY DEF TypeOK
<1> USE DEF CallsTyped, ownerVars, recvVars, callVars, netVars
<1>1. ASSUME NEW r \in Readers, NEW c \in Calls, ReaderCall(r, c)
      PROVE  CallsTyped'
  BY <1>0, <1>1 DEF ReaderCall
<1>2. CASE /\ UNCHANGED call
           /\ \A r \in Readers : reader'[r] # "idle" => reader[r] # "idle"
  BY <1>0, <1>2
<1>3. ASSUME NEW r \in Readers, ReaderStep(r) \/ ReaderSpurious(r)
      PROVE  CallsTyped'
  <2>1. CASE ReaderTake(r) \/ ReaderWait(r) \/ ReaderSpurious(r)
    BY <1>0, <1>2, <2>1 DEF ReaderTake, ReaderWait, ReaderSpurious
  <2>2. CASE ReaderNotify(r)
    <3>1. UNCHANGED call /\ [reader EXCEPT ![r] = "idle"]
                              \in [Readers -> {"idle", "ready", "waiting", "notify"}]
      BY <1>0, <2>2 DEF ReaderNotify
    <3>2. \A q \in Readers :
            reader'[q] # "idle" => [reader EXCEPT ![r] = "idle"][q] # "idle"
      BY <2>2, <3>1, NotifyType DEF ReaderNotify
    <3> QED BY <1>0, <1>2, <3>1, <3>2
  <2> QED BY <1>3, <2>1, <2>2 DEF ReaderStep
<1>4. CASE WorkerNotify \/ StopNotify
  BY <1>0, <1>2, <1>4, NotifyType DEF WorkerNotify, StopNotify
<1>5. CASE UNCHANGED <<call, reader>>
  BY <1>2, <1>5
<1> QED
  BY <1>1, <1>3, <1>4, <1>5
  DEF Next, WorkerStep, StopStep, vars, WorkerCheck, RecvEnter, RecvBytes,
      RecvNothing, RecvError, WorkerHandle, Start, StopSet, StopJoin, PeerSend,
      PeerLeaves, Disconnect

(* The count of a call in its critical section lies within the buffer. *)
LEMMA TakeBounds ==
  ASSUME TypeOK, NEW r \in Readers, ReaderTake(r)
  PROVE  call[r].n \in 0 .. Len(buffer) /\ Len(buffer) \in Nat
<1>1. call[r] \in Calls
  BY DEF TypeOK, CallsTyped, ReaderTake
<1>2. call[r].n \in Nat
  BY <1>1, ReceivingAssumption DEF Calls
<1>3. Len(buffer) \in Nat
  BY LenProperties DEF TypeOK
<1> QED BY <1>2, <1>3 DEF ReaderTake, Enough

LEMMA TakeType ==
  ASSUME TypeOK, NEW r \in Readers, ReaderTake(r)
  PROVE  /\ NextBytes(r) \in Seq(Byte)
         /\ taken \o NextBytes(r) \in Seq(Byte)
         /\ SubSeq(buffer, call[r].n + 1, Len(buffer)) \in Seq(Byte)
<1> DEFINE n == call[r].n
<1>1. n \in 0 .. Len(buffer)
  BY TakeBounds
<1>2. buffer \in Seq(Byte) /\ taken \in Seq(Byte)
  BY DEF TypeOK
<1> HIDE DEF n
<1>3. SubSeq(buffer, 1, n) \in Seq(Byte) /\ SubSeq(buffer, n + 1, Len(buffer)) \in Seq(Byte)
  BY <1>1, <1>2, HalvesType
<1>4. taken \o SubSeq(buffer, 1, n) \in Seq(Byte)
  BY <1>2, <1>3, ConcatProperties
<1> QED BY <1>3, <1>4 DEF NextBytes, n

LEMMA TypeNext == TypeOK /\ [Next]_vars => TypeOK'
<1> SUFFICES ASSUME TypeOK, [Next]_vars PROVE TypeOK'
  OBVIOUS
<1>0. CallsTyped'
  BY CallsNext
<1> USE ReceivingAssumption, <1>0
    DEF TypeOK, ownerVars, recvVars, callVars, netVars
<1>1. ASSUME NEW r \in Readers, NEW c \in Calls, ReaderCall(r, c) PROVE TypeOK'
  BY <1>1 DEF ReaderCall
<1>2. ASSUME NEW r \in Readers, ReaderTake(r) PROVE TypeOK'
  <2>1. buffer' \in Seq(Byte) /\ taken' \in Seq(Byte)
    BY <1>2, TakeType DEF ReaderTake
  <2>2. result' \in [Readers -> Seq(Byte)]
    BY <1>2, TakeType DEF ReaderTake
  <2> QED BY <1>2, <2>1, <2>2 DEF ReaderTake
<1>3. ASSUME NEW r \in Readers, ReaderWait(r) PROVE TypeOK'
  BY <1>3 DEF ReaderWait
<1>4. ASSUME NEW r \in Readers, ReaderSpurious(r) PROVE TypeOK'
  BY <1>4 DEF ReaderSpurious
<1>5. ASSUME NEW r \in Readers, ReaderNotify(r) PROVE TypeOK'
  <2>1. [reader EXCEPT ![r] = "idle"]
          \in [Readers -> {"idle", "ready", "waiting", "notify"}]
    OBVIOUS
  <2>2. reader' \in [Readers -> {"idle", "ready", "waiting", "notify"}]
    BY <1>5, <2>1, NotifyType DEF ReaderNotify
  <2> QED BY <1>5, <2>2 DEF ReaderNotify
<1>6. CASE WorkerCheck
  BY <1>6 DEF WorkerCheck
<1>7. <<>> \in Seq(Byte)
  BY EmptySeq
<1>8. CASE RecvEnter
  BY <1>7, <1>8 DEF RecvEnter
<1>9. ASSUME NEW n \in 1 .. Len(incoming), RecvBytes(n) PROVE TypeOK'
  <2>1. Len(incoming) \in Nat
    BY LenProperties
  <2>2. /\ SubSeq(incoming, 1, n) \in Seq(Byte)
        /\ SubSeq(incoming, n + 1, Len(incoming)) \in Seq(Byte)
    BY <2>1, PieceType
  <2>3. received \o SubSeq(incoming, 1, n) \in Seq(Byte)
    BY <2>2, ConcatProperties
  <2> QED BY <1>9, <2>2, <2>3 DEF RecvBytes
<1>10. CASE RecvNothing
  BY <1>7, <1>10 DEF RecvNothing
<1>11. CASE RecvError
  BY <1>7, <1>11 DEF RecvError
<1>12. CASE WorkerHandle
  <2>1. buffer \o chunk \in Seq(Byte)
    BY ConcatProperties
  <2>2. /\ buffer' \in Seq(Byte)
        /\ worker' \in {"got", "exited", "notify"}
        /\ process' \in {"running", "terminated"}
    BY <1>12, <2>1 DEF WorkerHandle
  <2> QED BY <1>12, <2>2 DEF WorkerHandle
<1>13. CASE WorkerNotify
  <2>1. reader' \in [Readers -> {"idle", "ready", "waiting", "notify"}]
    BY <1>13, NotifyType DEF WorkerNotify
  <2> QED BY <1>13, <2>1 DEF WorkerNotify
<1>14. CASE Start
  BY <1>14 DEF Start
<1>15. CASE StopSet
  BY <1>15 DEF StopSet
<1>16. CASE StopNotify
  <2>1. reader' \in [Readers -> {"idle", "ready", "waiting", "notify"}]
    BY <1>16, NotifyType DEF StopNotify
  <2> QED BY <1>16, <2>1 DEF StopNotify
<1>17. CASE StopJoin
  BY <1>17 DEF StopJoin
<1>18. ASSUME NEW b \in Byte, PeerSend(b) PROVE TypeOK'
  BY <1>18, AppendProperties DEF PeerSend
<1>19. CASE PeerLeaves
  <2>1. peer' \in {"finished", "reset"} /\ incoming' \in Seq(Byte)
    BY <1>7, <1>19 DEF PeerLeaves
  <2> QED BY <1>19, <2>1 DEF PeerLeaves
<1>20. CASE Disconnect
  <2>1. fd' \in {"shut", "closed"}
    BY <1>20 DEF Disconnect
  <2> QED BY <1>20, <2>1 DEF Disconnect
<1>21. CASE UNCHANGED vars
  BY <1>21 DEF vars
<1> QED
  BY <1>1, <1>2, <1>3, <1>4, <1>5, <1>6, <1>8, <1>9, <1>10, <1>11, <1>12, <1>13,
     <1>14, <1>15, <1>16, <1>17, <1>18, <1>19, <1>20, <1>21
  DEF Next, ReaderStep, WorkerStep, StopStep

(* Every variable keeps its type; in particular no pull ever asks the buffer  *)
(* for bytes beyond its end.                                                  *)
THEOREM TypeCorrect == Spec => []TypeOK
BY TypeInit, TypeNext, PTL DEF Spec

-------------------------------------------------------------------------------
(* Stream integrity. *)

(* Steps that leave the bytes where they are. *)
LEMMA StreamUnmoved ==
  ASSUME StreamIntegrity, UNCHANGED <<buffer, received, taken>>, InHand' = InHand
  PROVE  StreamIntegrity'
BY DEF StreamIntegrity

LEMMA StreamNext == IInv /\ [Next]_vars => StreamIntegrity'
<1> SUFFICES ASSUME IInv, [Next]_vars PROVE StreamIntegrity'
  OBVIOUS
<1> USE DEF ownerVars, recvVars, callVars, netVars
<1>0. TypeOK /\ StreamIntegrity /\ ErrorsExplained
  BY DEF IInv
<1>1. InHand \in Seq(Byte)
  <2>1. <<>> \in Seq(Byte)
    BY EmptySeq
  <2> QED BY <1>0, <2>1 DEF TypeOK, InHand
<1>2. ASSUME NEW r \in Readers, ReaderTake(r) PROVE StreamIntegrity'
  <2> DEFINE n == call[r].n
             head == SubSeq(buffer, 1, n)
             tail == SubSeq(buffer, n + 1, Len(buffer))
  <2>1. InHand' = InHand /\ received' = received
    BY <1>2 DEF ReaderTake, InHand
  <2>2. CASE UNCHANGED <<buffer, taken>>
    BY <1>0, <2>1, <2>2, StreamUnmoved
  <2>3. CASE buffer' = tail /\ taken' = taken \o head
    <3>1. n \in 0 .. Len(buffer) /\ Len(buffer) \in Nat
      BY <1>0, <1>2, TakeBounds
    <3>2. head \o tail = buffer
      BY <1>0, <3>1, CutAndJoin DEF TypeOK
    <3>3. head \in Seq(Byte) /\ tail \in Seq(Byte) /\ taken \in Seq(Byte)
      <4>1. buffer \in Seq(Byte) /\ taken \in Seq(Byte)
        BY <1>0 DEF TypeOK
      <4>2. /\ 1 \in Nat \ {0} /\ n + 1 \in Nat \ {0}
            /\ n \in 0 .. Len(buffer) /\ Len(buffer) \in 0 .. Len(buffer)
        BY <3>1
      <4> QED BY <4>1, <4>2, PieceType, Zenon
    <3> HIDE DEF head, tail
    <3>4. (taken \o head) \o tail = taken \o (head \o tail)
      <4>1. Regroups(taken, head, tail)
        BY <3>3, Regroup, Zenon
      <4> QED BY <4>1 DEF Regroups
    <3>5. taken' \o buffer' = taken \o buffer
      BY <2>3, <3>2, <3>4
    <3> QED BY <1>0, <2>1, <3>5 DEF StreamIntegrity
  <2> QED BY <1>2, <2>2, <2>3 DEF ReaderTake, NextBytes
<1>3. ASSUME NEW n \in 1 .. Len(incoming), RecvBytes(n) PROVE StreamIntegrity'
  <2>1. InHand = <<>> /\ InHand' = chunk' /\ received' = received \o chunk'
    BY <1>3 DEF RecvBytes, InHand
  <2>2. taken \o buffer \in Seq(Byte)
    BY <1>0, ConcatProperties DEF TypeOK
  <2>3. taken \o buffer = received
    BY <1>0, <2>1, <2>2, ConcatEmptySeq DEF StreamIntegrity
  <2> QED BY <1>3, <2>1, <2>3 DEF RecvBytes, StreamIntegrity
<1>4. CASE WorkerHandle
  <2>1. received' = received /\ taken' = taken /\ InHand = chunk
    BY <1>4 DEF WorkerHandle, InHand
  <2>2. CASE errno = "EBADF"
    <3>1. chunk = <<>> /\ InHand' = <<>> /\ buffer' = buffer
      BY <1>0, <1>4, <2>2 DEF WorkerHandle, ErrorsExplained, InHand
    <3> QED BY <1>0, <2>1, <3>1, StreamUnmoved
  <2>3. CASE errno = "ECONNRESET"
    <3>1. InHand' = InHand /\ buffer' = buffer
      BY <1>4, <2>3 DEF WorkerHandle, InHand
    <3> QED BY <1>0, <2>1, <3>1, StreamUnmoved
  <2>4. CASE errno = "ok"
    <3>1. InHand' = <<>> /\ buffer' = buffer \o chunk
      BY <1>4, <2>4 DEF WorkerHandle, InHand
    <3>2. taken \in Seq(Byte) /\ buffer \in Seq(Byte) /\ chunk \in Seq(Byte)
      BY <1>0 DEF TypeOK
    <3>3. taken \o buffer \o chunk = taken \o (buffer \o chunk)
      <4>1. Regroups(taken, buffer, chunk)
        BY <3>2, Regroup, Zenon
      <4> QED BY <4>1 DEF Regroups
    <3>4. taken \o (buffer \o chunk) \in Seq(Byte)
      BY <3>2, ConcatProperties
    <3>5. taken' \o buffer' \o InHand' = taken' \o buffer'
      BY <2>1, <3>1, <3>4, ConcatEmptySeq
    <3> QED BY <1>0, <2>1, <3>1, <3>3, <3>5 DEF StreamIntegrity
  <2> QED BY <1>0, <2>2, <2>3, <2>4 DEF TypeOK
<1>5. CASE RecvEnter \/ RecvNothing \/ RecvError
  <2>1. InHand = <<>> /\ InHand' = <<>>
    BY <1>5 DEF RecvEnter, RecvNothing, RecvError, InHand
  <2> QED
    BY <1>0, <1>5, <2>1, StreamUnmoved DEF RecvEnter, RecvNothing, RecvError
<1>6. CASE WorkerCheck \/ WorkerNotify
  <2>1. InHand = <<>> /\ InHand' = <<>>
    BY <1>6 DEF WorkerCheck, WorkerNotify, InHand
  <2> QED BY <1>0, <1>6, <2>1, StreamUnmoved DEF WorkerCheck, WorkerNotify
<1>7. CASE Start
  <2>1. InHand = <<>> /\ InHand' = <<>>
    BY <1>0, <1>7 DEF Start, InHand, TypeOK, IInv, NoThreadYet
  <2> QED BY <1>0, <1>7, <2>1, StreamUnmoved DEF Start
<1>8. CASE UNCHANGED <<buffer, worker, chunk, received, taken>>
  BY <1>0, <1>8, StreamUnmoved DEF InHand
<1> QED
  BY <1>2, <1>3, <1>4, <1>5, <1>6, <1>7, <1>8
  DEF Next, ReaderStep, WorkerStep, StopStep, vars, ReaderCall, ReaderWait,
      ReaderNotify, ReaderSpurious, StopSet, StopNotify, StopJoin, PeerSend,
      PeerLeaves, Disconnect

-------------------------------------------------------------------------------
(* Errors, termination and the life of the worker. *)

LEMMA ErrorsNext ==
  IInv /\ [Next]_vars => ErrorsExplained' /\ TerminatedOnlyByReset' /\ NoThreadYet'
<1> SUFFICES ASSUME IInv, [Next]_vars
             PROVE  ErrorsExplained' /\ TerminatedOnlyByReset' /\ NoThreadYet'
  OBVIOUS
<1> DEFINE Goal == ErrorsExplained /\ TerminatedOnlyByReset /\ NoThreadYet
<1> USE DEF IInv, ErrorsExplained, TerminatedOnlyByReset, NoThreadYet, ownerVars,
            recvVars, callVars, netVars
<1>1. CASE WorkerCheck \/ WorkerNotify
  BY <1>1 DEF WorkerCheck, WorkerNotify
<1>2. CASE RecvEnter
  BY <1>2 DEF RecvEnter
<1>3. ASSUME NEW n \in 1 .. Len(incoming), RecvBytes(n) PROVE Goal'
  BY <1>3 DEF RecvBytes
<1>4. CASE RecvNothing \/ RecvError
  BY <1>4 DEF RecvNothing, RecvError
<1>5. CASE WorkerHandle
  BY <1>5 DEF WorkerHandle
<1>6. CASE Start \/ StopSet \/ StopNotify \/ StopJoin
  BY <1>6 DEF Start, StopSet, StopNotify, StopJoin
<1>7. CASE PeerLeaves
  BY <1>7 DEF PeerLeaves
<1>8. CASE UNCHANGED <<owner, worker, chunk, errno, process, peer>>
  BY <1>8
<1> QED
  BY <1>1, <1>2, <1>3, <1>4, <1>5, <1>6, <1>7, <1>8
  DEF Next, ReaderStep, WorkerStep, StopStep, vars, ReaderCall, ReaderTake,
      ReaderWait, ReaderNotify, ReaderSpurious, PeerSend, Disconnect

LEMMA InvCorrect == Spec => []IInv
<1>1. Init => IInv
  <2> SUFFICES ASSUME Init PROVE IInv
    OBVIOUS
  <2>1. <<>> \o <<>> \o <<>> = <<>>
    BY EmptySeq, ConcatEmptySeq
  <2>2. StreamIntegrity
    BY <2>1 DEF Init, StreamIntegrity, InHand
  <2>3. ErrorsExplained /\ TerminatedOnlyByReset /\ NoThreadYet
    BY DEF Init, ErrorsExplained, TerminatedOnlyByReset, NoThreadYet
  <2> QED BY <2>2, <2>3, TypeInit DEF IInv
<1>2. IInv /\ [Next]_vars => IInv'
  BY TypeNext, StreamNext, ErrorsNext DEF IInv
<1> QED BY <1>1, <1>2, PTL DEF Spec

(* No byte is lost, repeated or reordered between recv() and the readers.     *)
THEOREM StreamCorrect == Spec => []StreamIntegrity
<1>1. IInv => StreamIntegrity
  BY DEF IInv
<1> QED BY <1>1, InvCorrect, PTL

(* The insertion of a range of length -1 needs a reset by the peer. *)
THEOREM TerminationCorrect == Spec => []TerminatedOnlyByReset
<1>1. IInv => TerminatedOnlyByReset
  BY DEF IInv
<1> QED BY <1>1, InvCorrect, PTL

-------------------------------------------------------------------------------
(* Refinement: the critical section of a call is the abstract call, recv() is *)
(* the abstract arrival, and every other step leaves the abstract state alone.*)

LEMMA RefineNext == IInv /\ [Next]_vars => [Source!Next]_(Source!vars)
<1> SUFFICES ASSUME IInv, [Next]_vars PROVE [Source!Next]_(Source!vars)
  OBVIOUS
<1> USE DEF ownerVars, recvVars, callVars, netVars, Source!vars
<1>0. TypeOK /\ StreamIntegrity
  BY DEF IInv
<1>1. InHand \in Seq(Byte)
  <2>1. <<>> \in Seq(Byte)
    BY EmptySeq
  <2> QED BY <1>0, <2>1 DEF TypeOK, InHand
<1>2. ASSUME NEW r \in Readers, ReaderTake(r) PROVE Source!Next
  <2> DEFINE n == call[r].n
             later == buffer \o InHand
  <2>1. n \in 0 .. Len(buffer) /\ Len(buffer) \in Nat
    BY <1>0, <1>2, TakeBounds
  <2>2. call[r] \in Calls /\ n \in Demands
    BY <1>0, <1>2 DEF TypeOK, CallsTyped, ReaderTake, Calls
  <2>3. /\ taken \in Seq(Byte) /\ buffer \in Seq(Byte) /\ InHand \in Seq(Byte)
        /\ Len(taken) \in Nat /\ Len(InHand) \in Nat
    BY <1>0, <1>1, LenProperties DEF TypeOK
  <2>4. later \in Seq(Byte) /\ Len(later) = Len(buffer) + Len(InHand)
    BY <2>3, ConcatProperties
  <2>5. received = taken \o later
    <3>1. taken \o buffer \o InHand = taken \o (buffer \o InHand)
      <4>1. Regroups(taken, buffer, InHand)
        BY <2>3, Regroup, Zenon
      <4> QED BY <4>1 DEF Regroups
    <3> QED BY <1>0, <3>1 DEF StreamIntegrity
  <2>6. n \in 0 .. Len(later)
    BY <2>1, <2>3, <2>4
  <2>7. SubSeq(later, 1, n) = SubSeq(buffer, 1, n)
    BY <2>1, <2>3, FirstOfConcat
  <2> HIDE DEF later
  <2>8. SubSeq(taken \o later, Len(taken) + 1, Len(taken) + n) = SubSeq(later, 1, n)
    BY <2>3, <2>4, <2>6, PieceOfConcat
  <2>9. Source!NextBytes(n) = NextBytes(r)
    BY <2>5, <2>7, <2>8 DEF Source!NextBytes, NextBytes
  <2>10. Len(taken) + n <= Len(received)
    <3>1. Len(taken \o later) = Len(taken) + Len(later)
      BY <2>3, <2>4, ConcatProperties
    <3> QED BY <2>3, <2>4, <2>5, <2>6, <3>1
  <2>11. Source!PullBytes(r, n) \/ Source!ReadBytes(r, n)
    BY <1>2, <2>9, <2>10 DEF ReaderTake, Source!PullBytes, Source!ReadBytes
  <2> QED BY <2>2, <2>11 DEF Source!Next
<1>3. ASSUME NEW n \in 1 .. Len(incoming), RecvBytes(n) PROVE Source!Next
  <2> DEFINE c == SubSeq(incoming, 1, n)
  <2>1. Len(incoming) \in Nat
    BY <1>0, LenProperties DEF TypeOK
  <2>2. c \in Seq(Byte) /\ Len(c) = n /\ received \in Seq(Byte)
    BY <1>0, <2>1, PieceType DEF TypeOK
  <2> HIDE DEF c
  <2>3. Len(received \o c) = Len(received) + n /\ Len(received) \in Nat
    BY <2>2, ConcatProperties, LenProperties
  <2>4. SubSeq(received \o c, 1, Len(received)) = received
    BY <2>2, PrefixOfConcat
  <2>5. received' = received \o c /\ UNCHANGED <<taken, result>>
    BY <1>3 DEF RecvBytes, c
  <2>6. Source!Arrive
    BY <2>1, <2>3, <2>4, <2>5 DEF Source!Arrive
  <2> QED BY <2>6 DEF Source!Next
<1>4. CASE UNCHANGED <<received, taken, result>>
  BY <1>4
<1> QED
  BY <1>2, <1>3, <1>4
  DEF Next, ReaderStep, WorkerStep, StopStep, vars, ReaderCall, ReaderWait,
      ReaderNotify, ReaderSpurious, WorkerCheck, RecvEnter, RecvNothing,
      RecvError, WorkerHandle, WorkerNotify, Start, StopSet, StopNotify,
      StopJoin, PeerSend, PeerLeaves, Disconnect

(* ReceivingConnectionEndpoint implements DataSource: every call returns the  *)
(* next bytes of the stream as they stood at one moment during the call.      *)
THEOREM SourceRefinement == Spec => SourceSpec
<1>1. Init => Source!Init
  BY DEF Init, Source!Init
<1> QED BY <1>1, RefineNext, InvCorrect, PTL DEF Spec, SourceSpec, Source!Spec

-------------------------------------------------------------------------------
(* Wakeups among readers that share one condition variable. *)

(* After a notify_one a reader is awake, or none was asleep. *)
LEMMA NotifyWakes ==
  ASSUME NEW rs \in [Readers -> {"idle", "ready", "waiting", "notify"}],
         NotifyOne(rs)
  PROVE  \/ \A r \in Readers : reader'[r] # "waiting"
         \/ \E q \in Readers : reader'[q] = "ready"
BY DEF NotifyOne

LEMMA StandstillNext ==
  ASSUME IInv, NoStandstill, [Next]_vars
  PROVE  NoStandstill'
<1> USE DEF ownerVars, recvVars, callVars, netVars
<1>1. reader \in [Readers -> {"idle", "ready", "waiting", "notify"}]
  BY DEF IInv, TypeOK
<1>2. ASSUME NEW r \in Readers, reader'[r] \in {"ready", "notify"}
      PROVE  NoStandstill'
  BY <1>2 DEF NoStandstill
<1>3. ASSUME NEW r \in Readers, NEW c \in Calls, ReaderCall(r, c)
      PROVE  NoStandstill'
  <2>1. reader'[r] = "ready"
    BY <1>1, <1>3 DEF ReaderCall
  <2> QED BY <1>2, <2>1
<1>4. ASSUME NEW r \in Readers, ReaderTake(r) PROVE NoStandstill'
  <2>1. reader'[r] = "notify"
    BY <1>1, <1>4 DEF ReaderTake
  <2> QED BY <1>2, <2>1
<1>5. ASSUME NEW r \in Readers, ReaderWait(r) PROVE NoStandstill'
  <2>1. reader'[r] = "waiting" /\ ~Enough(r)'
    BY <1>1, <1>5 DEF ReaderWait, Enough
  <2> QED BY <2>1 DEF NoStandstill
<1>6. ASSUME NEW r \in Readers, ReaderSpurious(r) PROVE NoStandstill'
  <2>1. reader'[r] = "ready"
    BY <1>1, <1>6 DEF ReaderSpurious
  <2> QED BY <1>2, <2>1
<1>7. ASSUME NEW rs \in [Readers -> {"idle", "ready", "waiting", "notify"}],
             NotifyOne(rs)
      PROVE  NoStandstill'
  BY <1>7, NotifyWakes DEF NoStandstill
<1>8. ASSUME NEW r \in Readers, ReaderNotify(r) PROVE NoStandstill'
  <2>1. [reader EXCEPT ![r] = "idle"]
          \in [Readers -> {"idle", "ready", "waiting", "notify"}]
    BY <1>1
  <2> QED BY <1>7, <1>8, <2>1 DEF ReaderNotify
<1>9. CASE WorkerNotify \/ StopNotify
  BY <1>1, <1>7, <1>9 DEF WorkerNotify, StopNotify
<1>10. CASE WorkerHandle
  <2>1. worker' = "notify" \/ UNCHANGED buffer
    BY <1>10 DEF WorkerHandle
  <2>2. worker # "notify" /\ UNCHANGED <<reader, call>>
    BY <1>10 DEF WorkerHandle
  <2> QED BY <2>1, <2>2 DEF NoStandstill, Enough
<1>11. CASE UNCHANGED <<buffer, reader, call>> /\ worker # "notify"
  BY <1>11 DEF NoStandstill, Enough
<1>12. CASE UNCHANGED <<buffer, reader, call, worker>>
  BY <1>12 DEF NoStandstill, Enough
<1>13. CASE Start
  BY <1>11, <1>13 DEF Start, IInv, NoThreadYet
<1> QED
  BY <1>3, <1>4, <1>5, <1>6, <1>8, <1>9, <1>10, <1>11, <1>12, <1>13
  DEF Next, ReaderStep, WorkerStep, StopStep, vars, WorkerCheck, RecvEnter,
      RecvBytes, RecvNothing, RecvError, StopSet, StopJoin, PeerSend,
      PeerLeaves, Disconnect

(* Readers never all sleep on bytes that would do for each of them while      *)
(* nobody is left to notify, whatever numbers of bytes they ask for, however  *)
(* many they are and in whatever order they wake up.                          *)
THEOREM StandstillCorrect == Spec => []NoStandstill
<1>1. Init => NoStandstill
  BY DEF Init, NoStandstill
<1>2. IInv /\ NoStandstill /\ [Next]_vars => NoStandstill'
  BY StandstillNext
<1> QED BY <1>1, <1>2, InvCorrect, PTL DEF Spec

(* When all readers ask for equally many bytes, no one of them sleeps on      *)
(* bytes it could have while everybody else is idle or asleep: what is enough *)
(* for one sleeper is enough for all.                                         *)
THEOREM BatonCorrect ==
  ASSUME NEW d, Demands = {d}
  PROVE  Spec => []BatonHeld
<1>1. ASSUME IInv, NoStandstill PROVE BatonHeld
  <2>1. \A r \in Readers : reader[r] = "waiting" => call[r].n = d
    BY <1>1 DEF IInv, TypeOK, CallsTyped, Calls
  <2>2. \A r, q \in Readers : reader[r] = "waiting" /\ reader[q] = "waiting" /\ Enough(r)
                              => Enough(q)
    BY <2>1 DEF Enough
  <2> QED BY <1>1, <2>2 DEF NoStandstill, BatonHeld
<1> QED BY <1>1, InvCorrect, StandstillCorrect, PTL
===============================================================================
