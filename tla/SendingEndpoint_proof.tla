------------------------- MODULE SendingEndpoint_proof -------------------------
(***************************************************************************)
(* Proofs about SendingEndpoint, for every set of producers, every set of  *)
(* packets, every buffer size and every bound.                             *)
(***************************************************************************)
EXTENDS SendingEndpoint, StreamLemmas


-------------------------------------------------------------------------------
(* Type correctness. *)

LEMMA TypeInit == Init => TypeOK
<1> SUFFICES ASSUME Init PROVE TypeOK
  OBVIOUS
<1> DEFINE empty == <<>>
<1>1. empty \in Seq(Byte)
  BY EmptySeq
<1>2. /\ buffer = empty /\ chunk = empty /\ wire = empty /\ stream = empty
      /\ rest = [p \in Producers |-> empty]
  BY DEF Init
<1> HIDE DEF empty
<1>3. /\ buffer \in Seq(Byte) /\ chunk \in Seq(Byte) /\ wire \in Seq(Byte)
      /\ stream \in Seq(Byte) /\ rest \in [Producers -> Seq(Byte)]
  BY <1>1, <1>2
<1> QED
  BY <1>3 DEF Init, TypeOK, OwnerStates, WorkerStates, ProducerStates

LEMMA TypeNext == TypeOK /\ [Next]_vars => TypeOK'
<1> SUFFICES ASSUME TypeOK, [Next]_vars PROVE TypeOK'
  OBVIOUS
<1> USE DEF TypeOK, OwnerStates, WorkerStates, ProducerStates, ownerVars,
            workerData, producerVars, netVars
<1>1. ASSUME NEW p \in Producers, NEW packet \in Packets, PushCall(p, packet)
      PROVE  TypeOK'
  BY <1>1, SendingAssumption DEF PushCall
<1>2. ASSUME NEW p \in Producers, PushLock(p) PROVE TypeOK'
  BY <1>2, ConcatProperties DEF PushLock
<1>3. ASSUME NEW p \in Producers, PushInsert(p) PROVE TypeOK'
  <2>1. Head(rest[p]) \in Byte /\ Tail(rest[p]) \in Seq(Byte)
    BY <1>3, HeadTailProperties DEF PushInsert
  <2>2. buffer' \in Seq(Byte)
    BY <1>3, <2>1, AppendProperties DEF PushInsert
  <2> QED BY <1>3, <2>1, <2>2 DEF PushInsert
<1>4. ASSUME NEW p \in Producers, PushUnlock(p) PROVE TypeOK'
  BY <1>4 DEF PushUnlock
<1>5. ASSUME NEW p \in Producers, PushNotify(p) PROVE TypeOK'
  BY <1>5 DEF PushNotify, NotifyOne
<1>6. ASSUME WorkerLock \/ WorkerCheck \/ WorkerPredicate \/ WorkerBlock
             \/ WorkerReacquire \/ WorkerSpurious
      PROVE  TypeOK'
  <2>1. CASE WorkerLock \/ WorkerReacquire \/ WorkerSpurious
    BY <2>1 DEF WorkerLock, WorkerReacquire, WorkerSpurious
  <2>2. CASE WorkerCheck \/ WorkerPredicate \/ WorkerBlock
    BY <2>2 DEF WorkerCheck, WorkerExit, WorkerPredicate, WorkerBlock
  <2> QED BY <1>6, <2>1, <2>2
<1>7. CASE WorkerCopy
  <2>1. AvailableBytes \in 0 .. Len(buffer)
    BY SendingAssumption, LenProperties DEF AvailableBytes
  <2>2. SubSeq(buffer, 1, AvailableBytes) \in Seq(Byte)
    BY <2>1, PieceType
  <2> QED BY <1>7, <2>2 DEF WorkerCopy, WorkerExit
<1>8. ASSUME NEW n \in 1 .. Len(chunk), WorkerSend(n) PROVE TypeOK'
  <2>1. Len(chunk) \in Nat
    BY LenProperties
  <2>2. SubSeq(chunk, 1, n) \in Seq(Byte)
    BY <2>1, PieceType
  <2>3. wire' \in Seq(Byte)
    BY <1>8, <2>2, ConcatProperties DEF WorkerSend
  <2> QED BY <1>8, <2>1, <2>3 DEF WorkerSend
<1>9. CASE WorkerErase
  <2>1. Len(buffer) \in Nat
    BY LenProperties
  <2>2. SubSeq(buffer, sentBytes + 1, Len(buffer)) \in Seq(Byte)
    BY <2>1, PieceType
  <2> QED BY <1>9, <2>2 DEF WorkerErase
<1>10. CASE WorkerCallback \/ WorkerSendEnter
        \/ WorkerSendError \/ WorkerSigPipe
  BY <1>10 DEF WorkerCallback, WorkerSendEnter,
     WorkerSendError, WorkerSigPipe
<1>11. CASE Start \/ StopSet \/ StopNotify \/ StopJoin
  BY <1>11 DEF Start, StopSet, StopNotify, StopJoin, NotifyOne
<1>12. CASE PeerRead \/ SocketFails
  BY <1>12, LenProperties DEF PeerRead, SocketFails
<1>13. CASE UNCHANGED vars
  BY <1>13 DEF vars
<1> QED
  BY <1>1, <1>2, <1>3, <1>4, <1>5, <1>6, <1>7, <1>8, <1>9, <1>10, <1>11, <1>12,
     <1>13 DEF Next, Push, WorkerStep, StopStep

(* Every variable keeps its type, so no send() result other than a byte count *)
(* ever reaches buffer.erase.                                                 *)
THEOREM TypeCorrect == Spec => []TypeOK
BY TypeInit, TypeNext, PTL DEF Spec

-------------------------------------------------------------------------------
(* The inductive invariant, one lemma per part.  Each assumes IInv before the *)
(* step and shows its part after the step.                                    *)

LEMMA MutexNext == IInv /\ [Next]_vars => MutexDiscipline'
<1> SUFFICES ASSUME IInv, [Next]_vars PROVE MutexDiscipline'
  OBVIOUS
<1> USE SendingAssumption
    DEF IInv, TypeOK, MutexDiscipline, HoldingStates, WorkerStates,
        ProducerStates, ownerVars, workerData, producerVars, netVars
<1>1. ASSUME NEW p \in Producers, NEW packet \in Packets, PushCall(p, packet)
      PROVE  MutexDiscipline'
  BY <1>1 DEF PushCall
<1>2. ASSUME NEW p \in Producers, PushLock(p) PROVE MutexDiscipline'
  BY <1>2 DEF PushLock
<1>3. ASSUME NEW p \in Producers, PushInsert(p) PROVE MutexDiscipline'
  BY <1>3 DEF PushInsert
<1>4. ASSUME NEW p \in Producers, PushUnlock(p) PROVE MutexDiscipline'
  BY <1>4 DEF PushUnlock
<1>5. ASSUME NEW p \in Producers, PushNotify(p) PROVE MutexDiscipline'
  BY <1>5 DEF PushNotify, NotifyOne
<1>6. CASE WorkerLock \/ WorkerReacquire
  BY <1>6 DEF WorkerLock, WorkerReacquire
<1>7. CASE WorkerCheck \/ WorkerCopy
  BY <1>7 DEF WorkerCheck, WorkerCopy, WorkerExit
<1>8. CASE WorkerPredicate \/ WorkerBlock \/ WorkerSpurious
  BY <1>8 DEF WorkerPredicate, WorkerBlock, WorkerSpurious
<1>9. CASE WorkerErase \/ WorkerCallback \/ WorkerSendEnter
        \/ WorkerSendError \/ WorkerSigPipe
  BY <1>9 DEF WorkerErase, WorkerCallback, WorkerSendEnter,
     WorkerSendError, WorkerSigPipe
<1>10. ASSUME NEW n \in 1 .. Len(chunk), WorkerSend(n) PROVE MutexDiscipline'
  BY <1>10 DEF WorkerSend
<1>11. CASE Start
  BY <1>11 DEF Start, LifeCycle
<1>12. CASE StopSet \/ StopNotify \/ StopJoin
  BY <1>12 DEF StopSet, StopNotify, StopJoin, NotifyOne
<1>13. CASE PeerRead \/ SocketFails \/ UNCHANGED vars
  BY <1>13 DEF PeerRead, SocketFails, vars
<1> QED
  BY <1>1, <1>2, <1>3, <1>4, <1>5, <1>6, <1>7, <1>8, <1>9, <1>10, <1>11, <1>12,
     <1>13 DEF Next, Push, WorkerStep, StopStep

LEMMA KnowledgeNext == IInv /\ [Next]_vars => WorkerKnowledge'
<1> SUFFICES ASSUME IInv, [Next]_vars PROVE WorkerKnowledge'
  OBVIOUS
<1> USE SendingAssumption
    DEF IInv, TypeOK, MutexDiscipline, WorkerKnowledge, HoldingStates,
        ownerVars, workerData, producerVars, netVars
<1>1. ASSUME NEW p \in Producers, NEW packet \in Packets, PushCall(p, packet)
      PROVE  WorkerKnowledge'
  BY <1>1 DEF PushCall
<1>2. ASSUME NEW p \in Producers, PushLock(p) \/ PushUnlock(p) \/ PushNotify(p)
      PROVE  WorkerKnowledge'
  BY <1>2 DEF PushLock, PushUnlock, PushNotify, NotifyOne
<1>3. ASSUME NEW p \in Producers, PushInsert(p) PROVE WorkerKnowledge'
  <2>1. worker \notin HoldingStates /\ worker' = worker
    BY <1>3 DEF PushInsert
  <2> QED BY <2>1
<1>4. CASE WorkerLock \/ WorkerCheck \/ WorkerReacquire \/ WorkerSpurious
  BY <1>4 DEF WorkerLock, WorkerCheck, WorkerExit, WorkerReacquire, WorkerSpurious
<1>5. CASE WorkerPredicate \/ WorkerBlock
  BY <1>5 DEF WorkerPredicate, WorkerBlock
<1>6. CASE WorkerCopy
  <2>1. CASE WorkerExit
    BY <1>6, <2>1 DEF WorkerCopy, WorkerExit
  <2>2. CASE ~WorkerExit
    <3>1. /\ chunk' = SubSeq(buffer, 1, AvailableBytes)
          /\ worker' = "send" /\ buffer' = buffer /\ sentBytes' = sentBytes
      BY <1>6, <2>2 DEF WorkerCopy
    <3>2. AvailableBytes \in 0 .. Len(buffer)
      BY LenProperties DEF AvailableBytes
    <3>3. Len(SubSeq(buffer, 1, AvailableBytes)) = AvailableBytes
      BY <3>2, PieceType
    <3> QED BY <3>1, <3>2, <3>3
  <2> QED BY <2>1, <2>2
<1>7. ASSUME NEW n \in 1 .. Len(chunk), WorkerSend(n) PROVE WorkerKnowledge'
  <2>1. Len(chunk) \in Nat /\ Len(buffer) \in Nat
    BY LenProperties
  <2>2. n <= Len(buffer)
    BY <1>7, <2>1 DEF WorkerSend
  <2> QED BY <1>7, <2>2 DEF WorkerSend
<1>8. CASE WorkerErase \/ WorkerCallback \/ WorkerSendEnter
        \/ WorkerSendError \/ WorkerSigPipe
  BY <1>8 DEF WorkerErase, WorkerCallback, WorkerSendEnter,
     WorkerSendError, WorkerSigPipe
<1>9. CASE Start \/ StopSet \/ StopNotify \/ StopJoin
  BY <1>9 DEF Start, StopSet, StopNotify, StopJoin, NotifyOne
<1>10. CASE PeerRead \/ SocketFails \/ UNCHANGED vars
  BY <1>10 DEF PeerRead, SocketFails, vars
<1> QED
  BY <1>1, <1>2, <1>3, <1>4, <1>5, <1>6, <1>7, <1>8, <1>9, <1>10
  DEF Next, Push, WorkerStep, StopStep

LEMMA PacketsNext == IInv /\ [Next]_vars => PacketsWhole'
<1> SUFFICES ASSUME IInv, [Next]_vars PROVE PacketsWhole'
  OBVIOUS
<1> USE DEF IInv, TypeOK, PacketsWhole, ProducerStates, ownerVars, workerData,
            producerVars, netVars
<1>1. ASSUME NEW p \in Producers, NEW packet \in Packets, PushCall(p, packet)
      PROVE  PacketsWhole'
  BY <1>1 DEF PushCall
<1>2. ASSUME NEW p \in Producers, PushLock(p) \/ PushUnlock(p) \/ PushNotify(p)
      PROVE  PacketsWhole'
  BY <1>2 DEF PushLock, PushUnlock, PushNotify
<1>3. ASSUME NEW p \in Producers, PushInsert(p) PROVE PacketsWhole'
  BY <1>3 DEF PushInsert
<1>4. CASE UNCHANGED producerVars
  BY <1>4
<1> QED
  BY <1>1, <1>2, <1>3, <1>4
  DEF Next, Push, WorkerStep, StopStep, vars, WorkerLock, WorkerCheck,
      WorkerPredicate, WorkerBlock, WorkerReacquire, WorkerSpurious, WorkerCopy,
      WorkerSend, WorkerErase, WorkerCallback, WorkerSendEnter,
     WorkerSendError, WorkerSigPipe,
      Start, StopSet, StopNotify, StopJoin, PeerRead, SocketFails

LEMMA LifeCycleNext == IInv /\ [Next]_vars => LifeCycle'
<1> SUFFICES ASSUME IInv, [Next]_vars PROVE LifeCycle'
  OBVIOUS
<1> USE DEF IInv, TypeOK, LifeCycle, OwnerStates, WorkerStates, ProducerStates,
            ownerVars, workerData, producerVars, netVars
<1>1. ASSUME NEW p \in Producers, NEW packet \in Packets, PushCall(p, packet)
      PROVE  LifeCycle'
  BY <1>1 DEF PushCall
<1>2. ASSUME NEW p \in Producers,
             PushLock(p) \/ PushInsert(p) \/ PushUnlock(p) \/ PushNotify(p)
      PROVE  LifeCycle'
  BY <1>2 DEF PushLock, PushInsert, PushUnlock, PushNotify, NotifyOne
<1>3. CASE WorkerLock \/ WorkerCheck \/ WorkerPredicate \/ WorkerBlock
           \/ WorkerReacquire \/ WorkerSpurious \/ WorkerCopy
  BY <1>3 DEF WorkerLock, WorkerCheck, WorkerExit, WorkerPredicate, WorkerBlock,
              WorkerReacquire, WorkerSpurious, WorkerCopy
<1>4. ASSUME NEW n \in 1 .. Len(chunk), WorkerSend(n) PROVE LifeCycle'
  BY <1>4 DEF WorkerSend
<1>5. CASE WorkerErase \/ WorkerCallback \/ WorkerSendEnter
        \/ WorkerSendError \/ WorkerSigPipe
  BY <1>5 DEF WorkerErase, WorkerCallback, WorkerSendEnter,
     WorkerSendError, WorkerSigPipe
<1>6. CASE Start \/ StopSet \/ StopNotify \/ StopJoin
  BY <1>6 DEF Start, StopSet, StopNotify, StopJoin, NotifyOne
<1>7. CASE PeerRead \/ SocketFails \/ UNCHANGED vars
  BY <1>7 DEF PeerRead, SocketFails, vars
<1> QED
  BY <1>1, <1>2, <1>3, <1>4, <1>5, <1>6, <1>7
  DEF Next, Push, WorkerStep, StopStep

LEMMA WakeupNext == IInv /\ [Next]_vars => NoLostWakeup'
<1> SUFFICES ASSUME IInv, [Next]_vars PROVE NoLostWakeup'
  OBVIOUS
<1> USE DEF IInv, TypeOK, NoLostWakeup, ProducerStates, ownerVars, workerData,
            producerVars, netVars
<1>1. ASSUME NEW p \in Producers, NEW packet \in Packets, PushCall(p, packet)
      PROVE  NoLostWakeup'
  BY <1>1 DEF PushCall
<1>2. ASSUME NEW p \in Producers, PushLock(p) \/ PushUnlock(p)
      PROVE  NoLostWakeup'
  BY <1>2 DEF PushLock, PushUnlock
<1>3. ASSUME NEW p \in Producers, PushInsert(p) PROVE NoLostWakeup'
  BY <1>3 DEF PushInsert
<1>4. ASSUME NEW p \in Producers, PushNotify(p) PROVE NoLostWakeup'
  BY <1>4 DEF PushNotify, NotifyOne
<1>5. CASE WorkerBlock
  BY <1>5 DEF WorkerBlock, WorkerKnowledge
<1>6. CASE WorkerLock \/ WorkerCheck \/ WorkerPredicate \/ WorkerReacquire
           \/ WorkerSpurious \/ WorkerCopy
  BY <1>6 DEF WorkerLock, WorkerCheck, WorkerExit, WorkerPredicate,
              WorkerReacquire, WorkerSpurious, WorkerCopy
<1>7. ASSUME NEW n \in 1 .. Len(chunk), WorkerSend(n) PROVE NoLostWakeup'
  BY <1>7 DEF WorkerSend
<1>8. CASE WorkerErase \/ WorkerCallback \/ WorkerSendEnter
        \/ WorkerSendError \/ WorkerSigPipe
  BY <1>8 DEF WorkerErase, WorkerCallback, WorkerSendEnter,
     WorkerSendError, WorkerSigPipe
<1>9. CASE Start \/ StopSet \/ StopNotify \/ StopJoin
  BY <1>9 DEF Start, StopSet, StopNotify, StopJoin, NotifyOne
<1>10. CASE PeerRead \/ SocketFails \/ UNCHANGED vars
  BY <1>10 DEF PeerRead, SocketFails, vars
<1> QED
  BY <1>1, <1>2, <1>3, <1>4, <1>5, <1>6, <1>7, <1>8, <1>9, <1>10
  DEF Next, Push, WorkerStep, StopStep

(* Steps that move no byte and no lock keep the stream as it is. *)
LEMMA StreamUnmoved ==
  ASSUME IInv, UNCHANGED <<buffer, sentBytes, wire, stream, rest>>,
         worker = "erase" <=> worker' = "erase",
         mutex' = mutex \/ {mutex, mutex'} \cap Producers = {}
  PROVE  StreamIntegrity'
BY DEF IInv, StreamIntegrity, Unsent, Uninserted

LEMMA StreamNext == IInv /\ [Next]_vars => StreamIntegrity'
<1> SUFFICES ASSUME IInv, [Next]_vars PROVE StreamIntegrity'
  OBVIOUS
<1> USE SendingAssumption
    DEF ownerVars, workerData, producerVars, netVars
<1>0. /\ TypeOK /\ MutexDiscipline /\ WorkerKnowledge
      /\ wire \o Unsent \o Uninserted = stream
      /\ Unsent \in Seq(Byte)
  <2>1. Len(buffer) \in Nat /\ sentBytes \in Nat
    BY LenProperties DEF IInv, TypeOK
  <2>2. SubSeq(buffer, sentBytes + 1, Len(buffer)) \in Seq(Byte)
    BY <2>1, PieceType DEF IInv, TypeOK
  <2> QED BY <2>2 DEF IInv, TypeOK, StreamIntegrity, Unsent
<1>1. ASSUME NEW p \in Producers, NEW packet \in Packets, PushCall(p, packet)
      PROVE  StreamIntegrity'
  <2>1. mutex # p
    BY <1>0, <1>1 DEF PushCall, MutexDiscipline
  <2>2. Unsent' = Unsent /\ Uninserted' = Uninserted
    BY <1>0, <1>1, <2>1 DEF PushCall, Unsent, Uninserted, TypeOK
  <2> QED BY <1>0, <1>1, <2>2 DEF PushCall, StreamIntegrity
<1>2. ASSUME NEW p \in Producers, PushLock(p) PROVE StreamIntegrity'
  <2>1. Uninserted = <<>> /\ Uninserted' = rest[p] /\ Unsent' = Unsent
    BY <1>2 DEF PushLock, Uninserted, Unsent
  <2>2. wire \o Unsent = stream
    BY <1>0, <2>1, ConcatProperties, ConcatEmptySeq DEF TypeOK
  <2> QED BY <1>2, <2>1, <2>2 DEF PushLock, StreamIntegrity
<1>3. ASSUME NEW p \in Producers, PushInsert(p) PROVE StreamIntegrity'
  <2>1. mutex = p /\ worker # "erase" /\ worker' = worker
    BY <1>0, <1>3 DEF PushInsert, MutexDiscipline, HoldingStates
  <2>2. Unsent = buffer /\ Uninserted = rest[p]
    BY <2>1 DEF Unsent, Uninserted
  <2>3. Unsent' = Append(buffer, Head(rest[p])) /\ Uninserted' = Tail(rest[p])
    BY <1>0, <1>3, <2>1 DEF PushInsert, Unsent, Uninserted, TypeOK
  <2>4. Append(buffer, Head(rest[p])) \o Tail(rest[p]) = buffer \o rest[p]
    <3>1. buffer \in Seq(Byte) /\ rest[p] \in Seq(Byte) /\ rest[p] # <<>>
      BY <1>0, <1>3 DEF PushInsert, TypeOK
    <3> QED BY <3>1, MoveHead, Zenon
  <2>5. Head(rest[p]) \in Byte /\ Tail(rest[p]) \in Seq(Byte)
    BY <1>0, <1>3, HeadTailProperties DEF PushInsert, TypeOK
  <2>6. Append(buffer, Head(rest[p])) \in Seq(Byte)
    BY <1>0, <2>5, AppendProperties DEF TypeOK
  <2>7. wire \o Append(buffer, Head(rest[p])) \o Tail(rest[p])
          = wire \o buffer \o rest[p]
    <3> DEFINE left == rest[p]
               longer == Append(buffer, Head(rest[p]))
               shorter == Tail(rest[p])
    <3>1. /\ wire \in Seq(Byte) /\ buffer \in Seq(Byte) /\ left \in Seq(Byte)
          /\ longer \in Seq(Byte) /\ shorter \in Seq(Byte)
      BY <1>0, <2>5, <2>6 DEF TypeOK
    <3>2. longer \o shorter = buffer \o left
      BY <2>4
    <3> HIDE DEF left, longer, shorter
    <3>3. wire \o buffer \o left = wire \o (buffer \o left)
      <4>1. Regroups(wire, buffer, left)
        BY <3>1, Regroup, Zenon
      <4> QED BY <4>1 DEF Regroups
    <3>4. wire \o longer \o shorter = wire \o (longer \o shorter)
      <4>1. Regroups(wire, longer, shorter)
        BY <3>1, Regroup, Zenon
      <4> QED BY <4>1 DEF Regroups
    <3> QED BY <3>2, <3>3, <3>4 DEF left, longer, shorter
  <2> QED BY <1>0, <1>3, <2>2, <2>3, <2>7 DEF PushInsert, StreamIntegrity
<1>4. ASSUME NEW p \in Producers, PushUnlock(p) PROVE StreamIntegrity'
  <2>1. mutex = p
    BY <1>0, <1>4 DEF PushUnlock, MutexDiscipline
  <2>2. Uninserted = <<>> /\ Uninserted' = <<>> /\ Unsent' = Unsent
    BY <1>4, <2>1 DEF PushUnlock, Uninserted, Unsent
  <2> QED BY <1>0, <1>4, <2>2 DEF PushUnlock, StreamIntegrity
<1>5. ASSUME NEW p \in Producers, PushNotify(p) PROVE StreamIntegrity'
  BY <1>5, StreamUnmoved DEF PushNotify, NotifyOne
<1>6. CASE WorkerLock \/ WorkerCheck \/ WorkerPredicate \/ WorkerBlock
           \/ WorkerReacquire \/ WorkerSpurious \/ WorkerCopy
  <2>1. mutex' = mutex \/ {mutex, mutex'} \cap Producers = {}
    BY <1>0, <1>6
    DEF WorkerLock, WorkerCheck, WorkerExit, WorkerPredicate, WorkerBlock,
        WorkerReacquire, WorkerSpurious, WorkerCopy, MutexDiscipline,
        HoldingStates
  <2> QED
    BY <1>6, <2>1, StreamUnmoved
    DEF WorkerLock, WorkerCheck, WorkerExit, WorkerPredicate, WorkerBlock,
        WorkerReacquire, WorkerSpurious, WorkerCopy
<1>7. ASSUME NEW n \in 1 .. Len(chunk), WorkerSend(n) PROVE StreamIntegrity'
  <2> DEFINE first == SubSeq(buffer, 1, n)
             later == SubSeq(buffer, n + 1, Len(buffer))
  <2>1. Len(chunk) \in Nat /\ Len(buffer) \in Nat /\ n \in 1 .. Len(buffer)
        /\ Len(chunk) \in 1 .. Len(buffer)
    BY <1>0, <1>7, LenProperties DEF WorkerSend, TypeOK, WorkerKnowledge
  <2>2. SubSeq(chunk, 1, n) = first
    <3>1. chunk = SubSeq(buffer, 1, Len(chunk))
      BY <1>0, <1>7 DEF WorkerSend, WorkerKnowledge
    <3>2. 1 \in 1 .. Len(buffer) /\ 1 \in 1 .. Len(chunk) - 1 + 1
          /\ n \in 1 .. Len(chunk) - 1 + 1
      BY <2>1
    <3>3. SubSeq(SubSeq(buffer, 1, Len(chunk)), 1, n)
            = SubSeq(buffer, 1 + 1 - 1, 1 + n - 1)
      BY <1>0, <2>1, <3>2, SubSeqOfSubSeq DEF TypeOK
    <3>4. 1 + 1 - 1 = 1 /\ 1 + n - 1 = n
      BY <2>1
    <3> QED BY <3>1, <3>3, <3>4
  <2>3. first \in Seq(Byte) /\ later \in Seq(Byte)
    BY <1>0, <2>1, PieceType DEF TypeOK
  <2>4. first \o later = buffer
    BY <1>0, <2>1, CutAndJoin DEF TypeOK
  <2>5. Uninserted = <<>> /\ Uninserted' = <<>> /\ Unsent = buffer
    BY <1>0, <1>7 DEF WorkerSend, MutexDiscipline, HoldingStates, Uninserted,
                      Unsent
  <2>6. Unsent' = later /\ wire' = wire \o first /\ stream' = stream
    BY <1>7, <2>2 DEF WorkerSend, Unsent
  <2> HIDE DEF first, later
  <2>7. (wire \o first) \o later = wire \o buffer
    <3>1. wire \in Seq(Byte)
      BY <1>0 DEF TypeOK
    <3>2. (wire \o first) \o later = wire \o (first \o later)
      <4>1. Regroups(wire, first, later)
        BY <2>3, <3>1, Regroup, Zenon
      <4> QED BY <4>1 DEF Regroups
    <3> QED BY <2>4, <3>2
  <2> QED BY <1>0, <2>5, <2>6, <2>7 DEF StreamIntegrity
<1>8. CASE WorkerErase
  <2>1. Unsent' = Unsent /\ Uninserted' = Uninserted
    BY <1>8 DEF WorkerErase, Unsent, Uninserted
  <2> QED BY <1>0, <1>8, <2>1 DEF WorkerErase, StreamIntegrity
<1>9. CASE WorkerCallback \/ WorkerSendEnter
        \/ WorkerSendError \/ WorkerSigPipe
  BY <1>9, StreamUnmoved DEF WorkerCallback, WorkerSendEnter,
     WorkerSendError, WorkerSigPipe
<1>10. CASE Start \/ StopSet \/ StopNotify \/ StopJoin
  <2>1. worker = "erase" <=> worker' = "erase"
    BY <1>10 DEF Start, StopSet, StopNotify, StopJoin, NotifyOne, IInv, LifeCycle
  <2> QED BY <1>10, <2>1, StreamUnmoved DEF Start, StopSet, StopNotify, StopJoin
<1>11. CASE PeerRead \/ SocketFails \/ UNCHANGED vars
  BY <1>11, StreamUnmoved DEF PeerRead, SocketFails, vars
<1> QED
  BY <1>1, <1>2, <1>3, <1>4, <1>5, <1>6, <1>7, <1>8, <1>9, <1>10, <1>11
  DEF Next, Push, WorkerStep, StopStep

-------------------------------------------------------------------------------
(* Assembly. *)

LEMMA InvInit == Init => IInv
<1> SUFFICES ASSUME Init PROVE IInv
  OBVIOUS
<1>1. TypeOK
  BY TypeInit
<1>2. <<>> \o <<>> \o <<>> = <<>>
  BY EmptySeq, ConcatEmptySeq
<1>3. StreamIntegrity
  BY <1>2, SendingAssumption DEF Init, StreamIntegrity, Unsent, Uninserted
<1>4. MutexDiscipline /\ WorkerKnowledge /\ PacketsWhole /\ LifeCycle /\ NoLostWakeup
  BY SendingAssumption
  DEF Init, MutexDiscipline, HoldingStates, WorkerKnowledge, PacketsWhole,
      LifeCycle, NoLostWakeup
<1> QED BY <1>1, <1>3, <1>4 DEF IInv

LEMMA InvNext == IInv /\ [Next]_vars => IInv'
<1>1. IInv => TypeOK
  BY DEF IInv
<1> QED
  BY <1>1, TypeNext, MutexNext, KnowledgeNext, PacketsNext, LifeCycleNext,
     StreamNext, WakeupNext DEF IInv

LEMMA InvCorrect == Spec => []IInv
BY InvInit, InvNext, PTL DEF Spec

(* No byte is lost, repeated or reordered between pushBytes and send(), and   *)
(* no packet is torn by a concurrent push, whatever send() accepts at a time. *)
THEOREM StreamCorrect == Spec => []StreamIntegrity
<1>1. IInv => StreamIntegrity
  BY DEF IInv
<1> QED BY <1>1, InvCorrect, PTL

(* The worker never sleeps on bytes that no thread will notify it of. *)
THEOREM WakeupCorrect == Spec => []NoLostWakeup
<1>1. IInv => NoLostWakeup
  BY DEF IInv
<1> QED BY <1>1, InvCorrect, PTL

(* After the destructor no thread is left inside the endpoint. *)
THEOREM QuietCorrect == Spec => []DestroyedIsQuiet
<1>1. IInv => DestroyedIsQuiet
  BY SendingAssumption
  DEF IInv, TypeOK, DestroyedIsQuiet, LifeCycle, MutexDiscipline, HoldingStates
<1> QED BY <1>1, InvCorrect, PTL

-------------------------------------------------------------------------------
(* Refinement: taking the mutex is the abstract push, send() the abstract     *)
(* Forward, and every other step leaves the abstract state alone.             *)

LEMMA RefineNext == IInv /\ IInv' /\ [Next]_vars => [Sink!Next]_(Sink!vars)
<1> SUFFICES ASSUME IInv, IInv', [Next]_vars PROVE [Sink!Next]_(Sink!vars)
  OBVIOUS
<1> USE DEF ownerVars, workerData, producerVars, netVars, Sink!vars
<1>1. ASSUME NEW p \in Producers, PushLock(p) PROVE Sink!Next
  <2>1. rest[p] \in Packets
    BY <1>1 DEF PushLock, IInv, PacketsWhole
  <2>2. Sink!PushBytes(rest[p])
    BY <1>1 DEF PushLock, Sink!PushBytes
  <2> QED BY <2>1, <2>2 DEF Sink!Next
<1>2. ASSUME NEW n \in 1 .. Len(chunk), WorkerSend(n) PROVE Sink!Next
  <2>1. /\ wire \in Seq(Byte) /\ wire' \in Seq(Byte) /\ stream' = stream
        /\ stream \in Seq(Byte) /\ chunk \in Seq(Byte) /\ rest' = rest
        /\ Unsent' \in Seq(Byte) /\ Uninserted' = <<>>
    <3>1. Uninserted' = <<>>
      BY <1>2, SendingAssumption
      DEF WorkerSend, IInv, MutexDiscipline, HoldingStates, Uninserted
    <3> DEFINE b == buffer'
               k == sentBytes'
    <3>2. b \in Seq(Byte) /\ k \in Nat
      BY DEF IInv, TypeOK
    <3> HIDE DEF b, k
    <3>3. Len(b) \in Nat
      BY <3>2, LenProperties
    <3>4. k + 1 \in Nat \ {0} /\ Len(b) \in 0 .. Len(b)
      BY <3>2, <3>3
    <3>5. SubSeq(b, k + 1, Len(b)) \in Seq(Byte)
      BY <3>2, <3>4, PieceType
    <3>6. Unsent' \in Seq(Byte)
      BY <3>2, <3>5 DEF Unsent, b, k
    <3> QED BY <1>2, <3>1, <3>6 DEF WorkerSend, IInv, TypeOK
  <2>2. wire' \o Unsent' = stream
    BY <2>1, ConcatProperties, ConcatEmptySeq DEF IInv, StreamIntegrity
  <2>3. wire' = SubSeq(stream, 1, Len(wire'))
    BY <2>1, <2>2, PrefixOfConcat
  <2>4. Len(wire') = Len(wire) + n
    <3>1. Len(chunk) \in Nat
      BY <2>1, LenProperties
    <3>2. SubSeq(chunk, 1, n) \in Seq(Byte) /\ Len(SubSeq(chunk, 1, n)) = n
      BY <2>1, <3>1, PieceType
    <3> QED BY <1>2, <2>1, <3>2, ConcatProperties DEF WorkerSend
  <2>5. Len(wire') <= Len(stream)
    <3>1. Len(wire') + Len(Unsent') = Len(stream)
      BY <2>1, <2>2, ConcatProperties
    <3>2. Len(wire') \in Nat /\ Len(Unsent') \in Nat
      BY <2>1, LenProperties
    <3> QED BY <3>1, <3>2
  <2>6. n \in 1 .. (Len(stream) - Len(wire))
    BY <2>1, <2>4, <2>5, LenProperties
  <2>7. Sink!Forward(n)
    BY <2>1, <2>3, <2>4, <2>5 DEF Sink!Forward
  <2> QED BY <2>6, <2>7 DEF Sink!Next
<1>3. CASE UNCHANGED <<stream, wire>>
  BY <1>3
<1> QED
  BY <1>1, <1>2, <1>3
  DEF Next, Push, WorkerStep, StopStep, vars, PushCall, PushInsert, PushUnlock,
      PushNotify, WorkerLock, WorkerCheck, WorkerPredicate, WorkerBlock,
      WorkerReacquire, WorkerSpurious, WorkerCopy, WorkerErase, WorkerCallback,
      WorkerSendEnter,
     WorkerSendError, WorkerSigPipe, Start, StopSet, StopNotify, StopJoin,
      PeerRead, SocketFails

(* SendingConnectionEndpoint implements DataSink: what leaves through the     *)
(* socket is at every moment a prefix of the packets in push order.           *)
THEOREM SinkRefinement == Spec => SinkSpec
<1>1. Init => Sink!Init
  BY DEF Init, Sink!Init
<1>2. QED BY <1>1, RefineNext, InvCorrect, PTL DEF Spec, SinkSpec, Sink!Spec
===============================================================================
