---------------------------- MODULE SendingEndpoint ----------------------------
(***************************************************************************)
(* SendingConnectionEndpoint: a byte queue guarded by a mutex, a condition *)
(* variable, and one worker thread that moves bytes from the queue to a    *)
(* socket.  Any number of threads push; the owner constructs the endpoint, *)
(* starts it and destroys it.                                              *)
(*                                                                         *)
(* Every step that another thread could observe is an action: taking and   *)
(* releasing the mutex, each byte of an insertion, the evaluation of the   *)
(* wait predicate apart from the blocking that follows it (stopSending is  *)
(* written without the mutex, so it may change in between), send() apart   *)
(* from the erase that follows it, and notify_one after the unlock.        *)
(***************************************************************************)
EXTENDS Integers, Sequences

CONSTANTS
  Producers,          \* threads that call pushByte or pushBytes
  Byte,               \* the values of a byte
  Packets,            \* the byte sequences that are pushed
  IntermediateSize,   \* intermediateBuffer.size(), 1024 in the code
  SocketBufferSize,   \* bytes the kernel queues before send() blocks
  MaxPushes,          \* bound: calls of pushBytes in a behaviour
  MaxSpurious,        \* bound: spurious wakeups in a behaviour
  Worker,             \* the thread spawned by spawnWorkerThread
  NoThread            \* the owner of a free mutex

ASSUME SendingAssumption ==
  /\ Packets \subseteq Seq(Byte)
  /\ IntermediateSize \in Nat \ {0}
  /\ SocketBufferSize \in Nat \ {0}
  /\ MaxPushes \in Nat
  /\ MaxSpurious \in Nat
  /\ Worker \notin Producers
  /\ NoThread \notin Producers
  /\ Worker # NoThread

VARIABLES
  buffer,        \* SendingConnectionEndpoint::buffer
  stopSending,   \* SendingConnectionEndpoint::stopSending, a plain bool
  mutex,         \* the thread that holds SendingConnectionEndpoint::mutex
  owner,         \* where the owner of the endpoint stands in its life cycle
  worker,        \* where the worker thread stands
  chunk,         \* what the worker copied into intermediateBuffer
  sentBytes,     \* the result of the last successful send()
  producer,      \* where each producer stands in pushBytes
  rest,          \* the bytes each producer has still to insert
  socket,        \* state of the connection behind FD
  wire,          \* every byte send() accepted
  acked,         \* how many of them the peer has taken
  process,       \* whether the process still runs
  stream,        \* history: the packets in the order of their critical sections
  pushes,        \* number of pushBytes calls so far
  spurious       \* number of spurious wakeups so far

ownerVars    == <<owner, stopSending>>
workerData   == <<chunk, sentBytes, wire, spurious>>
producerVars == <<producer, rest, stream, pushes>>
netVars      == <<socket, acked, process>>
vars == <<buffer, mutex, ownerVars, worker, workerData, producerVars, netVars>>

OwnerStates    == {"constructed", "started", "stopping", "joining", "destroyed"}
WorkerStates   == {"none", "start", "check", "predicate", "block", "waiting",
                   "reacquire", "ready", "send", "sending", "erase", "callback",
                   "exited"}
ProducerStates == {"idle", "lock", "insert", "notify"}

TypeOK ==
  /\ buffer \in Seq(Byte)
  /\ stopSending \in BOOLEAN
  /\ mutex \in Producers \cup {Worker, NoThread}
  /\ owner \in OwnerStates
  /\ worker \in WorkerStates
  /\ chunk \in Seq(Byte)
  /\ sentBytes \in Nat
  /\ producer \in [Producers -> ProducerStates]
  /\ rest \in [Producers -> Seq(Byte)]
  /\ socket \in {"open", "reset", "closed"}
  /\ wire \in Seq(Byte)
  /\ acked \in Nat
  /\ process \in {"running", "killed"}
  /\ stream \in Seq(Byte)
  /\ pushes \in Nat
  /\ spurious \in Nat

Init ==
  /\ buffer = <<>>
  /\ stopSending = FALSE
  /\ mutex = NoThread
  /\ owner = "constructed"
  /\ worker = "none"
  /\ chunk = <<>>
  /\ sentBytes = 0
  /\ producer = [p \in Producers |-> "idle"]
  /\ rest = [p \in Producers |-> <<>>]
  /\ socket = "open"
  /\ wire = <<>>
  /\ acked = 0
  /\ process = "running"
  /\ stream = <<>>
  /\ pushes = 0
  /\ spurious = 0

-------------------------------------------------------------------------------
(* pushBytes; pushByte is pushBytes with a packet of one byte. *)

(* A thread calls pushBytes.  The endpoint must be alive for the whole call, *)
(* so nobody calls it once the destructor has begun.                         *)
PushCall(p, packet) ==
  /\ producer[p] = "idle"
  /\ owner \in {"constructed", "started"}
  /\ pushes < MaxPushes
  /\ pushes' = pushes + 1
  /\ producer' = [producer EXCEPT ![p] = "lock"]
  /\ rest' = [rest EXCEPT ![p] = packet]
  /\ UNCHANGED <<buffer, mutex, ownerVars, worker, workerData, stream, netVars>>

(* Mutant of PushLock: the lock is not taken. *)
PushLockUnguarded(p) ==
  /\ producer[p] = "lock"
  /\ mutex' = p
  /\ producer' = [producer EXCEPT ![p] = "insert"]
  /\ stream' = stream \o rest[p]
  /\ UNCHANGED <<buffer, ownerVars, worker, workerData, rest, pushes, netVars>>

(* std::unique_lock lock(mutex) *)
PushLock(p) ==
  /\ producer[p] = "lock"
  /\ mutex = NoThread
  /\ mutex' = p
  /\ producer' = [producer EXCEPT ![p] = "insert"]
  /\ stream' = stream \o rest[p]
  /\ UNCHANGED <<buffer, ownerVars, worker, workerData, rest, pushes, netVars>>

(* buffer.insert(buffer.end(), ...), one byte of it *)
PushInsert(p) ==
  /\ producer[p] = "insert"
  /\ rest[p] # <<>>
  /\ buffer' = Append(buffer, Head(rest[p]))
  /\ rest' = [rest EXCEPT ![p] = Tail(@)]
  /\ UNCHANGED <<mutex, ownerVars, worker, workerData, producer, stream, pushes,
                 netVars>>

(* Mutant of PushUnlock: the call returns without notify_one. *)
PushUnlockSilent(p) ==
  /\ producer[p] = "insert"
  /\ rest[p] = <<>>
  /\ mutex' = NoThread
  /\ producer' = [producer EXCEPT ![p] = "idle"]
  /\ UNCHANGED <<buffer, ownerVars, worker, workerData, rest, stream, pushes,
                 netVars>>

(* lock.unlock() *)
PushUnlock(p) ==
  /\ producer[p] = "insert"
  /\ rest[p] = <<>>
  /\ mutex' = NoThread
  /\ producer' = [producer EXCEPT ![p] = "notify"]
  /\ UNCHANGED <<buffer, ownerVars, worker, workerData, rest, stream, pushes,
                 netVars>>

(* notify_one: only the worker ever waits on the condition variable. *)
NotifyOne ==
  worker' = IF worker = "waiting" THEN "reacquire" ELSE worker

(* conditionVar.notify_one(), then pushBytes returns *)
PushNotify(p) ==
  /\ producer[p] = "notify"
  /\ NotifyOne
  /\ producer' = [producer EXCEPT ![p] = "idle"]
  /\ UNCHANGED <<buffer, mutex, ownerVars, workerData, rest, stream, pushes,
                 netVars>>

-------------------------------------------------------------------------------
(* The worker thread. *)

(* std::unique_lock lock(mutex) at the top of the thread function *)
WorkerLock ==
  /\ worker = "start"
  /\ mutex = NoThread
  /\ mutex' = Worker
  /\ worker' = "check"
  /\ UNCHANGED <<buffer, ownerVars, workerData, producerVars, netVars>>

(* The thread function returns and unique_lock releases the mutex. *)
WorkerExit ==
  /\ stopSending
  /\ mutex' = NoThread
  /\ worker' = "exited"

(* while (!stopSending) *)
WorkerCheck ==
  /\ worker = "check"
  /\ \/ WorkerExit
     \/ /\ ~stopSending
        /\ worker' = "predicate"
        /\ UNCHANGED mutex
  /\ UNCHANGED <<buffer, ownerVars, workerData, producerVars, netVars>>

(* The predicate of conditionVar.wait, evaluated with the mutex held. *)
WorkerPredicate ==
  /\ worker = "predicate"
  /\ worker' = IF buffer # <<>> \/ stopSending THEN "ready" ELSE "block"
  /\ UNCHANGED <<buffer, mutex, ownerVars, workerData, producerVars, netVars>>

(* Mutant of WorkerBlock: the worker polls instead of sleeping. *)
WorkerBlockPolling ==
  /\ worker = "block"
  /\ worker' = "predicate"
  /\ UNCHANGED <<buffer, mutex, ownerVars, workerData, producerVars, netVars>>

(* The predicate was false: release the mutex and sleep, in one step. *)
WorkerBlock ==
  /\ worker = "block"
  /\ mutex' = NoThread
  /\ worker' = "waiting"
  /\ UNCHANGED <<buffer, ownerVars, workerData, producerVars, netVars>>

(* A condition variable may wake its waiter for no reason. *)
WorkerSpurious ==
  /\ worker = "waiting"
  /\ spurious < MaxSpurious
  /\ spurious' = spurious + 1
  /\ worker' = "reacquire"
  /\ UNCHANGED <<buffer, mutex, ownerVars, chunk, sentBytes, wire, producerVars,
                 netVars>>

(* A woken wait takes the mutex again and goes back to the predicate. *)
WorkerReacquire ==
  /\ worker = "reacquire"
  /\ mutex = NoThread
  /\ mutex' = Worker
  /\ worker' = "predicate"
  /\ UNCHANGED <<buffer, ownerVars, workerData, producerVars, netVars>>

AvailableBytes ==
  IF Len(buffer) < IntermediateSize THEN Len(buffer) ELSE IntermediateSize

(* if (stopSending) break; otherwise copy a prefix of the buffer *)
WorkerCopy ==
  /\ worker = "ready"
  /\ \/ /\ WorkerExit
        /\ UNCHANGED chunk
     \/ /\ ~stopSending
        /\ chunk' = SubSeq(buffer, 1, AvailableBytes)
        /\ worker' = "send"
        /\ UNCHANGED mutex
  /\ UNCHANGED <<buffer, ownerVars, sentBytes, wire, spurious, producerVars,
                 netVars>>

(* send() is called, still with the mutex.  The kernel looks FD up now: a     *)
(* closed one fails, and the loop continues without releasing the mutex.      *)
WorkerSendEnter ==
  /\ worker = "send"
  /\ worker' = IF socket = "closed" THEN "check" ELSE "sending"
  /\ UNCHANGED <<buffer, mutex, ownerVars, workerData, producerVars, netVars>>

(* send() takes n bytes; it blocks while the kernel has no room.  A close of  *)
(* FD meanwhile does not interrupt it.                                        *)
WorkerSend(n) ==
  /\ worker = "sending"
  /\ socket # "reset"
  /\ Len(wire) + n - acked <= SocketBufferSize
  /\ wire' = wire \o SubSeq(chunk, 1, n)
  /\ sentBytes' = n
  /\ worker' = "erase"
  /\ UNCHANGED <<buffer, mutex, ownerVars, chunk, spurious, producerVars,
                 netVars>>

(* Mutant of WorkerSendError: the result -1 is not tested. *)
WorkerSendErrorUntested ==
  /\ worker = "sending"
  /\ socket # "open"
  /\ sentBytes' = -1
  /\ worker' = "erase"
  /\ UNCHANGED <<buffer, mutex, ownerVars, chunk, wire, spurious, producerVars,
                 netVars>>

(* send() returns -1, as the peer has reset the connection (which is not      *)
(* followed once FD is closed); the loop continues with the mutex held.       *)
WorkerSendError ==
  /\ worker = "sending"
  /\ socket # "open"
  /\ worker' = "check"
  /\ UNCHANGED <<buffer, mutex, ownerVars, workerData, producerVars, netVars>>

(* send() without MSG_NOSIGNAL on a connection that was reset raises SIGPIPE, *)
(* whose default action ends the process.                                     *)
WorkerSigPipe ==
  /\ worker = "sending"
  /\ socket = "reset"
  /\ process' = "killed"
  /\ UNCHANGED <<buffer, mutex, ownerVars, worker, workerData, producerVars,
                 socket, acked>>

(* Mutant of WorkerErase: everything copied is erased, even after a short     *)
(* send().                                                                    *)
WorkerEraseChunk ==
  /\ worker = "erase"
  /\ buffer' = SubSeq(buffer, Len(chunk) + 1, Len(buffer))
  /\ worker' = "callback"
  /\ UNCHANGED <<mutex, ownerVars, workerData, producerVars, netVars>>

(* buffer.erase(buffer.begin(), std::next(buffer.begin(), sentBytes)) *)
WorkerErase ==
  /\ worker = "erase"
  /\ buffer' = SubSeq(buffer, sentBytes + 1, Len(buffer))
  /\ worker' = "callback"
  /\ UNCHANGED <<mutex, ownerVars, workerData, producerVars, netVars>>

(* callback(buffer.begin(), std::next(buffer.begin(), sentBytes)); the        *)
(* callback is user code and the default one does nothing.                    *)
WorkerCallback ==
  /\ worker = "callback"
  /\ worker' = "check"
  /\ UNCHANGED <<buffer, mutex, ownerVars, workerData, producerVars, netVars>>

(* What the two iterators given to the callback delimit, if they lie in the   *)
(* buffer, and the bytes that were just sent.                                 *)
CallbackRange == SubSeq(buffer, 1, sentBytes)
JustSent      == SubSeq(wire, Len(wire) - sentBytes + 1, Len(wire))

-------------------------------------------------------------------------------
(* The owner: constructor, start, destructor. *)

Start ==
  /\ owner = "constructed"
  /\ owner' = "started"
  /\ stopSending' = FALSE
  /\ worker' = "start"
  /\ UNCHANGED <<buffer, mutex, workerData, producerVars, netVars>>

(* Mutant of StopSet: stopSending is not set. *)
StopSetForgotten ==
  /\ owner \in {"constructed", "started"}
  /\ \A p \in Producers : producer[p] = "idle"
  /\ owner' = "stopping"
  /\ UNCHANGED <<buffer, mutex, stopSending, worker, workerData, producerVars,
                 netVars>>

(* The destructor calls stopWorkerThread, which writes stopSending without    *)
(* the mutex.  No other call may be in progress when an object is destroyed.  *)
StopSet ==
  /\ owner \in {"constructed", "started"}
  /\ \A p \in Producers : producer[p] = "idle"
  /\ stopSending' = TRUE
  /\ owner' = "stopping"
  /\ UNCHANGED <<buffer, mutex, worker, workerData, producerVars, netVars>>

(* conditionVar.notify_one() *)
StopNotify ==
  /\ owner = "stopping"
  /\ NotifyOne
  /\ owner' = "joining"
  /\ UNCHANGED <<buffer, mutex, stopSending, workerData, producerVars, netVars>>

(* Mutant of StopJoin: the thread is detached instead of joined. *)
StopDetach ==
  /\ owner = "joining"
  /\ owner' = "destroyed"
  /\ UNCHANGED <<buffer, mutex, stopSending, worker, workerData, producerVars,
                 netVars>>

(* if (sendingThread.joinable()) sendingThread.join() *)
StopJoin ==
  /\ owner = "joining"
  /\ worker \in {"none", "exited"}
  /\ owner' = "destroyed"
  /\ UNCHANGED <<buffer, mutex, stopSending, worker, workerData, producerVars,
                 netVars>>

-------------------------------------------------------------------------------
(* The socket. *)

(* The peer takes everything the kernel has queued. *)
PeerRead ==
  /\ acked < Len(wire)
  /\ acked' = Len(wire)
  /\ UNCHANGED <<buffer, mutex, ownerVars, worker, workerData, producerVars,
                 socket, process>>

(* The peer resets the connection, or Client::disconnect closes FD. *)
SocketFails ==
  /\ socket = "open"
  /\ socket' \in {"reset", "closed"}
  /\ UNCHANGED <<buffer, mutex, ownerVars, worker, workerData, producerVars,
                 acked, process>>

-------------------------------------------------------------------------------
(* A killed process takes no step. *)
Push(p) == PushLock(p) \/ PushInsert(p) \/ PushUnlock(p) \/ PushNotify(p)

WorkerStep ==
  \/ WorkerLock \/ WorkerCheck \/ WorkerPredicate \/ WorkerBlock
  \/ WorkerReacquire \/ WorkerCopy \/ WorkerErase \/ WorkerCallback
  \/ WorkerSendEnter \/ WorkerSendError \/ WorkerSigPipe
  \/ \E n \in 1 .. Len(chunk) : WorkerSend(n)

StopStep == StopNotify \/ StopJoin

Next ==
  /\ process = "running"
  /\ \/ \E p \in Producers : Push(p) \/ \E packet \in Packets : PushCall(p, packet)
     \/ WorkerStep
     \/ WorkerSpurious
     \/ Start
     \/ StopSet
     \/ StopStep
     \/ PeerRead
     \/ SocketFails

Spec == Init /\ [][Next]_vars

(* The threads of a running process are scheduled: the worker, a producer     *)
(* inside pushBytes and a destructor in progress keep going while they can.   *)
(* Calls, the peer, failures and spurious wakeups need never happen.          *)
Fairness ==
  /\ WF_vars(process = "running" /\ WorkerStep)
  /\ \A p \in Producers : WF_vars(process = "running" /\ Push(p))
  /\ WF_vars(process = "running" /\ StopStep)

FairSpec == Spec /\ Fairness

-------------------------------------------------------------------------------
(* Safety. *)

(* The bytes of the buffer that send() has not accepted yet. *)
Unsent ==
  IF worker = "erase" THEN SubSeq(buffer, sentBytes + 1, Len(buffer)) ELSE buffer

(* The bytes the producer inside its critical section has still to insert. *)
Uninserted == IF mutex \in Producers THEN rest[mutex] ELSE <<>>

(* Nothing is lost, repeated, reordered or torn: what was sent, followed by   *)
(* what is queued, followed by the tail of the packet being inserted, is the  *)
(* packets one after the other.  This is what lets two threads of a client    *)
(* call encodePacket at the same time (PacketCoder.hpp:86).                   *)
StreamIntegrity == wire \o Unsent \o Uninserted = stream

(* No push is forgotten: while the worker sleeps on a nonempty buffer, some   *)
(* thread is still on its way to notify_one, although pushBytes notifies only *)
(* after it released the mutex (SendingConnectionEndpoint.cpp:42-43).         *)
NoLostWakeup ==
  worker = "waiting" /\ buffer # <<>> =>
    \E p \in Producers : producer[p] \in {"insert", "notify"}

(* When the destructor has returned no thread uses the endpoint any more,     *)
(* whatever the worker was doing when stopSending was set.                    *)
DestroyedIsQuiet ==
  owner = "destroyed" =>
    /\ worker \in {"none", "exited"}
    /\ \A p \in Producers : producer[p] = "idle"
    /\ mutex = NoThread

(* The endpoint implements the byte stream that DataSink.hpp promises. *)
Sink == INSTANCE DataSink WITH sent <- wire
SinkSpec == Sink!Spec

(* SendingConnectionEndpoint.hpp:51-53: the callback is for the bytes that    *)
(* were sent, so the range it is given should hold those bytes.               *)
CallbackGetsSentBytes ==
  worker = "callback" /\ sentBytes <= Len(buffer) => CallbackRange = JustSent

-------------------------------------------------------------------------------
(* The inductive invariant behind the safety properties. *)

(* Where the worker holds the mutex: everywhere between the lock at the top   *)
(* of the thread function and its return, except inside conditionVar.wait.    *)
HoldingStates ==
  {"check", "predicate", "block", "ready", "send", "sending", "erase", "callback"}

MutexDiscipline ==
  /\ worker \in HoldingStates <=> mutex = Worker
  /\ \A p \in Producers : producer[p] = "insert" <=> mutex = p

(* What the worker knows about the buffer while it keeps the mutex. *)
WorkerKnowledge ==
  /\ worker = "block" => buffer = <<>>
  /\ worker \in {"send", "sending"} => /\ Len(chunk) <= Len(buffer)
                                       /\ chunk = SubSeq(buffer, 1, Len(chunk))
  /\ worker = "erase" => sentBytes <= Len(buffer)

(* A producer that waits for the mutex has its whole packet in hand. *)
PacketsWhole == \A p \in Producers : producer[p] = "lock" => rest[p] \in Packets

(* The life cycle: a thread exists from start on, and nobody pushes into an   *)
(* endpoint that is being destroyed.                                          *)
LifeCycle ==
  /\ owner = "constructed" => worker = "none"
  /\ owner = "destroyed" => worker \in {"none", "exited"}
  /\ owner \in {"stopping", "joining", "destroyed"} =>
       \A p \in Producers : producer[p] = "idle"

IInv ==
  /\ TypeOK
  /\ MutexDiscipline
  /\ WorkerKnowledge
  /\ PacketsWhole
  /\ LifeCycle
  /\ StreamIntegrity
  /\ NoLostWakeup

-------------------------------------------------------------------------------
(* Liveness.  A peer that never reads blocks send() with the mutex held, so   *)
(* the properties are about connections whose peer keeps reading.             *)

PeerKeepsReading == []<>(acked = Len(wire))
SocketHolds      == [](socket = "open")

(* A thread that calls pushBytes on a working connection gets back out of it: *)
(* the worker lets go of the mutex although it keeps it while it sends.       *)
PushReturns ==
  PeerKeepsReading /\ SocketHolds =>
    \A p \in Producers : producer[p] = "lock" ~> producer[p] = "idle"

(* On a working connection everything pushed is sent, unless the endpoint is  *)
(* destroyed first.                                                           *)
EverythingSent ==
  PeerKeepsReading /\ SocketHolds =>
    (owner = "started" /\ wire # stream) ~> (wire = stream \/ owner = "stopping")

(* With bytes left in the buffer the destructor always gets its thread back,  *)
(* even when the socket is dead and the worker spins with the mutex held.     *)
StopWhenBusy ==
  PeerKeepsReading =>
    (owner = "stopping" /\ buffer # <<>>) ~> (owner = "destroyed" \/ process = "killed")

(* SendingConnectionEndpoint.hpp:34-37: destroying the endpoint stops the     *)
(* thread, so the destructor returns.                                         *)
DestructorReturns ==
  PeerKeepsReading =>
    (owner = "stopping") ~> (owner = "destroyed" \/ process = "killed")
===============================================================================
