--------------------------- MODULE ReceivingEndpoint ---------------------------
(***************************************************************************)
(* ReceivingConnectionEndpoint: a worker thread moves bytes from a socket  *)
(* to a queue; readers pull bytes from the queue, or peek at them, and     *)
(* sleep on one condition variable until enough have come.                 *)
(*                                                                         *)
(* Everything the mutex guards is only touched with the mutex held, and no *)
(* critical section blocks, so a critical section is one action here.      *)
(* What happens outside of them is apart: recv() (entering it, when the    *)
(* descriptor is looked up, and returning from it), the test of            *)
(* stopSending, and every notify_one, which the code calls after unlock.   *)
(***************************************************************************)
EXTENDS Integers, Sequences

CONSTANTS
  Readers,       \* threads that call pullByte, pullBytes, readByte, readBytes
  Byte,          \* the values of a byte
  Demands,       \* the numbers of bytes that readers ask for
  RecvSize,      \* intermediateBuffer.size(), 1024 in the code
  MaxBytes,      \* bound: bytes the peer sends in a behaviour
  MaxCalls,      \* bound: calls of the readers in a behaviour
  MaxSpurious    \* bound: spurious wakeups in a behaviour

ASSUME ReceivingAssumption ==
  /\ Demands \subseteq Nat
  /\ RecvSize \in Nat \ {0}
  /\ MaxBytes \in Nat
  /\ MaxCalls \in Nat
  /\ MaxSpurious \in Nat

VARIABLES
  buffer,        \* ReceivingConnectionEndpoint::buffer
  stopSending,   \* ReceivingConnectionEndpoint::stopSending
  owner,         \* where the owner of the endpoint stands in its life cycle
  worker,        \* where the worker thread stands
  chunk,         \* the bytes the last recv() left in intermediateBuffer
  errno,         \* "ok", or why the last recv() returned -1
  process,       \* whether the process still runs
  reader,        \* where each reader stands in its call
  call,          \* the call each reader makes: what it does, how many bytes
  result,        \* what the last call of each reader returned
  fd,            \* state of the descriptor FD
  peer,          \* state of the other side of the connection
  incoming,      \* bytes the kernel has queued for recv()
  received,      \* history: the bytes recv() returned
  taken,         \* history: the bytes pulls removed
  arrivals,      \* number of bytes the peer sent
  calls,         \* number of calls so far
  spurious       \* number of spurious wakeups so far

ownerVars  == <<owner, stopSending>>
recvVars   == <<chunk, errno, incoming, received, arrivals>>
callVars   == <<call, result, taken, calls>>
netVars    == <<fd, peer>>
vars == <<buffer, ownerVars, worker, recvVars, process, reader, callVars,
          netVars, spurious>>

Calls  == [op : {"pull", "read"}, n : Demands]
NoCall == [op |-> "none", n |-> 0]

(* A reader that is not idle has made a call. *)
CallsTyped ==
  /\ call \in [Readers -> Calls \cup {NoCall}]
  /\ \A r \in Readers : reader[r] # "idle" => call[r] \in Calls

TypeOK ==
  /\ buffer \in Seq(Byte)
  /\ stopSending \in BOOLEAN
  /\ owner \in {"constructed", "started", "stopping", "joining", "destroyed"}
  /\ worker \in {"none", "check", "recv", "blocked", "got", "notify", "exited"}
  /\ chunk \in Seq(Byte)
  /\ errno \in {"ok", "EBADF", "ECONNRESET"}
  /\ process \in {"running", "terminated"}
  /\ reader \in [Readers -> {"idle", "ready", "waiting", "notify"}]
  /\ CallsTyped
  /\ result \in [Readers -> Seq(Byte)]
  /\ fd \in {"open", "shut", "closed"}
  /\ peer \in {"up", "finished", "reset"}
  /\ incoming \in Seq(Byte)
  /\ received \in Seq(Byte)
  /\ taken \in Seq(Byte)
  /\ arrivals \in Nat
  /\ calls \in Nat
  /\ spurious \in Nat

Init ==
  /\ buffer = <<>>
  /\ stopSending = FALSE
  /\ owner = "constructed"
  /\ worker = "none"
  /\ chunk = <<>>
  /\ errno = "ok"
  /\ process = "running"
  /\ reader = [r \in Readers |-> "idle"]
  /\ call = [r \in Readers |-> NoCall]
  /\ result = [r \in Readers |-> <<>>]
  /\ fd = "open"
  /\ peer = "up"
  /\ incoming = <<>>
  /\ received = <<>>
  /\ taken = <<>>
  /\ arrivals = 0
  /\ calls = 0
  /\ spurious = 0

(* notify_one on the readers rs: one of the waiting ones, if any, wakes up. *)
(* The worker never waits on the condition variable.                       *)
NotifyOne(rs) ==
  \/ /\ \A q \in Readers : rs[q] # "waiting"
     /\ reader' = rs
  \/ \E q \in Readers :
       /\ rs[q] = "waiting"
       /\ reader' = [rs EXCEPT ![q] = "ready"]

-------------------------------------------------------------------------------
(* pullByte, pullBytes, readByte, readBytes; the ones without a count are     *)
(* those with a count of 1.                                                   *)

(* Mutant of ReaderCall: the count is not passed on. *)
ReaderCallBlank(r, c) ==
  /\ reader[r] = "idle"
  /\ owner \in {"constructed", "started"}
  /\ calls < MaxCalls
  /\ calls' = calls + 1
  /\ reader' = [reader EXCEPT ![r] = "ready"]
  /\ UNCHANGED <<buffer, ownerVars, worker, recvVars, process, call, result,
                 taken, netVars, spurious>>

ReaderCall(r, c) ==
  /\ reader[r] = "idle"
  /\ owner \in {"constructed", "started"}
  /\ calls < MaxCalls
  /\ calls' = calls + 1
  /\ call' = [call EXCEPT ![r] = c]
  /\ reader' = [reader EXCEPT ![r] = "ready"]
  /\ UNCHANGED <<buffer, ownerVars, worker, recvVars, process, result, taken,
                 netVars, spurious>>

(* buffer.size() >= n *)
Enough(r) == Len(buffer) >= call[r].n

NextBytes(r) == SubSeq(buffer, 1, call[r].n)

(* Mutant of ReaderTake: a read removes the bytes as well. *)
ReaderTakeRemoves(r) ==
  /\ reader[r] = "ready"
  /\ Enough(r)
  /\ result' = [result EXCEPT ![r] = NextBytes(r)]
  /\ buffer' = SubSeq(buffer, call[r].n + 1, Len(buffer))
  /\ taken' = IF call[r].op = "pull" THEN taken \o NextBytes(r) ELSE taken
  /\ reader' = [reader EXCEPT ![r] = "notify"]
  /\ UNCHANGED <<ownerVars, worker, recvVars, process, call, calls, netVars,
                 spurious>>

(* The critical section, entered at the call or after a wakeup: the predicate *)
(* holds, and the bytes are copied and, by a pull, removed.                   *)
ReaderTake(r) ==
  /\ reader[r] = "ready"
  /\ Enough(r)
  /\ result' = [result EXCEPT ![r] = NextBytes(r)]
  /\ \/ /\ call[r].op = "pull"
        /\ buffer' = SubSeq(buffer, call[r].n + 1, Len(buffer))
        /\ taken' = taken \o NextBytes(r)
     \/ /\ call[r].op = "read"
        /\ UNCHANGED <<buffer, taken>>
  /\ reader' = [reader EXCEPT ![r] = "notify"]
  /\ UNCHANGED <<ownerVars, worker, recvVars, process, call, calls, netVars,
                 spurious>>

(* The predicate does not hold: release the mutex and sleep. *)
ReaderWait(r) ==
  /\ reader[r] = "ready"
  /\ ~Enough(r)
  /\ reader' = [reader EXCEPT ![r] = "waiting"]
  /\ UNCHANGED <<buffer, ownerVars, worker, recvVars, process, callVars,
                 netVars, spurious>>

(* Mutant of ReaderNotify: the call returns without notify_one. *)
ReaderReturnSilent(r) ==
  /\ reader[r] = "notify"
  /\ reader' = [reader EXCEPT ![r] = "idle"]
  /\ UNCHANGED <<buffer, ownerVars, worker, recvVars, process, callVars,
                 netVars, spurious>>

(* conditionVar.notify_one(), and the call returns *)
ReaderNotify(r) ==
  /\ reader[r] = "notify"
  /\ NotifyOne([reader EXCEPT ![r] = "idle"])
  /\ UNCHANGED <<buffer, ownerVars, worker, recvVars, process, callVars,
                 netVars, spurious>>

ReaderSpurious(r) ==
  /\ reader[r] = "waiting"
  /\ spurious < MaxSpurious
  /\ spurious' = spurious + 1
  /\ reader' = [reader EXCEPT ![r] = "ready"]
  /\ UNCHANGED <<buffer, ownerVars, worker, recvVars, process, callVars,
                 netVars>>

-------------------------------------------------------------------------------
(* The worker thread. *)

(* while (!stopSending) *)
WorkerCheck ==
  /\ worker = "check"
  /\ worker' = IF stopSending THEN "exited" ELSE "recv"
  /\ UNCHANGED <<buffer, ownerVars, recvVars, process, reader, callVars,
                 netVars, spurious>>

(* recv() is called.  The kernel looks FD up now: a closed one fails, an open *)
(* one stays usable until the call returns.                                   *)
RecvEnter ==
  /\ worker = "recv"
  /\ IF fd = "closed"
       THEN worker' = "got" /\ errno' = "EBADF" /\ chunk' = <<>>
       ELSE worker' = "blocked" /\ UNCHANGED <<errno, chunk>>
  /\ UNCHANGED <<buffer, ownerVars, incoming, received, arrivals, process,
                 reader, callVars, netVars, spurious>>

(* recv() returns n queued bytes. *)
RecvBytes(n) ==
  /\ worker = "blocked"
  /\ n <= RecvSize
  /\ chunk' = SubSeq(incoming, 1, n)
  /\ incoming' = SubSeq(incoming, n + 1, Len(incoming))
  /\ received' = received \o chunk'
  /\ errno' = "ok"
  /\ worker' = "got"
  /\ UNCHANGED <<buffer, ownerVars, arrivals, process, reader, callVars,
                 netVars, spurious>>

(* Mutant of RecvNothing: the disconnect shuts the write side down instead. *)
RecvNothingFromPeer ==
  /\ worker = "blocked"
  /\ incoming = <<>>
  /\ peer = "finished"
  /\ chunk' = <<>>
  /\ errno' = "ok"
  /\ worker' = "got"
  /\ UNCHANGED <<buffer, ownerVars, incoming, received, arrivals, process,
                 reader, callVars, netVars, spurious>>

(* recv() returns 0: the peer is done or the read side was shut down.         *)
RecvNothing ==
  /\ worker = "blocked"
  /\ incoming = <<>>
  /\ peer = "finished" \/ fd # "open"
  /\ chunk' = <<>>
  /\ errno' = "ok"
  /\ worker' = "got"
  /\ UNCHANGED <<buffer, ownerVars, incoming, received, arrivals, process,
                 reader, callVars, netVars, spurious>>

(* recv() returns -1 for a reason other than a closed descriptor. *)
RecvError ==
  /\ worker = "blocked"
  /\ incoming = <<>>
  /\ peer = "reset"
  /\ chunk' = <<>>
  /\ errno' = "ECONNRESET"
  /\ worker' = "got"
  /\ UNCHANGED <<buffer, ownerVars, incoming, received, arrivals, process,
                 reader, callVars, netVars, spurious>>

(* Mutant of WorkerHandle: EBADF is not told from the other errors. *)
WorkerHandleAnyError ==
  /\ worker = "got"
  /\ \/ /\ errno # "ok"
        /\ process' = "terminated"
        /\ UNCHANGED <<buffer, worker>>
     \/ /\ errno = "ok"
        /\ buffer' = buffer \o chunk
        /\ worker' = "notify"
        /\ UNCHANGED process
  /\ UNCHANGED <<ownerVars, recvVars, reader, callVars, netVars, spurious>>

(* Mutant of WorkerHandle: the bytes go to the front of the queue. *)
WorkerHandlePrepend ==
  /\ worker = "got"
  /\ \/ /\ errno = "EBADF"
        /\ worker' = "exited"
        /\ UNCHANGED <<buffer, process>>
     \/ /\ errno = "ECONNRESET"
        /\ process' = "terminated"
        /\ UNCHANGED <<buffer, worker>>
     \/ /\ errno = "ok"
        /\ buffer' = chunk \o buffer
        /\ worker' = "notify"
        /\ UNCHANGED process
  /\ UNCHANGED <<ownerVars, recvVars, reader, callVars, netVars, spurious>>

(* The critical section: insert the bytes, run the callback.  EBADF ends the  *)
(* thread.  Any other error is printed, and then a range of length -1 is      *)
(* inserted: deque::insert throws length_error, nothing in the thread catches *)
(* it, and the process terminates.                                            *)
WorkerHandle ==
  /\ worker = "got"
  /\ \/ /\ errno = "EBADF"
        /\ worker' = "exited"
        /\ UNCHANGED <<buffer, process>>
     \/ /\ errno = "ECONNRESET"
        /\ process' = "terminated"
        /\ UNCHANGED <<buffer, worker>>
     \/ /\ errno = "ok"
        /\ buffer' = buffer \o chunk
        /\ worker' = "notify"
        /\ UNCHANGED process
  /\ UNCHANGED <<ownerVars, recvVars, reader, callVars, netVars, spurious>>

(* Mutant of WorkerNotify: no notify_one after an insertion. *)
WorkerNotifyMissing ==
  /\ worker = "notify"
  /\ worker' = "check"
  /\ UNCHANGED <<buffer, ownerVars, recvVars, process, reader, callVars,
                 netVars, spurious>>

(* conditionVar.notify_one() *)
WorkerNotify ==
  /\ worker = "notify"
  /\ NotifyOne(reader)
  /\ worker' = "check"
  /\ UNCHANGED <<buffer, ownerVars, recvVars, process, callVars, netVars,
                 spurious>>

-------------------------------------------------------------------------------
(* The owner: constructor, start, destructor. *)

Start ==
  /\ owner = "constructed"
  /\ owner' = "started"
  /\ worker' = "check"
  /\ UNCHANGED <<buffer, stopSending, recvVars, process, reader, callVars,
                 netVars, spurious>>

(* The destructor: stopSending is set, notify_one wakes a reader if anything, *)
(* and join() waits for the worker.  No call may be in progress.              *)
StopSet ==
  /\ owner \in {"constructed", "started"}
  /\ \A r \in Readers : reader[r] = "idle"
  /\ stopSending' = TRUE
  /\ owner' = "stopping"
  /\ UNCHANGED <<buffer, worker, recvVars, process, reader, callVars, netVars,
                 spurious>>

StopNotify ==
  /\ owner = "stopping"
  /\ NotifyOne(reader)
  /\ owner' = "joining"
  /\ UNCHANGED <<buffer, stopSending, worker, recvVars, process, callVars,
                 netVars, spurious>>

StopJoin ==
  /\ owner = "joining"
  /\ worker \in {"none", "exited"}
  /\ owner' = "destroyed"
  /\ UNCHANGED <<buffer, stopSending, worker, recvVars, process, reader,
                 callVars, netVars, spurious>>

-------------------------------------------------------------------------------
(* The connection: the peer, and Client::disconnect on this side. *)

PeerSend(b) ==
  /\ peer = "up"
  /\ fd # "closed"
  /\ arrivals < MaxBytes
  /\ arrivals' = arrivals + 1
  /\ incoming' = Append(incoming, b)
  /\ UNCHANGED <<buffer, ownerVars, worker, chunk, errno, received, process,
                 reader, callVars, netVars, spurious>>

(* The peer closes its side; or the connection is reset, and the bytes still  *)
(* queued may be lost.                                                        *)
PeerLeaves ==
  /\ peer # "reset"
  /\ \/ /\ peer' = "finished"
        /\ peer = "up"
        /\ UNCHANGED incoming
     \/ /\ peer' = "reset"
        /\ incoming' \in {incoming, <<>>}
  /\ UNCHANGED <<buffer, ownerVars, worker, chunk, errno, received, arrivals,
                 process, reader, callVars, fd, spurious>>

(* shutdown(serverFD, SHUT_RD), which fails on a connection that was reset,   *)
(* then close(serverFD)                                                       *)
Disconnect ==
  /\ \/ /\ fd = "open"
        /\ peer # "reset"
        /\ fd' = "shut"
     \/ /\ fd = "shut"
        /\ fd' = "closed"
  /\ UNCHANGED <<buffer, ownerVars, worker, recvVars, process, reader,
                 callVars, peer, spurious>>

-------------------------------------------------------------------------------
ReaderStep(r) == ReaderTake(r) \/ ReaderWait(r) \/ ReaderNotify(r)

WorkerStep ==
  \/ WorkerCheck \/ RecvEnter \/ RecvNothing \/ RecvError \/ WorkerHandle
  \/ WorkerNotify
  \/ \E n \in 1 .. Len(incoming) : RecvBytes(n)

StopStep == StopNotify \/ StopJoin

(* A terminated process takes no step. *)
Next ==
  /\ process = "running"
  /\ \/ \E r \in Readers : \/ \E c \in Calls : ReaderCall(r, c)
                           \/ ReaderStep(r)
                           \/ ReaderSpurious(r)
     \/ WorkerStep
     \/ Start
     \/ StopSet
     \/ StopStep
     \/ \E b \in Byte : PeerSend(b)
     \/ PeerLeaves
     \/ Disconnect

Spec == Init /\ [][Next]_vars

(* The threads of a running process are scheduled.  Calls, the peer and       *)
(* spurious wakeups need never happen; a disconnect in progress goes on.      *)
Fairness ==
  /\ WF_vars(process = "running" /\ WorkerStep)
  /\ \A r \in Readers : WF_vars(process = "running" /\ ReaderStep(r))
  /\ WF_vars(process = "running" /\ StopStep)
  /\ WF_vars(process = "running" /\ fd = "shut" /\ Disconnect)

FairSpec == Spec /\ Fairness

-------------------------------------------------------------------------------
(* Safety. *)

(* The bytes the worker has received and not inserted yet. *)
InHand == IF worker = "got" THEN chunk ELSE <<>>

(* Nothing is lost, repeated or reordered between recv() and the readers.     *)
StreamIntegrity == taken \o buffer \o InHand = received

(* Every call returns the next bytes of the stream: the endpoint implements   *)
(* the interface it inherits from.                                            *)
Source == INSTANCE DataSource WITH arrived <- received
SourceSpec == Source!Spec

(* No wakeup is lost between readers that ask for equally many bytes: while   *)
(* one sleeps although enough bytes are there, another thread is awake that   *)
(* will notify again, after the worker's notify_one woke just one of them.    *)
BatonHeld ==
  (\E r \in Readers : reader[r] = "waiting" /\ Enough(r)) =>
    \/ worker = "notify"
    \/ \E q \in Readers : reader[q] \in {"ready", "notify"}

(* Whatever numbers of bytes the readers ask for, they never all sleep on     *)
(* bytes that would do for each of them while nobody is left to notify: a     *)
(* notify_one that wakes a reader who cannot go on yet wakes nobody else, and *)
(* that reader sleeps without a notification of its own                       *)
(* (ReceivingConnectionEndpoint.cpp:39, 53, 66, 79, 110).                     *)
NoStandstill ==
  /\ \E r \in Readers : reader[r] = "waiting"
  /\ \A r \in Readers : reader[r] = "waiting" => Enough(r)
  => \/ worker = "notify"
     \/ \E q \in Readers : reader[q] \in {"ready", "notify"}

(* The range of length -1 is inserted only when the peer reset the            *)
(* connection: no order of shutdown, close and recv() leads there.            *)
TerminatedOnlyByReset == process = "terminated" => peer = "reset"

-------------------------------------------------------------------------------
(* The inductive invariant behind the safety properties. *)

(* A recv() that failed left no bytes, and an error other than EBADF comes    *)
(* from a reset of the connection, which is for good.                         *)
ErrorsExplained ==
  worker = "got" => /\ errno # "ok" => chunk = <<>>
                    /\ errno = "ECONNRESET" => peer = "reset"

(* The worker exists from start on. *)
NoThreadYet == owner = "constructed" => worker = "none"

IInv ==
  /\ TypeOK
  /\ NoThreadYet
  /\ StreamIntegrity
  /\ ErrorsExplained
  /\ TerminatedOnlyByReset

-------------------------------------------------------------------------------
(* Liveness. *)

(* A reader whose bytes are in the buffer gets them, or others take them.     *)
(* The mutex is handed out fairly only if nobody spins on it, so the property *)
(* is about connections that stay up.                                         *)
Served(r) ==
  reader[r] = "waiting" /\ Enough(r) ~>
    \/ reader[r] # "waiting"
    \/ ~Enough(r)
    \/ peer # "up"
    \/ fd # "open"

ReadersServed == \A r \in Readers : Served(r)

(* A closed descriptor ends the worker, so a destructor called after          *)
(* Client::disconnect returns.                                                *)
StopAfterClose ==
  owner = "joining" /\ fd = "closed" ~> owner = "destroyed" \/ process = "terminated"

(* ReceivingConnectionEndpoint.hpp:34-38: destroying the endpoint stops the   *)
(* thread, so the destructor returns.                                         *)
DestructorReturns ==
  owner = "stopping" ~> owner = "destroyed" \/ process = "terminated"
===============================================================================
