-------------------------------- MODULE Client --------------------------------
(***************************************************************************)
(* Minecraft::Client::Client: connect, disconnect and the destructor, for  *)
(* several clients in one process.  What they share is the process's table *)
(* of file descriptors: socket() takes the lowest free number, close()     *)
(* frees it, and the endpoints of a client remember nothing but a number.  *)
(*                                                                         *)
(* Each system call of connect and disconnect is a step, because another   *)
(* thread may run between two of them.  The endpoints are abstracted to    *)
(* what their threads do with the number; SendingEndpoint and              *)
(* ReceivingEndpoint have the detail.                                      *)
(***************************************************************************)
EXTENDS Integers

CONSTANTS
  Clients,      \* the Client objects, each used by one thread of its own
  FDs,          \* the descriptor numbers the process may use
  MaxSockets    \* bound: calls of socket() in a behaviour

ASSUME ClientAssumption ==
  /\ FDs \subseteq Nat
  /\ MaxSockets \in Nat

Sockets  == 1 .. MaxSockets
NoSocket == 0     \* what a free descriptor refers to
NoFD     == -1    \* the result of a socket() that failed

VARIABLES
  table,      \* the socket each descriptor refers to, or NoSocket
  socket,     \* the state of each socket
  step,       \* where the thread of each client stands
  dtor,       \* whether it is in the destructor
  connected,  \* Client::connected
  serverFD,   \* Client::serverFD
  recvAt,     \* where the thread of recvEnd stands
  recvFD,     \* recvEnd.FD
  recvOn,     \* the socket its recv() is in, or NoSocket
  sendAt,     \* where the thread of sendEnd stands
  sendFD,     \* sendEnd.FD
  pending,    \* whether bytes wait in sendEnd
  opened,     \* history: the sockets each client made
  talked,     \* history: the sockets each client's data came from or went to
  process     \* whether the process still runs, or what ended it

kernelVars == <<table, socket>>
clientVars == <<step, dtor, connected, serverFD>>
recvVars   == <<recvAt, recvFD, recvOn>>
sendVars   == <<sendAt, sendFD, pending>>
vars == <<kernelVars, clientVars, recvVars, sendVars, opened, talked, process>>

Steps == {"idle", "resolving", "connecting", "startRecv", "startSend",
          "shutting", "closing", "stopSend", "stopRecv", "gone"}

SomeFD     == FDs \cup {NoFD}
SomeSocket == Sockets \cup {NoSocket}

TypeOK ==
  /\ table \in [FDs -> SomeSocket]
  /\ socket \in [Sockets -> {"unused", "fresh", "up", "finished", "reset"}]
  /\ step \in [Clients -> Steps]
  /\ dtor \in [Clients -> BOOLEAN]
  /\ connected \in [Clients -> BOOLEAN]
  /\ serverFD \in [Clients -> SomeFD]
  /\ recvAt \in [Clients -> {"none", "check", "enter", "recv", "exited"}]
  /\ recvFD \in [Clients -> SomeFD]
  /\ recvOn \in [Clients -> SomeSocket]
  /\ sendAt \in [Clients -> {"none", "running", "exited"}]
  /\ sendFD \in [Clients -> SomeFD]
  /\ pending \in [Clients -> BOOLEAN]
  /\ opened \in [Clients -> SUBSET Sockets]
  /\ talked \in [Clients -> SUBSET Sockets]
  /\ process \in {"running", "aborted", "reassigned"}

Init ==
  /\ table = [f \in FDs |-> NoSocket]
  /\ socket = [s \in Sockets |-> "unused"]
  /\ step = [c \in Clients |-> "idle"]
  /\ dtor = [c \in Clients |-> FALSE]
  /\ connected = [c \in Clients |-> FALSE]
  /\ serverFD = [c \in Clients |-> NoFD]
  /\ recvAt = [c \in Clients |-> "none"]
  /\ recvFD = [c \in Clients |-> NoFD]
  /\ recvOn = [c \in Clients |-> NoSocket]
  /\ sendAt = [c \in Clients |-> "none"]
  /\ sendFD = [c \in Clients |-> NoFD]
  /\ pending = [c \in Clients |-> FALSE]
  /\ opened = [c \in Clients |-> {}]
  /\ talked = [c \in Clients |-> {}]
  /\ process = "running"

Goto(c, there) == step' = [step EXCEPT ![c] = there]

-------------------------------------------------------------------------------
(* connect *)

FreeFDs == {f \in FDs : table[f] = NoSocket}

(* Mutant of ConnectSocket: serverFD = socket(...) < 0, which is 0. *)
ConnectSocketCompared(c) ==
  /\ step[c] = "idle"
  /\ ~connected[c]
  /\ \E s \in Sockets, f \in FreeFDs :
       /\ socket[s] = "unused"
       /\ socket' = [socket EXCEPT ![s] = "fresh"]
       /\ table' = [table EXCEPT ![f] = s]
       /\ opened' = [opened EXCEPT ![c] = @ \cup {s}]
  /\ serverFD' = [serverFD EXCEPT ![c] = 0]
  /\ Goto(c, "resolving")
  /\ UNCHANGED <<dtor, connected, recvVars, sendVars, talked, process>>

(* if (connected) return false; serverFD = socket(...) *)
ConnectSocket(c) ==
  /\ step[c] = "idle"
  /\ ~connected[c]
  /\ \E s \in Sockets, f \in FreeFDs :
       /\ socket[s] = "unused"
       /\ \A t \in Sockets : socket[t] = "unused" => s <= t
       /\ \A g \in FreeFDs : f <= g
       /\ socket' = [socket EXCEPT ![s] = "fresh"]
       /\ table' = [table EXCEPT ![f] = s]
       /\ opened' = [opened EXCEPT ![c] = @ \cup {s}]
       /\ serverFD' = [serverFD EXCEPT ![c] = f]
  /\ Goto(c, "resolving")
  /\ UNCHANGED <<dtor, connected, recvVars, sendVars, talked, process>>

(* socket() finds no free descriptor: return false *)
ConnectNoSocket(c) ==
  /\ step[c] = "idle"
  /\ ~connected[c]
  /\ FreeFDs = {}
  /\ serverFD' = [serverFD EXCEPT ![c] = NoFD]
  /\ UNCHANGED <<kernelVars, step, dtor, connected, recvVars, sendVars, opened,
                 talked, process>>

(* inet_pton refuses whatever is not an address; gethostbyaddr may know no    *)
(* host of an address.  Either way return false, with the socket left open.   *)
ConnectResolve(c) ==
  /\ step[c] = "resolving"
  /\ Goto(c, "connecting") \/ Goto(c, "idle")
  /\ UNCHANGED <<kernelVars, dtor, connected, serverFD, recvVars, sendVars,
                 opened, talked, process>>

(* ::connect; when it fails, return false with the socket left open. *)
ConnectPeer(c) ==
  /\ step[c] = "connecting"
  /\ \/ /\ socket' = [socket EXCEPT ![table[serverFD[c]]] = "up"]
        /\ Goto(c, "startRecv")
     \/ /\ Goto(c, "idle")
        /\ UNCHANGED socket
  /\ UNCHANGED <<table, dtor, connected, serverFD, recvVars, sendVars, opened,
                 talked, process>>

(* recvEnd.start(serverFD): a std::thread that is still joinable terminates   *)
(* the process when it is assigned to, and nothing joins the one of an        *)
(* earlier connection.                                                        *)
ConnectStartRecv(c) ==
  /\ step[c] = "startRecv"
  /\ recvFD' = [recvFD EXCEPT ![c] = serverFD[c]]
  /\ recvAt' = [recvAt EXCEPT ![c] = "check"]
  /\ process' = IF recvAt[c] = "none" THEN "running" ELSE "reassigned"
  /\ Goto(c, "startSend")
  /\ UNCHANGED <<kernelVars, dtor, connected, serverFD, recvOn, sendVars, opened,
                 talked>>

(* sendEnd.start(serverFD); connected = true; return true *)
ConnectStartSend(c) ==
  /\ step[c] = "startSend"
  /\ sendFD' = [sendFD EXCEPT ![c] = serverFD[c]]
  /\ sendAt' = [sendAt EXCEPT ![c] = "running"]
  /\ process' = IF sendAt[c] = "none" THEN "running" ELSE "reassigned"
  /\ connected' = [connected EXCEPT ![c] = TRUE]
  /\ Goto(c, "idle")
  /\ UNCHANGED <<kernelVars, dtor, serverFD, recvVars, pending, opened, talked>>

-------------------------------------------------------------------------------
(* disconnect, and the destructor, which calls it *)

(* Where the thread goes on when disconnect returns. *)
AfterDisconnect(c) == IF dtor[c] THEN "stopSend" ELSE "idle"

(* Mutant of Shutdown: disconnect does not ask whether it is connected. *)
ShutdownAnyway(c) ==
  /\ \/ step[c] = "idle" /\ serverFD[c] # NoFD
     \/ step[c] = "shutting"
  /\ LET s == table[serverFD[c]] IN
       /\ s # NoSocket
       /\ socket[s] \in {"up", "finished"}
       /\ socket' = [socket EXCEPT ![s] = "finished"]
       /\ Goto(c, "closing")
  /\ UNCHANGED <<table, dtor, connected, serverFD, recvVars, sendVars, opened,
                 talked, process>>

(* if (!connected) return false; shutdown(serverFD, SHUT_RD).  A connection   *)
(* that was reset is not connected any more: shutdown fails, return false.    *)
Shutdown(c) ==
  /\ \/ step[c] = "idle" /\ connected[c]
     \/ step[c] = "shutting"
  /\ LET s == table[serverFD[c]] IN
       \/ /\ socket[s] \in {"up", "finished"}
          /\ socket' = [socket EXCEPT ![s] = "finished"]
          /\ Goto(c, "closing")
       \/ /\ socket[s] = "reset"
          /\ Goto(c, AfterDisconnect(c))
          /\ UNCHANGED socket
  /\ UNCHANGED <<table, dtor, connected, serverFD, recvVars, sendVars, opened,
                 talked, process>>

(* Mutant of Close: connected keeps its value. *)
CloseStaysConnected(c) ==
  /\ step[c] = "closing"
  /\ table' = [table EXCEPT ![serverFD[c]] = NoSocket]
  /\ Goto(c, AfterDisconnect(c))
  /\ UNCHANGED <<socket, dtor, connected, serverFD, recvVars, sendVars, opened,
                 talked, process>>

(* close(serverFD); connected = false; return true *)
Close(c) ==
  /\ step[c] = "closing"
  /\ table' = [table EXCEPT ![serverFD[c]] = NoSocket]
  /\ connected' = [connected EXCEPT ![c] = FALSE]
  /\ Goto(c, AfterDisconnect(c))
  /\ UNCHANGED <<socket, dtor, serverFD, recvVars, sendVars, opened, talked,
                 process>>

(* ~Client calls disconnect and ignores its result; then the members are      *)
(* destroyed, sendEnd before recvEnd.                                         *)
Destroy(c) ==
  /\ step[c] = "idle"
  /\ dtor' = [dtor EXCEPT ![c] = TRUE]
  /\ Goto(c, IF connected[c] THEN "shutting" ELSE "stopSend")
  /\ UNCHANGED <<kernelVars, connected, serverFD, recvVars, sendVars, opened,
                 talked, process>>

StopSend(c) ==
  /\ step[c] = "stopSend"
  /\ sendAt' = [sendAt EXCEPT ![c] = IF @ = "none" THEN "none" ELSE "exited"]
  /\ Goto(c, "stopRecv")
  /\ UNCHANGED <<kernelVars, dtor, connected, serverFD, recvVars, sendFD, pending,
                 opened, talked, process>>

(* The join of the receiving thread, which still has to see stopSending. *)
JoinRecv(c) ==
  /\ step[c] = "stopRecv"
  /\ recvAt[c] \in {"none", "exited"}
  /\ Goto(c, "gone")
  /\ UNCHANGED <<kernelVars, dtor, connected, serverFD, recvVars, sendVars, opened,
                 talked, process>>

-------------------------------------------------------------------------------
(* The threads of the endpoints. *)

(* while (!stopSending) *)
RecvCheck(c) ==
  /\ recvAt[c] = "check"
  /\ recvAt' = [recvAt EXCEPT ![c] = IF step[c] = "stopRecv" THEN "exited" ELSE "enter"]
  /\ UNCHANGED <<kernelVars, clientVars, recvFD, recvOn, sendVars, opened, talked,
                 process>>

(* recv(FD, ...) looks the number up: EBADF ends the thread, anything else is *)
(* a socket to receive from, whoever opened it.                               *)
RecvEnter(c) ==
  /\ recvAt[c] = "enter"
  /\ LET s == table[recvFD[c]] IN
       /\ recvOn' = [recvOn EXCEPT ![c] = s]
       /\ recvAt' = [recvAt EXCEPT ![c] = IF s = NoSocket THEN "exited" ELSE "recv"]
  /\ UNCHANGED <<kernelVars, clientVars, recvFD, sendVars, opened, talked, process>>

(* recv() returns bytes, or 0 at the end of the stream; ENOTCONN or           *)
(* ECONNRESET abort the process (WorkerHandle of ReceivingEndpoint).          *)
RecvReturn(c) ==
  /\ recvAt[c] = "recv"
  /\ LET s == recvOn[c] IN
       \/ /\ socket[s] \in {"up", "finished"}
          /\ talked' = [talked EXCEPT ![c] = @ \cup {s}]
          /\ UNCHANGED process
       \/ /\ socket[s] = "finished"
          /\ UNCHANGED <<talked, process>>
       \/ /\ socket[s] \in {"fresh", "reset"}
          /\ process' = "aborted"
          /\ UNCHANGED talked
  /\ recvAt' = [recvAt EXCEPT ![c] = "check"]
  /\ recvOn' = [recvOn EXCEPT ![c] = NoSocket]
  /\ UNCHANGED <<kernelVars, clientVars, recvFD, sendVars, opened>>

(* The user pushes bytes, before, during or after a connection. *)
Push(c) ==
  /\ step[c] = "idle"
  /\ ~pending[c]
  /\ pending' = [pending EXCEPT ![c] = TRUE]
  /\ UNCHANGED <<kernelVars, clientVars, recvVars, sendAt, sendFD, opened, talked,
                 process>>

(* Mutant of SendBytes: what is pending goes to the socket opened last. *)
SendBytesLast(c) ==
  /\ sendAt[c] = "running" /\ pending[c]
  /\ \E s \in Sockets :
       /\ socket[s] = "up"
       /\ \A t \in Sockets : socket[t] # "unused" => t <= s
       /\ talked' = [talked EXCEPT ![c] = @ \cup {s}]
  /\ pending' = [pending EXCEPT ![c] = FALSE]
  /\ UNCHANGED <<kernelVars, clientVars, recvVars, sendAt, sendFD, opened, process>>

(* send(FD, ...) succeeds; with a free number it fails and is tried again.    *)
SendBytes(c) ==
  /\ sendAt[c] = "running" /\ pending[c]
  /\ LET s == table[sendFD[c]] IN
       /\ s # NoSocket
       /\ socket[s] \in {"up", "finished"}
       /\ talked' = [talked EXCEPT ![c] = @ \cup {s}]
  /\ pending' = [pending EXCEPT ![c] = FALSE]
  /\ UNCHANGED <<kernelVars, clientVars, recvVars, sendAt, sendFD, opened, process>>

(* SIGPIPE from a socket that is not, or no longer, connected *)
SendSigPipe(c) ==
  /\ sendAt[c] = "running" /\ pending[c]
  /\ LET s == table[sendFD[c]] IN
       /\ s # NoSocket
       /\ socket[s] \in {"fresh", "reset"}
  /\ process' = "aborted"
  /\ UNCHANGED <<kernelVars, clientVars, recvVars, sendVars, opened, talked>>

(* The peer closes a connection, or resets it. *)
PeerLeaves(s) ==
  /\ \/ /\ socket[s] = "up"
        /\ socket' = [socket EXCEPT ![s] = "finished"]
     \/ /\ socket[s] \in {"up", "finished"}
        /\ socket' = [socket EXCEPT ![s] = "reset"]
  /\ UNCHANGED <<table, clientVars, recvVars, sendVars, opened, talked, process>>

-------------------------------------------------------------------------------
Connect(c) ==
  \/ ConnectSocket(c) \/ ConnectNoSocket(c) \/ ConnectResolve(c)
  \/ ConnectPeer(c) \/ ConnectStartRecv(c) \/ ConnectStartSend(c)

Leave(c) == Shutdown(c) \/ Close(c) \/ Destroy(c) \/ StopSend(c) \/ JoinRecv(c)

Threads(c) ==
  \/ RecvCheck(c) \/ RecvEnter(c) \/ RecvReturn(c)
  \/ SendBytes(c) \/ SendSigPipe(c)

(* A process that ended takes no step. *)
Next ==
  /\ process = "running"
  /\ \/ \E c \in Clients : Connect(c) \/ Leave(c) \/ Threads(c) \/ Push(c)
     \/ \E s \in Sockets : PeerLeaves(s)

Spec == Init /\ [][Next]_vars

-------------------------------------------------------------------------------
(* Properties. *)

(* While a client is connected, its descriptor number means a socket it       *)
(* opened, both of its endpoints use that number, and its receiving thread    *)
(* sits on no other socket: nothing another client opens or closes meanwhile  *)
(* changes that.                                                              *)
ConnectedIsWired ==
  \A c \in Clients : connected[c] =>
    /\ serverFD[c] \in FDs
    /\ table[serverFD[c]] \in opened[c]
    /\ recvFD[c] = serverFD[c]
    /\ sendFD[c] = serverFD[c]
    /\ recvAt[c] = "recv" => recvOn[c] = table[serverFD[c]]

(* A descriptor is only ever closed by the client whose connection it is; a   *)
(* second disconnect, or a destructor after it, closes nothing although the   *)
(* number may mean another client's socket by then.                           *)
ClosesOwnSocket ==
  [][\A f \in FDs : table[f] # NoSocket /\ table'[f] # table[f] =>
       \E c \in Clients :
         /\ table[f] \in opened[c]
         /\ connected[c] /\ ~connected'[c]]_vars

(* A connected client exchanges data with its own server only. *)
ConnectedTalksToServer ==
  [][\A c \in Clients : connected[c] =>
       talked'[c] \ talked[c] \subseteq {table[serverFD[c]]}]_vars

(* Client.hpp:50,57: the sink and the source are for data to and from the     *)
(* server, so no client ever exchanges data with the server of another one.   *)
TalksToOwnServer == \A c \in Clients : talked[c] \subseteq opened[c]

(* Client.hpp:35: connect returns whether connecting succeeded; in particular *)
(* it returns.                                                                *)
ConnectReturns == process # "reassigned"

-------------------------------------------------------------------------------
(* The inductive invariant behind the safety properties. *)

(* From its socket() to its close() a client holds a descriptor. *)
Holds(c) ==
  \/ connected[c]
  \/ step[c] \in {"resolving", "connecting", "startRecv", "startSend"}

HeldIsOpened ==
  \A c \in Clients : Holds(c) => /\ serverFD[c] \in FDs
                               /\ table[serverFD[c]] \in opened[c]

(* The threads of an endpoint have a descriptor from start on, and recv() is  *)
(* only ever in a socket.                                                     *)
ThreadsHaveFDs ==
  \A c \in Clients :
    /\ recvAt[c] # "none" => recvFD[c] \in FDs
    /\ sendAt[c] # "none" => sendFD[c] \in FDs
    /\ recvAt[c] = "recv" => recvOn[c] \in Sockets

(* No two clients made the same socket, and what was made is not made again.  *)
OpenedApart ==
  /\ \A c, d \in Clients : c # d => opened[c] \cap opened[d] = {}
  /\ \A c \in Clients : \A s \in opened[c] : socket[s] # "unused"

(* The receiving endpoint is wired to the connection before connect returns,  *)
(* the sending endpoint when it does.                                         *)
Wired ==
  \A c \in Clients :
    /\ connected[c] \/ step[c] = "startSend" =>
         /\ recvFD[c] = serverFD[c]
         /\ recvAt[c] = "recv" => recvOn[c] = table[serverFD[c]]
    /\ connected[c] => sendFD[c] = serverFD[c]

LeavesConnection ==
  \A c \in Clients : step[c] = "shutting" \/ step[c] = "closing" => connected[c]

IInv ==
  /\ TypeOK
  /\ HeldIsOpened
  /\ ThreadsHaveFDs
  /\ OpenedApart
  /\ Wired
  /\ LeavesConnection
===============================================================================
