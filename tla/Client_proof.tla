------------------------------ MODULE Client_proof ------------------------------
(***************************************************************************)
(* Proofs about Client, for every set of clients and of descriptors and    *)
(* every number of sockets.                                                *)
(***************************************************************************)
EXTENDS Client, TLAPS

-------------------------------------------------------------------------------
(* The inductive invariant.  Each lemma shows one part of it after a step     *)
(* that starts in IInv, with one step per group of actions.                   *)

LEMMA InvInit == Init => IInv
<1> SUFFICES ASSUME Init PROVE IInv
  OBVIOUS
<1>1. TypeOK
  BY ClientAssumption DEF Init, TypeOK, Steps, SomeFD, SomeSocket, NoFD, NoSocket
<1>2. HeldIsOpened /\ ThreadsHaveFDs /\ OpenedApart /\ Wired /\ LeavesConnection
  BY DEF Init, HeldIsOpened, ThreadsHaveFDs, OpenedApart, Wired, LeavesConnection, Holds
<1> QED BY <1>1, <1>2 DEF IInv

LEMMA TypeNext == IInv /\ [Next]_vars => TypeOK'
<1> SUFFICES ASSUME IInv, [Next]_vars PROVE TypeOK'
  OBVIOUS
<1> USE DEF IInv, TypeOK, Steps, SomeFD, SomeSocket, Sockets, NoSocket, NoFD, Goto,
            kernelVars, clientVars, recvVars, sendVars
<1>1. ASSUME NEW c \in Clients, ConnectSocket(c) PROVE TypeOK'
  BY <1>1 DEF ConnectSocket, FreeFDs
<1>2. ASSUME NEW c \in Clients, ConnectNoSocket(c) PROVE TypeOK'
  BY <1>2 DEF ConnectNoSocket
<1>3. ASSUME NEW c \in Clients, ConnectResolve(c) PROVE TypeOK'
  BY <1>3 DEF ConnectResolve
<1>4. ASSUME NEW c \in Clients, ConnectPeer(c) PROVE TypeOK'
  BY <1>4 DEF ConnectPeer
<1>5. ASSUME NEW c \in Clients, ConnectStartRecv(c) PROVE TypeOK'
  BY <1>5 DEF ConnectStartRecv
<1>6. ASSUME NEW c \in Clients, ConnectStartSend(c) PROVE TypeOK'
  BY <1>6 DEF ConnectStartSend
<1>7. ASSUME NEW c \in Clients, Shutdown(c) PROVE TypeOK'
  BY <1>7 DEF Shutdown, AfterDisconnect
<1>8. ASSUME NEW c \in Clients, Close(c) PROVE TypeOK'
  BY <1>8 DEF Close, AfterDisconnect
<1>9. ASSUME NEW c \in Clients, Destroy(c) PROVE TypeOK'
  BY <1>9 DEF Destroy
<1>10. ASSUME NEW c \in Clients, StopSend(c) PROVE TypeOK'
  BY <1>10 DEF StopSend
<1>11. ASSUME NEW c \in Clients, JoinRecv(c) PROVE TypeOK'
  BY <1>11 DEF JoinRecv
<1>12. ASSUME NEW c \in Clients, RecvCheck(c) PROVE TypeOK'
  BY <1>12 DEF RecvCheck
<1>13. ASSUME NEW c \in Clients, RecvEnter(c) PROVE TypeOK'
  <2>1. table[recvFD[c]] \in SomeSocket
    BY <1>13 DEF RecvEnter, ThreadsHaveFDs
  <2> QED BY <1>13, <2>1 DEF RecvEnter
<1>14. ASSUME NEW c \in Clients, RecvReturn(c) PROVE TypeOK'
  BY <1>14 DEF RecvReturn, ThreadsHaveFDs
<1>15. ASSUME NEW c \in Clients, SendBytes(c) PROVE TypeOK'
  <2>1. table[sendFD[c]] \in SomeSocket
    BY <1>15 DEF SendBytes, ThreadsHaveFDs
  <2> QED BY <1>15, <2>1 DEF SendBytes
<1>16. ASSUME NEW c \in Clients, SendSigPipe(c) \/ Push(c) PROVE TypeOK'
  BY <1>16 DEF SendSigPipe, Push
<1>17. ASSUME NEW s \in Sockets, PeerLeaves(s) PROVE TypeOK'
  BY <1>17 DEF PeerLeaves
<1>18. CASE UNCHANGED vars
  BY <1>18 DEF vars
<1> QED
  BY <1>1, <1>2, <1>3, <1>4, <1>5, <1>6, <1>7, <1>8, <1>9, <1>10, <1>11,
     <1>12, <1>13, <1>14, <1>15, <1>16, <1>17, <1>18 DEF Next, Connect,
     Leave, Threads

LEMMA HeldNext == IInv /\ [Next]_vars => HeldIsOpened'
<1> SUFFICES ASSUME IInv, [Next]_vars PROVE HeldIsOpened'
  OBVIOUS
<1> USE DEF IInv, TypeOK, HeldIsOpened, Holds, OpenedApart, LeavesConnection,
            Steps, SomeFD, SomeSocket, Sockets, NoSocket, NoFD, Goto,
            kernelVars, clientVars, recvVars, sendVars
<1>1. ASSUME NEW c \in Clients, ConnectSocket(c) PROVE HeldIsOpened'
  BY <1>1 DEF ConnectSocket, FreeFDs
<1>2. ASSUME NEW c \in Clients, ConnectNoSocket(c) \/ ConnectResolve(c) PROVE HeldIsOpened'
  BY <1>2 DEF ConnectNoSocket, ConnectResolve
<1>3. ASSUME NEW c \in Clients, ConnectPeer(c) PROVE HeldIsOpened'
  BY <1>3 DEF ConnectPeer
<1>4. ASSUME NEW c \in Clients, ConnectStartRecv(c) \/ ConnectStartSend(c) PROVE HeldIsOpened'
  BY <1>4 DEF ConnectStartRecv, ConnectStartSend
<1>5. ASSUME NEW c \in Clients, Shutdown(c) PROVE HeldIsOpened'
  BY <1>5 DEF Shutdown, AfterDisconnect
<1>6. ASSUME NEW c \in Clients, Close(c) PROVE HeldIsOpened'
  BY <1>6 DEF Close, AfterDisconnect
<1>7. ASSUME NEW c \in Clients,
             Destroy(c) \/ StopSend(c) \/ JoinRecv(c)
      PROVE  HeldIsOpened'
  BY <1>7 DEF Destroy, StopSend, JoinRecv
<1>8. ASSUME NEW c \in Clients,
             RecvCheck(c) \/ RecvEnter(c) \/ RecvReturn(c)
             \/ SendBytes(c) \/ SendSigPipe(c) \/ Push(c)
      PROVE  HeldIsOpened'
  BY <1>8 DEF RecvCheck, RecvEnter, RecvReturn, SendBytes, SendSigPipe, Push
<1>9. ASSUME NEW s \in Sockets, PeerLeaves(s) PROVE HeldIsOpened'
  BY <1>9 DEF PeerLeaves
<1>10. CASE UNCHANGED vars
  BY <1>10 DEF vars
<1> QED
  BY <1>1, <1>2, <1>3, <1>4, <1>5, <1>6, <1>7, <1>8, <1>9, <1>10 DEF Next,
     Connect, Leave, Threads

LEMMA ThreadsNext == IInv /\ [Next]_vars => ThreadsHaveFDs'
<1> SUFFICES ASSUME IInv, [Next]_vars PROVE ThreadsHaveFDs'
  OBVIOUS
<1> USE DEF IInv, TypeOK, ThreadsHaveFDs, HeldIsOpened, Holds,
            Steps, SomeFD, SomeSocket, Sockets, NoSocket, NoFD, Goto,
            kernelVars, clientVars, recvVars, sendVars
<1>1. ASSUME NEW c \in Clients,
             ConnectSocket(c) \/ ConnectNoSocket(c) \/ ConnectResolve(c)
             \/ ConnectPeer(c)
      PROVE  ThreadsHaveFDs'
  BY <1>1 DEF ConnectSocket, ConnectNoSocket, ConnectResolve, ConnectPeer,
     FreeFDs
<1>2. ASSUME NEW c \in Clients, ConnectStartRecv(c) PROVE ThreadsHaveFDs'
  BY <1>2 DEF ConnectStartRecv
<1>3. ASSUME NEW c \in Clients, ConnectStartSend(c) PROVE ThreadsHaveFDs'
  BY <1>3 DEF ConnectStartSend
<1>4. ASSUME NEW c \in Clients,
             Shutdown(c) \/ Close(c) \/ Destroy(c) \/ JoinRecv(c)
      PROVE  ThreadsHaveFDs'
  BY <1>4 DEF Shutdown, Close, Destroy, JoinRecv, AfterDisconnect
<1>5. ASSUME NEW c \in Clients, StopSend(c) PROVE ThreadsHaveFDs'
  BY <1>5 DEF StopSend
<1>6. ASSUME NEW c \in Clients, RecvCheck(c) \/ RecvReturn(c) PROVE ThreadsHaveFDs'
  BY <1>6 DEF RecvCheck, RecvReturn
<1>7. ASSUME NEW c \in Clients, RecvEnter(c) PROVE ThreadsHaveFDs'
  BY <1>7 DEF RecvEnter
<1>8. ASSUME NEW c \in Clients,
             SendBytes(c) \/ SendSigPipe(c) \/ Push(c)
      PROVE  ThreadsHaveFDs'
  BY <1>8 DEF SendBytes, SendSigPipe, Push
<1>9. ASSUME NEW s \in Sockets, PeerLeaves(s) PROVE ThreadsHaveFDs'
  BY <1>9 DEF PeerLeaves
<1>10. CASE UNCHANGED vars
  BY <1>10 DEF vars
<1> QED
  BY <1>1, <1>2, <1>3, <1>4, <1>5, <1>6, <1>7, <1>8, <1>9, <1>10 DEF Next,
     Connect, Leave, Threads

(* Setting the state of one socket frees none. *)
LEMMA StaysUsed ==
  ASSUME NEW S, NEW V, NEW f \in [S -> V], NEW x, NEW v, v # "unused"
  PROVE  \A t \in S : f[t] # "unused" => [f EXCEPT ![x] = v][t] # "unused"
OBVIOUS

LEMMA ApartNext == IInv /\ [Next]_vars => OpenedApart'
<1> SUFFICES ASSUME IInv, [Next]_vars PROVE OpenedApart'
  OBVIOUS
<1> DEFINE Marked(s, state) == socket' = [socket EXCEPT ![s] = state]
<1> USE DEF kernelVars, clientVars
<1>1. ASSUME NEW c \in Clients, ConnectSocket(c) PROVE OpenedApart'
  BY <1>1 DEF ConnectSocket, IInv, TypeOK, OpenedApart
<1>2. ASSUME opened' = opened,
             \/ socket' = socket
             \/ \E s, state : state # "unused" /\ Marked(s, state)
      PROVE  OpenedApart'
  <2>1. \A t \in Sockets : socket[t] # "unused" => socket'[t] # "unused"
    BY <1>2, StaysUsed DEF IInv, TypeOK
  <2> QED BY <1>2, <2>1 DEF IInv, TypeOK, OpenedApart
<1>3. ASSUME NEW c \in Clients, ConnectPeer(c) PROVE OpenedApart'
  BY <1>2, <1>3 DEF ConnectPeer
<1>4. ASSUME NEW c \in Clients, Shutdown(c) PROVE OpenedApart'
  BY <1>2, <1>4 DEF Shutdown
<1>5. ASSUME NEW s \in Sockets, PeerLeaves(s) PROVE OpenedApart'
  BY <1>2, <1>5 DEF PeerLeaves
<1>6. ASSUME NEW c \in Clients,
             Connect(c) \/ Leave(c) \/ Threads(c) \/ Push(c),
             ~ConnectSocket(c), ~ConnectPeer(c), ~Shutdown(c)
      PROVE  opened' = opened /\ socket' = socket
  BY <1>6 DEF Connect, Leave, Threads, Push, ConnectNoSocket, ConnectResolve,
     ConnectStartRecv, ConnectStartSend, Close, Destroy, StopSend, JoinRecv,
     RecvCheck, RecvEnter, RecvReturn, SendBytes, SendSigPipe
<1>7. CASE UNCHANGED vars
  BY <1>2, <1>7 DEF vars
<1> QED
  BY <1>1, <1>2, <1>3, <1>4, <1>5, <1>6, <1>7 DEF Next

LEMMA WiredNext == IInv /\ [Next]_vars => Wired'
<1> SUFFICES ASSUME IInv, [Next]_vars PROVE Wired'
  OBVIOUS
<1> USE DEF IInv, TypeOK, Wired, HeldIsOpened, Holds, OpenedApart, LeavesConnection,
            Steps, SomeFD, SomeSocket, Sockets, NoSocket, NoFD, Goto,
            kernelVars, clientVars, recvVars, sendVars
<1>1. ASSUME NEW c \in Clients, ConnectSocket(c) PROVE Wired'
  BY <1>1 DEF ConnectSocket, FreeFDs
<1>2. ASSUME NEW c \in Clients,
             ConnectNoSocket(c) \/ ConnectResolve(c) \/ ConnectPeer(c)
      PROVE  Wired'
  BY <1>2 DEF ConnectNoSocket, ConnectResolve, ConnectPeer
<1>3. ASSUME NEW c \in Clients, ConnectStartRecv(c) PROVE Wired'
  BY <1>3 DEF ConnectStartRecv
<1>4. ASSUME NEW c \in Clients, ConnectStartSend(c) PROVE Wired'
  BY <1>4 DEF ConnectStartSend
<1>5. ASSUME NEW c \in Clients, Shutdown(c) PROVE Wired'
  BY <1>5 DEF Shutdown, AfterDisconnect
<1>6. ASSUME NEW c \in Clients, Close(c) PROVE Wired'
  BY <1>6 DEF Close, AfterDisconnect
<1>7. ASSUME NEW c \in Clients,
             Destroy(c) \/ StopSend(c) \/ JoinRecv(c)
      PROVE  Wired'
  BY <1>7 DEF Destroy, StopSend, JoinRecv
<1>8. ASSUME NEW c \in Clients, RecvCheck(c) PROVE Wired'
  BY <1>8 DEF RecvCheck
<1>9. ASSUME NEW c \in Clients, RecvEnter(c) PROVE Wired'
  BY <1>9 DEF RecvEnter
<1>10. ASSUME NEW c \in Clients, RecvReturn(c) PROVE Wired'
  BY <1>10 DEF RecvReturn
<1>11. ASSUME NEW c \in Clients,
             SendBytes(c) \/ SendSigPipe(c) \/ Push(c)
      PROVE  Wired'
  BY <1>11 DEF SendBytes, SendSigPipe, Push
<1>12. ASSUME NEW s \in Sockets, PeerLeaves(s) PROVE Wired'
  BY <1>12 DEF PeerLeaves
<1>13. CASE UNCHANGED vars
  BY <1>13 DEF vars
<1> QED
  BY <1>1, <1>2, <1>3, <1>4, <1>5, <1>6, <1>7, <1>8, <1>9, <1>10, <1>11,
     <1>12, <1>13 DEF Next, Connect, Leave, Threads

LEMMA LeavesNext == IInv /\ [Next]_vars => LeavesConnection'
<1> SUFFICES ASSUME IInv, [Next]_vars PROVE LeavesConnection'
  OBVIOUS
<1> USE DEF IInv, TypeOK, LeavesConnection,
            Steps, SomeFD, SomeSocket, Sockets, NoSocket, NoFD, Goto,
            kernelVars, clientVars, recvVars, sendVars
<1>1. ASSUME NEW c \in Clients,
             ConnectSocket(c) \/ ConnectNoSocket(c) \/ ConnectResolve(c)
             \/ ConnectPeer(c)
      PROVE  LeavesConnection'
  BY <1>1 DEF ConnectSocket, ConnectNoSocket, ConnectResolve, ConnectPeer,
     FreeFDs
<1>2. ASSUME NEW c \in Clients, ConnectStartRecv(c) \/ ConnectStartSend(c) PROVE LeavesConnection'
  BY <1>2 DEF ConnectStartRecv, ConnectStartSend
<1>3. ASSUME NEW c \in Clients, Shutdown(c) PROVE LeavesConnection'
  BY <1>3 DEF Shutdown, AfterDisconnect
<1>4. ASSUME NEW c \in Clients, Close(c) PROVE LeavesConnection'
  BY <1>4 DEF Close, AfterDisconnect
<1>5. ASSUME NEW c \in Clients,
             Destroy(c) \/ StopSend(c) \/ JoinRecv(c)
      PROVE  LeavesConnection'
  BY <1>5 DEF Destroy, StopSend, JoinRecv
<1>6. ASSUME NEW c \in Clients,
             RecvCheck(c) \/ RecvEnter(c) \/ RecvReturn(c)
             \/ SendBytes(c) \/ SendSigPipe(c) \/ Push(c)
      PROVE  LeavesConnection'
  BY <1>6 DEF RecvCheck, RecvEnter, RecvReturn, SendBytes, SendSigPipe, Push
<1>7. ASSUME NEW s \in Sockets, PeerLeaves(s) PROVE LeavesConnection'
  BY <1>7 DEF PeerLeaves
<1>8. CASE UNCHANGED vars
  BY <1>8 DEF vars
<1> QED
  BY <1>1, <1>2, <1>3, <1>4, <1>5, <1>6, <1>7, <1>8 DEF Next, Connect,
     Leave, Threads

LEMMA InvNext == IInv /\ [Next]_vars => IInv'
BY TypeNext, HeldNext, ThreadsNext, ApartNext, WiredNext, LeavesNext DEF IInv

THEOREM InvCorrect == Spec => []IInv
BY InvInit, InvNext, PTL DEF Spec

-------------------------------------------------------------------------------
(* The theorems. *)

(* Every variable keeps its type: no thread ever uses a descriptor that was   *)
(* never given out, and recv() is never entered without a socket.             *)
THEOREM TypeCorrect == Spec => []TypeOK
BY InvCorrect, PTL DEF IInv

LEMMA InvWired == IInv => ConnectedIsWired
BY DEF IInv, HeldIsOpened, Holds, Wired, ConnectedIsWired

(* Both ends of a connected client are wired to the socket it opened, however *)
(* many other clients connect and disconnect at the same time.                *)
THEOREM WiredCorrect == Spec => []ConnectedIsWired
BY InvCorrect, InvWired, PTL

(* No client ever closes a descriptor that means another client's socket.     *)
THEOREM ClosesCorrect == Spec => ClosesOwnSocket
<1> DEFINE Owned ==
      \A f \in FDs : table[f] # NoSocket /\ table'[f] # table[f] =>
        \E c \in Clients : /\ table[f] \in opened[c]
                           /\ connected[c] /\ ~connected'[c]
<1>1. IInv /\ [Next]_vars => Owned
  <2> SUFFICES ASSUME IInv, [Next]_vars PROVE Owned
    OBVIOUS
  <2> USE DEF kernelVars, clientVars
  <2>1. ASSUME NEW c \in Clients, ConnectSocket(c) PROVE Owned
    BY <2>1 DEF ConnectSocket, FreeFDs, IInv, TypeOK
  <2>2. ASSUME NEW c \in Clients, Close(c) PROVE Owned
    BY <2>2 DEF Close, IInv, TypeOK, HeldIsOpened, Holds, LeavesConnection
  <2>3. ASSUME NEW c \in Clients,
               Connect(c) \/ Leave(c) \/ Threads(c) \/ Push(c),
               ~ConnectSocket(c), ~Close(c)
        PROVE  table' = table
    BY <2>3 DEF Connect, Leave, Threads, Push, ConnectNoSocket, ConnectResolve,
       ConnectPeer, ConnectStartRecv, ConnectStartSend, Shutdown, Destroy,
       StopSend, JoinRecv, RecvCheck, RecvEnter, RecvReturn, SendBytes,
       SendSigPipe
  <2>4. ASSUME (\E s \in Sockets : PeerLeaves(s)) \/ UNCHANGED vars
        PROVE  table' = table
    BY <2>4 DEF PeerLeaves, vars
  <2>5. table' = table => Owned
    OBVIOUS
  <2> QED BY <2>1, <2>2, <2>3, <2>4, <2>5 DEF Next
<1>2. Spec => [][Owned]_vars
  BY InvCorrect, <1>1, PTL DEF Spec
<1> QED BY <1>2 DEF ClosesOwnSocket

(* While it is connected a client exchanges data with its own server only.    *)
THEOREM TalksCorrect == Spec => ConnectedTalksToServer
<1> DEFINE Own ==
      \A c \in Clients : connected[c] =>
        talked'[c] \ talked[c] \subseteq {table[serverFD[c]]}
<1>1. IInv /\ [Next]_vars => Own
  <2> SUFFICES ASSUME IInv, [Next]_vars PROVE Own
    OBVIOUS
  <2>1. ASSUME NEW c \in Clients, RecvReturn(c) PROVE Own
    BY <2>1 DEF RecvReturn, IInv, TypeOK, Wired
  <2>2. ASSUME NEW c \in Clients, SendBytes(c) PROVE Own
    BY <2>2 DEF SendBytes, IInv, TypeOK, Wired
  <2>3. ASSUME NEW c \in Clients,
               Connect(c) \/ Leave(c) \/ Threads(c) \/ Push(c),
               ~RecvReturn(c), ~SendBytes(c)
        PROVE  talked' = talked
    BY <2>3 DEF Connect, Leave, Threads, Push, ConnectSocket, ConnectNoSocket,
       ConnectResolve, ConnectPeer, ConnectStartRecv, ConnectStartSend, Shutdown,
       Close, Destroy, StopSend, JoinRecv, RecvCheck, RecvEnter, SendSigPipe
  <2>4. ASSUME (\E s \in Sockets : PeerLeaves(s)) \/ UNCHANGED vars
        PROVE  talked' = talked
    BY <2>4 DEF PeerLeaves, vars
  <2>5. talked' = talked => Own
    OBVIOUS
  <2> QED BY <2>1, <2>2, <2>3, <2>4, <2>5 DEF Next
<1>2. Spec => [][Own]_vars
  BY InvCorrect, <1>1, PTL DEF Spec
<1> QED BY <1>2 DEF ConnectedTalksToServer
===============================================================================
