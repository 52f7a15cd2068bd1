------------------------------- MODULE Demo_proof -------------------------------
(***************************************************************************)
(* Proofs about Demo, for any number of players, keys and places, any      *)
(* number of blocks that "hide" places, and all bounds.                    *)
(***************************************************************************)
EXTENDS Demo, StreamLemmas

-------------------------------------------------------------------------------
(* What a push and a packet of the server do to the sequences                 *)

LEMMA PacketIsRecord ==
  ASSUME IInv
  PROVE  /\ Plain("Handshake") \in Records
         /\ Plain("LoginStart") \in Records
         /\ Confirmation(packet) \in Records
         /\ Packet("SetPlayerPosition", NoEntity, place, 0) \in Records
         /\ Plain("UseItemOn") \in Records
         /\ Packet("UseItemOn", NoEntity, place, 0) \in Records
         /\ Packet("PlayerCommand", entityID, 0, 0) \in Records
         /\ Plain("ChatCommand") \in Records
<1>1. packet.key \in Entities \cup Keys \cup {Own, NoEntity}
  BY DEF IInv, DataOK, ServerPackets, Records
<1>2. entityID \in {Own, NoEntity} /\ place \in Int
  BY DEF IInv, TypeOK
<1> QED
  BY <1>1, <1>2 DEF Confirmation, Plain, Packet, Records, Kinds, InputKinds, LoginKinds

LEMMA PlayerChanges ==
  ASSUME NEW players \in Seq(Players), NEW i, NEW p, i \in DOMAIN players => p \in Players
  PROVE  [players EXCEPT ![i] = p] \in Seq(Players)
<1>1. players \in [1 .. Len(players) -> Players] /\ Len(players) \in Nat
  OBVIOUS
<1>2. [players EXCEPT ![i] = p] \in [1 .. Len(players) -> Players]
  BY <1>1
<1> QED BY <1>1, <1>2, IsASeq

LEMMA UpdatedIsPlayer ==
  ASSUME NEW player \in Players, NEW p \in Records
  PROVE  Updated(player, p) \in Players
<1>1. player.key \in Entities /\ player.x \in Int /\ player.yaw \in Int
  BY DEF Players
<1>2. p.x \in Int /\ p.yaw \in Int
  BY DEF Records
<1> QED BY <1>1, <1>2 DEF Updated, Players

LEMMA PlayerFields ==
  ASSUME NEW players \in Seq(Players), NEW i \in DOMAIN players
  PROVE  players[i].key \in Entities /\ players[i].x \in Int
<1>1. players[i] \in Players
  OBVIOUS
<1> QED BY <1>1 DEF Players

LEMMA AppendLast ==
  ASSUME NEW S, NEW s \in Seq(S), NEW e \in S
  PROVE  /\ Append(s, e) \in Seq(S)
         /\ Len(s) \in Nat
         /\ Len(Append(s, e)) = Len(s) + 1
         /\ DOMAIN s = 1 .. Len(s)
         /\ DOMAIN Append(s, e) = 1 .. Len(s) + 1
         /\ \A i \in 1 .. Len(s) : Append(s, e)[i] = s[i]
         /\ Append(s, e)[Len(s) + 1] = e
OBVIOUS

LEMMA PushesRecord ==
  ASSUME pushed \in Seq(Records), NEW p \in Records, Push(p)
  PROVE  /\ pushed' \in Seq(Records)
         /\ Len(pushed) \in Nat
         /\ Len(pushed') = Len(pushed) + 1
BY AppendLast DEF Push

(* After the two packets of the login, only others are pushed. *)
LEMMA PushesAfterLogin ==
  ASSUME pushed \in Seq(Records), LoginFirst, Len(pushed) >= 2,
         NEW p \in Records, p.kind \notin LoginKinds, Push(p)
  PROVE  LoginFirst'
<1> DEFINE n == Len(pushed)
<1>1. /\ n \in Nat
      /\ DOMAIN pushed = 1 .. n
      /\ DOMAIN pushed' = 1 .. n + 1
      /\ \A i \in 1 .. n : pushed'[i] = pushed[i]
      /\ pushed'[n + 1] = p
  BY AppendLast DEF Push
<1> SUFFICES ASSUME NEW i \in 1 .. n + 1
             PROVE  /\ pushed'[i].kind = "Handshake" <=> i = 1
                    /\ pushed'[i].kind = "LoginStart" <=> i = 2
  BY <1>1 DEF LoginFirst
<1>2. CASE i \in 1 .. n
  BY <1>1, <1>2 DEF LoginFirst
<1>3. CASE i = n + 1
  BY <1>1, <1>3 DEF LoginKinds
<1> QED BY <1>1, <1>2, <1>3

(* Who may run after a step *)
LEMMA ControlNext == IInv /\ [Next]_vars => Control'
<1> SUFFICES ASSUME IInv, [Next]_vars PROVE Control'
  OBVIOUS
<1> USE DemoAssumption DEF IInv, inputVars, playerVars, Control, TypeOK, InputSteps, MainSteps
<1>1. CASE Connect
  BY <1>1 DEF Connect
<1>2. CASE SendHandshake
  BY <1>2 DEF SendHandshake
<1>3. CASE SendLoginStart
  BY <1>3 DEF SendLoginStart
<1>4. CASE SpawnInput
  BY <1>4 DEF SpawnInput
<1>5. CASE LoopTest
  BY <1>5 DEF LoopTest
<1>6. CASE PullPacket
  BY <1>6 DEF PullPacket
<1>7. CASE CaseLoginSuccess
  BY <1>7 DEF CaseLoginSuccess
<1>8. CASE CaseLogin
  BY <1>8 DEF CaseLogin
<1>9. CASE CaseKeepAlive
  BY <1>9 DEF CaseKeepAlive
<1>10. CASE CaseSynchronize
  BY <1>10 DEF CaseSynchronize
<1>11. CASE ConfirmTeleportation
  BY <1>11 DEF ConfirmTeleportation
<1>12. CASE CaseEntity
  BY <1>12 DEF CaseEntity
<1>13. CASE CaseOther
  BY <1>13 DEF CaseOther
<1>26. CASE CaseSetHealth
  BY <1>26 DEF CaseSetHealth
<1>14. CASE Disconnect
  BY <1>14 DEF Disconnect
<1>15. CASE ReadWord
  BY <1>15 DEF ReadWord
<1>16. CASE ActMove
  BY <1>16 DEF ActMove
<1>17. CASE ActMoveThrows
  BY <1>17 DEF ActMoveThrows
<1>18. CASE WriteMove
  BY <1>18 DEF WriteMove
<1>19. CASE ActCommand
  BY <1>19 DEF ActCommand
<1>20. CASE ActNothing
  BY <1>20 DEF ActNothing
<1>21. CASE ActEnd
  BY <1>21 DEF ActEnd
<1>22. CASE BuildPacket
  BY <1>22 DEF BuildPacket
<1>23. CASE PushPacket
  BY <1>23 DEF PushPacket
<1>24. ASSUME NEW p, ServerSends(p) PROVE Control'
  BY <1>24 DEF ServerSends
<1>25. CASE UNCHANGED vars
  BY <1>25 DEF vars
<1> QED
  BY <1>1, <1>2, <1>3, <1>4, <1>5, <1>6, <1>7, <1>8, <1>9, <1>10, <1>11,
     <1>12, <1>13, <1>14, <1>15, <1>16, <1>17, <1>18, <1>19, <1>20, <1>21,
     <1>22, <1>23, <1>24, <1>25, <1>26 DEF Next, Main, Act, ServerLogin, ServerPlay

(* The command of the input thread after a step *)
LEMMA CommandsNext == IInv /\ [Next]_vars => Commands'
<1> SUFFICES ASSUME IInv, [Next]_vars PROVE Commands'
  OBVIOUS
<1> USE DemoAssumption DEF IInv, inputVars, playerVars, Commands, TypeOK, InputSteps, InputKinds
<1>1. CASE Connect
  BY <1>1 DEF Connect
<1>2. CASE SendHandshake
  BY <1>2 DEF SendHandshake
<1>3. CASE SendLoginStart
  BY <1>3 DEF SendLoginStart
<1>4. CASE SpawnInput
  BY <1>4 DEF SpawnInput
<1>5. CASE LoopTest
  BY <1>5 DEF LoopTest
<1>6. CASE PullPacket
  BY <1>6 DEF PullPacket
<1>7. CASE CaseLoginSuccess
  BY <1>7 DEF CaseLoginSuccess
<1>8. CASE CaseLogin
  BY <1>8 DEF CaseLogin
<1>9. CASE CaseKeepAlive
  BY <1>9 DEF CaseKeepAlive
<1>10. CASE CaseSynchronize
  BY <1>10 DEF CaseSynchronize
<1>11. CASE ConfirmTeleportation
  BY <1>11 DEF ConfirmTeleportation
<1>12. CASE CaseEntity
  BY <1>12 DEF CaseEntity
<1>13. CASE CaseOther
  BY <1>13 DEF CaseOther
<1>26. CASE CaseSetHealth
  BY <1>26 DEF CaseSetHealth
<1>14. CASE Disconnect
  BY <1>14 DEF Disconnect
<1>15. CASE ReadWord
  BY <1>15 DEF ReadWord
<1>16. CASE ActMove
  BY <1>16 DEF ActMove
<1>17. CASE ActMoveThrows
  BY <1>17 DEF ActMoveThrows
<1>18. CASE WriteMove
  BY <1>18 DEF WriteMove
<1>19. CASE ActCommand
  BY <1>19 DEF ActCommand
<1>20. CASE ActNothing
  BY <1>20 DEF ActNothing
<1>21. CASE ActEnd
  BY <1>21 DEF ActEnd
<1>22. CASE BuildPacket
  BY <1>22 DEF BuildPacket, Plain, Packet
<1>23. CASE PushPacket
  BY <1>23 DEF PushPacket
<1>24. ASSUME NEW p, ServerSends(p) PROVE Commands'
  BY <1>24 DEF ServerSends
<1>25. CASE UNCHANGED vars
  BY <1>25 DEF vars
<1> QED
  BY <1>1, <1>2, <1>3, <1>4, <1>5, <1>6, <1>7, <1>8, <1>9, <1>10, <1>11,
     <1>12, <1>13, <1>14, <1>15, <1>16, <1>17, <1>18, <1>19, <1>20, <1>21,
     <1>22, <1>23, <1>24, <1>25, <1>26 DEF Next, Main, Act, ServerLogin, ServerPlay

(* The packets the server sends *)
LEMMA ServerStep ==
  ASSUME IInv, ServerLogin \/ ServerPlay
  PROVE  \E p \in ServerPackets :
           /\ ServerSends(p)
           /\ p.kind = "LoginSuccess" <=> Len(served) = 0
<1>1. LoggedIn <=> Len(served) # 0
  <2>1. Len(served) \in Nat /\ DOMAIN served = 1 .. Len(served)
    BY AppendLast DEF IInv, DataOK
  <2> QED BY <2>1 DEF LoggedIn, IInv, Served
<1>2. CASE ServerLogin
  <2>1. Plain("LoginSuccess") \in ServerPackets /\ Plain("LoginSuccess").kind = "LoginSuccess"
    BY DEF Plain, Packet, ServerPackets, Records, Kinds, ServerKinds, EntityKinds
  <2> QED BY <1>1, <1>2, <2>1 DEF ServerLogin
<1>3. CASE ServerPlay
  <2>1. PICK p \in Offers : ServerSends(p)
    BY <1>3 DEF ServerPlay
  <2>2. p \in ServerPackets /\ p.kind # "LoginSuccess"
    BY DemoAssumption
  <2> QED BY <1>1, <1>3, <2>1, <2>2 DEF ServerPlay
<1> QED BY <1>2, <1>3

LEMMA ServedGrows ==
  ASSUME served \in Seq(ServerPackets), NEW p \in ServerPackets, ServerSends(p)
  PROVE  /\ served' \in Seq(ServerPackets)
         /\ Len(served) \in Nat
         /\ Len(served') = Len(served) + 1
         /\ DOMAIN served = 1 .. Len(served)
         /\ DOMAIN served' = 1 .. Len(served) + 1
         /\ \A i \in 1 .. Len(served) : served'[i] = served[i]
         /\ served'[Len(served) + 1] = p
BY AppendLast DEF ServerSends

(* In the play state the shared id means a player (main.cpp:333). *)
LEMMA SpawnsPlayer ==
  ASSUME IInv, CaseLoginSuccess, state = "Play"
  PROVE  packet.key \in Entities
<1>1. taken > 1 /\ taken \in 1 .. Len(served) /\ packet = served[taken] /\ Len(served) \in Nat
  BY AppendLast DEF IInv, TypeOK, DataOK, Served, CaseLoginSuccess, Case
<1>2. packet.kind # "LoginSuccess"
  BY <1>1 DEF IInv, DataOK, Served
<1> QED BY <1>2 DEF IInv, DataOK, ServerPackets, EntityKinds, CaseLoginSuccess, Case

(* The packets after a step *)
LEMMA DataNext == IInv /\ [Next]_vars => DataOK'
<1> SUFFICES ASSUME IInv, [Next]_vars PROVE DataOK'
  OBVIOUS
<1> USE DemoAssumption DEF IInv, inputVars, playerVars, DataOK
<1>1. CASE Connect
  BY <1>1 DEF Connect
<1>2. CASE SendHandshake
  <2>1. pushed' \in Seq(Records)
    BY <1>2, PacketIsRecord, PushesRecord DEF SendHandshake
  <2> QED BY <1>2, <2>1 DEF SendHandshake
<1>3. CASE SendLoginStart
  <2>1. pushed' \in Seq(Records)
    BY <1>3, PacketIsRecord, PushesRecord DEF SendLoginStart
  <2> QED BY <1>3, <2>1 DEF SendLoginStart
<1>4. CASE SpawnInput
  BY <1>4 DEF SpawnInput
<1>5. CASE LoopTest
  BY <1>5 DEF LoopTest
<1>6. CASE PullPacket
  <2>1. packet' \in ServerPackets
    BY <1>6 DEF PullPacket, TypeOK
  <2> QED BY <1>6, <2>1 DEF PullPacket
<1>7. CASE CaseLoginSuccess
  <2>1. state = "Play" => Spawned(packet) \in Players
    BY <1>7, SpawnsPlayer DEF Spawned, ServerPackets, Records, Players
  <2>2. otherPlayers' \in Seq(Players)
    <3>1. CASE state = "Play"
      <4>1. otherPlayers' = Append(otherPlayers, Spawned(packet))
        BY <1>7, <3>1 DEF CaseLoginSuccess
      <4>2. otherPlayers \in Seq(Players)
        OBVIOUS
      <4> QED BY <2>1, <3>1, <4>1, <4>2, AppendLast
    <3> QED BY <1>7, <3>1 DEF CaseLoginSuccess
  <2> QED BY <1>7, <2>2 DEF CaseLoginSuccess
<1>8. CASE CaseLogin
  BY <1>8 DEF CaseLogin
<1>9. CASE CaseKeepAlive
  <2>1. packet \in Records
    BY DEF ServerPackets
  <2>2. pushed' \in Seq(Records)
    BY <1>9, <2>1, AppendLast DEF CaseKeepAlive
  <2> QED BY <1>9, <2>2 DEF CaseKeepAlive
<1>10. CASE CaseSynchronize
  BY <1>10 DEF CaseSynchronize
<1>11. CASE ConfirmTeleportation
  <2>1. pushed' \in Seq(Records)
    BY <1>11, PacketIsRecord, PushesRecord DEF ConfirmTeleportation
  <2> QED BY <1>11, <2>1 DEF ConfirmTeleportation
<1>12. CASE CaseEntity
  <2>1. \A n \in DOMAIN otherPlayers : Updated(otherPlayers[n], packet) \in Players
    BY UpdatedIsPlayer DEF ServerPackets
  <2>2. otherPlayers' \in Seq(Players)
    <3> DEFINE n == EntityIt(packet.key)
               player == Updated(otherPlayers[n], packet)
    <3>1. otherPlayers' \in {otherPlayers, [otherPlayers EXCEPT ![n] = player]}
      BY <1>12 DEF CaseEntity
    <3>2. n \in DOMAIN otherPlayers => player \in Players
      BY <2>1
    <3> HIDE DEF n, player
    <3>3. otherPlayers \in Seq(Players)
      BY DEF IInv, TypeOK
    <3>4. [otherPlayers EXCEPT ![n] = player] \in Seq(Players)
      BY <3>2, <3>3, PlayerChanges, Zenon
    <3> QED BY <3>1, <3>3, <3>4
  <2> QED BY <1>12, <2>2 DEF CaseEntity
<1>13. CASE CaseOther
  BY <1>13 DEF CaseOther
<1>26. CASE CaseSetHealth
  BY <1>26 DEF CaseSetHealth
<1>14. CASE Disconnect
  BY <1>14 DEF Disconnect
<1>15. CASE ReadWord
  BY <1>15 DEF ReadWord
<1>16. CASE ActMove
  BY <1>16 DEF ActMove, TypeOK
<1>17. CASE ActMoveThrows
  BY <1>17 DEF ActMoveThrows
<1>18. CASE WriteMove
  BY <1>18 DEF WriteMove
<1>19. CASE ActCommand
  BY <1>19 DEF ActCommand
<1>20. CASE ActNothing
  BY <1>20 DEF ActNothing
<1>21. CASE ActEnd
  BY <1>21 DEF ActEnd
<1>22. CASE BuildPacket
  <2>1. draft' \in Records
    BY <1>22, PacketIsRecord DEF BuildPacket, Commands, TypeOK
  <2> QED BY <1>22, <2>1 DEF BuildPacket
<1>23. CASE PushPacket
  <2>1. pushed' \in Seq(Records)
    BY <1>23, PushesRecord DEF PushPacket
  <2> QED BY <1>23, <2>1 DEF PushPacket
<1>24. CASE ServerLogin \/ ServerPlay
  <2>1. PICK p \in ServerPackets : ServerSends(p)
    BY <1>24, ServerStep
  <2> QED BY <2>1, ServedGrows DEF ServerSends
<1>25. CASE UNCHANGED vars
  BY <1>25 DEF vars
<1> QED
  BY <1>1, <1>2, <1>3, <1>4, <1>5, <1>6, <1>7, <1>8, <1>9, <1>10, <1>11,
     <1>12, <1>13, <1>14, <1>15, <1>16, <1>17, <1>18, <1>19, <1>20, <1>21,
     <1>22, <1>23, <1>24, <1>25, <1>26 DEF Next, Main, Act

(* The types after a step *)
LEMMA TypeNext == IInv /\ [Next]_vars => TypeOK'
<1> SUFFICES ASSUME IInv, [Next]_vars PROVE TypeOK'
  OBVIOUS
<1> USE DemoAssumption DEF IInv, inputVars, playerVars, TypeOK, MainSteps, InputSteps, Words
<1>1. CASE Connect
  BY <1>1 DEF Connect
<1>2. CASE SendHandshake
  BY <1>2 DEF SendHandshake
<1>3. CASE SendLoginStart
  BY <1>3 DEF SendLoginStart
<1>4. CASE SpawnInput
  BY <1>4 DEF SpawnInput
<1>5. CASE LoopTest
  BY <1>5 DEF LoopTest
<1>6. CASE PullPacket
  BY <1>6 DEF PullPacket
<1>7. CASE CaseLoginSuccess
  <2>1. otherPlayers' \in Seq(Players)
    BY DataNext DEF DataOK
  <2>2. \A n \in DOMAIN otherPlayers' : otherPlayers'[n].key \in Entities
    BY <2>1, PlayerFields
  <2> QED BY <1>7, <2>2 DEF CaseLoginSuccess, Case
<1>8. CASE CaseLogin
  BY <1>8 DEF CaseLogin, Case, DataOK, ServerPackets
<1>9. CASE CaseKeepAlive
  BY <1>9 DEF CaseKeepAlive, Case
<1>10. CASE CaseSynchronize
  BY <1>10 DEF CaseSynchronize, Case, DataOK, ServerPackets, Records
<1>11. CASE ConfirmTeleportation
  BY <1>11 DEF ConfirmTeleportation
<1>12. CASE CaseEntity
  <2>1. otherPlayers' \in Seq(Players)
    BY DataNext DEF DataOK
  <2>2. \A n \in DOMAIN otherPlayers' : otherPlayers'[n].key \in Entities
    BY <2>1, PlayerFields
  <2> QED BY <1>12, <2>2 DEF CaseEntity, Case
<1>13. CASE CaseOther
  BY <1>13 DEF CaseOther, Case
<1>26. CASE CaseSetHealth
  BY <1>26 DEF CaseSetHealth, Case, DataOK, ServerPackets, Records
<1>14. CASE Disconnect
  BY <1>14 DEF Disconnect
<1>15. CASE ReadWord
  BY <1>15 DEF ReadWord
<1>16. CASE ActMove
  BY <1>16 DEF ActMove
<1>17. CASE ActMoveThrows
  BY <1>17 DEF ActMoveThrows
<1>18. CASE WriteMove
  BY <1>18 DEF WriteMove, DataOK
<1>19. CASE ActCommand
  BY <1>19 DEF ActCommand
<1>20. CASE ActNothing
  BY <1>20 DEF ActNothing
<1>21. CASE ActEnd
  BY <1>21 DEF ActEnd
<1>22. CASE BuildPacket
  BY <1>22 DEF BuildPacket
<1>23. CASE PushPacket
  BY <1>23 DEF PushPacket, Commands
<1>24. CASE ServerLogin \/ ServerPlay
  <2>1. PICK p \in ServerPackets : ServerSends(p)
    BY <1>24, ServerStep
  <2> QED BY <2>1, ServedGrows DEF ServerSends, DataOK
<1>25. CASE UNCHANGED vars
  BY <1>25 DEF vars
<1> QED
  BY <1>1, <1>2, <1>3, <1>4, <1>5, <1>6, <1>7, <1>8, <1>9, <1>10, <1>11,
     <1>12, <1>13, <1>14, <1>15, <1>16, <1>17, <1>18, <1>19, <1>20, <1>21,
     <1>22, <1>23, <1>24, <1>25, <1>26 DEF Next, Main, Act

(* The packets of the server after a step *)
LEMMA ServedNext == IInv /\ [Next]_vars => Served'
<1> SUFFICES ASSUME IInv, [Next]_vars PROVE Served'
  OBVIOUS
<1> USE DemoAssumption DEF IInv, inputVars, playerVars, Served
<1>1. CASE Connect
  BY <1>1 DEF Connect
<1>2. CASE SendHandshake
  BY <1>2 DEF SendHandshake, Control
<1>3. CASE SendLoginStart
  BY <1>3 DEF SendLoginStart
<1>4. CASE SpawnInput
  BY <1>4 DEF SpawnInput
<1>5. CASE LoopTest
  BY <1>5 DEF LoopTest
<1>6. CASE PullPacket
  <2>1. Len(served) \in Nat /\ taken \in Nat
    BY AppendLast DEF DataOK, TypeOK
  <2> QED BY <1>6, <2>1 DEF PullPacket
<1>7. CASE CaseLoginSuccess
  <2>1. taken \in Nat
    BY AppendLast DEF DataOK, TypeOK
  <2> QED BY <1>7, <2>1 DEF CaseLoginSuccess, Case
<1>8. CASE CaseLogin
  BY <1>8 DEF CaseLogin, Case, TypeOK
<1>9. CASE CaseKeepAlive
  BY <1>9 DEF CaseKeepAlive, Case, TypeOK
<1>10. CASE CaseSynchronize
  BY <1>10 DEF CaseSynchronize, Case, TypeOK
<1>11. CASE ConfirmTeleportation
  BY <1>11 DEF ConfirmTeleportation, Case, TypeOK
<1>12. CASE CaseEntity
  BY <1>12 DEF CaseEntity, Case, TypeOK, EntityKinds
<1>13. CASE CaseOther
  BY <1>13 DEF CaseOther, Case, TypeOK
<1>26. CASE CaseSetHealth
  BY <1>26 DEF CaseSetHealth, Case, TypeOK
<1>14. CASE Disconnect
  BY <1>14 DEF Disconnect
<1>15. CASE ReadWord
  BY <1>15 DEF ReadWord
<1>16. CASE ActMove
  BY <1>16 DEF ActMove
<1>17. CASE ActMoveThrows
  BY <1>17 DEF ActMoveThrows
<1>18. CASE WriteMove
  BY <1>18 DEF WriteMove
<1>19. CASE ActCommand
  BY <1>19 DEF ActCommand
<1>20. CASE ActNothing
  BY <1>20 DEF ActNothing
<1>21. CASE ActEnd
  BY <1>21 DEF ActEnd
<1>22. CASE BuildPacket
  BY <1>22 DEF BuildPacket
<1>23. CASE PushPacket
  BY <1>23 DEF PushPacket
<1>24. CASE ServerLogin \/ ServerPlay
  <2>1. PICK p \in ServerPackets : ServerSends(p) /\ (p.kind = "LoginSuccess" <=> Len(served) = 0)
    BY <1>24, ServerStep
  <2>2. /\ Len(served) \in Nat
        /\ DOMAIN served = 1 .. Len(served)
        /\ DOMAIN served' = 1 .. Len(served) + 1
        /\ \A i \in 1 .. Len(served) : served'[i] = served[i]
        /\ served'[Len(served) + 1] = p
    BY <2>1, ServedGrows DEF DataOK
  <2>3. taken \in 0 .. Len(served) /\ taken' = taken /\ main' = main /\ state' = state /\ packet' = packet
    BY <2>1 DEF ServerSends, TypeOK
  <2>4. \A i \in DOMAIN served' : served'[i].kind = "LoginSuccess" <=> i = 1
    BY <2>1, <2>2
  <2> QED BY <2>2, <2>3, <2>4
<1>25. CASE UNCHANGED vars
  BY <1>25 DEF vars
<1> QED
  BY <1>1, <1>2, <1>3, <1>4, <1>5, <1>6, <1>7, <1>8, <1>9, <1>10, <1>11,
     <1>12, <1>13, <1>14, <1>15, <1>16, <1>17, <1>18, <1>19, <1>20, <1>21,
     <1>22, <1>23, <1>24, <1>25, <1>26 DEF Next, Main, Act

(* The number of pushed packets after a step *)
LEMMA PushedNext == IInv /\ [Next]_vars => Pushed'
<1> SUFFICES ASSUME IInv, [Next]_vars PROVE Pushed'
  OBVIOUS
<1> USE DemoAssumption DEF IInv, inputVars, playerVars, Pushed, DataOK
<1>1. CASE Connect
  BY <1>1 DEF Connect
<1>2. CASE SendHandshake
  <2>1. Len(pushed) \in Nat /\ Len(pushed') = Len(pushed) + 1
    BY <1>2, PacketIsRecord, PushesRecord DEF SendHandshake
  <2> QED BY <1>2, <2>1 DEF SendHandshake
<1>3. CASE SendLoginStart
  <2>1. Len(pushed) \in Nat /\ Len(pushed') = Len(pushed) + 1
    BY <1>3, PacketIsRecord, PushesRecord DEF SendLoginStart
  <2>2. Len(pushed) = 1 /\ main' = "spawnInput"
    BY <1>3 DEF SendLoginStart
  <2> QED BY <2>1, <2>2
<1>4. CASE SpawnInput
  BY <1>4 DEF SpawnInput
<1>5. CASE LoopTest
  BY <1>5 DEF LoopTest
<1>6. CASE PullPacket
  BY <1>6 DEF PullPacket
<1>7. CASE CaseLoginSuccess
  BY <1>7 DEF CaseLoginSuccess, Case
<1>8. CASE CaseLogin
  BY <1>8 DEF CaseLogin, Case
<1>9. CASE CaseKeepAlive
  <2>1. packet \in Records
    BY DEF ServerPackets
  <2>2. Len(pushed) \in Nat /\ Len(pushed') \in {Len(pushed), Len(pushed) + 1}
    BY <1>9, <2>1, AppendLast DEF CaseKeepAlive
  <2> QED BY <1>9, <2>2 DEF CaseKeepAlive, Case
<1>10. CASE CaseSynchronize
  BY <1>10 DEF CaseSynchronize, Case
<1>11. CASE ConfirmTeleportation
  <2>1. Len(pushed) \in Nat /\ Len(pushed') = Len(pushed) + 1
    BY <1>11, PacketIsRecord, PushesRecord DEF ConfirmTeleportation
  <2> QED BY <1>11, <2>1 DEF ConfirmTeleportation
<1>12. CASE CaseEntity
  BY <1>12 DEF CaseEntity, Case
<1>13. CASE CaseOther
  BY <1>13 DEF CaseOther, Case
<1>26. CASE CaseSetHealth
  BY <1>26 DEF CaseSetHealth, Case
<1>14. CASE Disconnect
  BY <1>14 DEF Disconnect
<1>15. CASE ReadWord
  BY <1>15 DEF ReadWord
<1>16. CASE ActMove
  BY <1>16 DEF ActMove
<1>17. CASE ActMoveThrows
  BY <1>17 DEF ActMoveThrows
<1>18. CASE WriteMove
  BY <1>18 DEF WriteMove
<1>19. CASE ActCommand
  BY <1>19 DEF ActCommand
<1>20. CASE ActNothing
  BY <1>20 DEF ActNothing
<1>21. CASE ActEnd
  BY <1>21 DEF ActEnd
<1>22. CASE BuildPacket
  BY <1>22 DEF BuildPacket
<1>23. CASE PushPacket
  <2>1. Len(pushed) \in Nat /\ Len(pushed') = Len(pushed) + 1
    BY <1>23, PushesRecord DEF PushPacket
  <2> QED BY <1>23, <2>1 DEF PushPacket, Control
<1>24. CASE ServerLogin \/ ServerPlay
  BY <1>24 DEF ServerLogin, ServerPlay, ServerSends
<1>25. CASE UNCHANGED vars
  BY <1>25 DEF vars
<1> QED
  BY <1>1, <1>2, <1>3, <1>4, <1>5, <1>6, <1>7, <1>8, <1>9, <1>10, <1>11,
     <1>12, <1>13, <1>14, <1>15, <1>16, <1>17, <1>18, <1>19, <1>20, <1>21,
     <1>22, <1>23, <1>24, <1>25, <1>26 DEF Next, Main, Act

(* The login stays first *)
LEMMA LoginNext == IInv /\ [Next]_vars => LoginFirst'
<1> SUFFICES ASSUME IInv, [Next]_vars PROVE LoginFirst'
  OBVIOUS
<1> USE DemoAssumption DEF IInv, inputVars, playerVars, DataOK
<1>1. CASE Connect
  BY <1>1 DEF Connect, LoginFirst
<1>2. CASE SendHandshake
  <2>1. Len(pushed) = 0
    BY <1>2 DEF SendHandshake, Pushed
  <2>2. DOMAIN pushed' = 1 .. 1 /\ pushed'[1].kind = "Handshake"
    BY <1>2, <2>1, PacketIsRecord, AppendLast DEF SendHandshake, Push, Plain, Packet
  <2> QED BY <2>2 DEF LoginFirst
<1>3. CASE SendLoginStart
  <2>1. Len(pushed) = 1
    BY <1>3 DEF SendLoginStart, Pushed
  <2>2. pushed[1].kind = "Handshake"
    BY <2>1, AppendLast DEF LoginFirst
  <2>3. DOMAIN pushed' = 1 .. 2 /\ pushed'[1] = pushed[1] /\ pushed'[2].kind = "LoginStart"
    <3> DEFINE p == Plain("LoginStart")
    <3>1. p \in Records /\ p.kind = "LoginStart" /\ pushed' = Append(pushed, p)
      BY <1>3, PacketIsRecord DEF SendLoginStart, Push, Plain, Packet
    <3> HIDE DEF p
    <3>2. pushed \in Seq(Records)
      OBVIOUS
    <3>3. Append(pushed, p)[1] = pushed[1]
      BY <2>1, <3>1, <3>2, AppendLast
    <3>4. /\ DOMAIN Append(pushed, p) = 1 .. Len(pushed) + 1
          /\ Append(pushed, p)[Len(pushed) + 1] = p
      BY <3>1, <3>2, AppendLast
    <3>5. Len(pushed) + 1 = 2
      BY <2>1
    <3> QED BY <3>1, <3>3, <3>4, <3>5
  <2> QED BY <2>2, <2>3 DEF LoginFirst
<1>4. CASE SpawnInput
  BY <1>4 DEF SpawnInput, LoginFirst
<1>5. CASE LoopTest
  BY <1>5 DEF LoopTest, LoginFirst
<1>6. CASE PullPacket
  BY <1>6 DEF PullPacket, LoginFirst
<1>7. CASE CaseLoginSuccess
  BY <1>7 DEF CaseLoginSuccess, LoginFirst
<1>8. CASE CaseLogin
  BY <1>8 DEF CaseLogin, LoginFirst
<1>9. CASE CaseKeepAlive
  <2>1. packet \in Records /\ packet.kind \notin LoginKinds
    BY DEF ServerPackets, ServerKinds, EntityKinds, LoginKinds
  <2>2. CASE Push(packet)
    BY <1>9, <2>1, <2>2, PushesAfterLogin DEF CaseKeepAlive, Case, Pushed
  <2> QED BY <1>9, <2>2 DEF CaseKeepAlive, Push, LoginFirst
<1>10. CASE CaseSynchronize
  BY <1>10 DEF CaseSynchronize, LoginFirst
<1>11. CASE ConfirmTeleportation
  <2>1. Confirmation(packet).kind \notin LoginKinds
    BY DEF Confirmation, Packet, LoginKinds
  <2> QED BY <1>11, <2>1, PacketIsRecord, PushesAfterLogin DEF ConfirmTeleportation, Pushed
<1>12. CASE CaseEntity
  BY <1>12 DEF CaseEntity, LoginFirst
<1>13. CASE CaseOther
  BY <1>13 DEF CaseOther, LoginFirst
<1>26. CASE CaseSetHealth
  BY <1>26 DEF CaseSetHealth, LoginFirst
<1>14. CASE Disconnect
  BY <1>14 DEF Disconnect, LoginFirst
<1>15. CASE ReadWord
  BY <1>15 DEF ReadWord, LoginFirst
<1>16. CASE ActMove
  BY <1>16 DEF ActMove, LoginFirst
<1>17. CASE ActMoveThrows
  BY <1>17 DEF ActMoveThrows, LoginFirst
<1>18. CASE WriteMove
  BY <1>18 DEF WriteMove, LoginFirst
<1>19. CASE ActCommand
  BY <1>19 DEF ActCommand, LoginFirst
<1>20. CASE ActNothing
  BY <1>20 DEF ActNothing, LoginFirst
<1>21. CASE ActEnd
  BY <1>21 DEF ActEnd, LoginFirst
<1>22. CASE BuildPacket
  BY <1>22 DEF BuildPacket, LoginFirst
<1>23. CASE PushPacket
  <2>1. draft.kind \notin LoginKinds
    BY <1>23 DEF PushPacket, Commands, InputKinds, LoginKinds
  <2> QED BY <1>23, <2>1, PushesAfterLogin DEF PushPacket, Control, Pushed
<1>24. CASE ServerLogin \/ ServerPlay
  BY <1>24 DEF ServerLogin, ServerPlay, ServerSends, LoginFirst
<1>25. CASE UNCHANGED vars
  BY <1>25 DEF vars, LoginFirst
<1> QED
  BY <1>1, <1>2, <1>3, <1>4, <1>5, <1>6, <1>7, <1>8, <1>9, <1>10, <1>11,
     <1>12, <1>13, <1>14, <1>15, <1>16, <1>17, <1>18, <1>19, <1>20, <1>21,
     <1>22, <1>23, <1>24, <1>25, <1>26 DEF Next, Main, Act

-------------------------------------------------------------------------------
(* The steps of the responder *)

(* Nothing of what the server sees *)
Rests == served' = served /\ Done' = Done /\ pushed' = pushed

LEMMA Stutters == Rests => UNCHANGED Responses!vars
BY DEF Rests, Responses!vars

LEMMA DoneType ==
  ASSUME IInv
  PROVE  /\ Len(served) \in Nat
         /\ Done \in 0 .. Len(served)
         /\ main = "case" => Done + 1 = taken
<1>1. Len(served) \in Nat
  BY AppendLast DEF IInv, DataOK
<1> QED BY <1>1 DEF IInv, TypeOK, Served, Done

(* The input thread and the login send commands. *)
LEMMA Speaks ==
  ASSUME IInv, served' = served, Done' = Done,
         NEW p \in Records, p.kind \in InputKinds \cup LoginKinds, Push(p)
  PROVE  Responses!Command
<1>1. pushed \in Seq(Records)
  BY DEF IInv, DataOK
<1>2. /\ Len(pushed) \in Nat
      /\ Len(pushed') = Len(pushed) + 1
      /\ pushed'[Len(pushed) + 1] = p
      /\ pushed' = Append(pushed, p)
  BY <1>1, AppendLast DEF Push
<1> QED BY <1>2 DEF Responses!Command, Responses!Grows

(* A packet is handled when what answers it has been pushed. *)
LEMMA Handles ==
  ASSUME IInv, served' = served, Done < Len(served), Done' = Done + 1,
         pushed' = pushed \o Answers(served[Done + 1])
  PROVE  Responses!Answer
<1>1. served \in Seq(ServerPackets) /\ Done \in Nat
  BY DoneType DEF IInv, DataOK
<1>2. /\ SubSeq(served, Done + 1, Len(served)) # <<>>
      /\ Head(SubSeq(served, Done + 1, Len(served))) = served[Done + 1]
      /\ Tail(SubSeq(served, Done + 1, Len(served))) = SubSeq(served, Done + 2, Len(served))
  BY <1>1, RestTakes
<1>3. Done' + 1 = Done + 2
  BY <1>1
<1> QED BY <1>2, <1>3 DEF Responses!Answer

(* A packet that is not a question is handled without an answer. *)
LEMMA HandlesSilently ==
  ASSUME IInv, main = "case", packet.kind \notin {"KeepAlive", "SynchronizePlayerPosition"},
         main' = "loop", taken' = taken, served' = served, pushed' = pushed
  PROVE  Responses!Answer
<1>1. Done + 1 = taken /\ Done < Len(served) /\ Done' = Done + 1 /\ served[Done + 1] = packet
  BY DoneType DEF Done, IInv, TypeOK, Served
<1>2. Answers(packet) = <<>>
  BY DEF Answers
<1>3. pushed \in Seq(Records)
  BY DEF IInv, DataOK
<1>4. pushed' = pushed \o Answers(served[Done + 1])
  BY <1>1, <1>2, <1>3, ConcatEmptySeq
<1> QED BY <1>1, <1>4, Handles

LEMMA Asks ==
  ASSUME IInv, NEW p \in ServerPackets, ServerSends(p)
  PROVE  Responses!Ask
<1> DEFINE inbox == SubSeq(served, Done + 1, Len(served))
<1>1. /\ served \in Seq(ServerPackets)
      /\ Done \in Nat
      /\ Done <= Len(served)
      /\ Len(served) \in Nat
  BY DoneType DEF IInv, DataOK
<1>2. served' = Append(served, p) /\ Done' = Done /\ pushed' = pushed
  BY DEF ServerSends, Done
<1>3. Len(served') = Len(served) + 1
  BY <1>1, <1>2, AppendLast
<1>4. inbox' = Append(inbox, p)
  BY <1>1, <1>2, <1>3, RestGrows
<1>5. inbox \in Seq(ServerPackets)
  BY <1>1, HalvesType
<1> HIDE DEF inbox
<1>6. /\ Len(inbox') = Len(inbox) + 1
      /\ inbox'[Len(inbox) + 1] = p
      /\ Len(inbox) \in Nat
  BY <1>4, <1>5, AppendLast
<1>7. Len(inbox') = Len(inbox) + 1 /\ inbox'[Len(inbox')] = p
  BY <1>6
<1> QED BY <1>2, <1>4, <1>7 DEF inbox, Responses!Ask, Responses!Grows

-------------------------------------------------------------------------------
LEMMA InvInit == Init => IInv
<1> SUFFICES ASSUME Init PROVE IInv
  OBVIOUS
<1> USE DemoAssumption DEF Init
<1>1. TypeOK
  BY DEF TypeOK, MainSteps, InputSteps, Words
<1>2. DataOK
  <2>1. NoPacket \in Records /\ NoPacket.kind = "none"
    BY DEF NoPacket, Plain, Packet, Records, Kinds
  <2> QED BY <2>1, EmptySeq DEF DataOK, ServerPackets, EntityKinds, LoginKinds
<1>3. Control /\ Commands /\ Served /\ Pushed /\ LoginFirst
  BY DEF Control, Commands, Served, Pushed, LoginFirst
<1> QED BY <1>1, <1>2, <1>3 DEF IInv

LEMMA Inductive == Spec => []IInv
<1>1. IInv /\ [Next]_vars => IInv'
  BY TypeNext, DataNext, ControlNext, CommandsNext, ServedNext, PushedNext, LoginNext DEF IInv
<1> QED BY <1>1, InvInit, PTL DEF Spec

(* Every step is one of the responder, or one it does not see. *)
LEMMA ResponderStep == IInv /\ [Next]_vars => [Responses!Next]_(Responses!vars)
<1> SUFFICES ASSUME IInv, [Next]_vars
             PROVE  Rests \/ Responses!Ask \/ Responses!Answer \/ Responses!Command
  BY Stutters DEF Responses!Next
<1> USE DEF inputVars, playerVars
<1>1. CASE Connect
  BY <1>1 DEF Connect, Rests, Done
<1>2. CASE SendHandshake
  <2> DEFINE p == Plain("Handshake")
  <2>1. p \in Records /\ p.kind \in LoginKinds
    BY PacketIsRecord DEF Plain, Packet, LoginKinds
  <2>2. served' = served /\ Done' = Done /\ Push(p)
    BY <1>2 DEF SendHandshake, Done
  <2> HIDE DEF p
  <2> QED BY <2>1, <2>2, Speaks
<1>3. CASE SendLoginStart
  <2> DEFINE p == Plain("LoginStart")
  <2>1. p \in Records /\ p.kind \in LoginKinds
    BY PacketIsRecord DEF Plain, Packet, LoginKinds
  <2>2. served' = served /\ Done' = Done /\ Push(p)
    BY <1>3 DEF SendLoginStart, Done
  <2> HIDE DEF p
  <2> QED BY <2>1, <2>2, Speaks
<1>4. CASE SpawnInput
  BY <1>4 DEF SpawnInput, Rests, Done
<1>5. CASE LoopTest
  BY <1>5 DEF LoopTest, Rests, Done
<1>6. CASE PullPacket
  BY <1>6 DEF PullPacket, Rests, Done, IInv, TypeOK
<1>7. CASE CaseLoginSuccess
  BY <1>7, HandlesSilently DEF CaseLoginSuccess, Case
<1>8. CASE CaseLogin
  BY <1>8, HandlesSilently DEF CaseLogin, Case
<1>9. CASE CaseKeepAlive
  <2>1. /\ Done + 1 = taken
        /\ Done < Len(served)
        /\ Done' = Done + 1
        /\ served[Done + 1] = packet
        /\ served' = served
    BY <1>9, DoneType DEF CaseKeepAlive, Case, Done, IInv, TypeOK, Served
  <2>2. state = "Play"
    <3>1. taken \in DOMAIN served /\ packet.kind = "KeepAlive"
      BY <1>9, <2>1, DoneType DEF CaseKeepAlive, Case, IInv, DataOK
    <3>2. taken # 1
      BY <2>1, <3>1 DEF IInv, Served
    <3> QED BY <1>9, <2>1, <3>2, DoneType DEF CaseKeepAlive, Case, IInv, Served
  <2>3. Answers(packet) = <<packet>>
    BY <1>9 DEF CaseKeepAlive, Case, Answers
  <2>4. pushed \in Seq(Records) /\ packet \in Records
    BY DEF IInv, DataOK, ServerPackets
  <2>5. pushed' = pushed \o <<packet>>
    BY <1>9, <2>2, <2>4, AppendIsConcat DEF CaseKeepAlive
  <2> QED BY <2>1, <2>3, <2>5, Handles
<1>10. CASE CaseSynchronize
  BY <1>10 DEF CaseSynchronize, Case, Rests, Done
<1>11. CASE ConfirmTeleportation
  <2>1. /\ Done < Len(served)
        /\ Done' = Done + 1
        /\ served[Done + 1] = packet
        /\ served' = served
    BY <1>11, DoneType DEF ConfirmTeleportation, Done, IInv, TypeOK, Served
  <2>2. Answers(packet) = <<Confirmation(packet)>>
    BY <1>11 DEF ConfirmTeleportation, IInv, Served, Answers
  <2>3. pushed \in Seq(Records)
    BY DEF IInv, DataOK
  <2>4. pushed' = pushed \o <<Confirmation(packet)>>
    BY <1>11, <2>3, PacketIsRecord, AppendIsConcat DEF ConfirmTeleportation, Push
  <2> QED BY <2>1, <2>2, <2>4, Handles
<1>12. CASE CaseEntity
  BY <1>12, HandlesSilently DEF CaseEntity, Case, EntityKinds
<1>13. CASE CaseOther
  BY <1>13, HandlesSilently DEF CaseOther, Case
<1>14. CASE Disconnect
  BY <1>14 DEF Disconnect, Rests, Done
<1>15. CASE ReadWord
  BY <1>15 DEF ReadWord, Rests, Done
<1>16. CASE ActMove
  BY <1>16 DEF ActMove, Rests, Done
<1>17. CASE ActMoveThrows
  BY <1>17 DEF ActMoveThrows, Rests, Done
<1>18. CASE WriteMove
  BY <1>18 DEF WriteMove, Rests, Done
<1>19. CASE ActCommand
  BY <1>19 DEF ActCommand, Rests, Done
<1>20. CASE ActNothing
  BY <1>20 DEF ActNothing, Rests, Done
<1>21. CASE ActEnd
  BY <1>21 DEF ActEnd, Rests, Done
<1>22. CASE BuildPacket
  BY <1>22 DEF BuildPacket, Rests, Done
<1>23. CASE PushPacket
  <2>1. draft \in Records /\ draft.kind \in InputKinds
    BY <1>23 DEF PushPacket, IInv, DataOK, Commands
  <2>2. served' = served /\ Done' = Done /\ Push(draft)
    BY <1>23 DEF PushPacket, Done
  <2> QED BY <2>1, <2>2, Speaks
<1>24. CASE CaseSetHealth
  BY <1>24, HandlesSilently DEF CaseSetHealth, Case
<1>25. CASE ServerLogin \/ ServerPlay
  BY <1>25, ServerStep, Asks
<1>26. CASE UNCHANGED vars
  BY <1>26 DEF vars, Rests, Done
<1> QED
  BY <1>1, <1>2, <1>3, <1>4, <1>5, <1>6, <1>7, <1>8, <1>9, <1>10, <1>11,
     <1>12, <1>13, <1>14, <1>15, <1>16, <1>17, <1>18, <1>19, <1>20, <1>21,
     <1>22, <1>23, <1>24, <1>25, <1>26 DEF Next, Main, Act

-------------------------------------------------------------------------------
(* Where the server put the other players                                     *)

(* std::find_if: i is the first entry of s with the key e, or 0 *)
FirstEntry(s, e, i) ==
  \/ i = 0 /\ \A n \in 1 .. Len(s) : s[n].key # e
  \/ i \in 1 .. Len(s) /\ s[i].key = e /\ \A n \in 1 .. i - 1 : s[n].key # e

LEMMA FindsFirst ==
  ASSUME NEW s \in Seq(Players), NEW e
  PROVE  FirstEntry(s, e, EntityIn(s, e))
<1> DEFINE I == {n \in 1 .. Len(s) : s[n].key = e}
<1>1. CASE I = {}
  <2>1. EntityIn(s, e) = 0
    BY <1>1, Zenon DEF SelectInSeq, EntityIn
  <2> QED BY <1>1, <2>1 DEF FirstEntry
<1>2. CASE I # {}
  <2>1. I \in SUBSET Nat
    OBVIOUS
  <2>2. PICK m \in I : \A n \in I : m <= n
    <3> HIDE DEF I
    <3> QED BY <1>2, <2>1, LeastOf
  <2>3. Min(I) \in I /\ \A n \in I : Min(I) <= n
    <3> HIDE DEF I
    <3> QED BY <2>2, Zenon DEF Min
  <2>4. EntityIn(s, e) = Min(I)
    BY <1>2, Zenon DEF SelectInSeq, EntityIn
  <2>5. FirstEntry(s, e, Min(I))
    <3> DEFINE i == Min(I)
    <3>1. i \in 1 .. Len(s) /\ s[i].key = e /\ Len(s) \in Nat
      BY <2>3
    <3>2. \A n \in 1 .. Len(s) : s[n].key = e => i <= n
      BY <2>3
    <3> HIDE DEF i, I
    <3> QED BY <3>1, <3>2 DEF FirstEntry, i
  <2> QED BY <2>4, <2>5
<1> QED BY <1>1, <1>2

LEMMA FirstIsOne ==
  ASSUME NEW s \in Seq(Players), NEW e, NEW i, NEW j,
         FirstEntry(s, e, i), FirstEntry(s, e, j)
  PROVE  i = j
BY DEF FirstEntry

(* A change of an entry that leaves its key leaves who is found. *)
LEMMA KeepsFirst ==
  ASSUME NEW s \in Seq(Players), NEW t \in Seq(Players), Len(t) = Len(s),
         \A n \in 1 .. Len(s) : t[n].key = s[n].key,
         NEW e, NEW i, FirstEntry(s, e, i)
  PROVE  FirstEntry(t, e, i)
<1>1. Len(s) \in Nat
  OBVIOUS
<1> QED BY <1>1 DEF FirstEntry

(* A new entry is found when there was none of the player. *)
LEMMA AppendsFirst ==
  ASSUME NEW s \in Seq(Players), NEW player \in Players,
         NEW e, NEW i, FirstEntry(s, e, i)
  PROVE  FirstEntry(Append(s, player), e,
                    IF i = 0 /\ player.key = e THEN Len(s) + 1 ELSE i)
<1> DEFINE t == Append(s, player)
<1>1. /\ Len(s) \in Nat
      /\ Len(t) = Len(s) + 1
      /\ \A n \in 1 .. Len(s) : t[n] = s[n]
      /\ t[Len(s) + 1] = player
  BY AppendLast
<1> HIDE DEF t
<1>2. CASE i = 0 /\ player.key = e
  BY <1>1, <1>2 DEF FirstEntry, t
<1>3. CASE i = 0 /\ player.key # e
  <2>1. \A n \in 1 .. Len(t) : t[n].key # e
    BY <1>1, <1>3 DEF FirstEntry
  <2> QED BY <1>3, <2>1 DEF FirstEntry, t
<1>4. CASE i # 0
  BY <1>1, <1>4 DEF FirstEntry, t
<1> QED BY <1>2, <1>3, <1>4

(* What the server says of an entity *)
Views == [spawns : Nat, x : Int, yaw : Int]

LEMMA HeardType ==
  ASSUME NEW e, NEW view \in Views, NEW p \in Records
  PROVE  Heard(e, view, p) \in Views
<1>1. p.x \in Int /\ p.yaw \in Int
  BY DEF Records
<1>2. view.spawns \in Nat /\ view.x \in Int /\ view.yaw \in Int
  BY DEF Views
<1> QED BY <1>1, <1>2 DEF Heard, Views

LEMMA ServerViewDef ==
  ASSUME NEW e, NEW s \in Seq(ServerPackets)
  PROVE  /\ ServerView(e, s) \in [0 .. Len(s) -> Views]
         /\ ServerView(e, s)[0] = [spawns |-> 0, x |-> 0, yaw |-> 0]
         /\ \A n \in 1 .. Len(s) : ServerView(e, s)[n] = Heard(e, ServerView(e, s)[n - 1], s[n])
<1> DEFINE first == [spawns |-> 0, x |-> 0, yaw |-> 0]
           N == Len(s)
           step == [n \in Nat |-> [v \in Views |-> IF n \in 1 .. N THEN Heard(e, v, s[n]) ELSE v]]
<1>1. first \in Views /\ N \in Nat
  BY DEF Views
<1> HIDE DEF first
<1>2. step \in [Nat -> [Views -> Views]]
  <2> SUFFICES ASSUME NEW n \in Nat, NEW v \in Views
               PROVE  (IF n \in 1 .. N THEN Heard(e, v, s[n]) ELSE v) \in Views
    OBVIOUS
  <2>1. n \in 1 .. N => s[n] \in Records
    BY DEF ServerPackets
  <2> QED BY <2>1, HeardType
<1>3. PICK g \in [Nat -> Views] : RecursUp(g, first, step)
  <2> HIDE DEF step
  <2> QED BY <1>1, <1>2, UpRecursion
<1> DEFINE f == [n \in 0 .. N |-> g[n]]
<1>4. f \in [0 .. N -> Views]
  BY <1>1, <1>3
<1>5. ASSUME NEW n \in 0 .. N
      PROVE  f[n] = IF n = 0 THEN first ELSE Heard(e, f[n - 1], s[n])
  <2>1. CASE n = 0
    BY <1>1, <1>3, <2>1 DEF RecursUp
  <2>2. CASE n # 0
    <3>1. n \in Nat \ {0} /\ n \in 1 .. N /\ n - 1 \in 0 .. N /\ n - 1 \in Nat /\ n \in Nat
      BY <1>1, <2>2
    <3>2. g[n - 1] \in Views
      BY <1>3, <3>1
    <3>3. g[n] = step[n][g[n - 1]]
      BY <1>3, <3>1 DEF RecursUp
    <3>4. step[n][g[n - 1]] = Heard(e, g[n - 1], s[n])
      BY <3>1, <3>2
    <3>5. f[n] = g[n] /\ f[n - 1] = g[n - 1]
      BY <3>1
    <3> QED BY <2>2, <3>3, <3>4, <3>5
  <2> QED BY <2>1, <2>2
<1>6. f = [n \in 0 .. N |-> IF n = 0 THEN first ELSE Heard(e, f[n - 1], s[n])]
  <2> HIDE DEF N
  <2> QED BY <1>4, <1>5
<1> HIDE DEF f
<1>7. ServerView(e, s) =
        [n \in 0 .. N |-> IF n = 0 THEN first ELSE Heard(e, ServerView(e, s)[n - 1], s[n])]
  BY <1>6, Zenon DEF ServerView, first
<1> DEFINE h == ServerView(e, s)
<1> HIDE DEF h
<1>8. h = [n \in 0 .. N |-> IF n = 0 THEN first ELSE Heard(e, h[n - 1], s[n])]
  BY <1>7, Zenon DEF h
<1>9. h[0] = first /\ \A n \in 1 .. N : h[n] = Heard(e, h[n - 1], s[n])
  <2>1. 0 \in 0 .. N
    BY <1>1
  <2>2. \A n \in 1 .. N : n \in 0 .. N /\ n # 0
    BY <1>1
  <2> HIDE DEF N
  <2> QED BY <1>8, <2>1, <2>2
<1> DEFINE S == {n \in Nat : n <= N => h[n] \in Views}
<1>10. Nat \subseteq S
  <2>1. 0 \in S
    BY <1>1, <1>9
  <2>2. ASSUME NEW n \in Nat, n \in S PROVE n + 1 \in S
    <3> SUFFICES ASSUME n + 1 <= N PROVE h[n + 1] \in Views
      OBVIOUS
    <3>1. n + 1 \in 1 .. N /\ (n + 1) - 1 = n /\ h[n] \in Views
      BY <1>1, <2>2
    <3>2. s[n + 1] \in Records
      BY <3>1 DEF ServerPackets
    <3> QED BY <1>9, <3>1, <3>2, HeardType
  <2> HIDE DEF S
  <2> QED BY <2>1, <2>2, SetInduction
<1>11. \A n \in 0 .. N : h[n] \in Views
  BY <1>1, <1>10
<1>12. h \in [0 .. N -> Views]
  <2> HIDE DEF N
  <2> QED BY <1>8, <1>11
<1> QED BY <1>9, <1>12 DEF h, first

(* A packet that is sent says nothing before it is handled. *)
LEMMA ViewStays ==
  ASSUME NEW e, NEW s \in Seq(ServerPackets), NEW p \in ServerPackets
  PROVE  \A n \in 0 .. Len(s) : ServerView(e, Append(s, p))[n] = ServerView(e, s)[n]
<1> DEFINE N == Len(s)
           t == Append(s, p)
           S == {n \in Nat : n <= N => ServerView(e, t)[n] = ServerView(e, s)[n]}
<1>1. /\ t \in Seq(ServerPackets)
      /\ N \in Nat
      /\ Len(t) = N + 1
      /\ \A n \in 1 .. N : t[n] = s[n]
  BY AppendLast
<1> HIDE DEF t
<1>2. 0 \in S
  BY <1>1, ServerViewDef
<1>3. ASSUME NEW n \in Nat, n \in S PROVE n + 1 \in S
  <2> SUFFICES ASSUME n + 1 <= N PROVE ServerView(e, t)[n + 1] = ServerView(e, s)[n + 1]
    OBVIOUS
  <2>1. n + 1 \in 1 .. N /\ n + 1 \in 1 .. Len(t) /\ (n + 1) - 1 = n
    BY <1>1
  <2>2. ServerView(e, t)[n] = ServerView(e, s)[n]
    BY <1>1, <1>3, <2>1
  <2>3. ServerView(e, t)[n + 1] = Heard(e, ServerView(e, t)[n], t[n + 1])
    BY <1>1, <2>1, ServerViewDef
  <2>4. ServerView(e, s)[n + 1] = Heard(e, ServerView(e, s)[n], s[n + 1])
    BY <1>1, <2>1, ServerViewDef
  <2> QED BY <1>1, <2>1, <2>2, <2>3, <2>4
<1>4. Nat \subseteq S
  <2> HIDE DEF S
  <2> QED BY <1>2, <1>3, SetInduction
<1> QED BY <1>1, <1>4 DEF t

View(e) == ServerView(e, served)[Done]

LEMMA ViewType ==
  ASSUME IInv, NEW e
  PROVE  View(e) \in Views
<1>1. served \in Seq(ServerPackets) /\ Done \in 0 .. Len(served)
  BY DoneType DEF IInv, DataOK
<1> QED BY <1>1, ServerViewDef DEF View

(* The packet that is done with *)
LEMMA ViewHears ==
  ASSUME IInv, served' = served, Done < Len(served), Done' = Done + 1, NEW e
  PROVE  View(e)' = Heard(e, View(e), served[Done + 1])
<1>1. served \in Seq(ServerPackets) /\ Done \in Nat /\ Len(served) \in Nat
  BY DoneType DEF IInv, DataOK
<1>2. Done + 1 \in 1 .. Len(served) /\ (Done + 1) - 1 = Done
  BY <1>1
<1>3. ServerView(e, served)[Done + 1] = Heard(e, ServerView(e, served)[Done], served[Done + 1])
  BY <1>1, <1>2, ServerViewDef
<1> QED BY <1>3 DEF View

LEMMA TrackedStays ==
  ASSUME Tracked, otherPlayers' = otherPlayers, \A e \in Entities : View(e)' = View(e)
  PROVE  Tracked'
<1>1. \A e \in Entities : EntityIt(e)' = EntityIt(e)
  BY DEF EntityIt
<1> QED BY <1>1, Zenon DEF Tracked, View

LEMMA TrackedRests ==
  ASSUME Tracked, otherPlayers' = otherPlayers, served' = served, Done' = Done
  PROVE  Tracked'
<1>1. \A e \in Entities : View(e)' = View(e)
  BY DEF View
<1> QED BY <1>1, TrackedStays

LEMMA TrackedHandles ==
  ASSUME IInv, Tracked, otherPlayers' = otherPlayers, served' = served,
         Done < Len(served), Done' = Done + 1, served[Done + 1].kind \notin EntityKinds
  PROVE  Tracked'
<1>1. \A e \in Entities : View(e)' = View(e)
  BY ViewHears DEF Heard
<1> QED BY <1>1, TrackedStays

LEMMA HandlesPacket ==
  ASSUME IInv, main \in {"case", "confirm"}, main' = "loop", taken' = taken
  PROVE  /\ Done < Len(served)
         /\ Done' = Done + 1
         /\ served[Done + 1] = packet
BY DoneType DEF Done, IInv, TypeOK, Served

LEMMA Finds ==
  ASSUME IInv
  PROVE  \A e : FirstEntry(otherPlayers, e, EntityIt(e))
<1>1. \A e : EntityIt(e) = EntityIn(otherPlayers, e)
  BY DEF EntityIt
<1> QED BY <1>1, FindsFirst DEF IInv, DataOK

LEMMA FindsNext ==
  ASSUME otherPlayers' \in Seq(Players), NEW e, NEW i, FirstEntry(otherPlayers', e, i)
  PROVE  EntityIt(e)' = i
<1> DEFINE s == otherPlayers'
<1>1. s \in Seq(Players)
  OBVIOUS
<1> HIDE DEF s
<1>2. FirstEntry(s, e, EntityIn(s, e))
  BY <1>1, FindsFirst
<1>3. FirstEntry(s, e, i)
  BY DEF s
<1>4. EntityIn(s, e) = i
  BY <1>1, <1>2, <1>3, FirstIsOne
<1> QED BY <1>4 DEF EntityIt, s

(* A player is spawned (main.cpp:333-339). *)
LEMMA TrackedSpawn ==
  ASSUME IInv, IInv', Tracked, CaseLoginSuccess, state = "Play"
  PROVE  Tracked'
<1> DEFINE k == packet.key
           N == Len(otherPlayers)
           player == Spawned(packet)
<1>1. /\ served' = served
      /\ Done < Len(served)
      /\ Done' = Done + 1
      /\ served[Done + 1] = packet
  BY HandlesPacket DEF CaseLoginSuccess, Case
<1>2. packet.kind = "SpawnPlayer"
  <2>1. taken > 1 /\ taken \in DOMAIN served /\ packet = served[taken]
    BY AppendLast DEF IInv, TypeOK, DataOK, Served, CaseLoginSuccess, Case
  <2> QED BY <2>1 DEF IInv, Served, CaseLoginSuccess, Case
<1>3. player \in Players /\ otherPlayers' = Append(otherPlayers, player)
  <2>1. k \in Entities
    BY SpawnsPlayer
  <2>2. player \in Players
    BY <2>1 DEF Spawned, Players, IInv, DataOK, ServerPackets, Records
  <2> QED BY <2>2 DEF CaseLoginSuccess
<1>4. otherPlayers \in Seq(Players) /\ otherPlayers' \in Seq(Players)
  BY DEF IInv, DataOK
<1>5. /\ N \in Nat
      /\ \A n \in 1 .. N : otherPlayers'[n] = otherPlayers[n]
      /\ otherPlayers'[N + 1] = player
  BY <1>3, <1>4, AppendLast
<1> SUFFICES ASSUME NEW e \in Entities
             PROVE  /\ EntityIt(e)' = 0 <=> View(e)'.spawns = 0
                    /\ View(e)'.spawns = 1 =>
                         otherPlayers'[EntityIt(e)'] =
                           [key |-> e, x |-> View(e)'.x, yaw |-> View(e)'.yaw]
  BY DEF Tracked, View
<1> DEFINE i == EntityIt(e)
           view == View(e)
<1>6. /\ i = 0 <=> view.spawns = 0
      /\ view.spawns = 1 => otherPlayers[i] = [key |-> e, x |-> view.x, yaw |-> view.yaw]
  BY DEF Tracked, View
<1>7. view \in Views /\ view.spawns \in Nat
  BY ViewType DEF Views
<1>8. EntityIt(e)' = IF i = 0 /\ player.key = e THEN N + 1 ELSE i
  <2>1. FirstEntry(otherPlayers, e, i)
    BY Finds
  <2> HIDE DEF i, player, N
  <2>2. FirstEntry(otherPlayers', e, IF i = 0 /\ player.key = e THEN Len(otherPlayers) + 1 ELSE i)
    BY <1>3, <1>4, <2>1, AppendsFirst
  <2> QED BY <1>4, <2>2, FindsNext DEF N
<1>9. i \in 0 .. N
  BY Finds, <1>5 DEF FirstEntry
<1>10. View(e)' = Heard(e, view, packet)
  BY <1>1, ViewHears
<1>11. player = [key |-> k, x |-> packet.x, yaw |-> packet.yaw]
  BY DEF Spawned
<1>12. CASE k # e
  <2>1. View(e)' = view
    BY <1>10, <1>12 DEF Heard
  <2>2. EntityIt(e)' = i
    BY <1>8, <1>11, <1>12
  <2> HIDE DEF i, view, player, N
  <2> QED BY <1>5, <1>6, <1>9, <2>1, <2>2, <1>7
<1>13. CASE k = e
  <2>1. View(e)' = [spawns |-> view.spawns + 1, x |-> packet.x, yaw |-> packet.yaw]
    BY <1>2, <1>10, <1>13 DEF Heard, EntityKinds
  <2>2. EntityIt(e)' = IF i = 0 THEN N + 1 ELSE i
    BY <1>8, <1>11, <1>13
  <2> HIDE DEF i, view, player, N
  <2>3. EntityIt(e)' # 0 /\ View(e)'.spawns # 0
    BY <1>5, <1>7, <1>9, <2>1, <2>2
  <2>4. ASSUME View(e)'.spawns = 1
        PROVE  otherPlayers'[EntityIt(e)'] = [key |-> e, x |-> View(e)'.x, yaw |-> View(e)'.yaw]
    <3>1. view.spawns = 0
      BY <1>7, <2>1, <2>4
    <3>2. otherPlayers'[EntityIt(e)'] = player
      BY <1>5, <1>6, <2>2, <3>1
    <3> QED BY <1>11, <1>13, <2>1, <3>2
  <2> QED BY <2>3, <2>4
<1> QED BY <1>12, <1>13

(* The position or the rotation of an entity is updated (main.cpp:383-452). *)
LEMMA TrackedUpdate ==
  ASSUME IInv, IInv', Tracked, CaseEntity
  PROVE  Tracked'
<1> DEFINE k == packet.key
           m == EntityIt(k)
           N == Len(otherPlayers)
           new == Updated(otherPlayers[m], packet)
<1>1. /\ served' = served
      /\ Done < Len(served)
      /\ Done' = Done + 1
      /\ served[Done + 1] = packet
  BY HandlesPacket DEF CaseEntity, Case
<1>2. packet.kind \in EntityKinds \ {"SpawnPlayer"}
  BY DEF CaseEntity, Case
<1>3. otherPlayers' = IF m = 0 THEN otherPlayers ELSE [otherPlayers EXCEPT ![m] = new]
  BY DEF CaseEntity
<1>4. /\ otherPlayers \in Seq(Players)
      /\ otherPlayers' \in Seq(Players)
      /\ N \in Nat
  BY DEF IInv, DataOK
<1>5. \A e : FirstEntry(otherPlayers, e, EntityIt(e))
  BY Finds
<1>6. m = 0 \/ (m \in 1 .. N /\ otherPlayers[m].key = k)
  <2>1. FirstEntry(otherPlayers, k, m)
    BY <1>5
  <2> QED BY <2>1, Zenon DEF FirstEntry
<1>7. new.key = otherPlayers[m].key
  BY DEF Updated
<1> HIDE DEF new
<1>8. /\ Len(otherPlayers') = N
      /\ \A n \in 1 .. N : otherPlayers'[n] = IF n = m THEN new ELSE otherPlayers[n]
  <2>1. CASE m = 0
    BY <1>3, <1>4, <2>1
  <2>2. CASE m # 0
    <3>1. otherPlayers' = [otherPlayers EXCEPT ![m] = new] /\ m \in 1 .. N
      BY <1>3, <1>6, <2>2
    <3> HIDE DEF m
    <3> QED BY <1>4, <3>1
  <2> QED BY <2>1, <2>2
<1> HIDE DEF m
<1>9. \A n \in 1 .. N : otherPlayers'[n].key = otherPlayers[n].key
  BY <1>7, <1>8
<1> SUFFICES ASSUME NEW e \in Entities
             PROVE  /\ EntityIt(e)' = 0 <=> View(e)'.spawns = 0
                    /\ View(e)'.spawns = 1 =>
                         otherPlayers'[EntityIt(e)'] =
                           [key |-> e, x |-> View(e)'.x, yaw |-> View(e)'.yaw]
  BY DEF Tracked, View
<1> DEFINE i == EntityIt(e)
           view == View(e)
<1>10. /\ i = 0 <=> view.spawns = 0
       /\ view.spawns = 1 => otherPlayers[i] = [key |-> e, x |-> view.x, yaw |-> view.yaw]
  BY DEF Tracked, View
<1>11. view \in Views /\ view.spawns \in Nat /\ view.x \in Int
  BY ViewType DEF Views
<1>12. EntityIt(e)' = i
  <2>1. FirstEntry(otherPlayers, e, i)
    BY <1>5
  <2> HIDE DEF i
  <2>2. FirstEntry(otherPlayers', e, i)
    BY <1>4, <1>8, <1>9, <2>1, KeepsFirst
  <2> QED BY <1>4, <2>2, FindsNext
<1>13. View(e)' = Heard(e, view, packet)
  BY <1>1, ViewHears
<1>14. i = 0 \/ (i \in 1 .. N /\ otherPlayers[i].key = e)
  <2>1. FirstEntry(otherPlayers, e, i)
    BY <1>5
  <2> QED BY <2>1, Zenon DEF FirstEntry
<1>15. CASE k # e
  <2>1. View(e)' = view
    BY <1>13, <1>15 DEF Heard
  <2>2. i # 0 => otherPlayers'[i] = otherPlayers[i]
    <3>1. i # 0 => i # m
      BY <1>6, <1>14, <1>15
    <3> HIDE DEF i
    <3> QED BY <1>8, <1>14, <3>1
  <2> HIDE DEF i, view
  <2> QED BY <1>10, <1>12, <2>1, <2>2, <1>11
<1>16. CASE k = e
  <2>1. i = m
    BY <1>16 DEF m
  <2>2. View(e)' = [spawns |-> view.spawns,
                    x |-> CASE packet.kind = "TeleportEntity" -> packet.x
                            [] packet.kind = "UpdateEntityRotation" -> view.x
                            [] OTHER -> view.x + packet.x,
                    yaw |-> IF packet.kind = "UpdateEntityPosition" THEN view.yaw
                            ELSE packet.yaw]
    BY <1>2, <1>13, <1>16 DEF Heard, EntityKinds
  <2> HIDE DEF i, view
  <2>3. View(e)'.spawns = view.spawns
    BY <2>2
  <2>4. ASSUME view.spawns = 1
        PROVE  otherPlayers'[i] = [key |-> e, x |-> View(e)'.x, yaw |-> View(e)'.yaw]
    <3>1. i \in 1 .. N /\ otherPlayers[i] = [key |-> e, x |-> view.x, yaw |-> view.yaw]
      BY <1>10, <1>14, <2>4
    <3>2. otherPlayers'[i] = new
      BY <1>8, <2>1, <3>1
    <3>3. new = [key |-> e, x |-> View(e)'.x, yaw |-> View(e)'.yaw]
      BY <2>1, <2>2, <3>1 DEF new, Updated
    <3> QED BY <3>2, <3>3
  <2> QED BY <1>10, <1>12, <2>3, <2>4
<1> QED BY <1>15, <1>16

LEMMA TrackedNext == IInv /\ IInv' /\ Tracked /\ [Next]_vars => Tracked'
<1> SUFFICES ASSUME IInv, IInv', Tracked, [Next]_vars PROVE Tracked'
  OBVIOUS
<1> USE DEF inputVars, playerVars
<1>1. CASE Connect \/ SendHandshake \/ SendLoginStart \/ SpawnInput \/ LoopTest \/ Disconnect
  <2>1. otherPlayers' = otherPlayers /\ served' = served /\ Done' = Done
    BY <1>1 DEF Connect, SendHandshake, SendLoginStart, SpawnInput, LoopTest, Disconnect, Done
  <2> QED BY <2>1, TrackedRests
<1>2. CASE PullPacket \/ CaseSynchronize
  <2>1. otherPlayers' = otherPlayers /\ served' = served /\ Done' = Done
    <3>1. CASE PullPacket
      BY <3>1 DEF PullPacket, Done, IInv, TypeOK
    <3>2. CASE CaseSynchronize
      BY <3>2 DEF CaseSynchronize, Case, Done
    <3> QED BY <1>2, <3>1, <3>2
  <2> QED BY <2>1, TrackedRests
<1>3. CASE CaseLoginSuccess
  <2>1. CASE state = "Play"
    BY <1>3, <2>1, TrackedSpawn
  <2>2. CASE state # "Play"
    <3>1. /\ otherPlayers' = otherPlayers
          /\ served' = served
          /\ Done < Len(served)
          /\ Done' = Done + 1
          /\ served[Done + 1] = packet
      BY <1>3, <2>2, HandlesPacket DEF CaseLoginSuccess, Case
    <3>2. packet.kind = "LoginSuccess"
      <4>1. taken = 1 /\ 1 \in DOMAIN served /\ packet = served[taken]
        BY <1>3, <2>2, AppendLast DEF IInv, TypeOK, DataOK, Served, CaseLoginSuccess, Case
      <4> QED BY <4>1 DEF IInv, Served
    <3> QED BY <3>1, <3>2, TrackedHandles DEF EntityKinds
  <2> QED BY <2>1, <2>2
<1>4. CASE CaseLogin \/ CaseKeepAlive \/ CaseSetHealth \/ CaseOther
  <2>1. /\ otherPlayers' = otherPlayers
        /\ served' = served
        /\ main = "case"
        /\ main' = "loop"
        /\ taken' = taken
        /\ packet.kind \in {"Login", "KeepAlive", "SetHealth", "Other"}
    BY <1>4 DEF CaseLogin, CaseKeepAlive, CaseSetHealth, CaseOther, Case
  <2> QED BY <2>1, HandlesPacket, TrackedHandles DEF EntityKinds
<1>5. CASE ConfirmTeleportation
  <2>1. /\ otherPlayers' = otherPlayers
        /\ served' = served
        /\ main = "confirm"
        /\ main' = "loop"
        /\ taken' = taken
        /\ packet.kind = "SynchronizePlayerPosition"
    BY <1>5 DEF ConfirmTeleportation, IInv, Served
  <2> QED BY <2>1, HandlesPacket, TrackedHandles DEF EntityKinds
<1>6. CASE CaseEntity
  BY <1>6, TrackedUpdate
<1>7. CASE ReadWord \/ Act
  <2>1. otherPlayers' = otherPlayers /\ served' = served /\ Done' = Done
    BY <1>7 DEF ReadWord, Act, ActMove, ActMoveThrows, WriteMove, ActCommand, ActNothing,
                ActEnd, BuildPacket, PushPacket, Done
  <2> QED BY <2>1, TrackedRests
<1>8. CASE ServerLogin \/ ServerPlay
  <2>1. PICK p \in ServerPackets : ServerSends(p)
    BY <1>8, ServerStep
  <2>2. /\ otherPlayers' = otherPlayers
        /\ served' = Append(served, p)
        /\ Done' = Done
    BY <2>1 DEF ServerSends, Done
  <2>3. \A e \in Entities : View(e)' = View(e)
    <3>1. served \in Seq(ServerPackets) /\ Done \in 0 .. Len(served)
      BY DoneType DEF IInv, DataOK
    <3> QED BY <2>2, <3>1, ViewStays DEF View
  <2> QED BY <2>2, <2>3, TrackedStays
<1>9. CASE UNCHANGED vars
  <2>1. otherPlayers' = otherPlayers /\ served' = served /\ Done' = Done
    BY <1>9 DEF vars, Done
  <2> QED BY <2>1, TrackedRests
<1> QED
  BY <1>1, <1>2, <1>3, <1>4, <1>5, <1>6, <1>7, <1>8, <1>9 DEF Next, Main

LEMMA TrackedInit == Init => Tracked
<1> SUFFICES ASSUME Init, NEW e \in Entities
             PROVE  EntityIt(e) = 0 /\ View(e).spawns = 0
  BY DEF Tracked, View
<1>1. served = <<>> /\ otherPlayers = <<>> /\ Done = 0
  BY DEF Init, Done
<1>2. EntityIt(e) = 0
  <2>1. <<>> \in Seq(Players)
    BY EmptySeq
  <2>2. FirstEntry(<<>>, e, EntityIn(<<>>, e))
    BY <2>1, FindsFirst
  <2>3. EntityIn(<<>>, e) = 0
    BY <2>2 DEF FirstEntry
  <2> QED BY <1>1, <2>3, Zenon DEF EntityIt
<1>3. View(e).spawns = 0
  <2>1. <<>> \in Seq(ServerPackets)
    BY EmptySeq
  <2>2. ServerView(e, <<>>)[0] = [spawns |-> 0, x |-> 0, yaw |-> 0]
    BY <2>1, ServerViewDef
  <2> QED BY <1>1, <2>2 DEF View
<1> QED BY <1>2, <1>3

(* Every variable of the demo keeps its type; the packet loop appends only      *)
(* players the server named, although two kinds of packet share an id           *)
(* (main.cpp:328-340).                                                          *)
THEOREM TypeCorrect == Spec => []TypeOK
<1>1. IInv => TypeOK
  BY DEF IInv
<1> QED BY <1>1, Inductive, PTL

(* The Handshake and Login Start come first and once, for any commands of the   *)
(* user and any packets of the server (main.cpp:168-201).                       *)
THEOREM LoginCorrect == Spec => []LoginFirst
<1>1. IInv => LoginFirst
  BY DEF IInv
<1> QED BY <1>1, Inductive, PTL

(* When main() disconnects, the input thread is done with the client            *)
(* (main.cpp:316, 474).                                                         *)
THEOREM QuietCorrect == Spec => []QuietAfterEnd
<1>1. IInv => QuietAfterEnd
  BY DEF IInv, Control, QuietAfterEnd
<1> QED BY <1>1, Inductive, PTL

(* Every keep alive and every teleport is answered once, in the order of the    *)
(* server and with its own id, whatever the user does meanwhile                 *)
(* (main.cpp:348-371).                                                          *)
THEOREM ResponderRefinement == Spec => ResponderSpec
<1>1. Init => Responses!Init
  <2> SUFFICES ASSUME Init PROVE Responses!Init
    OBVIOUS
  <2>1. Done = 0 /\ served = <<>> /\ pushed = <<>>
    BY DEF Init, Done
  <2>2. SubSeq(served, Done + 1, Len(served)) = <<>>
    BY <2>1
  <2> QED BY <2>1, <2>2 DEF Responses!Init
<1> QED BY <1>1, ResponderStep, Inductive, PTL DEF Spec, ResponderSpec, Responses!Spec

(* Whatever order the packets of several players come in, a player that was     *)
(* spawned once is where the server put it and looks where it turned it, for    *)
(* any number of players, packets and places (main.cpp:328-340, 383-452).       *)
THEOREM EntitiesCorrect == Spec => []EntitiesTracked
<1>1. IInv /\ IInv' /\ Tracked /\ [Next]_vars => Tracked'
  BY TrackedNext
<1>2. IInv /\ Tracked => EntitiesTracked
  <2> SUFFICES ASSUME IInv, Tracked, NEW e \in Entities, View(e).spawns = 1
               PROVE  \E i \in DOMAIN otherPlayers :
                        otherPlayers[i] = [key |-> e, x |-> View(e).x, yaw |-> View(e).yaw]
    BY DEF EntitiesTracked, View
  <2>1. EntityIt(e) # 0
    <3>1. EntityIt(e) = 0 => View(e).spawns = 0
      BY Zenon DEF Tracked, View
    <3> QED BY <3>1
  <2>2. EntityIt(e) \in 1 .. Len(otherPlayers)
    <3> DEFINE i == EntityIt(e)
    <3>1. FirstEntry(otherPlayers, e, i)
      BY Finds
    <3> HIDE DEF i
    <3> QED BY <2>1, <3>1 DEF FirstEntry, i
  <2>3. otherPlayers \in Seq(Players)
    BY DEF IInv, DataOK
  <2>4. EntityIt(e) \in DOMAIN otherPlayers
    BY <2>2, <2>3
  <2>5. otherPlayers[EntityIt(e)] = [key |-> e, x |-> View(e).x, yaw |-> View(e).yaw]
    BY DEF Tracked, View
  <2> QED BY <2>4, <2>5
<1> QED BY <1>1, <1>2, TrackedInit, Inductive, PTL DEF Spec
================================================================================
