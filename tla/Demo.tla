---------------------------------- MODULE Demo ---------------------------------
(***************************************************************************)
(* The demo client: main() logs in and then answers the server's packets   *)
(* in a loop, while an input thread turns what the user types into         *)
(* packets.  Both push into the sink of one Client and share the player's  *)
(* state and the flag running without any lock.                            *)
(*                                                                         *)
(* Packets are whole here: the endpoints keep the bytes of a pushBytes     *)
(* together and in order (StreamIntegrity of both) and the packet loop     *)
(* hands them over one by one (ChannelSpec of PacketStream).  The server   *)
(* follows the protocol without encryption and without compression, the    *)
(* only one the switch of the packet loop supports.  Of the three          *)
(* coordinates of a position, the two angles of a rotation and the three   *)
(* values of a health one each is kept: the others are assigned beside it. *)
(***************************************************************************)
EXTENDS Integers, Sequences, SequencesExt

CONSTANTS
  Entities,      \* entity ids of the other players
  Own,           \* the entity id of the player
  Keys,          \* keep alive ids and teleport ids
  Offers,        \* packets the server may send in the play state
  HideBlocks,    \* blocks placed by "hide", 34 in the code
  MaxServed,     \* bound: packets of the server
  MaxInFlight,   \* bound: packets of the server that were not pulled yet
  MaxWords,      \* bound: commands of the user
  NoEntity       \* the id of a player that was told none, 0 in the code

VARIABLES
  main,          \* where main() stands
  input,         \* where the input thread stands
  running,       \* bool running, shared by both without synchronisation
  state,         \* ConnectionState state
  entityID,      \* player.entityID, shared
  place,         \* player.x, shared
  health,        \* player.health
  otherPlayers,  \* the vector of SpawnPlayerPackets
  packet,        \* the packet the main loop works on
  word,          \* the word the input thread read
  moved,         \* what the input thread is about to write to player.x
  draft,         \* the packet the input thread is about to push
  left,          \* packets the command of the input thread has still to push
  words,         \* number of commands so far
  served,        \* history: every packet of the server
  taken,         \* how many of them were pulled
  pushed         \* every packet pushed into the sink, in the sink's order

inputVars  == <<input, word, moved, draft, left, words>>
playerVars == <<entityID, place, health, otherPlayers>>
vars == <<main, inputVars, running, state, playerVars, packet, served, taken, pushed>>

(* A packet: its kind, a key or an entity, a coordinate or an offset, a yaw *)
Packet(kind, key, x, yaw) == [kind |-> kind, key |-> key, x |-> x, yaw |-> yaw]
Plain(kind) == Packet(kind, NoEntity, 0, 0)
NoPacket == Plain("none")

EntityKinds == {"SpawnPlayer", "UpdateEntityPosition", "UpdateEntityPositionAndRotation",
                "UpdateEntityRotation", "TeleportEntity"}
ServerKinds == EntityKinds \cup
               {"LoginSuccess", "Login", "KeepAlive", "SynchronizePlayerPosition",
                "SetHealth", "Other"}
InputKinds  == {"SetPlayerPosition", "UseItemOn", "PlayerCommand", "ChatCommand"}
LoginKinds  == {"Handshake", "LoginStart"}
Kinds       == ServerKinds \cup InputKinds \cup LoginKinds \cup
               {"ConfirmTeleportation", "none"}

Players == [key : Entities, x : Int, yaw : Int]
Records == [kind : Kinds, key : Entities \cup Keys \cup {Own, NoEntity},
            x : Int, yaw : Int]

(* The packets of the server: those about entities name one, and the login names *)
(* the player.                                                                  *)
ServerPackets ==
  {p \in Records :
     /\ p.kind = "Login" => p.key = Own
     /\ p.kind \in EntityKinds => p.key \in Entities
     /\ p.kind \in ServerKinds \cup {"none"}}

ASSUME DemoAssumption ==
  /\ NoEntity \notin Entities \cup {Own}
  /\ Offers \subseteq {p \in ServerPackets : p.kind \notin {"LoginSuccess", "none"}}
  /\ HideBlocks \in Nat \ {0}
  /\ MaxServed \in Nat
  /\ MaxInFlight \in Nat \ {0}
  /\ MaxWords \in Nat

MainSteps  == {"connecting", "handshake", "loginStart", "spawnInput", "loop", "pull",
               "case", "confirm", "disconnect", "ended", "failed"}
InputSteps == {"none", "read", "act", "write", "build", "push", "done",
               "thrown"}
Words      == {"other", "move", "place", "hide", "sneak", "chat", "end"}

TypeOK ==
  /\ main \in MainSteps
  /\ input \in InputSteps
  /\ running \in BOOLEAN
  /\ state \in {"Handshaking", "Login", "Play"}
  /\ entityID \in {Own, NoEntity}
  /\ place \in Int
  /\ health \in Int
  /\ \A i \in DOMAIN otherPlayers : otherPlayers[i].key \in Entities
  /\ word \in Words
  /\ left \in 0 .. HideBlocks
  /\ words \in 0 .. MaxWords
  /\ taken \in 0 .. Len(served)
  /\ Len(served) <= MaxServed

Init ==
  /\ main = "connecting"
  /\ input = "none"
  /\ running = TRUE
  /\ state = "Handshaking"
  /\ entityID = NoEntity
  /\ place = 0
  /\ health = 0
  /\ otherPlayers = <<>>
  /\ packet = NoPacket
  /\ word = "other"
  /\ moved = 0
  /\ draft = NoPacket
  /\ left = 0
  /\ words = 0
  /\ served = <<>>
  /\ taken = 0
  /\ pushed = <<>>

Push(p) == pushed' = Append(pushed, p)

-------------------------------------------------------------------------------
(* The server, which follows the protocol *)

ServerSends(p) ==
  /\ Len(served) < MaxServed
  /\ Len(served) - taken < MaxInFlight
  /\ main \notin {"connecting", "ended", "failed"}
  /\ served' = Append(served, p)
  /\ UNCHANGED <<main, inputVars, running, state, playerVars, packet, taken, pushed>>

LoggedIn == \E i \in DOMAIN served : served[i].kind = "LoginSuccess"

(* Login Success answers Login Start and begins the play state. *)
ServerLogin ==
  /\ ~LoggedIn
  /\ \E i \in DOMAIN pushed : pushed[i].kind = "LoginStart"
  /\ ServerSends(Plain("LoginSuccess"))

ServerPlay ==
  /\ LoggedIn
  /\ \E p \in Offers : ServerSends(p)

-------------------------------------------------------------------------------
(* main(): connecting and logging in *)

(* Mutant of Connect: the input thread is spawned before the login. *)
ConnectSpawns ==
  /\ main = "connecting"
  /\ main' \in {"handshake", "failed"}
  /\ input' = "read"
  /\ UNCHANGED <<word, moved, draft, left, words, running, state, playerVars, packet,
                 served, taken, pushed>>

Connect ==
  /\ main = "connecting"
  /\ main' \in {"handshake", "failed"}
  /\ UNCHANGED <<inputVars, running, state, playerVars, packet, served, taken, pushed>>

SendHandshake ==
  /\ main = "handshake"
  /\ Push(Plain("Handshake"))
  /\ state' = "Login"
  /\ main' = "loginStart"
  /\ UNCHANGED <<inputVars, running, playerVars, packet, served, taken>>

SendLoginStart ==
  /\ main = "loginStart"
  /\ Push(Plain("LoginStart"))
  /\ main' = "spawnInput"
  /\ UNCHANGED <<inputVars, running, state, playerVars, packet, served, taken>>

SpawnInput ==
  /\ main = "spawnInput"
  /\ input' = "read"
  /\ main' = "loop"
  /\ UNCHANGED <<word, moved, draft, left, words, running, state, playerVars, packet,
                 served, taken, pushed>>
-------------------------------------------------------------------------------
(* main(): the packet loop *)

(* Mutant of LoopTest: running is never looked at. *)
LoopTestForever ==
  /\ main = "loop"
  /\ main' = "pull"
  /\ UNCHANGED <<inputVars, running, state, playerVars, packet, served, taken, pushed>>

LoopTest ==
  /\ main = "loop"
  /\ main' = IF running THEN "pull" ELSE "disconnect"
  /\ UNCHANGED <<inputVars, running, state, playerVars, packet, served, taken, pushed>>

(* Length, id, contents and the rest of a packet; blocks until there is one.  The  *)
(* loop waits nowhere else (NeverWaits of PacketStream).                          *)
PullPacket ==
  /\ main = "pull"
  /\ taken < Len(served)
  /\ packet' = served[taken + 1]
  /\ taken' = taken + 1
  /\ main' = "case"
  /\ UNCHANGED <<inputVars, running, state, playerVars, served, pushed>>

Case(kinds) == main = "case" /\ packet.kind \in kinds

(* emplace_back and the contents of a SpawnPlayerPacket *)
Spawned(p) == [key |-> p.key, x |-> p.x, yaw |-> p.yaw]

(* Two packets with the same id, told apart by the state *)
CaseLoginSuccess ==
  /\ Case({"LoginSuccess", "SpawnPlayer"})
  /\ \/ /\ state = "Login"
        /\ state' = "Play"
        /\ UNCHANGED otherPlayers
     \/ /\ state = "Play"
        /\ otherPlayers' = Append(otherPlayers, Spawned(packet))
        /\ UNCHANGED state
  /\ main' = "loop"
  /\ UNCHANGED <<inputVars, running, entityID, place, health, packet, served, taken, pushed>>

CaseLogin ==
  /\ Case({"Login"})
  /\ entityID' = IF state = "Play" THEN packet.key ELSE entityID
  /\ main' = "loop"
  /\ UNCHANGED <<inputVars, running, state, place, health, otherPlayers, packet, served,
                 taken, pushed>>

(* Mutant of CaseKeepAlive: answered only when the answer is a new one. *)
CaseKeepAliveOnce ==
  /\ Case({"KeepAlive"})
  /\ pushed' = IF Contains(pushed, packet) THEN pushed ELSE Append(pushed, packet)
  /\ main' = "loop"
  /\ UNCHANGED <<inputVars, running, state, playerVars, packet, served, taken>>

(* "respond with the same contents" *)
CaseKeepAlive ==
  /\ Case({"KeepAlive"})
  /\ pushed' = IF state = "Play" THEN Append(pushed, packet) ELSE pushed
  /\ main' = "loop"
  /\ UNCHANGED <<inputVars, running, state, playerVars, packet, served, taken>>

CaseSynchronize ==
  /\ Case({"SynchronizePlayerPosition"})
  /\ place' = packet.x
  /\ main' = "confirm"
  /\ UNCHANGED <<inputVars, running, state, entityID, health, otherPlayers, packet, served,
                 taken, pushed>>

(* ConfirmTeleportationPacket confirmPacket {syncPacket.teleportID} *)
Confirmation(p) == Packet("ConfirmTeleportation", p.key, 0, 0)

ConfirmTeleportation ==
  /\ main = "confirm"
  /\ Push(Confirmation(packet))
  /\ main' = "loop"
  /\ UNCHANGED <<inputVars, running, state, playerVars, packet, served, taken>>

(* Mutant of EntityIt: the entity last added. *)
EntityItLast(e) == Len(otherPlayers)

(* std::find_if: the first entry with the id, 0 for end() *)
EntityIn(players, e) == SelectInSeq(players, LAMBDA player : player.key = e)

EntityIt(e) == EntityIn(otherPlayers, e)

(* The updates of a position add to the coordinate, TeleportEntity replaces it. *)
Updated(player, p) ==
  [key |-> player.key,
   x   |-> CASE p.kind = "TeleportEntity" -> p.x
             [] p.kind = "UpdateEntityRotation" -> player.x
             [] OTHER -> player.x + p.x,
   yaw |-> IF p.kind = "UpdateEntityPosition" THEN player.yaw ELSE p.yaw]

(* An entity that was not spawned is reported on the terminal and ignored. *)
CaseEntity ==
  /\ Case(EntityKinds \ {"SpawnPlayer"})
  /\ LET entityIt == EntityIt(packet.key)
     IN \/ /\ entityIt = 0
           /\ UNCHANGED otherPlayers
        \/ /\ entityIt # 0
           /\ otherPlayers' = [otherPlayers EXCEPT ![entityIt] = Updated(@, packet)]
  /\ main' = "loop"
  /\ UNCHANGED <<inputVars, running, state, entityID, place, health, packet, served, taken,
                 pushed>>

CaseSetHealth ==
  /\ Case({"SetHealth"})
  /\ health' = packet.x
  /\ main' = "loop"
  /\ UNCHANGED <<inputVars, running, state, entityID, place, otherPlayers, packet, served,
                 taken, pushed>>

(* The switch has no case for the other packets. *)
CaseOther ==
  /\ Case({"Other"})
  /\ main' = "loop"
  /\ UNCHANGED <<inputVars, running, state, playerVars, packet, served, taken, pushed>>

(* disconnect() and the return from main(); the destructor of the client, which  *)
(* runs after it, belongs to Client and the endpoints.                           *)
Disconnect ==
  /\ main = "disconnect"
  /\ main' = "ended"
  /\ UNCHANGED <<inputVars, running, state, playerVars, packet, served, taken, pushed>>

-------------------------------------------------------------------------------
(* The input thread *)

(* Mutant of ReadWord: running is cleared when the user types end. *)
ReadWordStops ==
  /\ input = "read"
  /\ words < MaxWords
  /\ word' \in Words
  /\ words' = words + 1
  /\ running' = (word' # "end")
  /\ input' = "act"
  /\ UNCHANGED <<main, moved, draft, left, state, playerVars, packet, served, taken, pushed>>

(* A word of the user, with its arguments.  sneak stands for the four player   *)
(* commands, chat for "/" and its words up to ";", and other for a word that   *)
(* means nothing and for what the end of the input leaves behind for ever.     *)
ReadWord ==
  /\ input = "read"
  /\ words < MaxWords
  /\ word' \in Words
  /\ words' = words + 1
  /\ input' = "act"
  /\ UNCHANGED <<main, running, moved, draft, left, state, playerVars, packet, served, taken,
                 pushed>>

(* player.x += offset reads the shared coordinate and writes it later. *)
ActMove ==
  /\ input = "act"
  /\ word = "move"
  /\ moved' = place + 1
  /\ input' = "write"
  /\ UNCHANGED <<main, running, word, draft, left, words, state, playerVars, packet, served,
                 taken, pushed>>

(* std::stod throws: the thread ends, and running stays set. *)
ActMoveThrows ==
  /\ input = "act"
  /\ word = "move"
  /\ input' = "thrown"
  /\ UNCHANGED <<main, running, word, moved, draft, left, words, state, playerVars, packet,
                 served, taken, pushed>>

WriteMove ==
  /\ input = "write"
  /\ place' = moved
  /\ left' = 1
  /\ input' = "build"
  /\ UNCHANGED <<main, running, word, moved, draft, words, state, entityID, health,
                 otherPlayers, packet, served, taken, pushed>>

ActCommand ==
  /\ input = "act"
  /\ word \in {"place", "hide", "sneak", "chat"}
  /\ left' = IF word = "hide" THEN HideBlocks ELSE 1
  /\ input' = "build"
  /\ UNCHANGED <<main, running, word, moved, draft, words, state, playerVars, packet, served,
                 taken, pushed>>

ActNothing ==
  /\ input = "act"
  /\ word = "other"
  /\ input' = "read"
  /\ UNCHANGED <<main, running, word, moved, draft, left, words, state, playerVars, packet,
                 served, taken, pushed>>

ActEnd ==
  /\ input = "act"
  /\ word = "end"
  /\ running' = FALSE
  /\ input' = "done"
  /\ UNCHANGED <<main, word, moved, draft, left, words, state, playerVars, packet, served,
                 taken, pushed>>

(* The packet is made from the player's state of this moment. *)
BuildPacket ==
  /\ input = "build"
  /\ draft' = CASE word = "move"  -> Packet("SetPlayerPosition", NoEntity, place, 0)
                [] word = "place" -> Plain("UseItemOn")
                [] word = "hide"  -> Packet("UseItemOn", NoEntity, place, 0)
                [] word = "sneak" -> Packet("PlayerCommand", entityID, 0, 0)
                [] word = "chat"  -> Plain("ChatCommand")
  /\ input' = "push"
  /\ UNCHANGED <<main, running, word, moved, left, words, state, playerVars, packet, served,
                 taken, pushed>>

(* Mutant of PushPacket: the loop of hide goes round once too often. *)
PushPacketOnceMore ==
  /\ input = "push"
  /\ Push(draft)
  /\ left' = left - 1
  /\ input' = IF left = 0 THEN "read" ELSE "build"
  /\ UNCHANGED <<main, running, word, moved, draft, words, state, playerVars, packet, served,
                 taken>>

PushPacket ==
  /\ input = "push"
  /\ Push(draft)
  /\ left' = left - 1
  /\ input' = IF left = 1 THEN "read" ELSE "build"
  /\ UNCHANGED <<main, running, word, moved, draft, words, state, playerVars, packet, served,
                 taken>>

-------------------------------------------------------------------------------
Main ==
  \/ Connect \/ SendHandshake \/ SendLoginStart \/ SpawnInput
  \/ LoopTest \/ PullPacket \/ CaseLoginSuccess \/ CaseLogin \/ CaseKeepAlive
  \/ CaseSynchronize \/ ConfirmTeleportation \/ CaseEntity \/ CaseSetHealth \/ CaseOther
  \/ Disconnect

Act ==
  \/ ActMove \/ ActMoveThrows \/ WriteMove \/ ActCommand \/ ActNothing
  \/ ActEnd \/ BuildPacket \/ PushPacket

Next == Main \/ ReadWord \/ Act \/ ServerLogin \/ ServerPlay

Spec == Init /\ [][Next]_vars

(* Both threads are scheduled, and a push returns (PushReturns of                *)
(* SendingEndpoint).  Nothing is assumed of the user, who presses the key that   *)
(* main() waits for before it connects and types the words, or of the server.    *)
Fairness == WF_vars(Main /\ main # "connecting") /\ WF_vars(Act)

FairSpec == Spec /\ Fairness

-------------------------------------------------------------------------------
(* The Handshake and Login Start are the first packets of the connection, and   *)
(* are sent once, whatever the input thread does (main.cpp:168-201).            *)
LoginFirst ==
  \A i \in DOMAIN pushed :
    /\ pushed[i].kind = "Handshake" <=> i = 1
    /\ pushed[i].kind = "LoginStart" <=> i = 2

(* How many packets of the server the main loop is done with *)
Done == IF main \in {"case", "confirm"} THEN taken - 1 ELSE taken

(* What is sent in answer to a packet *)
Answers(p) ==
  CASE p.kind = "KeepAlive" -> <<p>>
    [] p.kind = "SynchronizePlayerPosition" -> <<Confirmation(p)>>
    [] OTHER -> <<>>

Responses == INSTANCE Responder WITH
               Questions <- ServerPackets,
               Commands  <- {p \in Records : p.kind \in InputKinds \cup LoginKinds},
               inbox     <- SubSeq(served, Done + 1, Len(served)),
               output    <- pushed

(* Every keep alive and every teleport is answered exactly once, with its own   *)
(* id and in the order of the server, however the input thread's packets come   *)
(* between: a server drops a client that misses or confuses one                 *)
(* (main.cpp:348-371).                                                          *)
ResponderSpec == Responses!Spec

(* What a packet p changes of how often the server spawned entity e, where it   *)
(* put it and where it turned it                                                *)
Heard(e, view, p) ==
  IF p.kind \notin EntityKinds \/ p.key # e THEN view
  ELSE [spawns |-> IF p.kind = "SpawnPlayer" THEN view.spawns + 1 ELSE view.spawns,
        x      |-> CASE p.kind \in {"SpawnPlayer", "TeleportEntity"} -> p.x
                     [] p.kind = "UpdateEntityRotation" -> view.x
                     [] OTHER -> view.x + p.x,
        yaw    |-> IF p.kind = "UpdateEntityPosition" THEN view.yaw ELSE p.yaw]

(* What the first n packets of s say of entity e *)
ServerView(e, s) ==
  LET view[n \in 0 .. Len(s)] ==
        IF n = 0 THEN [spawns |-> 0, x |-> 0, yaw |-> 0]
        ELSE Heard(e, view[n - 1], s[n])
  IN view

(* An entity that was spawned once is where the server put it and looks where    *)
(* the server turned it, whatever came for other entities and before its spawn  *)
(* (main.cpp:328-340, 383-452).  One that is spawned again is not: its first    *)
(* entry stays and gets the updates.                                            *)
EntitiesTracked ==
  \A e \in Entities :
    LET view == ServerView(e, served)[Done]
    IN view.spawns = 1 =>
         \E i \in DOMAIN otherPlayers :
           otherPlayers[i] = [key |-> e, x |-> view.x, yaw |-> view.yaw]

(* The connection is shut down only after the input thread is done with it, so  *)
(* nothing is pushed into a client that is disconnected (main.cpp:316, 474).    *)
QuietAfterEnd == main \in {"disconnect", "ended"} => input = "done"

(* The end of the input is noticed at the latest after the next packet, so the   *)
(* loop ends and main() returns unless it waits for a server that is silent      *)
(* (main.cpp:322, 474-480).  Whether the destructors that run then return is     *)
(* the matter of the endpoints.                                                  *)
EndNoticed ==
  input = "done" /\ (main # "pull" \/ taken < Len(served)) ~> main = "ended"

-------------------------------------------------------------------------------
(* The inductive invariant behind LoginFirst, QuietAfterEnd and ResponderSpec  *)
(* (Demo_proof)                                                                *)

(* Who runs: the input thread between SpawnInput and ActEnd, which is the only *)
(* one to clear running; main() leaves the loop only after that.              *)
Control ==
  /\ main \in {"connecting", "handshake", "loginStart", "spawnInput", "failed"} =>
       input = "none" /\ taken = 0
  /\ ~running => input = "done"
  /\ main \in {"disconnect", "ended"} => ~running

Commands ==
  /\ input = "write" => word = "move"
  /\ input \in {"build", "push"} =>
       /\ left \in 1 .. HideBlocks
       /\ word \in {"move", "place", "hide", "sneak", "chat"}
  /\ input = "push" => draft.kind \in InputKinds

(* The first packet of the server is the one that begins the play state. *)
Served ==
  /\ \A i \in DOMAIN served : served[i].kind = "LoginSuccess" <=> i = 1
  /\ main \in {"case", "confirm"} => taken > 0 /\ packet = served[taken]
  /\ main = "confirm" => packet.kind = "SynchronizePlayerPosition"
  /\ state = "Play" <=> taken > (IF main = "case" THEN 1 ELSE 0)

Pushed ==
  /\ main \in {"connecting", "handshake", "failed"} => Len(pushed) = 0
  /\ main = "loginStart" => Len(pushed) = 1
  /\ main \notin {"connecting", "handshake", "failed", "loginStart"} => Len(pushed) >= 2

DataOK ==
  /\ moved \in Int
  /\ draft \in Records
  /\ packet \in ServerPackets
  /\ otherPlayers \in Seq(Players)
  /\ served \in Seq(ServerPackets)
  /\ pushed \in Seq(Records)

IInv == TypeOK /\ DataOK /\ Control /\ Commands /\ Served /\ Pushed /\ LoginFirst

(* Behind EntitiesTracked: an entity has no entry before its spawn, and the     *)
(* first of its entries, the one the updates go to, follows the server until    *)
(* the entity is spawned again.                                                 *)
Tracked ==
  \A e \in Entities :
    LET view  == ServerView(e, served)[Done]
        first == EntityIt(e)
    IN /\ first = 0 <=> view.spawns = 0
       /\ view.spawns = 1 =>
            otherPlayers[first] = [key |-> e, x |-> view.x, yaw |-> view.yaw]
=============================================================================
