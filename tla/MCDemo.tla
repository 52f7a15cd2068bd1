--------------------------------- MODULE MCDemo --------------------------------
(* Small instance of Demo for TLC.  Two other players and two keys, so that    *)
(* updates and answers can be confused; an offset and an absolute coordinate  *)
(* lead to different places, and a rotation changes the yaw of the spawn.     *)
EXTENDS Demo

CONSTANTS e1, e2, k1, k2

MCEntities == {e1, e2}
MCKeys     == {k1, k2}

MCOffers ==
  {Packet("Login", Own, 0, 0), Packet("SetHealth", NoEntity, 20, 0), Plain("Other"),
   Packet("KeepAlive", k1, 0, 0), Packet("KeepAlive", k2, 0, 0),
   Packet("SynchronizePlayerPosition", k1, 5, 0),
   Packet("SpawnPlayer", e1, 5, 1), Packet("SpawnPlayer", e2, 5, 1),
   Packet("UpdateEntityPosition", e1, 5, 0), Packet("UpdateEntityPosition", e2, 5, 0),
   Packet("UpdateEntityPositionAndRotation", e1, 5, 2),
   Packet("UpdateEntityRotation", e1, 0, 2),
   Packet("TeleportEntity", e1, 7, 2)}
===============================================================================
