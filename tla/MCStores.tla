------------------------------ MODULE MCStores ------------------------------
(* Two of everything, three rooms: a room can be replaced twice, a channel  *)
(* can leave a room, a name can be taken again by another kind.             *)
EXTENDS Stores
AllFamilies == DOMAIN EmptyMem \cup {"shape", "ghosts", "emoji"}
=============================================================================
