---------------------------- MODULE MCController ----------------------------
(* Constants for model checking GameServerController.  "minecraft" has      *)
(* RCON and cached images, "valheim" neither; "doom" is in no catalog.      *)
EXTENDS GameServerController

MCCatalog == {"minecraft", "valheim"}
MCUnknown == {"doom"}
MCRcon    == {"minecraft"}
MCCached  == {"minecraft"}
MCPorts   == [g \in MCCatalog |->
  IF g = "minecraft" THEN {[name |-> "game", number |-> 25565]}
  ELSE {[name |-> "game", number |-> 2456], [name |-> "query", number |-> 2457]}]
MCRconPort == [g \in MCRcon |-> [name |-> "rcon", number |-> 25575]]

Sp(g, c, v, r) == [game |-> g, customer |-> c, version |-> v, rcon |-> r]

(* A Minecraft server, the same with RCON off and no version, an unknown    *)
(* game, and another customer's server.                                     *)
MCSpecs == {Sp("minecraft", "acme", "1.21.1", TRUE),
            Sp("minecraft", "acme", None, FALSE),
            Sp("doom", "acme", None, FALSE),
            Sp("minecraft", "globex", "1.21.1", TRUE)}

(* Two known games, for the reuse of a name; for the convergence run also   *)
(* the first with RCON off and no version, and an unknown one.              *)
MCLiveSpecs  == {Sp("minecraft", "acme", "1.21.1", TRUE),
                 Sp("valheim", "acme", None, TRUE)}
MCErrorSpecs == MCLiveSpecs \cup {Sp("minecraft", "acme", None, FALSE),
                                  Sp("doom", "acme", None, FALSE)}
=============================================================================
