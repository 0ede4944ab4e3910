--------------------------- MODULE MCVersionWatch ---------------------------
(* Small instance of VersionWatch. *)
EXTENDS VersionWatch

CONSTANTS s1

MCServers == {s1}
(* The oldest version is listed, the next, which has no server jar, and the *)
(* last, which is not published yet and which servers ask for, are newer.   *)
MCPinned == {1}
MCNoJar == {2}
MCOffered == {3}
=============================================================================
