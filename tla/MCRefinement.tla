---------------------------- MODULE MCRefinement ----------------------------
(* The constants of MCController, with the refinement.                       *)
EXTENDS MCController, GameServerRefinement
=============================================================================
