------------------------------ MODULE MCSizing ------------------------------
(* A game with ceilings, reached by memory at 3 players, and the same game  *)
(* in a later release, larger and without ceilings.                         *)
EXTENDS Sizing

Block(bm, pm, bc, pc, top, cm, cc) ==
  [baseMem |-> bm, perMem |-> pm, baseCpu |-> bc, perCpu |-> pc,
   maxPlayers |-> top, ceilMem |-> cm, ceilCpu |-> cc]

MCSizings == {Block(4, 2, 3, 1, 4, 9, 6), Block(5, 3, 3, 2, 3, None, None)}
MCInputs  == {-1, 0, 1, 3, 7}
=============================================================================
