--------------------------- MODULE MCSocketSlots ----------------------------
(* SocketSlots with a few slots and callbacks. *)
EXTENDS SocketSlots

MCSlotCount == 2
MCMaxDepth == 2
MCMaxGen == 3
MCMaxReg == 2
=============================================================================
