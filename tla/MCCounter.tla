------------------------------ MODULE MCCounter -----------------------------
(* Values for the constants of Counter. *)
EXTENDS Counter

(* Increments that wrap around within a block and over blocks, a transaction *)
(* that is refused, and the empty block.                                     *)
MCBlocks == {<<>>, <<1>>, <<3, Short, 2>>, <<Short>>}

=============================================================================
