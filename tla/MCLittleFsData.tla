--------------------------- MODULE MCLittleFsData ---------------------------
(***************************************************************************)
(* Small instances of LittleFsData: two files, of one byte, and of five    *)
(* bytes with two blocks; blocks 0 to 7 are not data blocks.               *)
(***************************************************************************)
EXTENDS LittleFsData

\* The image builder gives a file of size bytes size \div BSIZE blocks, and one
\* if that is none, so the end of a file can have no block.
FileOf(size, blocks) ==
  [size |-> size,
   addr |-> [i \in Direct |-> IF i < Len(blocks) THEN blocks[i + 1] ELSE 0]]

MCImages == {[dinode |-> [f \in {0, 1} |-> IF f = 0 THEN FileOf(1, <<8>>)
                                                     ELSE FileOf(5, <<9, 10>>)],
              block  |-> [b \in {8, 9, 10} |-> [o \in 0 .. BSIZE - 1 |-> 0]]]}

\* What clients write: inside a block; across the end of one, and more than the
\* largest file.
InBlockBuffers == {<<1>>, <<0, 1>>}
MCBuffers      == {<<1, 0, 1>>, <<0, 1, 0, 1, 0, 1, 0>>}
=============================================================================
