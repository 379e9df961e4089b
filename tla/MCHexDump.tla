------------------------------ MODULE MCHexDump ------------------------------
(* HexDump with lines of four bytes and a memory of four words.            *)
EXTENDS HexDump

\* Bytes that are not 0, and not the same from one to the next.
Bytes(n, first) == [k \in 1 .. n |-> first + k]

Section(at_, n, first) == [at |-> at_, bytes |-> Bytes(n, first)]

\* A text; a text and data behind it, at a distance or over it; and RAM before it.
MCDumps ==
  {<<>>, <<Section(8, 4, 0)>>}
    \cup {<<Section(0, n, 0)>> : n \in 0 .. 13}
    \cup {<<Section(0, n, 0), Section(a, m, 100)>> : n \in {2, 4, 5, 8, 10}, a \in 0 .. 14, m \in {1, 4, 6}}
    \cup {<<Section(20, 3, 50), Section(0, n, 0)>> : n \in {3, 7}}

MCBases == {0, 4, 14, 20}
==============================================================================
