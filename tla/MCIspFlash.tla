----------------------------- MODULE MCIspFlash -----------------------------
(***************************************************************************)
(* Small instances of IspFlash.  The byte 17 (0x11) answers the command    *)
(* that comes before the data of a page.                                   *)
(***************************************************************************)
EXTENDS IspFlash

\* Every page has that sum: a host behind the board can take it for a checksum.
SameSums == [p \in PageIds |-> 17]

\* No page has it, garbled or not.
OtherSums == [p \in PageIds |-> 100 + 2 * p]

\* Answers are late, or pages are garbled; or both.
LateOrGarbled  == {[late |-> TRUE, garbles |-> 0], [late |-> FALSE, garbles |-> 4]}
LateAndGarbled == {[late |-> TRUE, garbles |-> 1]}
=============================================================================
