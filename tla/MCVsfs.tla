------------------------------- MODULE MCVsfs -------------------------------
(***************************************************************************)
(* Vsfs at the programs' own scale: command lines of the builder and up to *)
(* three texts of sizes at the ends of a block and of the largest file, or *)
(* missing, and of the builder and many texts of one size.                 *)
(***************************************************************************)
EXTENDS Vsfs

TextFile(size) == [size |-> size, text |-> TRUE]
Own        == [size |-> 17000, text |-> FALSE]

MCSizes == {NoFile, 0, 1, BSIZE, BSIZE + 1, 2 * BSIZE, 6 * BSIZE, 8 * BSIZE, MAXFSIZE}

Many(n, size) == <<Own>> \o [k \in 1 .. n |-> TextFile(size)]

MCCommandLines ==
  UNION {{<<Own>> \o texts : texts \in [1 .. n -> {TextFile(size) : size \in MCSizes}]} : n \in 0 .. 3}
    \cup {Many(100, 0), Many(40, 1), Many(18, 2 * BSIZE), Many(7, 3 * BSIZE)}
=============================================================================
