------------------------------- MODULE MCForks -------------------------------
(***************************************************************************)
(* An instance of Forks: limits from one that refuses the first fork to one *)
(* that is never reached by main, three children and two threads of each.  *)
(***************************************************************************)
EXTENDS Forks

MCLimits == {1, 2, 3, 4, 6, 10}
=============================================================================
