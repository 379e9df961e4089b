---------------------------- MODULE MCKernelStart ----------------------------
(* KernelStart with sections of no, one and two words and more.            *)
EXTENDS KernelStart

MCText       == <<104, 105, 10>>
MCDataValues == {<<>>, <<5>>, <<5, 6>>, <<0, 6, 0>>}
MCBssSizes   == 0 .. 2
=============================================================================
