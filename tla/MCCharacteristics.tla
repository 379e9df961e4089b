-------------------------- MODULE MCCharacteristics --------------------------
(* Characteristics with tables of up to two, one with a name twice.        *)
EXTENDS Characteristics

MCTables == {<<>>, <<"foo">>, <<"foo", "bar">>, <<"foo", "foo">>}
=============================================================================
