------------------------------ MODULE MCConsole ------------------------------
(* Console with an int of 8 bits and a pointer of 16: the longest of both   *)
(* have four characters.                                                   *)
EXTENDS Console

MCIntArgs == {-128, -127, -16, -1, 0, 9, 10, 15, 16, 127}
MCPtrArgs == {0, 15, 16, 4095, 4096, 65535}

\* Formats with none, one, two and three arguments.
MCCalls ==
  {[fmt |-> f, args |-> <<>>] :
     f \in {<<>>, <<"b", "o">>, <<"%">>, <<"%", "%">>, <<"%", "%", "%">>, <<"a", "%">>,
           <<"%", "q", "b">>, <<"%", "%", "d">>}}
  \cup {[fmt |-> f, args |-> <<n>>] : f \in {<<"%", "d">>, <<"%", "d", "%">>}, n \in MCIntArgs}
  \cup {[fmt |-> <<"%", "p", "a">>, args |-> <<a>>] : a \in MCPtrArgs}
  \cup {[fmt |-> <<"%", "x", "%", "d">>, args |-> <<n, m>>] : n \in MCIntArgs, m \in MCIntArgs}
  \cup {[fmt |-> <<"%", "s", "%", "d">>, args |-> <<Other, n>>] : n \in MCIntArgs}
  \cup {[fmt |-> <<"%", "d", "%", "f", "%", "p">>, args |-> <<n, Other, a>>] :
          n \in MCIntArgs, a \in MCPtrArgs}
  \cup {[fmt |-> <<"%", "d", "%", "x", "%", "p">>, args |-> <<n, m, a>>] :
          n \in MCIntArgs, m \in MCIntArgs, a \in MCPtrArgs}

MCBehind == {<<NUL>>, <<"b", NUL>>, <<"%", "d", NUL>>}
=============================================================================
