------------------------------ MODULE MCIpLab ------------------------------
(* IpLab with the ends of every range and network, and every mask around   *)
(* the ones that count.                                                    *)
EXTENDS IpLab

Ranges == {<<9, 255>>, <<10, 0>>, <<10, 255>>, <<100, 63>>, <<100, 64>>, <<100, 127>>,
           <<127, 0>>, <<172, 15>>, <<172, 16>>, <<172, 31>>, <<172, 32>>, <<255, 255>>}

InNetworks == {<<192, 168, 10, 0>>, <<192, 168, 10, 20>>, <<192, 168, 10, 255>>,
               <<192, 168, 11, 5>>, <<192, 168, 160, 0>>, <<192, 168, 184, 5>>,
               <<192, 168, 191, 255>>, <<192, 168, 192, 0>>, <<192, 169, 10, 0>>,
               <<141, 127, 0, 0>>, <<141, 127, 5, 5>>, <<141, 128, 0, 0>>,
               <<195, 0, 172, 0>>, <<195, 0, 175, 255>>, <<195, 0, 176, 0>>}

Masks == {0, 8, 10, 12, 15, 16, 19, 20, 22, 24, 32, 33}

\* Two lines with a number that is too large for an octet, and one for a mask.
MCLines ==
  {addr \o <<n>> : addr \in InNetworks \cup {front \o <<255, 255>> : front \in Ranges},
                   n \in Masks}
    \cup {<<448, 424, 10, 7, 24>>, <<192, 168, 10, 7, 280>>, <<1, 2, 3, 4, 255>>}
============================================================================
