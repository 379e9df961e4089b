-------------------------------- MODULE IpLab --------------------------------
(***************************************************************************)
(* lab-ip: main reads an address and the length of a mask at a time, splits *)
(* the address and answers whether it is local, whether it is a broadcast, *)
(* and in which of four networks it is.                                    *)
(*                                                                         *)
(* An address or a mask is its four octets.  scanf stores a number that    *)
(* was typed for %hhu modulo 256.                                          *)
(***************************************************************************)
EXTENDS Integers, Sequences

CONSTANTS
  Lines,    \* what is typed: four numbers and a fifth
  NoLine    \* a line that is no address, or the end of the input

ASSUME LinesAssumption == Lines \subseteq [1 .. 5 -> Nat] /\ NoLine \notin Lines

VARIABLES
  ip,        \* the ip_info that ip_init fills
  nmask,     \* the length of the mask, nmask of main
  answers,   \* what was printed of the last line
  status     \* what main returned; -1 before

ipVars == <<ip, nmask, answers, status>>

Octet     == 0 .. 255
Places    == 1 .. 4
Addresses == [Places -> Octet]

\* network_addrs, network_masks.
Networks == << [addr |-> <<192, 168, 10, 0>>,  mask |-> 24],
               [addr |-> <<192, 168, 160, 0>>, mask |-> 19],
               [addr |-> <<141, 127, 0, 0>>,   mask |-> 16],
               [addr |-> <<195, 0, 172, 0>>,   mask |-> 22] >>

-----------------------------------------------------------------------------

\* How many of the first n bits are in the octet k.
BitsIn(k, n) == IF n <= 8 * (k - 1) THEN 0 ELSE IF n >= 8 * k THEN 8 ELSE n - 8 * (k - 1)

\* How many addresses the octet k of a network has: 2^8 and less, by the bits in it.
Devices(k, n) == <<256, 128, 64, 32, 16, 8, 4, 2, 1>>[BitsIn(k, n) + 1]

make_mask(n) == [k \in Places |-> 256 - Devices(k, n)]

\* addr & mask, addr & ~mask.
DevOf(addr, n) == [k \in Places |-> addr[k] % Devices(k, n)]
NetOf(addr, n) == [k \in Places |-> addr[k] - DevOf(addr, n)[k]]

ip_init(addr, n) == [ip_addr  |-> addr,           net_mask |-> make_mask(n),
                     net_addr |-> NetOf(addr, n), dev_addr |-> DevOf(addr, n)]

\* The mask for 100 is 0x3FF00000.
ip_is_local(info) ==
  LET oct  == info.ip_addr
      mask == info.net_mask
  IN  \/ oct[1] \in {10, 127} /\ mask = <<255, 0, 0, 0>>
      \/ oct[1] = 100 /\ oct[2] \in 64 .. 127 /\ mask = <<63, 240, 0, 0>>
      \/ oct[1] = 172 /\ oct[2] \in 16 .. 31 /\ mask = <<255, 240, 0, 0>>
      \/ oct[1] = 192 /\ oct[2] = 168 /\ mask = <<255, 255, 0, 0>>

ip_is_broadcast(info) == info.dev_addr = [k \in Places |-> 255 - info.net_mask[k]]

\* Mutant: the mask of the network is left out.
Unmasked(info, k) == DevOf(Networks[k].addr, 32) = info.dev_addr

Matches(info, k) == info.net_addr = NetOf(Networks[k].addr, Networks[k].mask)

\* The first that matches, counted from 1.
ip_network_lookup(info) ==
  IF \E k \in DOMAIN Networks : Matches(info, k)
    THEN CHOOSE k \in DOMAIN Networks :
           Matches(info, k) /\ \A j \in 1 .. k - 1 : ~Matches(info, j)
    ELSE 0

-----------------------------------------------------------------------------
(* main.                                                                   *)

Stored(line) == [k \in 1 .. 5 |-> line[k] % 256]

Nothing == [net |-> <<0, 0, 0, 0>>, local |-> FALSE, broadcast |-> FALSE, network |-> 0]

Answers(info) == [net       |-> info.net_addr,
                  local     |-> ip_is_local(info),
                  broadcast |-> ip_is_broadcast(info),
                  network   |-> ip_network_lookup(info)]

IsMask(n) == n <= 32

Answer(line) ==
  /\ status = -1
  /\ LET typed == Stored(line)
     IN  /\ IsMask(typed[5])
         /\ nmask' = typed[5]
         /\ ip' = ip_init(SubSeq(typed, 1, 4), typed[5])
  /\ answers' = Answers(ip')
  /\ UNCHANGED status

\* No address, or a mask that is too long: main says so and returns.
Refuse(line) ==
  /\ status = -1
  /\ line # NoLine => ~IsMask(Stored(line)[5])
  /\ status' = 1
  /\ UNCHANGED <<ip, nmask, answers>>

IpInit ==
  /\ ip = ip_init(<<0, 0, 0, 0>>, 32) /\ nmask = 32
  /\ answers = Nothing /\ status = -1

IpNext == (\E line \in Lines : Answer(line)) \/ (\E line \in Lines \cup {NoLine} : Refuse(line))

IpSpec == IpInit /\ [][IpNext]_ipVars

-----------------------------------------------------------------------------
(* Properties.                                                             *)

Inside(addr, k) == NetOf(addr, Networks[k].mask) = Networks[k].addr

\* The four ranges of the table before ip_is_local, with their masks.
Shared == [first |-> <<100, 64>>, last |-> <<100, 127>>, mask |-> 10]
Table  == {[first |-> <<10, 0>>,    last |-> <<10, 255>>,  mask |-> 8], Shared,
           [first |-> <<172, 16>>,  last |-> <<172, 31>>,  mask |-> 12],
           [first |-> <<192, 168>>, last |-> <<192, 168>>, mask |-> 16]}

InRange(addr, range) == \A k \in 1 .. 2 : addr[k] \in range.first[k] .. range.last[k]

\* Every variable has its type; the two parts of an address make it up.
IpTypeOK ==
  /\ {ip.ip_addr, ip.net_mask, ip.net_addr, ip.dev_addr} \subseteq Addresses
  /\ \A k \in Places : ip.ip_addr[k] = ip.net_addr[k] + ip.dev_addr[k]
  /\ nmask \in 0 .. 32 /\ status \in {-1, 1}
  /\ answers.network \in 0 .. Len(Networks)

\* The network of an answer has the address in it if the mask that was typed is at
\* least as long as the network's, and with the network's own mask every address
\* of it is found (ipfuncs.c:71-76, ipdata.c:9-16).
LookupRight ==
  answers # Nothing =>
    LET found == answers.network
    IN  /\ found > 0 /\ nmask >= Networks[found].mask => Inside(ip.ip_addr, found)
        /\ \A k \in DOMAIN Networks :
             nmask = Networks[k].mask /\ Inside(ip.ip_addr, k) => found = k

\* An address is local if and only if it is in a range of the table but 100.64/10, or
\* in 127/8, with the mask of the range.  No length of a mask makes 0x3FF00000, which is
\* asked for in 100.64/10: "100.64.0.0 - 100.127.255.255" (ipfuncs.c:29) is never answered
\* local (ipfuncs.c:26-58).
LocalInTable ==
  answers.local <=>
    \/ \E range \in Table \ {Shared} : InRange(ip.ip_addr, range) /\ nmask = range.mask
    \/ ip.ip_addr[1] = 127 /\ nmask = 8

\* A broadcast is the last address of its network: the next one is in another. With
\* a mask of 32 bits every address is one (ipfuncs.c:64-67).
BroadcastIsLast ==
  answers.broadcast /\ ip.ip_addr # <<255, 255, 255, 255>> =>
    LET k    == CHOOSE j \in Places : ip.ip_addr[j] < 255
                                      /\ \A i \in j + 1 .. 4 : ip.ip_addr[i] = 255
        next == [j \in Places |-> IF j < k THEN ip.ip_addr[j]
                                  ELSE IF j = k THEN ip.ip_addr[j] + 1 ELSE 0]
    IN  NetOf(next, nmask) # answers.net

\* The three answers mean what they say.
AnswersRight == LookupRight /\ LocalInTable /\ BroadcastIsLast
=============================================================================
