--------------------------- MODULE HexDumpProofs ----------------------------
(***************************************************************************)
(* What is proved of the two readers of a dump.                            *)
(***************************************************************************)
EXTENDS HexDump, Recursion

-----------------------------------------------------------------------------
(* HexDump: the lines of a dump.                                           *)

DumpLine == ({"@"} \X Nat) \cup ({"bytes"} \X Seq(Nat))

Shorter(m, n) == IF m < n THEN m ELSE n

CutAt(bytes)      == Shorter(Len(bytes), LINE)
FirstLine(bytes)  == <<"bytes", SubSeq(bytes, 1, CutAt(bytes))>>
OtherBytes(bytes) == SubSeq(bytes, CutAt(bytes) + 1, Len(bytes))

LinesWith(f, bytes) ==
  IF bytes = <<>> THEN <<>> ELSE <<FirstLine(bytes)>> \o f[OtherBytes(bytes)]

\* t is what s has from m to n.
IsSlice(t, S, s, m, n) ==
  /\ t \in Seq(S) /\ Len(t) = n - m + 1
  /\ \A it \in 1 .. n - m + 1 : t[it] = s[m + it - 1]

LEMMA SubSeqIsSlice ==
  ASSUME NEW S, NEW s \in Seq(S), NEW m \in 1 .. Len(s) + 1, NEW n \in m - 1 .. Len(s)
  PROVE  IsSlice(SubSeq(s, m, n), S, s, m, n)
<1>1. m \in Int /\ n \in Int /\ (m <= n \/ n - m + 1 = 0) /\ \A it \in m .. n : s[it] \in S
  BY Len(s) \in Nat
<1>2. PICK t : t = SubSeq(s, m, n)
  OBVIOUS
<1>3. /\ t \in Seq(S) /\ Len(t) = IF m <= n THEN n - m + 1 ELSE 0
      /\ \A it \in 1 .. n - m + 1 : t[it] = s[m + it - 1]
  BY <1>1, <1>2, SubSeqProperties
<1> QED
  BY <1>1, <1>2, <1>3 DEF IsSlice

LEMMA LineIsCut ==
  ASSUME NEW bytes \in Seq(Nat), bytes # <<>>
  PROVE  /\ CutAt(bytes) \in 1 .. Len(bytes) /\ FirstLine(bytes) \in DumpLine
         /\ OtherBytes(bytes) \in Seq(Nat) /\ Len(OtherBytes(bytes)) = Len(bytes) - CutAt(bytes)
         /\ \A n \in 1 .. Len(OtherBytes(bytes)) : OtherBytes(bytes)[n] = bytes[CutAt(bytes) + n]
<1>0. PICK len \in Nat : len = Len(bytes)
  OBVIOUS
<1>1. CutAt(bytes) \in 1 .. len
  BY <1>0, SizesAssumption DEF CutAt, Shorter
<1>2. PICK c \in 1 .. len : c = CutAt(bytes)
  BY <1>1
<1>3. SubSeq(bytes, 1, c) \in Seq(Nat)
  <2>1. 1 \in 1 .. len + 1 /\ c \in 1 - 1 .. len
    OBVIOUS
  <2>2. IsSlice(SubSeq(bytes, 1, c), Nat, bytes, 1, c)
    BY <1>0, <2>1, SubSeqIsSlice, Zenon
  <2> QED
    BY <2>2, Zenon DEF IsSlice
<1>4. PICK rest : rest = OtherBytes(bytes)
  OBVIOUS
<1>5. IsSlice(rest, Nat, bytes, c + 1, len)
  <2>1. c + 1 \in 1 .. len + 1 /\ len \in (c + 1) - 1 .. len
    OBVIOUS
  <2>2. IsSlice(SubSeq(bytes, c + 1, len), Nat, bytes, c + 1, len)
    BY <1>0, <2>1, SubSeqIsSlice, Zenon
  <2> QED
    BY <1>0, <1>2, <1>4, <2>2, Zenon DEF OtherBytes
<1>6. rest \in Seq(Nat) /\ Len(rest) = len - c /\ \A n \in 1 .. len - c : rest[n] = bytes[c + n]
  <2>1. len - (c + 1) + 1 = len - c /\ \A n \in 1 .. len - c : (c + 1) + n - 1 = c + n
    OBVIOUS
  <2> QED
    BY <1>5, <2>1 DEF IsSlice
<1>7. FirstLine(bytes) \in DumpLine
  BY <1>2, <1>3 DEF FirstLine, DumpLine
<1> QED
  BY <1>0, <1>2, <1>4, <1>6, <1>7

\* LinesOf is the function that it is defined as.
LEMMA LinesOfIs == LinesOf = [bytes \in Seq(Nat) |-> LinesWith(LinesOf, bytes)]
<1> DEFINE D == Seq(Nat)
           T == Seq(DumpLine)
           G == [f \in [D -> T] |-> [bytes \in D |-> LinesWith(f, bytes)]]
           rank == [bytes \in D |-> Len(bytes)]
<1>1. ASSUME NEW f \in [D -> T], NEW bytes \in D
      PROVE  LinesWith(f, bytes) \in T
  <2>1. CASE bytes = <<>>
    BY <2>1 DEF LinesWith
  <2>2. CASE bytes # <<>>
    <3>1. FirstLine(bytes) \in DumpLine /\ f[OtherBytes(bytes)] \in T
      BY <2>2, LineIsCut
    <3> QED
      BY <2>2, <3>1 DEF LinesWith
  <2> QED
    BY <2>1, <2>2
<1>2. ASSUME NEW f \in [D -> T], NEW g \in [D -> T], NEW bytes \in D,
             \A y \in D : rank[y] < rank[bytes] => f[y] = g[y]
      PROVE  LinesWith(f, bytes) = LinesWith(g, bytes)
  <2>1. CASE bytes # <<>>
    <3>1. OtherBytes(bytes) \in D /\ rank[OtherBytes(bytes)] < rank[bytes]
      <4>1. /\ CutAt(bytes) \in 1 .. Len(bytes) /\ OtherBytes(bytes) \in D
            /\ Len(OtherBytes(bytes)) = Len(bytes) - CutAt(bytes)
        BY <2>1, LineIsCut
      <4> QED
        BY <4>1
    <3> QED
      BY <1>2, <3>1, Zenon DEF LinesWith
  <2> QED
    BY <2>1 DEF LinesWith
<1>3. <<>> \in T /\ rank \in [D -> Nat]
  OBVIOUS
<1> HIDE DEF D, T, rank
<1>4. G \in [[D -> T] -> [D -> T]]
  BY <1>1
<1>5. \A f \in [D -> T] : G[f] = [bytes \in D |-> LinesWith(f, bytes)]
  OBVIOUS
<1> HIDE DEF G
<1>6. Settles(G, D, T, rank)
  <2> SUFFICES ASSUME NEW f \in [D -> T], NEW g \in [D -> T], NEW bytes \in D,
                      \A y \in D : rank[y] < rank[bytes] => f[y] = g[y]
               PROVE  G[f][bytes] = G[g][bytes]
    BY Zenon DEF Settles
  <2>1. /\ G[f] = [y \in D |-> LinesWith(f, y)]
        /\ G[g] = [y \in D |-> LinesWith(g, y)]
    BY <1>5, Zenon
  <2> QED
    BY <1>2, <2>1
<1>7. PICK f \in [D -> T] : f = G[f]
  <2>1. T # {}
    BY <1>3
  <2>2. Recursion(G, D, T, rank)
    BY <1>3, <1>4, <1>6, <2>1, Zenon DEF Recursion
  <2>3. HasFixedPoint(G, D, T)
    BY <2>2, RecursionExists, Zenon
  <2> QED
    BY <2>3, Zenon DEF HasFixedPoint
<1>8. f = [bytes \in Seq(Nat) |-> LinesWith(f, bytes)]
  BY <1>5, <1>7, Zenon DEF D
<1> QED
  BY <1>8, Zenon DEF LinesOf, LinesWith, FirstLine, OtherBytes, CutAt, Shorter

\* Where the lines of a section's bytes end.
AreLinesOf(bytes, lines, ends) ==
  /\ lines \in Seq(DumpLine)
  /\ ends \in [0 .. Len(lines) -> Nat] /\ ends[0] = 0 /\ ends[Len(lines)] = Len(bytes)
  /\ \A n \in 1 .. Len(lines) :
       /\ ends[n - 1] < ends[n] /\ ends[n] = Shorter(ends[n - 1] + LINE, Len(bytes))
       /\ lines[n] = <<"bytes", SubSeq(bytes, ends[n - 1] + 1, ends[n])>>

HasLines(bytes) == \E ends : AreLinesOf(bytes, LinesOf[bytes], ends)

GoesOn(rest, bytes, c) ==
  \A m, n \in Nat :
    m < n /\ n <= Len(bytes) - c => SubSeq(rest, m + 1, n) = SubSeq(bytes, (m + c) + 1, n + c)

LEMMA SubSeqOfRest ==
  ASSUME NEW bytes \in Seq(Nat), NEW c \in 0 .. Len(bytes),
         NEW rest, IsSlice(rest, Nat, bytes, c + 1, Len(bytes))
  PROVE  GoesOn(rest, bytes, c)
<1> SUFFICES ASSUME NEW m \in Nat, NEW n \in Nat, m < n, n <= Len(bytes) - c
             PROVE  SubSeq(rest, m + 1, n) = SubSeq(bytes, (m + c) + 1, n + c)
  BY Zenon DEF GoesOn
<1>0. PICK len \in Nat : len = Len(bytes)
  OBVIOUS
<1>1. rest \in Seq(Nat) /\ Len(rest) = len - c
      /\ \A it \in 1 .. len - c : rest[it] = bytes[c + it]
  <2>1. len - (c + 1) + 1 = len - c /\ \A it \in 1 .. len - c : (c + 1) + it - 1 = c + it
    BY <1>0
  <2> QED
    BY <1>0, <2>1 DEF IsSlice
<1>2. PICK one : one = SubSeq(rest, m + 1, n)
  OBVIOUS
<1>3. PICK two : two = SubSeq(bytes, (m + c) + 1, n + c)
  OBVIOUS
<1>4. IsSlice(one, Nat, rest, m + 1, n)
  <2>1. m + 1 \in 1 .. Len(rest) + 1 /\ n \in (m + 1) - 1 .. Len(rest)
    BY <1>0, <1>1
  <2> QED
    BY <1>1, <1>2, <2>1, SubSeqIsSlice, Zenon
<1>5. IsSlice(two, Nat, bytes, (m + c) + 1, n + c)
  <2>1. (m + c) + 1 \in 1 .. Len(bytes) + 1 /\ n + c \in ((m + c) + 1) - 1 .. Len(bytes)
    BY <1>0
  <2> QED
    BY <1>3, <2>1, SubSeqIsSlice, Zenon
<1>6. one \in Seq(Nat) /\ Len(one) = n - m /\ \A it \in 1 .. n - m : one[it] = bytes[(m + c) + it]
  <2>1. /\ n - (m + 1) + 1 = n - m
        /\ \A it \in 1 .. n - m : (m + 1) + it - 1 = m + it /\ m + it \in 1 .. len - c
                                  /\ c + (m + it) = (m + c) + it
    BY <1>0
  <2>2. one \in Seq(Nat) /\ Len(one) = n - m /\ \A it \in 1 .. n - m : one[it] = rest[m + it]
    BY <1>4, <2>1, Zenon DEF IsSlice
  <2> QED
    BY <1>1, <2>1, <2>2, Zenon
<1>7. two \in Seq(Nat) /\ Len(two) = n - m /\ \A it \in 1 .. n - m : two[it] = bytes[(m + c) + it]
  <2>1. /\ (n + c) - ((m + c) + 1) + 1 = n - m
        /\ \A it \in 1 .. n - m : ((m + c) + 1) + it - 1 = (m + c) + it
    BY <1>0
  <2> QED
    BY <1>5, <2>1, Zenon DEF IsSlice
<1>8. one = two
  BY <1>6, <1>7, SeqEqual
<1> QED
  BY <1>2, <1>3, <1>8

\* The lines of some bytes, from those of all but the first line.
\* Where the lines end, behind one more that ends at c.
EndsBehind(ends, n, c) == [k \in 0 .. n + 1 |-> IF k = 0 THEN 0 ELSE ends[k - 1] + c]

LEMMA EndsBehindAre ==
  ASSUME NEW n \in Nat, NEW ends \in [0 .. n -> Nat], NEW c \in Nat
  PROVE  /\ EndsBehind(ends, n, c) \in [0 .. n + 1 -> Nat] /\ EndsBehind(ends, n, c)[0] = 0
         /\ \A k \in 1 .. n + 1 : EndsBehind(ends, n, c)[k] = ends[k - 1] + c
<1>1. PICK to : to = EndsBehind(ends, n, c)
  OBVIOUS
<1>2. to = [k \in 0 .. n + 1 |-> IF k = 0 THEN 0 ELSE ends[k - 1] + c]
  BY <1>1, Zenon DEF EndsBehind
<1>3. 0 \in 0 .. n + 1 /\ \A k \in 1 .. n + 1 : k # 0 /\ k \in 0 .. n + 1 /\ k - 1 \in 0 .. n
  OBVIOUS
<1>4. to[0] = 0 /\ \A k \in 1 .. n + 1 : to[k] = ends[k - 1] + c
  BY <1>2, <1>3, Zenon
<1>5. \A k \in 0 .. n + 1 : to[k] \in Nat
  <2>1. \A k \in 1 .. n + 1 : ends[k - 1] + c \in Nat
    <3> SUFFICES ASSUME NEW k \in 1 .. n + 1
                 PROVE  ends[k - 1] + c \in Nat
      OBVIOUS
    <3>1. ends[k - 1] \in Nat
      BY <1>3, Zenon
    <3> QED
      BY <3>1
  <2>2. \A k \in 0 .. n + 1 : k = 0 \/ k \in 1 .. n + 1
    OBVIOUS
  <2>3. 0 \in Nat
    OBVIOUS
  <2> QED
    BY <1>4, <2>1, <2>2, <2>3, Zenon
<1>6. to \in [0 .. n + 1 -> Nat]
  BY <1>2, <1>5, Zenon
<1> QED
  BY <1>1, <1>4, <1>6, Zenon

LEMMA OneMoreLine ==
  ASSUME NEW bytes \in Seq(Nat), bytes # <<>>, HasLines(OtherBytes(bytes))
  PROVE  HasLines(bytes)
<1>1. PICK c \in 1 .. Len(bytes) : c = CutAt(bytes)
  BY LineIsCut
<1>2. PICK len \in Nat : len = Len(bytes)
  OBVIOUS
<1>3. PICK rest : rest = OtherBytes(bytes)
  OBVIOUS
<1>4. IsSlice(rest, Nat, bytes, c + 1, len) /\ Len(rest) = len - c
  <2>1. c + 1 \in 1 .. Len(bytes) + 1 /\ Len(bytes) \in (c + 1) - 1 .. Len(bytes)
    BY <1>2
  <2>2. IsSlice(SubSeq(bytes, c + 1, Len(bytes)), Nat, bytes, c + 1, Len(bytes))
    BY <2>1, SubSeqIsSlice, Zenon
  <2> QED
    BY <1>1, <1>2, <1>3, <2>2, LineIsCut DEF OtherBytes
<1>5. PICK lines, ends : lines = LinesOf[rest] /\ AreLinesOf(rest, lines, ends)
  BY <1>3 DEF HasLines
<1>6. PICK n \in Nat : n = Len(lines)
  BY <1>5 DEF AreLinesOf
<1>7. /\ lines \in Seq(DumpLine)
      /\ ends \in [0 .. n -> Nat] /\ ends[0] = 0 /\ ends[n] = len - c
      /\ \A k \in 1 .. n : /\ ends[k - 1] < ends[k] /\ ends[k] = Shorter(ends[k - 1] + LINE, len - c)
                           /\ lines[k] = <<"bytes", SubSeq(rest, ends[k - 1] + 1, ends[k])>>
  BY <1>4, <1>5, <1>6, Zenon DEF AreLinesOf
<1>8. PICK all : all = LinesOf[bytes]
  OBVIOUS
<1>9. all = <<FirstLine(bytes)>> \o lines
  <2>1. all = LinesWith(LinesOf, bytes)
    BY <1>8, LinesOfIs
  <2> QED
    BY <1>3, <1>5, <2>1 DEF LinesWith
<1>10. /\ all \in Seq(DumpLine) /\ Len(all) = n + 1 /\ all[1] = FirstLine(bytes)
       /\ \A k \in 2 .. n + 1 : all[k] = lines[k - 1]
  <2>1. FirstLine(bytes) \in DumpLine
    BY LineIsCut
  <2> QED
    BY <1>6, <1>7, <1>9, <2>1
<1>11. PICK to : to = EndsBehind(ends, n, c)
  OBVIOUS
<1>12. /\ to \in [0 .. n + 1 -> Nat] /\ to[0] = 0 /\ to[n + 1] = len /\ to[1] = c
       /\ \A k \in 2 .. n + 1 : to[k] = ends[k - 1] + c
  <2>1. c \in Nat
    OBVIOUS
  <2>2. /\ to \in [0 .. n + 1 -> Nat] /\ to[0] = 0
        /\ \A k \in 1 .. n + 1 : to[k] = ends[k - 1] + c
    BY <1>7, <1>11, <2>1, EndsBehindAre, Zenon
  <2>3. 1 \in 1 .. n + 1 /\ n + 1 \in 1 .. n + 1 /\ 1 - 1 = 0 /\ (n + 1) - 1 = n
        /\ 0 + c = c /\ (len - c) + c = len
    BY <1>1, <1>2
  <2>4. to[1] = c /\ to[n + 1] = len
    BY <1>7, <2>2, <2>3, Zenon
  <2>5. \A k \in 2 .. n + 1 : k \in 1 .. n + 1
    OBVIOUS
  <2> QED
    BY <2>2, <2>4, <2>5, Zenon
<1>13. ASSUME NEW k \in 1 .. n + 1
       PROVE  /\ to[k - 1] < to[k] /\ to[k] = Shorter(to[k - 1] + LINE, len)
              /\ all[k] = <<"bytes", SubSeq(bytes, to[k - 1] + 1, to[k])>>
  <2>1. CASE k = 1
    <3>1. to[k - 1] = 0 /\ to[k] = c
      BY <1>12, <2>1
    <3>2. c = Shorter(0 + LINE, len)
      BY <1>1, <1>2, SizesAssumption DEF CutAt, Shorter
    <3>3. all[k] = <<"bytes", SubSeq(bytes, 0 + 1, c)>>
      BY <1>1, <1>10, <2>1 DEF FirstLine
    <3> QED
      BY <3>1, <3>2, <3>3, <1>1
  <2>2. CASE k > 1
    <3>1. PICK j \in 1 .. n : j = k - 1
      BY <2>2
    <3>2. to[k] = ends[j] + c /\ to[k - 1] = ends[j - 1] + c
      <4>1. to[k] = ends[j] + c
        BY <1>12, <2>2, <3>1
      <4>2. CASE j = 1
        <5>1. k - 1 = 1 /\ j - 1 = 0 /\ 0 + c = c
          BY <3>1, <4>2
        <5> QED
          BY <1>7, <1>12, <4>1, <5>1, Zenon
      <4>3. CASE j # 1
        <5>1. j \in 2 .. n + 1 /\ k - 1 = j
          BY <3>1, <4>3
        <5> QED
          BY <1>12, <4>1, <5>1, Zenon
      <4> QED
        BY <4>2, <4>3, Zenon
    <3>3. PICK old \in Nat : old = ends[j - 1]
      BY <1>7
    <3>3a. PICK new \in Nat : new = ends[j]
      BY <1>7
    <3>4. old < new /\ new = Shorter(old + LINE, len - c)
          /\ lines[j] = <<"bytes", SubSeq(rest, old + 1, new)>>
      BY <1>7, <3>3, <3>3a, Zenon
    <3>5. new <= len - c /\ new + c = Shorter((old + c) + LINE, len) /\ old + c < new + c
      <4>1. LINE \in Nat /\ c \in Nat /\ len - c \in Nat
        BY <1>1, <1>2, SizesAssumption
      <4>2. CASE old + LINE < len - c
        <5>1. new = old + LINE
          BY <3>4, <4>2, Zenon DEF Shorter
        <5> QED
          BY <3>4, <4>1, <4>2, <5>1 DEF Shorter
      <4>3. CASE ~(old + LINE < len - c)
        <5>1. new = len - c
          BY <3>4, <4>3, Zenon DEF Shorter
        <5> QED
          BY <3>4, <4>1, <4>3, <5>1 DEF Shorter
      <4> QED
        BY <4>2, <4>3
    <3>6. SubSeq(rest, old + 1, new) = SubSeq(bytes, (old + c) + 1, new + c)
      <4>1. c \in 0 .. Len(bytes) /\ new <= Len(bytes) - c /\ IsSlice(rest, Nat, bytes, c + 1, Len(bytes))
        BY <1>2, <1>4, <3>5
      <4>2. GoesOn(rest, bytes, c)
        BY <4>1, SubSeqOfRest
      <4> QED
        BY <3>4, <4>1, <4>2, Zenon DEF GoesOn
    <3>7. all[k] = lines[j]
      <4>1. k \in 2 .. n + 1
        BY <2>2
      <4> QED
        BY <1>10, <3>1, <4>1, Zenon
    <3> QED
      BY <3>2, <3>3, <3>3a, <3>4, <3>5, <3>6, <3>7, Zenon
  <2>3. k = 1 \/ k > 1
    OBVIOUS
  <2> QED
    BY <2>1, <2>2, <2>3, Zenon
<1>14. AreLinesOf(bytes, all, to)
  BY <1>2, <1>10, <1>12, <1>13, Zenon DEF AreLinesOf
<1> QED
  BY <1>8, <1>14, Zenon DEF HasLines

LEMMA BytesHaveLines == \A bytes \in Seq(Nat) : HasLines(bytes)
<1> DEFINE S == {n \in Nat : \A bytes \in Seq(Nat) : Len(bytes) <= n => HasLines(bytes)}
<1>1. ASSUME NEW bytes \in Seq(Nat), bytes = <<>>
      PROVE  HasLines(bytes)
  <2>1. LinesOf[bytes] = <<>>
    BY <1>1, LinesOfIs DEF LinesWith
  <2>2. AreLinesOf(bytes, <<>>, [n \in 0 .. 0 |-> 0])
    BY <1>1 DEF AreLinesOf
  <2> QED
    BY <2>1, <2>2, Zenon DEF HasLines
<1>2. 0 \in S
  BY <1>1
<1>3. ASSUME NEW n \in Nat, n \in S
      PROVE  n + 1 \in S
  <2> SUFFICES ASSUME NEW bytes \in Seq(Nat), Len(bytes) <= n + 1
               PROVE  HasLines(bytes)
    OBVIOUS
  <2>1. CASE bytes # <<>>
    <3>1. OtherBytes(bytes) \in Seq(Nat) /\ Len(OtherBytes(bytes)) <= n
      <4>1. /\ CutAt(bytes) \in 1 .. Len(bytes) /\ OtherBytes(bytes) \in Seq(Nat)
            /\ Len(OtherBytes(bytes)) = Len(bytes) - CutAt(bytes)
        BY <2>1, LineIsCut
      <4> QED
        BY <4>1
    <3>2. HasLines(OtherBytes(bytes))
      BY <1>3, <3>1
    <3> QED
      BY <2>1, <3>2, OneMoreLine
  <2> QED
    BY <1>1, <2>1
<1> HIDE DEF S
<1>4. Nat \subseteq S
  BY <1>2, <1>3, Induction
<1> QED
  <2> SUFFICES ASSUME NEW bytes \in Seq(Nat)
               PROVE  HasLines(bytes)
    OBVIOUS
  <2>1. Len(bytes) \in S /\ Len(bytes) <= Len(bytes)
    BY <1>4
  <2> QED
    BY <2>1 DEF S

-----------------------------------------------------------------------------
(* HexDump: the lines of all sections, and how far one is in them.         *)

FileWith(f, sections) ==
  IF sections = <<>> THEN <<>>
  ELSE << <<"@", Head(sections).at>> >> \o LinesOf[Head(sections).bytes] \o f[Tail(sections)]

\* FileOf is the function that it is defined as.
LEMMA FileOfIs == FileOf = [sections \in Seq(Sections) |-> FileWith(FileOf, sections)]
<1> DEFINE D == Seq(Sections)
           T == Seq(DumpLine)
           G == [f \in [D -> T] |-> [sections \in D |-> FileWith(f, sections)]]
           rank == [sections \in D |-> Len(sections)]
<1>1. ASSUME NEW f \in [D -> T], NEW sections \in D
      PROVE  FileWith(f, sections) \in T
  <2>1. CASE sections = <<>>
    BY <2>1 DEF FileWith
  <2>2. CASE sections # <<>>
    <3>1. Head(sections) \in Sections /\ Tail(sections) \in D
      BY <2>2
    <3>2. Head(sections).at \in Nat /\ Head(sections).bytes \in Seq(Nat)
      BY <3>1 DEF Sections
    <3>3. LinesOf[Head(sections).bytes] \in T
      BY <3>2, BytesHaveLines DEF HasLines, AreLinesOf
    <3>4. <<"@", Head(sections).at>> \in DumpLine
      BY <3>2 DEF DumpLine
    <3>5. f[Tail(sections)] \in T
      BY <3>1
    <3> QED
      BY <2>2, <3>3, <3>4, <3>5 DEF FileWith
  <2> QED
    BY <2>1, <2>2
<1>2. ASSUME NEW f \in [D -> T], NEW g \in [D -> T], NEW sections \in D,
             \A y \in D : rank[y] < rank[sections] => f[y] = g[y]
      PROVE  FileWith(f, sections) = FileWith(g, sections)
  <2>1. CASE sections # <<>>
    <3>1. Tail(sections) \in D /\ rank[Tail(sections)] < rank[sections]
      BY <2>1
    <3> QED
      BY <1>2, <3>1, Zenon DEF FileWith
  <2> QED
    BY <2>1 DEF FileWith
<1>3. <<>> \in T /\ rank \in [D -> Nat]
  OBVIOUS
<1> HIDE DEF D, T, rank
<1>4. G \in [[D -> T] -> [D -> T]]
  BY <1>1
<1>5. \A f \in [D -> T] : G[f] = [sections \in D |-> FileWith(f, sections)]
  OBVIOUS
<1> HIDE DEF G
<1>6. Settles(G, D, T, rank)
  <2> SUFFICES ASSUME NEW f \in [D -> T], NEW g \in [D -> T], NEW sections \in D,
                      \A y \in D : rank[y] < rank[sections] => f[y] = g[y]
               PROVE  G[f][sections] = G[g][sections]
    BY Zenon DEF Settles
  <2>1. /\ G[f] = [y \in D |-> FileWith(f, y)]
        /\ G[g] = [y \in D |-> FileWith(g, y)]
    BY <1>5, Zenon
  <2> QED
    BY <1>2, <2>1
<1>7. PICK f \in [D -> T] : f = G[f]
  <2>1. T # {}
    BY <1>3
  <2>2. Recursion(G, D, T, rank)
    BY <1>3, <1>4, <1>6, <2>1, Zenon DEF Recursion
  <2>3. HasFixedPoint(G, D, T)
    BY <2>2, RecursionExists, Zenon
  <2> QED
    BY <2>3, Zenon DEF HasFixedPoint
<1>8. f = [sections \in Seq(Sections) |-> FileWith(f, sections)]
  BY <1>5, <1>7, Zenon DEF D
<1> QED
  BY <1>8, Zenon DEF FileOf, FileWith

\* After some lines secs sections have begun, and gets bytes of the last are read.
AllRead(sections, secs, gets) == secs = 0 \/ gets = Len(sections[secs].bytes)

NextBegins(sections, line, secs, gets, secs2, gets2) ==
  /\ secs2 = secs + 1 /\ gets2 = 0 /\ secs2 <= Len(sections)
  /\ AllRead(sections, secs, gets) /\ line = <<"@", sections[secs2].at>>

BytesFollow(sections, line, secs, gets, secs2, gets2) ==
  /\ secs2 = secs /\ secs \in DOMAIN sections /\ gets < gets2
  /\ gets2 = Shorter(gets + LINE, Len(sections[secs].bytes))
  /\ line = <<"bytes", SubSeq(sections[secs].bytes, gets + 1, gets2)>>

\* A line with the address 0 that is kept twice.
Repeats(sections, line, secs, gets, secs2, gets2) ==
  /\ secs2 = secs /\ secs \in DOMAIN sections /\ gets = 0 /\ gets2 = 0
  /\ sections[secs].at = 0 /\ line = <<"@", 0>>

Follows(sections, line, secs, gets, secs2, gets2) ==
  \/ NextBegins(sections, line, secs, gets, secs2, gets2)
  \/ BytesFollow(sections, line, secs, gets, secs2, gets2)
  \/ Repeats(sections, line, secs, gets, secs2, gets2)

Walks(sections, lines, secs, gets) ==
  /\ lines \in Seq(DumpLine)
  /\ secs \in [0 .. Len(lines) -> Nat] /\ gets \in [0 .. Len(lines) -> Nat]
  /\ secs[0] = 0 /\ gets[0] = 0
  /\ \A n \in 1 .. Len(lines) :
       Follows(sections, lines[n], secs[n - 1], gets[n - 1], secs[n], gets[n])

ToTheEnd(sections, lines, secs, gets) ==
  /\ Walks(sections, lines, secs, gets)
  /\ secs[Len(lines)] = Len(sections)
  /\ AllRead(sections, secs[Len(lines)], gets[Len(lines)])

IsWalked(sections, lines) == \E secs, gets : ToTheEnd(sections, lines, secs, gets)

\* t is s1 and behind it s2.
IsJoined(t, S, s1, s2) ==
  /\ t \in Seq(S) /\ Len(t) = Len(s1) + Len(s2)
  /\ \A n \in 1 .. Len(s1) + Len(s2) : t[n] = IF n <= Len(s1) THEN s1[n] ELSE s2[n - Len(s1)]

LEMMA ConcatIsJoined ==
  ASSUME NEW S, NEW s1 \in Seq(S), NEW s2 \in Seq(S)
  PROVE  IsJoined(s1 \o s2, S, s1, s2)
BY ConcatProperties, Zenon DEF IsJoined

\* How far one is after each line of a section and of those behind it.
\* How far one is in the sections and in their bytes, of a section with n lines of
\* bytes and m lines behind it.
SecsBehind(secs, n, m) ==
  [k \in 0 .. (n + 1) + m |-> IF k = 0 THEN 0 ELSE IF k <= n + 1 THEN 1 ELSE secs[k - (n + 1)] + 1]

GetsBehind(ends, gets, n, m) ==
  [k \in 0 .. (n + 1) + m |->
     IF k = 0 THEN 0 ELSE IF k <= n + 1 THEN ends[k - 1] ELSE gets[k - (n + 1)]]

LEMMA PlacesBehind ==
  ASSUME NEW n \in Nat, NEW m \in Nat
  PROVE  /\ 0 \in 0 .. (n + 1) + m
         /\ \A k \in 1 .. n + 1 : /\ k # 0 /\ k <= n + 1 /\ k \in 0 .. (n + 1) + m
                                  /\ k - 1 \in 0 .. n
         /\ \A k \in 1 .. m :
              /\ (n + 1) + k # 0 /\ ~((n + 1) + k <= n + 1) /\ (n + 1) + k \in 0 .. (n + 1) + m
              /\ ((n + 1) + k) - (n + 1) = k /\ k \in 0 .. m
         /\ \A k \in 0 .. (n + 1) + m :
              k = 0 \/ k \in 1 .. n + 1 \/ \E j \in 1 .. m : k = (n + 1) + j
<1>1. ASSUME NEW k \in 0 .. (n + 1) + m
      PROVE  k = 0 \/ k \in 1 .. n + 1 \/ \E j \in 1 .. m : k = (n + 1) + j
  <2>1. CASE k <= n + 1
    BY <2>1
  <2>2. CASE k > n + 1
    <3>1. k - (n + 1) \in 1 .. m /\ k = (n + 1) + (k - (n + 1))
      BY <2>2
    <3> QED
      BY <3>1, Zenon
  <2> QED
    BY <2>1, <2>2
<1>2. ASSUME NEW k \in 1 .. m
      PROVE  /\ (n + 1) + k # 0 /\ ~((n + 1) + k <= n + 1) /\ (n + 1) + k \in 0 .. (n + 1) + m
             /\ ((n + 1) + k) - (n + 1) = k /\ k \in 0 .. m
  OBVIOUS
<1>3. ASSUME NEW k \in 1 .. n + 1
      PROVE  k # 0 /\ k <= n + 1 /\ k \in 0 .. (n + 1) + m /\ k - 1 \in 0 .. n
  OBVIOUS
<1>4. 0 \in 0 .. (n + 1) + m
  OBVIOUS
<1> QED
  BY <1>1, <1>2, <1>3, <1>4, Zenon

AreSecsBehind(it, secs, n, m) ==
  /\ it \in [0 .. (n + 1) + m -> Nat] /\ it[0] = 0
  /\ \A k \in 1 .. n + 1 : it[k] = 1
  /\ \A k \in 1 .. m : it[(n + 1) + k] = secs[k] + 1

AreGetsBehind(it, ends, gets, n, m) ==
  /\ it \in [0 .. (n + 1) + m -> Nat] /\ it[0] = 0
  /\ \A k \in 1 .. n + 1 : it[k] = ends[k - 1]
  /\ \A k \in 1 .. m : it[(n + 1) + k] = gets[k]

LEMMA SecsBehindAre ==
  ASSUME NEW n \in Nat, NEW m \in Nat, NEW secs \in [0 .. m -> Nat]
  PROVE  AreSecsBehind(SecsBehind(secs, n, m), secs, n, m)
<1>1. PICK it : it = SecsBehind(secs, n, m)
  OBVIOUS
<1>2. it = [k \in 0 .. (n + 1) + m |->
              IF k = 0 THEN 0 ELSE IF k <= n + 1 THEN 1 ELSE secs[k - (n + 1)] + 1]
  BY <1>1, Zenon DEF SecsBehind
<1>3. /\ it[0] = 0 /\ \A k \in 1 .. n + 1 : it[k] = 1
      /\ \A k \in 1 .. m : it[(n + 1) + k] = secs[k] + 1
  BY <1>2, PlacesBehind, Zenon
<1>4. \A k \in 1 .. m : secs[k] + 1 \in Nat
  <2> SUFFICES ASSUME NEW k \in 1 .. m
               PROVE  secs[k] + 1 \in Nat
    OBVIOUS
  <2>1. secs[k] \in Nat
    BY PlacesBehind, Zenon
  <2> QED
    BY <2>1
<1>5. ASSUME NEW k \in 0 .. (n + 1) + m
      PROVE  it[k] \in Nat
  <2>1. 0 \in Nat /\ 1 \in Nat
    OBVIOUS
  <2>2. CASE k = 0
    BY <1>3, <2>1, <2>2, Zenon
  <2>3. CASE k \in 1 .. n + 1
    BY <1>3, <2>1, <2>3, Zenon
  <2>4. ASSUME NEW j \in 1 .. m, k = (n + 1) + j
        PROVE  it[k] \in Nat
    BY <1>3, <1>4, <2>4, Zenon
  <2>5. k = 0 \/ k \in 1 .. n + 1 \/ \E j \in 1 .. m : k = (n + 1) + j
    BY PlacesBehind
  <2> QED
    BY <2>2, <2>3, <2>4, <2>5, Zenon
<1>6. it \in [0 .. (n + 1) + m -> Nat]
  BY <1>2, <1>5, Zenon
<1> QED
  BY <1>1, <1>3, <1>6, Zenon DEF AreSecsBehind

LEMMA GetsBehindAre ==
  ASSUME NEW n \in Nat, NEW m \in Nat, NEW ends \in [0 .. n -> Nat], NEW gets \in [0 .. m -> Nat]
  PROVE  AreGetsBehind(GetsBehind(ends, gets, n, m), ends, gets, n, m)
<1>1. PICK it : it = GetsBehind(ends, gets, n, m)
  OBVIOUS
<1>2. it = [k \in 0 .. (n + 1) + m |->
              IF k = 0 THEN 0 ELSE IF k <= n + 1 THEN ends[k - 1] ELSE gets[k - (n + 1)]]
  BY <1>1, Zenon DEF GetsBehind
<1>3. /\ it[0] = 0 /\ \A k \in 1 .. n + 1 : it[k] = ends[k - 1]
      /\ \A k \in 1 .. m : it[(n + 1) + k] = gets[k]
  <2>1. it[0] = 0
    BY <1>2, PlacesBehind, Zenon
  <2>2. ASSUME NEW k \in 1 .. n + 1
        PROVE  it[k] = ends[k - 1]
    BY <1>2, PlacesBehind, Zenon
  <2>3. ASSUME NEW k \in 1 .. m
        PROVE  it[(n + 1) + k] = gets[k]
    <3>1. /\ (n + 1) + k # 0 /\ ~((n + 1) + k <= n + 1) /\ (n + 1) + k \in 0 .. (n + 1) + m
          /\ ((n + 1) + k) - (n + 1) = k
      OBVIOUS
    <3> QED
      BY <1>2, <3>1, Zenon
  <2> QED
    BY <2>1, <2>2, <2>3, Zenon
<1>4. /\ \A k \in 1 .. n + 1 : ends[k - 1] \in Nat
      /\ \A k \in 1 .. m : gets[k] \in Nat
  BY PlacesBehind, Zenon
<1>5. ASSUME NEW k \in 0 .. (n + 1) + m
      PROVE  it[k] \in Nat
  <2>1. 0 \in Nat
    OBVIOUS
  <2>2. CASE k = 0
    BY <1>3, <2>1, <2>2, Zenon
  <2>3. CASE k \in 1 .. n + 1
    BY <1>3, <1>4, <2>3, Zenon
  <2>4. ASSUME NEW j \in 1 .. m, k = (n + 1) + j
        PROVE  it[k] \in Nat
    BY <1>3, <1>4, <2>4, Zenon
  <2>5. k = 0 \/ k \in 1 .. n + 1 \/ \E j \in 1 .. m : k = (n + 1) + j
    BY PlacesBehind
  <2> QED
    BY <2>2, <2>3, <2>4, <2>5, Zenon
<1>6. it \in [0 .. (n + 1) + m -> Nat]
  BY <1>2, <1>5, Zenon
<1> QED
  BY <1>1, <1>3, <1>6, Zenon DEF AreGetsBehind

LEMMA OneMoreSection ==
  ASSUME NEW sections \in Seq(Sections), sections # <<>>,
         IsWalked(Tail(sections), FileOf[Tail(sections)])
  PROVE  IsWalked(sections, FileOf[sections])
<1>1. PICK rest : rest = Tail(sections)
  OBVIOUS
<1>2. PICK num \in Nat : Len(sections) = num + 1
  <2>1. Len(sections) \in Nat /\ Len(sections) # 0
    OBVIOUS
  <2>2. Len(sections) - 1 \in Nat /\ Len(sections) = (Len(sections) - 1) + 1
    BY <2>1
  <2> QED
    BY <2>2
<1>3. /\ rest \in Seq(Sections) /\ Len(rest) = num
      /\ \A k \in 1 .. num : rest[k] = sections[k + 1]
      /\ Head(sections) = sections[1] /\ sections[1] \in Sections
  <2>1. /\ Tail(sections) \in Seq(Sections) /\ Len(Tail(sections)) = Len(sections) - 1
        /\ \A k \in 1 .. Len(Tail(sections)) : Tail(sections)[k] = sections[k + 1]
    BY HeadTailProperties
  <2> QED
    BY <1>1, <1>2, <2>1
<1>4. PICK bytes : bytes = sections[1].bytes
  OBVIOUS
<1>5. bytes \in Seq(Nat) /\ sections[1].at \in Nat
  BY <1>3, <1>4 DEF Sections
<1>6. PICK own, ends : own = LinesOf[bytes] /\ AreLinesOf(bytes, own, ends)
  BY <1>5, BytesHaveLines DEF HasLines
<1>7. PICK others, secs, gets : others = FileOf[rest] /\ ToTheEnd(rest, others, secs, gets)
  BY <1>1 DEF IsWalked
<1>8. PICK n \in Nat : n = Len(own)
  BY <1>6 DEF AreLinesOf
<1>9. PICK m \in Nat : m = Len(others)
  BY <1>7 DEF ToTheEnd, Walks
<1>10. /\ own \in Seq(DumpLine) /\ ends \in [0 .. n -> Nat] /\ ends[0] = 0 /\ ends[n] = Len(bytes)
       /\ \A k \in 1 .. n :
            /\ ends[k - 1] < ends[k] /\ ends[k] = Shorter(ends[k - 1] + LINE, Len(bytes))
            /\ own[k] = <<"bytes", SubSeq(bytes, ends[k - 1] + 1, ends[k])>>
  BY <1>6, <1>8, Zenon DEF AreLinesOf
<1>11. /\ others \in Seq(DumpLine)
       /\ secs \in [0 .. m -> Nat] /\ gets \in [0 .. m -> Nat] /\ secs[0] = 0 /\ gets[0] = 0
       /\ \A k \in 1 .. m : Follows(rest, others[k], secs[k - 1], gets[k - 1], secs[k], gets[k])
       /\ secs[m] = num /\ AllRead(rest, num, gets[m])
  BY <1>3, <1>7, <1>9, Zenon DEF ToTheEnd, Walks
<1>12. PICK line : line = <<"@", sections[1].at>>
  OBVIOUS
<1>13. PICK all : all = FileOf[sections]
  OBVIOUS
<1>14. all = <<line>> \o own \o others
  <2>1. all = FileWith(FileOf, sections)
    BY <1>13, FileOfIs
  <2> QED
    BY <1>1, <1>3, <1>4, <1>6, <1>7, <1>12, <2>1, Zenon DEF FileWith
<1>15. /\ all \in Seq(DumpLine) /\ Len(all) = (n + 1) + m /\ all[1] = line
       /\ \A k \in 1 .. n : all[k + 1] = own[k]
       /\ \A k \in 1 .. m : all[(n + 1) + k] = others[k]
  <2>1. line \in DumpLine
    BY <1>5, <1>12 DEF DumpLine
  <2>2. PICK first : first = <<line>> \o own
    OBVIOUS
  <2>3. /\ first \in Seq(DumpLine) /\ Len(first) = n + 1 /\ first[1] = line
        /\ \A k \in 1 .. n : first[k + 1] = own[k]
    BY <1>8, <1>10, <2>1, <2>2
  <2>4. all = first \o others
    BY <1>14, <2>2
  <2>5. /\ all \in Seq(DumpLine) /\ Len(all) = (n + 1) + m
        /\ \A k \in 1 .. (n + 1) + m : all[k] = IF k <= n + 1 THEN first[k] ELSE others[k - (n + 1)]
    <3>1. first \in Seq(DumpLine) /\ others \in Seq(DumpLine) /\ Len(first) = n + 1 /\ Len(others) = m
      BY <1>9, <1>11, <2>3, Zenon
    <3>2. IsJoined(first \o others, DumpLine, first, others)
      BY <3>1, ConcatIsJoined
    <3> QED
      BY <2>4, <3>1, <3>2, Zenon DEF IsJoined
  <2>6. all[1] = line /\ \A k \in 1 .. n : all[k + 1] = own[k]
    <3>1. \A k \in 1 .. n + 1 : all[k] = first[k]
      BY <2>5
    <3>2. 1 \in 1 .. n + 1 /\ \A k \in 1 .. n : k + 1 \in 1 .. n + 1
      OBVIOUS
    <3> QED
      BY <2>3, <3>1, <3>2, Zenon
  <2>7. \A k \in 1 .. m : all[(n + 1) + k] = others[k]
    BY <2>5
  <2> QED
    BY <2>5, <2>6, <2>7, Zenon
<1>16. PICK secs2 : secs2 = SecsBehind(secs, n, m)
  OBVIOUS
<1>17. PICK gets2 : gets2 = GetsBehind(ends, gets, n, m)
  OBVIOUS
<1>18. /\ secs2 \in [0 .. (n + 1) + m -> Nat] /\ secs2[0] = 0
       /\ \A k \in 1 .. n + 1 : secs2[k] = 1
       /\ \A k \in 1 .. m : secs2[(n + 1) + k] = secs[k] + 1
  <2>1. AreSecsBehind(secs2, secs, n, m)
    BY <1>11, <1>16, SecsBehindAre, Zenon
  <2> QED
    BY <2>1, Zenon DEF AreSecsBehind
<1>19. /\ gets2 \in [0 .. (n + 1) + m -> Nat] /\ gets2[0] = 0
       /\ \A k \in 1 .. n + 1 : gets2[k] = ends[k - 1]
       /\ \A k \in 1 .. m : gets2[(n + 1) + k] = gets[k]
  <2>1. AreGetsBehind(gets2, ends, gets, n, m)
    BY <1>10, <1>11, <1>17, GetsBehindAre, Zenon
  <2> QED
    BY <2>1, Zenon DEF AreGetsBehind
<1> DEFINE Goes(k) == Follows(sections, all[k], secs2[k - 1], gets2[k - 1], secs2[k], gets2[k])
<1>20. 1 \in DOMAIN sections
  BY <1>2
<1>21. Goes(1)
  <2>1. NextBegins(sections, all[1], 0, 0, 1, 0)
    BY <1>2, <1>12, <1>15 DEF NextBegins, AllRead
  <2>2. secs2[1 - 1] = 0 /\ gets2[1 - 1] = 0 /\ secs2[1] = 1 /\ gets2[1] = 0
    BY <1>10, <1>18, <1>19
  <2> QED
    BY <2>1, <2>2, Zenon DEF Follows
<1>22. ASSUME NEW k \in 1 .. n
       PROVE  Goes(k + 1)
  <2>1. BytesFollow(sections, own[k], 1, ends[k - 1], 1, ends[k])
    BY <1>4, <1>10, <1>20, Zenon DEF BytesFollow
  <2>2. (k + 1) - 1 = k /\ secs2[k] = 1 /\ secs2[k + 1] = 1 /\ gets2[k] = ends[k - 1]
        /\ gets2[k + 1] = ends[k] /\ all[k + 1] = own[k]
    BY <1>15, <1>18, <1>19
  <2> QED
    BY <2>1, <2>2, Zenon DEF Follows
<1>23. ASSUME NEW k \in 1 .. m, NEW was, NEW got, Follows(rest, others[k], was, got, secs[k], gets[k]),
              was \in Nat, was # 0
       PROVE  Follows(sections, others[k], was + 1, got, secs[k] + 1, gets[k])
  <2>1. \A j \in DOMAIN rest : j + 1 \in DOMAIN sections /\ rest[j] = sections[j + 1]
    BY <1>2, <1>3
  <2>2. CASE NextBegins(rest, others[k], was, got, secs[k], gets[k])
    <3>1. secs[k] = was + 1 /\ gets[k] = 0 /\ secs[k] \in DOMAIN rest /\ was \in DOMAIN rest
      BY <1>3, <1>23, <2>2 DEF NextBegins
    <3>2. got = Len(rest[was].bytes) /\ others[k] = <<"@", rest[secs[k]].at>>
      BY <1>23, <2>2, Zenon DEF NextBegins, AllRead
    <3>3. got = Len(sections[was + 1].bytes) /\ others[k] = <<"@", sections[secs[k] + 1].at>>
          /\ secs[k] + 1 \in DOMAIN sections
      BY <2>1, <3>1, <3>2, Zenon
    <3>4. secs[k] + 1 = (was + 1) + 1 /\ secs[k] + 1 <= Len(sections)
      BY <1>2, <3>1, <3>3
    <3> QED
      BY <3>1, <3>3, <3>4, Zenon DEF NextBegins, AllRead, Follows
  <2>3. CASE BytesFollow(rest, others[k], was, got, secs[k], gets[k])
    BY <2>1, <2>3, Zenon DEF BytesFollow, Follows
  <2>4. CASE Repeats(rest, others[k], was, got, secs[k], gets[k])
    BY <2>1, <2>4, Zenon DEF Repeats, Follows
  <2> QED
    BY <1>23, <2>2, <2>3, <2>4, Zenon DEF Follows
<1>24. ASSUME NEW k \in 1 .. m
       PROVE  Goes((n + 1) + k)
  <2>1. /\ secs2[(n + 1) + k] = secs[k] + 1 /\ gets2[(n + 1) + k] = gets[k]
        /\ all[(n + 1) + k] = others[k]
    BY <1>15, <1>18, <1>19
  <2>2. Follows(rest, others[k], secs[k - 1], gets[k - 1], secs[k], gets[k])
    BY <1>11
  <2>3. CASE k = 1
    <3>1. secs[k - 1] = 0 /\ gets[k - 1] = 0
      BY <1>11, <2>3
    <3>2. NextBegins(rest, others[k], 0, 0, secs[k], gets[k])
      <4>1. 0 \notin DOMAIN rest
        BY <1>3
      <4> QED
        BY <2>2, <3>1, <4>1, Zenon DEF Follows, BytesFollow, Repeats
    <3>3. secs[k] = 1 /\ gets[k] = 0 /\ 1 <= num /\ others[k] = <<"@", rest[1].at>>
      BY <1>3, <3>2 DEF NextBegins
    <3>4. secs2[((n + 1) + k) - 1] = 1 /\ gets2[((n + 1) + k) - 1] = Len(bytes)
      <4>1. ((n + 1) + k) - 1 = n + 1 /\ n + 1 \in 1 .. n + 1 /\ (n + 1) - 1 = n
        BY <2>3
      <4>2. ends[n] = Len(bytes)
        BY <1>10, Zenon
      <4> QED
        BY <1>18, <1>19, <4>1, <4>2, Zenon
    <3>5. NextBegins(sections, others[k], 1, Len(bytes), secs[k] + 1, gets[k])
      <4>1. rest[1] = sections[2]
        BY <1>3, <3>3
      <4> QED
        BY <1>2, <1>4, <3>3, <4>1 DEF NextBegins, AllRead
    <3> QED
      BY <2>1, <3>4, <3>5, Zenon DEF Follows
  <2>4. CASE k > 1
    <3>1. PICK j \in 1 .. m : j = k - 1
      BY <2>4
    <3>2. Follows(rest, others[j], secs[j - 1], gets[j - 1], secs[j], gets[j])
      BY <1>11
    <3>3. secs[j] \in Nat /\ secs[j] # 0
      <4>1. j \in 0 .. m /\ j - 1 \in 0 .. m
        BY <3>1
      <4>2. secs[j] \in Nat /\ secs[j - 1] \in Nat
        BY <1>11, <4>1
      <4>3. secs[j] = secs[j - 1] + 1 \/ secs[j] \in DOMAIN rest
        BY <3>2, Zenon DEF Follows, NextBegins, BytesFollow, Repeats
      <4> QED
        BY <1>3, <4>2, <4>3
    <3>4. secs2[((n + 1) + k) - 1] = secs[j] + 1 /\ gets2[((n + 1) + k) - 1] = gets[j]
      <4>1. ((n + 1) + k) - 1 = (n + 1) + j
        BY <3>1
      <4> QED
        BY <1>18, <1>19, <4>1
    <3>5. Follows(sections, others[k], secs[j] + 1, gets[j], secs[k] + 1, gets[k])
      BY <1>23, <2>2, <3>1, <3>3
    <3> QED
      BY <2>1, <3>4, <3>5, Zenon
  <2> QED
    BY <2>3, <2>4
<1>25. ASSUME NEW k \in 1 .. (n + 1) + m
       PROVE  Goes(k)
  <2>1. CASE k = 1
    BY <1>21, <2>1
  <2>2. CASE k \in 2 .. n + 1
    <3>1. k - 1 \in 1 .. n /\ (k - 1) + 1 = k
      BY <2>2
    <3>2. Goes((k - 1) + 1)
      BY <1>22, <3>1
    <3> QED
      BY <3>1, <3>2
  <2>3. CASE k > n + 1
    <3>1. k - (n + 1) \in 1 .. m /\ (n + 1) + (k - (n + 1)) = k
      BY <2>3
    <3>2. Goes((n + 1) + (k - (n + 1)))
      BY <1>24, <3>1
    <3> QED
      BY <3>1, <3>2
  <2>4. k = 1 \/ k \in 2 .. n + 1 \/ k > n + 1
    OBVIOUS
  <2> QED
    BY <2>1, <2>2, <2>3, <2>4, Zenon
<1>26. Walks(sections, all, secs2, gets2)
  BY <1>15, <1>18, <1>19, <1>25, Zenon DEF Walks
<1>27. secs2[(n + 1) + m] = Len(sections) /\ AllRead(sections, Len(sections), gets2[(n + 1) + m])
  <2>1. CASE m = 0
    <3>1. num = 0 /\ (n + 1) + m = n + 1
      BY <1>11, <2>1
    <3> QED
      BY <1>2, <1>4, <1>10, <1>18, <1>19, <3>1 DEF AllRead
  <2>2. CASE m > 0
    <3>1. secs2[(n + 1) + m] = num + 1 /\ gets2[(n + 1) + m] = gets[m]
      BY <1>11, <1>18, <1>19, <2>2
    <3>2. num # 0
      <4>1. Follows(rest, others[m], secs[m - 1], gets[m - 1], secs[m], gets[m])
        BY <1>11, <2>2
      <4>2. secs[m - 1] \in Nat
        BY <1>11, <2>2
      <4>3. num = secs[m - 1] + 1 \/ num \in DOMAIN rest
        BY <1>11, <4>1, Zenon DEF Follows, NextBegins, BytesFollow, Repeats
      <4> QED
        BY <1>3, <4>2, <4>3
    <3>3. gets[m] = Len(sections[num + 1].bytes)
      <4>1. gets[m] = Len(rest[num].bytes)
        BY <1>11, <3>2, Zenon DEF AllRead
      <4> QED
        BY <1>3, <3>2, <4>1
    <3> QED
      BY <1>2, <3>1, <3>3 DEF AllRead
  <2> QED
    BY <2>1, <2>2
<1>28. ToTheEnd(sections, all, secs2, gets2)
  BY <1>15, <1>26, <1>27, Zenon DEF ToTheEnd
<1> QED
  BY <1>13, <1>28, Zenon DEF IsWalked

LEMMA FileIsWalked == \A sections \in Seq(Sections) : IsWalked(sections, FileOf[sections])
<1> DEFINE S == {n \in Nat : \A sections \in Seq(Sections) :
                   Len(sections) = n => IsWalked(sections, FileOf[sections])}
<1>1. 0 \in S
  <2> SUFFICES ASSUME NEW sections \in Seq(Sections), sections = <<>>
               PROVE  IsWalked(sections, FileOf[sections])
    OBVIOUS
  <2>1. FileOf[sections] = <<>>
    BY FileOfIs DEF FileWith
  <2>2. ToTheEnd(<<>>, <<>>, [n \in 0 .. 0 |-> 0], [n \in 0 .. 0 |-> 0])
    BY DEF ToTheEnd, Walks, AllRead
  <2> QED
    BY <2>1, <2>2, Zenon DEF IsWalked
<1>2. ASSUME NEW n \in Nat, n \in S
      PROVE  n + 1 \in S
  <2> SUFFICES ASSUME NEW sections \in Seq(Sections), Len(sections) = n + 1
               PROVE  IsWalked(sections, FileOf[sections])
    OBVIOUS
  <2>1. sections # <<>> /\ Tail(sections) \in Seq(Sections) /\ Len(Tail(sections)) = n
    BY HeadTailProperties
  <2>2. IsWalked(Tail(sections), FileOf[Tail(sections)])
    BY <1>2, <2>1
  <2> QED
    BY <2>1, <2>2, OneMoreSection
<1> HIDE DEF S
<1>3. Nat \subseteq S
  BY <1>1, <1>2, Induction
<1> QED
  <2> SUFFICES ASSUME NEW sections \in Seq(Sections)
               PROVE  IsWalked(sections, FileOf[sections])
    OBVIOUS
  <2>1. Len(sections) \in S
    BY <1>3
  <2> QED
    BY <2>1 DEF S

-----------------------------------------------------------------------------
(* HexDump: the or of two bytes.                                           *)

IntoWith(f, old, b) ==
  IF old = 0 \/ b = 0 THEN old + b
  ELSE (IF old % 2 = 0 /\ b % 2 = 0 THEN 0 ELSE 1) + 2 * f[old \div 2][b \div 2]

\* Into is the function that it is defined as.
LEMMA IntoIs == Into = [old \in Nat |-> [b \in Nat |-> IntoWith(Into, old, b)]]
<1> DEFINE D == Nat
           T == [Nat -> Nat]
           G == [f \in [D -> T] |-> [old \in D |-> [b \in Nat |-> IntoWith(f, old, b)]]]
           rank == [old \in D |-> old]
<1>1. ASSUME NEW f \in [D -> T], NEW old \in D
      PROVE  [b \in Nat |-> IntoWith(f, old, b)] \in T
  <2> SUFFICES ASSUME NEW b \in Nat
               PROVE  IntoWith(f, old, b) \in Nat
    OBVIOUS
  <2>1. old \div 2 \in Nat /\ b \div 2 \in Nat
    OBVIOUS
  <2>2. f[old \div 2] \in [Nat -> Nat]
    BY <2>1
  <2>3. PICK half \in Nat : half = f[old \div 2][b \div 2]
    BY <2>1, <2>2
  <2>4. PICK bit \in {0, 1} : bit = IF old % 2 = 0 /\ b % 2 = 0 THEN 0 ELSE 1
    OBVIOUS
  <2>5. IntoWith(f, old, b) = IF old = 0 \/ b = 0 THEN old + b ELSE bit + 2 * half
    BY <2>3, <2>4, Zenon DEF IntoWith
  <2>6. old + b \in Nat /\ bit + 2 * half \in Nat
    OBVIOUS
  <2> QED
    BY <2>5, <2>6
<1>2. ASSUME NEW f \in [D -> T], NEW g \in [D -> T], NEW old \in D,
             \A y \in D : rank[y] < rank[old] => f[y] = g[y]
      PROVE  [b \in Nat |-> IntoWith(f, old, b)] = [b \in Nat |-> IntoWith(g, old, b)]
  <2> SUFFICES ASSUME NEW b \in Nat
               PROVE  IntoWith(f, old, b) = IntoWith(g, old, b)
    OBVIOUS
  <2>1. CASE old # 0
    <3>1. old \div 2 \in Nat /\ old \div 2 < old
      BY <2>1
    <3>2. f[old \div 2] = g[old \div 2]
      BY <1>2, <3>1
    <3> QED
      BY <3>2, Zenon DEF IntoWith
  <2>2. CASE old = 0
    BY <2>2, Zenon DEF IntoWith
  <2> QED
    BY <2>1, <2>2
<1>3. [b \in Nat |-> 0] \in T /\ rank \in [D -> Nat]
  OBVIOUS
<1> HIDE DEF D, T, rank
<1>4. G \in [[D -> T] -> [D -> T]]
  BY <1>1
<1>5. \A f \in [D -> T] : G[f] = [old \in D |-> [b \in Nat |-> IntoWith(f, old, b)]]
  OBVIOUS
<1> HIDE DEF G
<1>6. Settles(G, D, T, rank)
  <2> SUFFICES ASSUME NEW f \in [D -> T], NEW g \in [D -> T], NEW x \in D,
                      \A y \in D : rank[y] < rank[x] => f[y] = g[y]
               PROVE  G[f][x] = G[g][x]
    BY Zenon DEF Settles
  <2>1. /\ G[f] = [y \in D |-> [b \in Nat |-> IntoWith(f, y, b)]]
        /\ G[g] = [y \in D |-> [b \in Nat |-> IntoWith(g, y, b)]]
    BY <1>5, Zenon
  <2>2. G[f][x] = [b \in Nat |-> IntoWith(f, x, b)] /\ G[g][x] = [b \in Nat |-> IntoWith(g, x, b)]
    BY <2>1, Zenon
  <2> QED
    BY <1>2, <2>2, Zenon
<1>7. PICK f \in [D -> T] : f = G[f]
  <2>1. T # {}
    BY <1>3
  <2>2. Recursion(G, D, T, rank)
    BY <1>3, <1>4, <1>6, <2>1, Zenon DEF Recursion
  <2>3. HasFixedPoint(G, D, T)
    BY <2>2, RecursionExists, Zenon
  <2> QED
    BY <2>3, Zenon DEF HasFixedPoint
<1>8. f = [old \in Nat |-> [b \in Nat |-> IntoWith(f, old, b)]]
  BY <1>5, <1>7, Zenon DEF D
<1> QED
  BY <1>8, Zenon DEF Into, IntoWith

\* Numbers below a power of 2 stay below it.
Bounds(n) == \A old, b \in Nat : old < n /\ b < n => Into[old][b] \in Nat /\ Into[old][b] < n

LEMMA BoundDoubles ==
  ASSUME NEW n \in Nat, Bounds(n)
  PROVE  Bounds(2 * n)
<1> SUFFICES ASSUME NEW old \in Nat, NEW b \in Nat, old < 2 * n, b < 2 * n
             PROVE  Into[old][b] \in Nat /\ Into[old][b] < 2 * n
  BY Zenon DEF Bounds
<1>1. Into[old][b] = IntoWith(Into, old, b)
  <2>1. Into[old] = [c \in Nat |-> IntoWith(Into, old, c)]
    BY IntoIs, Zenon
  <2> QED
    BY <2>1, Zenon
<1>2. old \div 2 \in Nat /\ old \div 2 < n /\ b \div 2 \in Nat /\ b \div 2 < n
  OBVIOUS
<1>3. PICK half \in Nat : half = Into[old \div 2][b \div 2] /\ half < n
  BY <1>2, Zenon DEF Bounds
<1> QED
  BY <1>1, <1>3 DEF IntoWith

LEMMA IntoIsByte ==
  ASSUME NEW old \in 0 .. 255, NEW b \in 0 .. 255
  PROVE  Into[old][b] \in 0 .. 255
<1>1. Bounds(1)
  <2> SUFFICES ASSUME NEW x \in Nat, NEW y \in Nat, x < 1, y < 1
               PROVE  Into[x][y] \in Nat /\ Into[x][y] < 1
    BY Zenon DEF Bounds
  <2>1. x = 0 /\ y = 0
    OBVIOUS
  <2>2. Into[x] = [c \in Nat |-> IntoWith(Into, x, c)]
    BY IntoIs, Zenon
  <2>3. Into[x][y] = IntoWith(Into, x, y)
    BY <2>2, Zenon
  <2> QED
    BY <2>1, <2>3 DEF IntoWith
<1>2. Bounds(2)
  BY <1>1, BoundDoubles
<1>3. Bounds(4)
  BY <1>2, BoundDoubles
<1>4. Bounds(8)
  BY <1>3, BoundDoubles
<1>5. Bounds(16)
  BY <1>4, BoundDoubles
<1>6. Bounds(32)
  BY <1>5, BoundDoubles
<1>7. Bounds(64)
  BY <1>6, BoundDoubles
<1>8. Bounds(128)
  BY <1>7, BoundDoubles
<1>9. Bounds(256)
  BY <1>8, BoundDoubles
<1>10. old \in Nat /\ b \in Nat /\ old < 256 /\ b < 256
  OBVIOUS
<1>11. Into[old][b] \in Nat /\ Into[old][b] < 256
  BY <1>9, <1>10, Zenon DEF Bounds
<1> QED
  BY <1>11

\* Into nothing a byte goes as it is.
LEMMA IntoNothing ==
  ASSUME NEW b \in Nat
  PROVE  Into[0][b] = b
<1>1. Into[0] = [c \in Nat |-> IntoWith(Into, 0, c)]
  BY IntoIs, Zenon
<1>2. Into[0][b] = IntoWith(Into, 0, b)
  BY <1>1, Zenon
<1> QED
  BY <1>2 DEF IntoWith

\* Halves of an or are ors of halves.
LEMMA HalfInto ==
  ASSUME NEW x \in 0 .. 255, NEW y \in 0 .. 255
  PROVE  /\ Into[x][y] \div 2 = Into[x \div 2][y \div 2]
         /\ Into[x][y] % 2 = 1 <=> x % 2 = 1 \/ y % 2 = 1
<1>1. x \div 2 \in 0 .. 255 /\ y \div 2 \in 0 .. 255 /\ x \in Nat /\ y \in Nat
  OBVIOUS
<1>2. PICK half \in 0 .. 255 : half = Into[x \div 2][y \div 2]
  BY <1>1, IntoIsByte
<1>3. Into[x] = [c \in Nat |-> IntoWith(Into, x, c)]
  BY <1>1, IntoIs, Zenon
<1>4. PICK all : all = Into[x][y]
  OBVIOUS
<1>5. all = IF x = 0 \/ y = 0 THEN x + y
            ELSE (IF x % 2 = 0 /\ y % 2 = 0 THEN 0 ELSE 1) + 2 * half
  BY <1>1, <1>2, <1>3, <1>4, Zenon DEF IntoWith
<1>6. x = 0 => half = y \div 2
  <2> SUFFICES ASSUME x = 0 PROVE Into[x \div 2][y \div 2] = y \div 2
    BY <1>2
  <2>1. x \div 2 = 0 /\ y \div 2 \in Nat
    OBVIOUS
  <2> QED
    BY <2>1, IntoNothing
<1>7. y = 0 => half = x \div 2
  <2> SUFFICES ASSUME y = 0 PROVE Into[x \div 2][y \div 2] = x \div 2
    BY <1>2
  <2>1. y \div 2 = 0 /\ x \div 2 \in Nat
    OBVIOUS
  <2>2. Into[x \div 2] = [c \in Nat |-> IntoWith(Into, x \div 2, c)]
    BY <2>1, IntoIs, Zenon
  <2>3. Into[x \div 2][0] = IntoWith(Into, x \div 2, 0)
    BY <2>2, Zenon
  <2> QED
    BY <2>1, <2>3 DEF IntoWith
<1>8. all \div 2 = half /\ (all % 2 = 1 <=> x % 2 = 1 \/ y % 2 = 1)
  BY <1>5, <1>6, <1>7
<1> QED
  BY <1>2, <1>4, <1>8

\* A bit is in an or if it is in one of the two.
IsOr(v) ==
  \A x, y \in 0 .. 255 :
    (Into[x][y] \div v) % 2 = 1 <=> (x \div v) % 2 = 1 \/ (y \div v) % 2 = 1

Halves(v) == \A x \in 0 .. 255 : x \div (2 * v) = (x \div 2) \div v

LEMMA OrDoubles ==
  ASSUME NEW v, IsOr(v), Halves(v)
  PROVE  IsOr(2 * v)
<1> SUFFICES ASSUME NEW x \in 0 .. 255, NEW y \in 0 .. 255
             PROVE  (Into[x][y] \div (2 * v)) % 2 = 1
                      <=> (x \div (2 * v)) % 2 = 1 \/ (y \div (2 * v)) % 2 = 1
  BY Zenon DEF IsOr
<1>1. Into[x][y] \in 0 .. 255
  BY IntoIsByte
<1>2. /\ Into[x][y] \div (2 * v) = (Into[x][y] \div 2) \div v
      /\ x \div (2 * v) = (x \div 2) \div v /\ y \div (2 * v) = (y \div 2) \div v
  BY <1>1, Zenon DEF Halves
<1>3. Into[x][y] \div 2 = Into[x \div 2][y \div 2]
  BY HalfInto
<1>4. x \div 2 \in 0 .. 255 /\ y \div 2 \in 0 .. 255
  OBVIOUS
<1>5. (Into[x \div 2][y \div 2] \div v) % 2 = 1
        <=> ((x \div 2) \div v) % 2 = 1 \/ ((y \div 2) \div v) % 2 = 1
  BY <1>4, Zenon DEF IsOr
<1> QED
  BY <1>2, <1>3, <1>5, Zenon

LEMMA OrBit ==
  ASSUME NEW v, IsOr(v), NEW x \in 0 .. 255, NEW y \in 0 .. 255
  PROVE  (Into[x][y] \div v) % 2 = 1 <=> (x \div v) % 2 = 1 \/ (y \div v) % 2 = 1
BY Zenon DEF IsOr

LEMMA BitsOfOr ==
  ASSUME NEW x \in 0 .. 255, NEW y \in 0 .. 255
  PROVE  BitsOf(Into[x][y]) = BitsOf(x) \cup BitsOf(y)
<1>1. IsOr(1)
  <2> SUFFICES ASSUME NEW x_ \in 0 .. 255, NEW y_ \in 0 .. 255
               PROVE  (Into[x_][y_] \div 1) % 2 = 1
                        <=> (x_ \div 1) % 2 = 1 \/ (y_ \div 1) % 2 = 1
    BY Zenon DEF IsOr
  <2>1. \A it \in 0 .. 255 : it \div 1 = it
    OBVIOUS
  <2>0. Into[x_][y_] \in 0 .. 255
    BY IntoIsByte, Zenon
  <2>2. Into[x_][y_] \div 1 = Into[x_][y_] /\ x_ \div 1 = x_ /\ y_ \div 1 = y_
    BY <2>0, <2>1, Zenon
  <2>3. Into[x_][y_] % 2 = 1 <=> x_ % 2 = 1 \/ y_ % 2 = 1
    BY HalfInto
  <2> QED
    BY <2>2, <2>3, Zenon
<1>2. IsOr(2)
  <2>1. Halves(1) /\ 2 * 1 = 2
    BY DEF Halves
  <2> QED
    BY <1>1, <2>1, OrDoubles
<1>3. IsOr(4)
  <2>1. Halves(2) /\ 2 * 2 = 4
    BY DEF Halves
  <2> QED
    BY <1>2, <2>1, OrDoubles
<1>4. IsOr(8)
  <2>1. Halves(4) /\ 2 * 4 = 8
    BY DEF Halves
  <2> QED
    BY <1>3, <2>1, OrDoubles
<1>5. IsOr(16)
  <2>1. Halves(8) /\ 2 * 8 = 16
    BY DEF Halves
  <2> QED
    BY <1>4, <2>1, OrDoubles
<1>6. IsOr(32)
  <2>1. Halves(16) /\ 2 * 16 = 32
    BY DEF Halves
  <2> QED
    BY <1>5, <2>1, OrDoubles
<1>7. IsOr(64)
  <2>1. Halves(32) /\ 2 * 32 = 64
    BY DEF Halves
  <2> QED
    BY <1>6, <2>1, OrDoubles
<1>8. IsOr(128)
  <2>1. Halves(64) /\ 2 * 64 = 128
    BY DEF Halves
  <2> QED
    BY <1>7, <2>1, OrDoubles
<1>9. ASSUME NEW v \in {1, 2, 4, 8, 16, 32, 64, 128}
      PROVE  IsOr(v)
  BY <1>1, <1>2, <1>3, <1>4, <1>5, <1>6, <1>7, <1>8
<1>10. ASSUME NEW v, IsOr(v)
       PROVE  (Into[x][y] \div v) % 2 = 1 <=> (x \div v) % 2 = 1 \/ (y \div v) % 2 = 1
  BY <1>10, OrBit, Zenon
<1>11. ASSUME NEW v
       PROVE  v \in BitsOf(Into[x][y]) <=> v \in BitsOf(x) \/ v \in BitsOf(y)
  <2>1. CASE v \in {1, 2, 4, 8, 16, 32, 64, 128}
    <3>1. \A b : v \in BitsOf(b) <=> (b \div v) % 2 = 1
      BY <2>1, SMT DEF BitsOf
    <3>2. IsOr(v)
      BY <1>9, <2>1
    <3>3. (Into[x][y] \div v) % 2 = 1 <=> (x \div v) % 2 = 1 \/ (y \div v) % 2 = 1
      BY <1>10, <3>2
    <3> QED
      BY <3>1, <3>3
  <2>2. CASE v \notin {1, 2, 4, 8, 16, 32, 64, 128}
    BY <2>2, SMT DEF BitsOf
  <2> QED
    BY <2>1, <2>2, Zenon
<1> QED
  BY <1>11, Zenon

\* A byte is the sum of its bits.
LEMMA BitsAreByte ==
  ASSUME NEW x \in 0 .. 255, NEW y \in 0 .. 255, BitsOf(x) = BitsOf(y)
  PROVE  x = y
<1>1. \A v \in {1, 2, 4, 8, 16, 32, 64, 128} : (x \div v) % 2 = 1 <=> (y \div v) % 2 = 1
  <2>1. \A v : v \in BitsOf(x) <=> v \in BitsOf(y)
    OBVIOUS
  <2> QED
    BY <2>1, ZenonT(40) DEF BitsOf
<1>2. x \div 128 = y \div 128
  <2>1. (x \div 128) % 2 = 1 <=> (y \div 128) % 2 = 1
    BY <1>1
  <2> QED
    BY <2>1
<1>3. x \div 64 = y \div 64
  <2>1. (x \div 64) % 2 = 1 <=> (y \div 64) % 2 = 1
    BY <1>1
  <2> QED
    BY <1>2, <2>1
<1>4. x \div 32 = y \div 32
  <2>1. (x \div 32) % 2 = 1 <=> (y \div 32) % 2 = 1
    BY <1>1
  <2> QED
    BY <1>3, <2>1
<1>5. x \div 16 = y \div 16
  <2>1. (x \div 16) % 2 = 1 <=> (y \div 16) % 2 = 1
    BY <1>1
  <2> QED
    BY <1>4, <2>1
<1>6. x \div 8 = y \div 8
  <2>1. (x \div 8) % 2 = 1 <=> (y \div 8) % 2 = 1
    BY <1>1
  <2> QED
    BY <1>5, <2>1
<1>7. x \div 4 = y \div 4
  <2>1. (x \div 4) % 2 = 1 <=> (y \div 4) % 2 = 1
    BY <1>1
  <2> QED
    BY <1>6, <2>1
<1>8. x \div 2 = y \div 2
  <2>1. (x \div 2) % 2 = 1 <=> (y \div 2) % 2 = 1
    BY <1>1
  <2> QED
    BY <1>7, <2>1
<1>9. (x \div 1) % 2 = 1 <=> (y \div 1) % 2 = 1
  BY <1>1
<1> QED
  BY <1>8, <1>9

LEMMA NoBitsOfNothing == BitsOf(0) = {}
<1>1. \A v \in {1, 2, 4, 8, 16, 32, 64, 128} : (0 \div v) % 2 = 0
  OBVIOUS
<1> QED
  BY <1>1 DEF BitsOf

-----------------------------------------------------------------------------
(* HexDump: the lines that the programmer keeps.                           *)

WalksTo(sections, lines, k, o) ==
  \E secs, gets : Walks(sections, lines, secs, gets) /\ secs[Len(lines)] = k /\ gets[Len(lines)] = o

\* One line more.
LEMMA WalkGoesOn ==
  ASSUME NEW sections, NEW lines, NEW k, NEW o, WalksTo(sections, lines, k, o),
         NEW line \in DumpLine, NEW k2 \in Nat, NEW o2 \in Nat,
         Follows(sections, line, k, o, k2, o2)
  PROVE  WalksTo(sections, Append(lines, line), k2, o2)
<1>1. PICK secs, gets : Walks(sections, lines, secs, gets)
                        /\ secs[Len(lines)] = k /\ gets[Len(lines)] = o
  BY Zenon DEF WalksTo
<1>2. PICK n \in Nat : n = Len(lines)
  BY <1>1 DEF Walks
<1>3. /\ lines \in Seq(DumpLine) /\ secs[n] = k /\ gets[n] = o
      /\ secs \in [0 .. n -> Nat] /\ gets \in [0 .. n -> Nat] /\ secs[0] = 0 /\ gets[0] = 0
      /\ \A m \in 1 .. n : Follows(sections, lines[m], secs[m - 1], gets[m - 1], secs[m], gets[m])
  BY <1>1, <1>2, Zenon DEF Walks
<1>4. PICK all : all = Append(lines, line)
  OBVIOUS
<1>5. /\ all \in Seq(DumpLine) /\ Len(all) = n + 1 /\ all[n + 1] = line
      /\ \A m \in 1 .. n : all[m] = lines[m]
  BY <1>2, <1>3, <1>4
<1>6. PICK secs2 : secs2 = [m \in 0 .. n + 1 |-> IF m = n + 1 THEN k2 ELSE secs[m]]
  OBVIOUS
<1>7. PICK gets2 : gets2 = [m \in 0 .. n + 1 |-> IF m = n + 1 THEN o2 ELSE gets[m]]
  OBVIOUS
<1>8. /\ secs2 \in [0 .. n + 1 -> Nat] /\ secs2[n + 1] = k2 /\ \A m \in 0 .. n : secs2[m] = secs[m]
  BY <1>3, <1>6
<1>9. /\ gets2 \in [0 .. n + 1 -> Nat] /\ gets2[n + 1] = o2 /\ \A m \in 0 .. n : gets2[m] = gets[m]
  BY <1>3, <1>7
<1>10. ASSUME NEW m \in 1 .. n + 1
       PROVE  Follows(sections, all[m], secs2[m - 1], gets2[m - 1], secs2[m], gets2[m])
  <2>1. CASE m = n + 1
    <3>1. /\ all[m] = line /\ secs2[m] = k2 /\ gets2[m] = o2
          /\ secs2[m - 1] = k /\ gets2[m - 1] = o
      BY <1>3, <1>5, <1>8, <1>9, <2>1
    <3> QED
      BY <3>1, Zenon
  <2>2. CASE m # n + 1
    <3>1. m \in 1 .. n /\ m \in 0 .. n /\ m - 1 \in 0 .. n
      BY <2>2
    <3>2. /\ all[m] = lines[m] /\ secs2[m] = secs[m] /\ gets2[m] = gets[m]
          /\ secs2[m - 1] = secs[m - 1] /\ gets2[m - 1] = gets[m - 1]
      BY <1>5, <1>8, <1>9, <3>1
    <3> QED
      BY <1>3, <3>1, <3>2, Zenon
  <2> QED
    BY <2>1, <2>2
<1>11. secs2[0] = 0 /\ gets2[0] = 0
  <2>1. 0 \in 0 .. n
    OBVIOUS
  <2> QED
    BY <1>3, <1>8, <1>9, <2>1, Zenon
<1>12. Walks(sections, all, secs2, gets2)
  BY <1>5, <1>8, <1>9, <1>10, <1>11, Zenon DEF Walks
<1> QED
  BY <1>4, <1>5, <1>8, <1>9, <1>12, Zenon DEF WalksTo

\* The sections from one on.
FromSection(sections, first) == SubSeq(sections, first, Len(sections))

FirstAtZero(sections, first) ==
  /\ first \in 1 .. Len(sections) /\ sections[first].at = 0
  /\ \A j \in 1 .. first - 1 : sections[j].at # 0

LEMMA FromSectionIs ==
  ASSUME NEW sections \in Seq(Sections), NEW first \in 1 .. Len(sections)
  PROVE  /\ FromSection(sections, first) \in Seq(Sections)
         /\ Len(FromSection(sections, first)) = Len(sections) - first + 1
         /\ \A k \in first .. Len(sections) :
              /\ k - first + 1 \in 1 .. Len(FromSection(sections, first))
              /\ FromSection(sections, first)[k - first + 1] = sections[k]
<1>1. PICK len \in Nat : len = Len(sections)
  OBVIOUS
<1>2. PICK it : it = FromSection(sections, first)
  OBVIOUS
<1>3. IsSlice(it, Sections, sections, first, len)
  <2>1. first \in 1 .. Len(sections) + 1 /\ len \in first - 1 .. Len(sections)
    BY <1>1
  <2> QED
    BY <1>1, <1>2, <2>1, SubSeqIsSlice, Zenon DEF FromSection
<1>4. it \in Seq(Sections) /\ Len(it) = len - first + 1
      /\ \A k \in 1 .. len - first + 1 : it[k] = sections[first + k - 1]
  BY <1>3, Zenon DEF IsSlice
<1>5. ASSUME NEW k \in first .. len
      PROVE  k - first + 1 \in 1 .. len - first + 1 /\ it[k - first + 1] = sections[k]
  <2>1. k - first + 1 \in 1 .. len - first + 1 /\ first + (k - first + 1) - 1 = k
    BY <1>1
  <2> QED
    BY <1>4, <2>1
<1> QED
  BY <1>1, <1>2, <1>4, <1>5

LEMMA FollowsFrom ==
  ASSUME NEW sections \in Seq(Sections), NEW first \in 1 .. Len(sections),
         NEW k \in Nat, k >= first, NEW o \in Nat, NEW k2 \in Nat, NEW o2 \in Nat, NEW line,
         Follows(sections, line, k, o, k2, o2)
  PROVE  Follows(FromSection(sections, first), line, k - first + 1, o, k2 - first + 1, o2)
<1>1. PICK len \in Nat : len = Len(sections)
  OBVIOUS
<1>2. PICK it : it = FromSection(sections, first)
  OBVIOUS
<1>3. /\ it \in Seq(Sections) /\ Len(it) = len - first + 1
      /\ \A n \in first .. len : n - first + 1 \in DOMAIN it /\ it[n - first + 1] = sections[n]
  <2>1. /\ it \in Seq(Sections) /\ Len(it) = len - first + 1
        /\ \A n \in first .. len : n - first + 1 \in 1 .. Len(it) /\ it[n - first + 1] = sections[n]
    BY <1>1, <1>2, FromSectionIs, Zenon
  <2> QED
    BY <2>1
<1>4. DOMAIN sections = 1 .. len
  BY <1>1
<1>5. CASE NextBegins(sections, line, k, o, k2, o2)
  <2>1. k2 = k + 1 /\ o2 = 0 /\ k2 <= len /\ o = Len(sections[k].bytes)
        /\ line = <<"@", sections[k2].at>>
    BY <1>1, <1>5 DEF NextBegins, AllRead
  <2>2. /\ k \in first .. len /\ k2 \in first .. len
        /\ k2 - first + 1 = (k - first + 1) + 1 /\ k2 - first + 1 <= len - first + 1
    BY <2>1
  <2>3. NextBegins(it, line, k - first + 1, o, k2 - first + 1, o2)
    BY <1>3, <2>1, <2>2, Zenon DEF NextBegins, AllRead
  <2> QED
    BY <1>2, <2>3, Zenon DEF Follows
<1>6. CASE BytesFollow(sections, line, k, o, k2, o2)
  <2>1. k2 = k /\ k \in first .. len
    BY <1>4, <1>6 DEF BytesFollow
  <2>2. k - first + 1 \in DOMAIN it /\ it[k - first + 1] = sections[k]
    BY <1>3, <2>1, Zenon
  <2>3. BytesFollow(it, line, k - first + 1, o, k2 - first + 1, o2)
    BY <1>6, <2>1, <2>2, Zenon DEF BytesFollow
  <2> QED
    BY <1>2, <2>3, Zenon DEF Follows
<1>7. CASE Repeats(sections, line, k, o, k2, o2)
  <2>1. k2 = k /\ k \in first .. len
    BY <1>4, <1>7 DEF Repeats
  <2>2. k - first + 1 \in DOMAIN it /\ it[k - first + 1] = sections[k]
    BY <1>3, <2>1, Zenon
  <2>3. Repeats(it, line, k - first + 1, o, k2 - first + 1, o2)
    BY <1>7, <2>1, <2>2, Zenon DEF Repeats
  <2> QED
    BY <1>2, <2>3, Zenon DEF Follows
<1> QED
  BY <1>5, <1>6, <1>7, Zenon DEF Follows

LEMMA WalkBegins ==
  ASSUME NEW sections \in Seq(Sections), NEW first \in 1 .. Len(sections), NEW line \in DumpLine,
         line = <<"@", sections[first].at>>
  PROVE  WalksTo(FromSection(sections, first), <<line>>, 1, 0)
<1>1. PICK it : it = FromSection(sections, first)
  OBVIOUS
<1>2. 1 <= Len(it) /\ it[1] = sections[first]
  <2>1. /\ Len(it) = Len(sections) - first + 1
        /\ it[first - first + 1] = sections[first]
    <3>1. first \in first .. Len(sections)
      BY Len(sections) \in Nat
    <3> QED
      BY <1>1, <3>1, FromSectionIs, Zenon
  <2>2. first - first + 1 = 1 /\ 1 <= Len(sections) - first + 1
    BY Len(sections) \in Nat
  <2> QED
    BY <2>1, <2>2
<1>3. NextBegins(it, line, 0, 0, 1, 0)
  BY <1>2 DEF NextBegins, AllRead
<1>4. WalksTo(it, <<>>, 0, 0)
  <2>1. Walks(it, <<>>, [n \in 0 .. 0 |-> 0], [n \in 0 .. 0 |-> 0])
    BY DEF Walks
  <2> QED
    BY <2>1 DEF WalksTo
<1>5. WalksTo(it, Append(<<>>, line), 1, 0)
  <2>1. Follows(it, line, 0, 0, 1, 0) /\ 1 \in Nat /\ 0 \in Nat
    BY <1>3 DEF Follows
  <2> QED
    BY <1>4, <2>1, WalkGoesOn
<1>6. Append(<<>>, line) = <<line>>
  OBVIOUS
<1> QED
  BY <1>1, <1>5, <1>6

\* The sections that are kept.
LEMMA BegunIs ==
  ASSUME NEW sections \in Seq(Sections), NEW first, FirstAtZero(sections, first)
  PROVE  Begun(sections) = FromSection(sections, first)
<1> DEFINE P(j) == /\ j <= Len(sections) => sections[j].at = 0
                   /\ \A l \in 1 .. j - 1 : sections[l].at # 0
<1>1. /\ first \in 1 .. Len(sections) + 1 /\ first <= Len(sections) /\ sections[first].at = 0
      /\ \A j \in 1 .. first - 1 : sections[j].at # 0
  BY Len(sections) \in Nat DEF FirstAtZero
<1>2. P(first)
  BY <1>1
<1>3. ASSUME NEW j \in 1 .. Len(sections) + 1, P(j)
      PROVE  j = first
  <2>1. ~(j < first)
    <3>1. j < first => j \in 1 .. first - 1 /\ j <= Len(sections)
      BY <1>1, Len(sections) \in Nat
    <3> QED
      BY <1>1, <1>3, <3>1
  <2>2. ~(first < j)
    <3>1. first < j => first \in 1 .. j - 1
      BY <1>1, Len(sections) \in Nat
    <3> QED
      BY <1>1, <1>3, <3>1
  <2> QED
    BY <1>1, <2>1, <2>2, Len(sections) \in Nat
<1>4. (CHOOSE j \in 1 .. Len(sections) + 1 : P(j)) = first
  <2> HIDE DEF P
  <2> QED
    BY <1>1, <1>2, <1>3, Zenon
<1> QED
  BY <1>4, Zenon DEF Begun, FromSection

-----------------------------------------------------------------------------
(* HexDump: what a line adds to the addresses that were read.              *)

InSection(sections, k, o) ==
  /\ k \in 0 .. Len(sections) /\ o \in Nat
  /\ k # 0 => o <= Len(sections[k].bytes)

AddressLine(sections, line, k, o, k2, o2) ==
  /\ line[1] = "@" /\ k2 \in 1 .. Len(sections) /\ o2 = 0 /\ line[2] = sections[k2].at
  /\ \/ k2 = k + 1 /\ AllRead(sections, k, o)
     \/ k2 = k /\ o = 0

BytesLine(sections, line, k, o, k2, o2) ==
  /\ line[1] # "@" /\ k2 = k /\ k \in 1 .. Len(sections)
  /\ o < o2 /\ o2 <= Len(sections[k].bytes) /\ o2 - o <= LINE
  /\ IsSlice(line[2], Nat, sections[k].bytes, o + 1, o2)

LEMMA LineMeans ==
  ASSUME NEW sections \in Seq(Sections), NEW line, NEW k \in Nat, NEW o \in Nat,
         NEW k2 \in Nat, NEW o2 \in Nat, Follows(sections, line, k, o, k2, o2)
  PROVE  AddressLine(sections, line, k, o, k2, o2) \/ BytesLine(sections, line, k, o, k2, o2)
<1>0. DOMAIN sections = 1 .. Len(sections) /\ Len(sections) \in Nat
  OBVIOUS
<1>1. CASE NextBegins(sections, line, k, o, k2, o2)
  <2>1. /\ line = <<"@", sections[k2].at>> /\ k2 = k + 1 /\ o2 = 0 /\ k2 <= Len(sections)
        /\ AllRead(sections, k, o)
    BY <1>1, Zenon DEF NextBegins
  <2>2. line[1] = "@" /\ line[2] = sections[k2].at /\ k2 \in 1 .. Len(sections)
    BY <1>0, <2>1
  <2> QED
    BY <2>1, <2>2, Zenon DEF AddressLine
<1>2. CASE BytesFollow(sections, line, k, o, k2, o2)
  <2>1. PICK bytes : bytes = sections[k].bytes
    OBVIOUS
  <2>2. /\ k2 = k /\ k \in 1 .. Len(sections) /\ o < o2 /\ o2 = Shorter(o + LINE, Len(bytes))
        /\ line = <<"bytes", SubSeq(bytes, o + 1, o2)>>
    BY <1>0, <1>2, <2>1, Zenon DEF BytesFollow
  <2>3. bytes \in Seq(Nat)
    <3>1. sections[k] \in Sections
      BY <1>0, <2>2
    <3> QED
      BY <2>1, <3>1 DEF Sections
  <2>4. PICK len \in Nat : len = Len(bytes)
    BY <2>3
  <2>5. o2 <= len /\ o2 - o <= LINE
    BY <2>2, <2>4, SizesAssumption DEF Shorter
  <2>6. o + 1 \in 1 .. len + 1 /\ o2 \in (o + 1) - 1 .. len
    BY <2>2, <2>5
  <2>7. IsSlice(SubSeq(bytes, o + 1, o2), Nat, bytes, o + 1, o2)
    BY <2>3, <2>4, <2>6, SubSeqIsSlice, Zenon
  <2>8. line[1] = "bytes" /\ line[2] = SubSeq(bytes, o + 1, o2)
    BY <2>2
  <2>9. line[1] # "@"
    BY <2>8
  <2> QED
    BY <2>1, <2>2, <2>4, <2>5, <2>7, <2>8, <2>9, Zenon DEF BytesLine
<1>3. CASE Repeats(sections, line, k, o, k2, o2)
  <2>1. line = <<"@", 0>> /\ sections[k].at = 0 /\ k2 = k /\ o = 0 /\ o2 = 0
        /\ k \in 1 .. Len(sections)
    BY <1>0, <1>3, Zenon DEF Repeats
  <2>2. line[1] = "@" /\ line[2] = sections[k2].at
    BY <2>1
  <2> QED
    BY <2>1, <2>2, Zenon DEF AddressLine
<1> QED
  BY <1>1, <1>2, <1>3, Zenon DEF Follows

\* The j-th section has been read as far as the address.
Covers(sections, k, o, j, addr) ==
  /\ j \in 1 .. k /\ sections[j].at <= addr
  /\ addr < sections[j].at + (IF j = k THEN o ELSE Len(sections[j].bytes))

\* What the line itself covers.
IsNew(sections, line, k, o, o2, addr) ==
  line[1] # "@" /\ sections[k].at + o <= addr /\ addr < sections[k].at + o2

CoversNext(sections, line, k, o, k2, o2) ==
  /\ InSection(sections, k2, o2)
  /\ \A j \in Nat, addr \in Int :
       Covers(sections, k2, o2, j, addr) <=>
         \/ Covers(sections, k, o, j, addr)
         \/ (j = k2 /\ IsNew(sections, line, k, o, o2, addr))

LEMMA LineCovers ==
  ASSUME NEW sections \in Seq(Sections), NEW line, NEW k \in Nat, NEW o \in Nat,
         NEW k2 \in Nat, NEW o2 \in Nat, InSection(sections, k, o),
         Follows(sections, line, k, o, k2, o2)
  PROVE  CoversNext(sections, line, k, o, k2, o2)
<1>0. \A j \in 1 .. Len(sections) : sections[j].at \in Nat /\ Len(sections[j].bytes) \in Nat
  <2> SUFFICES ASSUME NEW j \in 1 .. Len(sections)
               PROVE  sections[j].at \in Nat /\ Len(sections[j].bytes) \in Nat
    OBVIOUS
  <2>1. sections[j] \in Sections
    OBVIOUS
  <2>2. sections[j].at \in Nat /\ sections[j].bytes \in Seq(Nat)
    BY <2>1 DEF Sections
  <2> QED
    BY <2>2
<1>1. k \in 0 .. Len(sections) /\ Len(sections) \in Nat
  BY DEF InSection
<1>2. CASE AddressLine(sections, line, k, o, k2, o2)
  <2>1. /\ line[1] = "@" /\ k2 \in 1 .. Len(sections) /\ o2 = 0
        /\ (k2 = k + 1 /\ (k = 0 \/ o = Len(sections[k].bytes))) \/ (k2 = k /\ o = 0)
    BY <1>2 DEF AddressLine, AllRead
  <2>2. InSection(sections, k2, o2)
    BY <1>0, <2>1 DEF InSection
  <2>3. ASSUME NEW j \in Nat, NEW addr \in Int
        PROVE  Covers(sections, k2, o2, j, addr) <=> Covers(sections, k, o, j, addr)
    <3>1. CASE j = k2
      BY <1>0, <2>1, <3>1 DEF Covers
    <3>2. CASE j # k2
      BY <1>0, <1>1, <2>1, <3>2 DEF Covers
    <3> QED
      BY <3>1, <3>2
  <2> QED
    BY <2>1, <2>2, <2>3, Zenon DEF CoversNext, IsNew
<1>3. CASE BytesLine(sections, line, k, o, k2, o2)
  <2>1. /\ line[1] # "@" /\ k2 = k /\ k \in 1 .. Len(sections) /\ o < o2
        /\ o2 <= Len(sections[k].bytes)
    BY <1>3 DEF BytesLine
  <2>2. InSection(sections, k2, o2)
    BY <2>1 DEF InSection
  <2>3. ASSUME NEW j \in Nat, NEW addr \in Int
        PROVE  Covers(sections, k2, o2, j, addr) <=>
                 \/ Covers(sections, k, o, j, addr)
                 \/ (j = k2 /\ sections[k].at + o <= addr /\ addr < sections[k].at + o2)
    <3>1. CASE j = k2
      BY <1>0, <2>1, <3>1 DEF Covers
    <3>2. CASE j # k2
      BY <2>1, <3>2 DEF Covers
    <3> QED
      BY <3>1, <3>2
  <2> QED
    BY <2>1, <2>2, <2>3, Zenon DEF CoversNext, IsNew
<1> QED
  BY <1>2, <1>3, LineMeans

\* Of the bytes at an address that were read, the last; nothing is 0.
Holds(sections, k, o, addr, v) ==
  \/ (\A j \in 1 .. k : ~Covers(sections, k, o, j, addr)) /\ v = 0
  \/ \E j \in 1 .. k : /\ Covers(sections, k, o, j, addr)
                       /\ \A l \in j + 1 .. k : ~Covers(sections, k, o, l, addr)
                       /\ v = sections[j].bytes[addr - sections[j].at + 1]

LEMMA OldHolds ==
  ASSUME NEW sections, NEW line, NEW k \in Nat, NEW o, NEW k2 \in Nat, NEW o2,
         CoversNext(sections, line, k, o, k2, o2), k2 = k \/ k2 = k + 1,
         NEW addr \in Int, ~IsNew(sections, line, k, o, o2, addr),
         NEW v, Holds(sections, k, o, addr, v)
  PROVE  Holds(sections, k2, o2, addr, v)
<1>1. \A j \in Nat : Covers(sections, k2, o2, j, addr) <=> Covers(sections, k, o, j, addr)
  BY Zenon DEF CoversNext
<1>2. \A j \in Nat : Covers(sections, k, o, j, addr) => j \in 1 .. k
  BY Zenon DEF Covers
<1>3. 1 .. k \subseteq 1 .. k2 /\ 1 .. k2 \subseteq Nat
  OBVIOUS
<1>4. CASE (\A j \in 1 .. k : ~Covers(sections, k, o, j, addr)) /\ v = 0
  <2>1. \A j \in 1 .. k2 : ~Covers(sections, k2, o2, j, addr)
    BY <1>1, <1>2, <1>3, <1>4, Zenon
  <2> QED
    BY <1>4, <2>1, Zenon DEF Holds
<1>5. ASSUME NEW j \in 1 .. k, Covers(sections, k, o, j, addr),
             \A l \in j + 1 .. k : ~Covers(sections, k, o, l, addr),
             v = sections[j].bytes[addr - sections[j].at + 1]
      PROVE  Holds(sections, k2, o2, addr, v)
  <2>1. j \in 1 .. k2 /\ j \in Nat
    BY <1>3
  <2>2. \A l \in j + 1 .. k2 : ~Covers(sections, k2, o2, l, addr)
    <3> SUFFICES ASSUME NEW l \in j + 1 .. k2, Covers(sections, k2, o2, l, addr)
                 PROVE  FALSE
      OBVIOUS
    <3>1. l \in Nat
      OBVIOUS
    <3>2. Covers(sections, k, o, l, addr) /\ l \in 1 .. k
      BY <1>1, <1>2, <3>1, Zenon
    <3>3. l \in j + 1 .. k
      BY <3>2
    <3> QED
      BY <1>5, <3>2, <3>3, Zenon
  <2> QED
    BY <1>1, <1>5, <2>1, <2>2, Zenon DEF Holds
<1> QED
  BY <1>4, <1>5, Zenon DEF Holds

\* The byte of a line at an address.
NewByte(sections, line, k, o, addr) ==
  line[2][addr - (sections[k].at + o) + 1] = sections[k].bytes[addr - sections[k].at + 1]

LEMMA NewHolds ==
  ASSUME NEW sections \in Seq(Sections), NEW line, NEW k \in Nat, NEW o \in Nat,
         NEW k2 \in Nat, NEW o2 \in Nat,
         CoversNext(sections, line, k, o, k2, o2), BytesLine(sections, line, k, o, k2, o2),
         NEW addr \in Int, IsNew(sections, line, k, o, o2, addr)
  PROVE  /\ addr - (sections[k].at + o) + 1 \in 1 .. Len(line[2])
         /\ Holds(sections, k2, o2, addr, line[2][addr - (sections[k].at + o) + 1])
         /\ NewByte(sections, line, k, o, addr)
<1>1. /\ k2 = k /\ k \in 1 .. Len(sections) /\ o < o2 /\ o2 <= Len(sections[k].bytes)
      /\ IsSlice(line[2], Nat, sections[k].bytes, o + 1, o2)
  BY DEF BytesLine
<1>2. sections[k].at \in Nat
  <2>1. sections[k] \in Sections
    BY <1>1
  <2> QED
    BY <2>1 DEF Sections
<1>3. PICK from \in Nat : from = sections[k].at
  BY <1>2
<1>4. from + o <= addr /\ addr < from + o2
  BY <1>3 DEF IsNew
<1>5. PICK n : n = addr - (from + o) + 1
  OBVIOUS
<1>6. /\ n \in 1 .. o2 - (o + 1) + 1 /\ (o + 1) + n - 1 = addr - from + 1
  BY <1>4, <1>5
<1>7. Len(line[2]) = o2 - (o + 1) + 1 /\ line[2][n] = sections[k].bytes[(o + 1) + n - 1]
  BY <1>1, <1>6, Zenon DEF IsSlice
<1>8. line[2][n] = sections[k].bytes[addr - from + 1]
  BY <1>6, <1>7
<1>9. Covers(sections, k2, o2, k2, addr)
  BY <1>1, Zenon DEF CoversNext
<1>10. Holds(sections, k2, o2, addr, line[2][n])
  <2>1. k2 \in 1 .. k2 /\ \A l \in k2 + 1 .. k2 : FALSE
    BY <1>1
  <2> QED
    BY <1>1, <1>3, <1>8, <1>9, <2>1, Zenon DEF Holds
<1> QED
  BY <1>3, <1>5, <1>6, <1>7, <1>8, <1>10, Zenon DEF NewByte

-----------------------------------------------------------------------------
(* HexDump: what all lines together say.                                   *)

LEMMA SectionsAre ==
  ASSUME NEW sections \in Seq(Sections), NEW j \in 1 .. Len(sections)
  PROVE  /\ sections[j].at \in Nat /\ sections[j].bytes \in Seq(Nat)
         /\ Len(sections[j].bytes) \in Nat
<1>1. sections[j] \in Sections
  OBVIOUS
<1>2. sections[j].at \in Nat /\ sections[j].bytes \in Seq(Nat)
  BY <1>1 DEF Sections
<1> QED
  BY <1>2

Has(sections, j, addr) ==
  j \in DOMAIN sections /\ addr \in sections[j].at .. Ends(sections[j]) - 1

AllCovers(sections, o) ==
  \A j \in Nat, addr \in Int :
    Covers(sections, Len(sections), o, j, addr) <=> Has(sections, j, addr)

LEMMA AllCovered ==
  ASSUME NEW sections \in Seq(Sections), NEW o \in Nat, AllRead(sections, Len(sections), o)
  PROVE  AllCovers(sections, o)
<1> SUFFICES ASSUME NEW j \in Nat, NEW addr \in Int
             PROVE  Covers(sections, Len(sections), o, j, addr) <=> Has(sections, j, addr)
  BY Zenon DEF AllCovers
<1>1. PICK len \in Nat : len = Len(sections)
  OBVIOUS
<1>2. DOMAIN sections = 1 .. len
  BY <1>1
<1>3. CASE j \in 1 .. len
  <2>1. PICK from \in Nat : from = sections[j].at
    BY <1>1, <1>3, SectionsAre
  <2>2. PICK size \in Nat : size = Len(sections[j].bytes)
    BY <1>1, <1>3, SectionsAre
  <2>3. j = len => o = size
    BY <1>1, <1>3, <2>2 DEF AllRead
  <2>4. Covers(sections, Len(sections), o, j, addr)
          <=> from <= addr /\ addr < from + (IF j = len THEN o ELSE size)
    BY <1>1, <1>3, <2>1, <2>2, Zenon DEF Covers
  <2>5. Has(sections, j, addr) <=> addr \in from .. (from + size) - 1
    BY <1>2, <1>3, <2>1, <2>2, Zenon DEF Has, Ends
  <2>6. (from <= addr /\ addr < from + (IF j = len THEN o ELSE size))
          <=> addr \in from .. (from + size) - 1
    BY <2>3
  <2> QED
    BY <2>4, <2>5, <2>6, Zenon
<1>4. CASE j \notin 1 .. len
  BY <1>1, <1>2, <1>4, Zenon DEF Covers, Has
<1> QED
  BY <1>3, <1>4

\* Of the sections behind one.
LEMMA HaveBehind ==
  ASSUME NEW sections \in Seq(Sections), NEW j \in DOMAIN sections, NEW addr
  PROVE  HasByte(SubSeq(sections, j + 1, Len(sections)), addr)
           <=> \E l \in j + 1 .. Len(sections) : Has(sections, l, addr)
<1>1. PICK len \in Nat : len = Len(sections)
  OBVIOUS
<1>2. PICK it : it = SubSeq(sections, j + 1, len)
  OBVIOUS
<1>3. j \in 1 .. len /\ DOMAIN sections = 1 .. len
  BY <1>1
<1>4. IsSlice(it, Sections, sections, j + 1, len)
  <2>1. j + 1 \in 1 .. len + 1 /\ len \in (j + 1) - 1 .. len
    BY <1>3
  <2> QED
    BY <1>1, <1>2, <2>1, SubSeqIsSlice, Zenon
<1>5. /\ DOMAIN it = 1 .. len - j
      /\ \A n \in 1 .. len - j : it[n] = sections[j + n]
  <2>1. len - (j + 1) + 1 = len - j /\ \A n \in 1 .. len - j : (j + 1) + n - 1 = j + n
    BY <1>3
  <2>2. it \in Seq(Sections) /\ Len(it) = len - j /\ \A n \in 1 .. len - j : it[n] = sections[j + n]
    BY <1>4, <2>1, Zenon DEF IsSlice
  <2> QED
    BY <2>2
<1>6. ASSUME NEW n \in DOMAIN it, addr \in it[n].at .. Ends(it[n]) - 1
      PROVE  \E l \in j + 1 .. len : Has(sections, l, addr)
  <2>1. j + n \in j + 1 .. len /\ j + n \in DOMAIN sections /\ it[n] = sections[j + n]
    BY <1>3, <1>5
  <2> QED
    BY <1>6, <2>1, Zenon DEF Has
<1>7. ASSUME NEW l \in j + 1 .. len, Has(sections, l, addr)
      PROVE  \E n \in DOMAIN it : addr \in it[n].at .. Ends(it[n]) - 1
  <2>1. l - j \in DOMAIN it /\ it[l - j] = sections[l]
    <3>1. l - j \in 1 .. len - j /\ j + (l - j) = l
      BY <1>3
    <3> QED
      BY <1>5, <3>1
  <2> QED
    BY <1>7, <2>1, Zenon DEF Has
<1> QED
  BY <1>1, <1>2, <1>6, <1>7, Zenon DEF HasByte

LEMMA AllReadIs ==
  ASSUME NEW sections \in Seq(Sections), NEW o \in Nat, AllRead(sections, Len(sections), o),
         NEW addr \in Int, NEW v, Holds(sections, Len(sections), o, addr, v)
  PROVE  v = IF HasByte(sections, addr) THEN ByteAt(sections, addr) ELSE 0
<1>1. PICK len \in Nat : len = Len(sections)
  OBVIOUS
<1>2. DOMAIN sections = 1 .. len
  BY <1>1
<1>3. \A j \in Nat : Covers(sections, len, o, j, addr) <=> Has(sections, j, addr)
  BY <1>1, AllCovered, Zenon DEF AllCovers
<1>4. HasByte(sections, addr) <=> \E j \in 1 .. len : Has(sections, j, addr)
  BY <1>2, Zenon DEF HasByte, Has
<1>5. 1 .. len \subseteq Nat
  OBVIOUS
<1>6. CASE (\A j \in 1 .. len : ~Covers(sections, len, o, j, addr)) /\ v = 0
  BY <1>3, <1>4, <1>5, <1>6, Zenon
<1>7. ASSUME NEW j \in 1 .. len, Covers(sections, len, o, j, addr),
             \A l \in j + 1 .. len : ~Covers(sections, len, o, l, addr),
             v = sections[j].bytes[addr - sections[j].at + 1]
      PROVE  v = IF HasByte(sections, addr) THEN ByteAt(sections, addr) ELSE 0
  <2> DEFINE P(n) == /\ addr \in sections[n].at .. Ends(sections[n]) - 1
                     /\ ~HasByte(SubSeq(sections, n + 1, Len(sections)), addr)
  <2>1. Has(sections, j, addr) /\ j \in DOMAIN sections
    BY <1>2, <1>3, <1>5, <1>7, Zenon
  <2>2. \A l \in j + 1 .. len : ~Has(sections, l, addr)
    <3>1. j + 1 .. len \subseteq Nat
      OBVIOUS
    <3> QED
      BY <1>3, <1>7, <3>1, Zenon
  <2>3. P(j)
    BY <1>1, <2>1, <2>2, HaveBehind, Zenon DEF Has
  <2>4. ASSUME NEW n \in DOMAIN sections, P(n)
        PROVE  n = j
    <3>1. Has(sections, n, addr)
      BY <2>4, Zenon DEF Has
    <3>2. \A l \in n + 1 .. len : ~Has(sections, l, addr)
      BY <1>1, <2>4, HaveBehind, Zenon
    <3>3. n \notin j + 1 .. len /\ j \notin n + 1 .. len
      BY <2>1, <2>2, <3>1, <3>2, Zenon
    <3> QED
      BY <1>2, <3>3
  <2>5. (CHOOSE n \in DOMAIN sections : P(n)) = j
    <3> HIDE DEF P
    <3> QED
      BY <2>1, <2>3, <2>4, Zenon
  <2>6. ByteAt(sections, addr) = v
    BY <1>7, <2>5, Zenon DEF ByteAt
  <2> QED
    BY <1>4, <2>1, <2>6, Zenon
<1> QED
  BY <1>1, <1>6, <1>7, Zenon DEF Holds

\* The last of a section's bytes is covered.
LEMMA LastIsCovered ==
  ASSUME NEW sections \in Seq(Sections), NEW o \in Nat, AllRead(sections, Len(sections), o),
         NEW j \in DOMAIN sections, sections[j].bytes # <<>>
  PROVE  /\ Ends(sections[j]) - 1 \in Nat
         /\ Covers(sections, Len(sections), o, j, Ends(sections[j]) - 1)
<1>1. j \in 1 .. Len(sections) /\ j \in Nat
  OBVIOUS
<1>2. sections[j].at \in Nat /\ sections[j].bytes \in Seq(Nat)
  BY <1>1, SectionsAre
<1>3. PICK size \in Nat : size = Len(sections[j].bytes) /\ size # 0
  <2>1. PICK bytes \in Seq(Nat) : bytes = sections[j].bytes
    BY <1>2
  <2>2. Len(bytes) \in Nat /\ Len(bytes) # 0
    BY <2>1, EmptySeq
  <2> QED
    BY <2>1, <2>2
<1>4. /\ Ends(sections[j]) - 1 \in Nat
      /\ Ends(sections[j]) - 1 \in sections[j].at .. Ends(sections[j]) - 1
  <2>1. PICK from \in Nat : from = sections[j].at
    BY <1>2
  <2>2. Ends(sections[j]) - 1 = (from + size) - 1
    BY <1>3, <2>1, Zenon DEF Ends
  <2>3. (from + size) - 1 \in Nat /\ (from + size) - 1 \in from .. (from + size) - 1
    BY <1>3
  <2> QED
    BY <2>1, <2>2, <2>3, Zenon
<1>5. Ends(sections[j]) - 1 \in Int
  BY <1>4
<1>6. Has(sections, j, Ends(sections[j]) - 1)
  BY <1>4, Zenon DEF Has
<1> QED
  BY <1>1, <1>4, <1>5, <1>6, AllCovered, Zenon DEF AllCovers

\* If sections do not overlap there is one byte at an address that has any.
LEMMA AloneAt ==
  ASSUME NEW sections \in Seq(Sections), ~Overlap(sections), NEW addr \in Int,
         HasByte(sections, addr)
  PROVE  BytesAt(sections, addr) = {ByteAt(sections, addr)}
<1> DEFINE P(n) == /\ addr \in sections[n].at .. Ends(sections[n]) - 1
                   /\ ~HasByte(SubSeq(sections, n + 1, Len(sections)), addr)
<1>1. PICK j \in DOMAIN sections : Has(sections, j, addr)
  BY Zenon DEF HasByte, Has
<1>2. \A n \in DOMAIN sections : Has(sections, n, addr) => n = j
  BY <1>1, Zenon DEF Overlap, Has
<1>3. j + 1 .. Len(sections) \subseteq DOMAIN sections /\ j \notin j + 1 .. Len(sections)
  OBVIOUS
<1>4. \A l \in j + 1 .. Len(sections) : ~Has(sections, l, addr)
  BY <1>2, <1>3, Zenon
<1>5. P(j)
  BY <1>1, <1>4, HaveBehind, Zenon DEF Has
<1>6. \A n \in DOMAIN sections : P(n) => n = j
  BY <1>2, Zenon DEF Has
<1>7. (CHOOSE n \in DOMAIN sections : P(n)) = j
  <2> HIDE DEF P
  <2> QED
    BY <1>1, <1>5, <1>6, Zenon
<1>8. ByteAt(sections, addr) = sections[j].bytes[addr - sections[j].at + 1]
  BY <1>7, Zenon DEF ByteAt
<1>9. \A n \in DOMAIN sections : addr \in sections[n].at .. Ends(sections[n]) - 1 <=> n = j
  BY <1>1, <1>2, Zenon DEF Has
<1> QED
  BY <1>1, <1>8, <1>9, Zenon DEF BytesAt

-----------------------------------------------------------------------------
(* HexDump: the lines of a dump of one section.                            *)

\* lines: an address of 0, and behind it the bytes, all but the last line LINE of them.
OneFile(lines, size) ==
  \E n \in Nat :
    /\ Len(lines) = n + 1 /\ lines[1] = <<"@", 0>>
    /\ \A k \in 1 .. n : lines[k + 1][1] = "bytes"
    /\ n = 0 => size = 0
    /\ n # 0 => LINE * (n - 1) < size /\ size <= LINE * n
    /\ n > 1 => Len(lines[n][2]) = LINE

LEMMA OneMoreFull ==
  ASSUME NEW m \in Nat
  PROVE  LINE * m \in Nat /\ LINE * (m + 1) = LINE * m + LINE
BY SizesAssumption

LEMMA NotTheLast ==
  ASSUME NEW m \in Nat, NEW size \in Nat, NEW b \in Nat, NEW c \in Nat,
         b = Shorter(m + LINE, size), b < c, c = Shorter(b + LINE, size)
  PROVE  b = m + LINE
BY SizesAssumption DEF Shorter

\* All lines but the last are full.
LEMMA FullLines ==
  ASSUME NEW size \in Nat, NEW n \in Nat, NEW ends \in [0 .. n -> Nat],
         ends[0] = 0, ends[n] = size,
         \A k \in 1 .. n : ends[k - 1] < ends[k] /\ ends[k] = Shorter(ends[k - 1] + LINE, size)
  PROVE  \A k \in Nat : k < n => ends[k] = LINE * k
<1> DEFINE S == {k \in Nat : k < n => ends[k] = LINE * k}
<1>0. LINE \in Nat
  BY SizesAssumption
<1>1. 0 \in S
  BY <1>0
<1>2. ASSUME NEW k \in Nat, k \in S
      PROVE  k + 1 \in S
  <2> SUFFICES ASSUME k + 1 < n
               PROVE  ends[k + 1] = LINE * (k + 1)
    OBVIOUS
  <2>1. ends[k] = LINE * k
    BY <1>2
  <2>2. k + 1 \in 1 .. n /\ k + 2 \in 1 .. n /\ (k + 1) - 1 = k /\ (k + 2) - 1 = k + 1
    OBVIOUS
  <2>3. PICK b \in Nat : b = ends[k + 1]
    BY <2>2
  <2>4. PICK c \in Nat : c = ends[k + 2]
    BY <2>2
  <2>5. b = Shorter(ends[k] + LINE, size)
    BY <2>2, <2>3
  <2>6. b < c /\ c = Shorter(b + LINE, size)
    BY <2>2, <2>3, <2>4
  <2>7. LINE * k \in Nat /\ LINE * (k + 1) = LINE * k + LINE
    BY OneMoreFull
  <2>8. b = LINE * k + LINE
    BY <2>1, <2>5, <2>6, <2>7, NotTheLast
  <2> QED
    BY <2>3, <2>7, <2>8, Zenon
<1> HIDE DEF S
<1>3. Nat \subseteq S
  BY <1>1, <1>2, Induction
<1> QED
  BY <1>3 DEF S

LEMMA OneSectionFile ==
  ASSUME NEW sections \in Seq(Sections), Len(sections) = 1, sections[1].at = 0
  PROVE  OneFile(FileOf[sections], Len(sections[1].bytes))
<1>1. 1 \in 1 .. Len(sections) /\ sections # <<>>
  OBVIOUS
<1>2. PICK bytes \in Seq(Nat) : bytes = sections[1].bytes
  BY <1>1, SectionsAre
<1>3. PICK own, ends : own = LinesOf[bytes] /\ AreLinesOf(bytes, own, ends)
  BY <1>2, BytesHaveLines DEF HasLines
<1>4. PICK n \in Nat : n = Len(own)
  BY <1>3 DEF AreLinesOf
<1>5. PICK size \in Nat : size = Len(bytes)
  OBVIOUS
<1>6. /\ own \in Seq(DumpLine) /\ ends \in [0 .. n -> Nat] /\ ends[0] = 0 /\ ends[n] = size
      /\ \A k \in 1 .. n :
           /\ ends[k - 1] < ends[k] /\ ends[k] = Shorter(ends[k - 1] + LINE, size)
           /\ own[k] = <<"bytes", SubSeq(bytes, ends[k - 1] + 1, ends[k])>>
  BY <1>3, <1>4, <1>5, Zenon DEF AreLinesOf
<1>7. PICK lines : lines = FileOf[sections]
  OBVIOUS
<1>8. lines = << <<"@", 0>> >> \o own \o <<>>
  <2>1. Head(sections) = sections[1] /\ Tail(sections) = <<>>
    <3>1. Tail(sections) \in Seq(Sections) /\ Len(Tail(sections)) = 0 /\ Head(sections) = sections[1]
      BY <1>1, HeadTailProperties
    <3> QED
      BY <3>1, EmptySeq
  <2>2. /\ FileOf[sections] = FileWith(FileOf, sections)
        /\ FileOf[<<>>] = FileWith(FileOf, <<>>)
    <3>1. <<>> \in Seq(Sections)
      OBVIOUS
    <3>2. \A it \in Seq(Sections) : FileOf[it] = FileWith(FileOf, it)
      BY FileOfIs, Zenon
    <3> QED
      BY <3>1, <3>2, Zenon
  <2>3. FileOf[<<>>] = <<>>
    BY <2>2, Zenon DEF FileWith
  <2> QED
    BY <1>1, <1>2, <1>3, <1>7, <2>1, <2>2, <2>3, Zenon DEF FileWith
<1>9. /\ Len(lines) = n + 1 /\ lines[1] = <<"@", 0>>
      /\ \A k \in 1 .. n : lines[k + 1] = own[k]
  <2>1. PICK line : line = <<"@", 0>>
    OBVIOUS
  <2>2. line \in DumpLine
    BY <2>1 DEF DumpLine
  <2> QED
    BY <1>4, <1>6, <1>8, <2>1, <2>2
<1>10. LINE \in Nat /\ LINE # 0
  BY SizesAssumption
<1>11. \A k \in Nat : k < n => ends[k] = LINE * k
  <2>1. \A k \in 1 .. n : ends[k - 1] < ends[k] /\ ends[k] = Shorter(ends[k - 1] + LINE, size)
    BY <1>6, Zenon
  <2> QED
    BY <1>6, <2>1, FullLines
<1>12. n = 0 => size = 0
  BY <1>6
<1>13. ASSUME n # 0
       PROVE  LINE * (n - 1) < size /\ size <= LINE * n
  <2>1. n - 1 \in Nat /\ n - 1 < n /\ n \in 1 .. n
    BY <1>13
  <2>2. ends[n - 1] = LINE * (n - 1) /\ ends[n - 1] < size
        /\ size = Shorter(ends[n - 1] + LINE, size)
    BY <1>6, <1>11, <2>1
  <2>3. LINE * (n - 1) \in Nat /\ LINE * n = LINE * (n - 1) + LINE
    <3>1. (n - 1) + 1 = n
      OBVIOUS
    <3> QED
      BY <2>1, <3>1, OneMoreFull, Zenon
  <2> QED
    BY <1>10, <2>2, <2>3 DEF Shorter
<1>14. ASSUME n > 1
       PROVE  Len(lines[n][2]) = LINE
  <2>1. n - 1 \in 1 .. n /\ (n - 1) - 1 = n - 2 /\ n - 2 \in Nat /\ n - 2 < n /\ n - 1 < n
        /\ (n - 1) + 1 = n /\ n - 1 \in Nat
    BY <1>14
  <2>2. lines[n] = own[n - 1]
    BY <1>9, <2>1
  <2>3. ends[n - 1] = LINE * (n - 1) /\ ends[n - 2] = LINE * (n - 2)
    BY <1>11, <2>1
  <2>4. own[n - 1] = <<"bytes", SubSeq(bytes, ends[n - 2] + 1, ends[n - 1])>>
    BY <1>6, <2>1
  <2>5. PICK b \in Nat : b = ends[n - 1]
    BY <1>6, <2>1
  <2>6. PICK c \in Nat : c = ends[n - 2]
    BY <1>6, <2>1
  <2>7. b = c + LINE
    <3>1. (n - 2) + 1 = n - 1
      OBVIOUS
    <3>2. LINE * (n - 1) = LINE * (n - 2) + LINE
      BY <2>1, <3>1, OneMoreFull, Zenon
    <3> QED
      BY <2>3, <2>5, <2>6, <3>2, Zenon
  <2>8. b <= size
    <3>1. b = Shorter(ends[(n - 1) - 1] + LINE, size)
      BY <1>6, <2>1, <2>5, Zenon
    <3>2. ends[(n - 1) - 1] = c
      BY <2>1, <2>6
    <3> QED
      BY <1>10, <3>1, <3>2 DEF Shorter
  <2>9. IsSlice(SubSeq(bytes, c + 1, b), Nat, bytes, c + 1, b)
    <3>1. c + 1 \in 1 .. Len(bytes) + 1 /\ b \in (c + 1) - 1 .. Len(bytes)
      BY <1>5, <1>10, <2>7, <2>8
    <3> QED
      BY <3>1, SubSeqIsSlice, Zenon
  <2>10. Len(SubSeq(bytes, c + 1, b)) = b - (c + 1) + 1
    BY <2>9, Zenon DEF IsSlice
  <2>11. b - (c + 1) + 1 = LINE
    BY <1>10, <2>7
  <2>12. lines[n][2] = SubSeq(bytes, c + 1, b)
    <3>1. PICK part : part = SubSeq(bytes, c + 1, b)
      OBVIOUS
    <3>2. lines[n] = <<"bytes", part>>
      BY <2>2, <2>4, <2>5, <2>6, <3>1, Zenon
    <3>3. lines[n][2] = part
      BY <3>2
    <3> QED
      BY <3>1, <3>3, Zenon
  <2> QED
    BY <2>10, <2>11, <2>12, Zenon
<1>15. ASSUME NEW k \in 1 .. n
       PROVE  lines[k + 1][1] = "bytes"
  <2>1. lines[k + 1] = <<"bytes", SubSeq(bytes, ends[k - 1] + 1, ends[k])>>
    BY <1>6, <1>9, Zenon
  <2> QED
    BY <2>1
<1>16. OneFile(lines, size)
  BY <1>9, <1>12, <1>13, <1>14, <1>15, Zenon DEF OneFile
<1> QED
  BY <1>2, <1>5, <1>7, <1>16, Zenon

-----------------------------------------------------------------------------
(* HexDump: a line that is put into the program, or into the memory.       *)

\* What stands at the addresses that a line is not for.
KeepsOthers(sections, line, k, o, k2, o2) ==
  \A addr \in Int : \A v :
    ~IsNew(sections, line, k, o, o2, addr) /\ Holds(sections, k, o, addr, v)
      => Holds(sections, k2, o2, addr, v)

LEMMA OthersAreKept ==
  ASSUME NEW sections, NEW line, NEW k \in Nat, NEW o, NEW k2 \in Nat, NEW o2,
         CoversNext(sections, line, k, o, k2, o2), k2 = k \/ k2 = k + 1
  PROVE  KeepsOthers(sections, line, k, o, k2, o2)
<1> SUFFICES ASSUME NEW addr \in Int, NEW v, ~IsNew(sections, line, k, o, o2, addr),
                    Holds(sections, k, o, addr, v)
             PROVE  Holds(sections, k2, o2, addr, v)
  BY Zenon DEF KeepsOthers
<1> QED
  BY OldHolds

\* What was read is in the list, and nothing else.
Listed(sections, list, k, o) ==
  /\ \A n \in DOMAIN list : Holds(sections, k, o, n - 1, list[n])
  /\ \A j \in Nat, addr \in Int : Covers(sections, k, o, j, addr) => addr < Len(list)

LEMMA AddressIsListed ==
  ASSUME NEW sections, NEW line, NEW k \in Nat, NEW o, NEW k2 \in Nat, NEW o2,
         CoversNext(sections, line, k, o, k2, o2), AddressLine(sections, line, k, o, k2, o2),
         NEW list \in Seq(Nat), Listed(sections, list, k, o)
  PROVE  Listed(sections, list, k2, o2)
<1>1. k2 = k \/ k2 = k + 1
  BY Zenon DEF AddressLine
<1>2. \A addr : ~IsNew(sections, line, k, o, o2, addr)
  BY Zenon DEF AddressLine, IsNew
<1>3. \A n \in DOMAIN list : n - 1 \in Int
  OBVIOUS
<1>4. KeepsOthers(sections, line, k, o, k2, o2)
  BY <1>1, OthersAreKept
<1>5. \A n \in DOMAIN list : Holds(sections, k2, o2, n - 1, list[n])
  BY <1>2, <1>3, <1>4, Zenon DEF Listed, KeepsOthers
<1>6. \A j \in Nat, addr \in Int : Covers(sections, k2, o2, j, addr) => Covers(sections, k, o, j, addr)
  BY <1>2, Zenon DEF CoversNext
<1> QED
  BY <1>5, <1>6, Zenon DEF Listed

\* A line's place is in the list.
HasPlace(sections, line, list, k, o, pos) ==
  pos = sections[k].at + o /\ pos + Len(line[2]) <= Len(list)

LEMMA BytesAreListed ==
  ASSUME NEW sections \in Seq(Sections), NEW line, NEW k \in Nat, NEW o \in Nat,
         NEW k2 \in Nat, NEW o2 \in Nat,
         CoversNext(sections, line, k, o, k2, o2), BytesLine(sections, line, k, o, k2, o2),
         NEW list \in Seq(Nat), Listed(sections, list, k, o),
         NEW pos \in Nat, HasPlace(sections, line, list, k, o, pos)
  PROVE  Listed(sections, Put(list, pos, line[2]), k2, o2)
<1>1. PICK len \in Nat : len = Len(list)
  OBVIOUS
<1>2. PICK put : put = Put(list, pos, line[2])
  OBVIOUS
<1>3. k2 = k /\ k \in 1 .. Len(sections)
  BY Zenon DEF BytesLine
<1>4. PICK from \in Nat : from = sections[k].at
  BY <1>3, SectionsAre
<1>5. PICK size \in Nat : size = Len(line[2]) /\ size = o2 - o
  <2>1. /\ line[2] \in Seq(Nat) /\ Len(line[2]) = o2 - (o + 1) + 1
    BY Zenon DEF BytesLine, IsSlice
  <2> QED
    BY <2>1
<1>6. /\ DOMAIN put = 1 .. len /\ Len(put) = len /\ DOMAIN list = 1 .. len
      /\ \A n \in 1 .. len : put[n] = IF n - 1 \in pos .. (pos + size) - 1
                                        THEN line[2][n - pos] ELSE list[n]
  <2>1. PICK part : part = line[2]
    OBVIOUS
  <2>2. put = [n \in DOMAIN list |-> IF n - 1 \in pos .. pos + Len(part) - 1
                                       THEN part[n - pos] ELSE list[n]]
    BY <1>2, <2>1, Zenon DEF Put
  <2>3. DOMAIN put = 1 .. len /\ DOMAIN list = 1 .. len
    BY <1>1, <2>2
  <2>4. Len(put) = len
    BY <2>3
  <2>5. pos + Len(part) - 1 = (pos + size) - 1
    <3>1. Len(part) = size
      BY <1>5, <2>1, Zenon
    <3>2. pos + size - 1 = (pos + size) - 1
      OBVIOUS
    <3> QED
      BY <3>1, <3>2, Zenon
  <2> QED
    BY <2>1, <2>2, <2>3, <2>4, <2>5, Zenon
<1>7. pos = from + o /\ pos + size <= len
  BY <1>1, <1>4, <1>5, Zenon DEF HasPlace
<1>8. \A addr \in Int : IsNew(sections, line, k, o, o2, addr) <=> addr \in pos .. (pos + size) - 1
  <2>1. line[1] # "@"
    BY Zenon DEF BytesLine
  <2> SUFFICES ASSUME NEW addr \in Int
               PROVE  IsNew(sections, line, k, o, o2, addr) <=> addr \in pos .. (pos + size) - 1
    OBVIOUS
  <2>2. IsNew(sections, line, k, o, o2, addr) <=> from + o <= addr /\ addr < from + o2
    BY <1>4, <2>1, Zenon DEF IsNew
  <2> QED
    BY <1>5, <1>7, <2>2
<1>9. ASSUME NEW n \in 1 .. len
      PROVE  Holds(sections, k2, o2, n - 1, put[n])
  <2>1. PICK addr \in Int : addr = n - 1
    OBVIOUS
  <2>2. CASE IsNew(sections, line, k, o, o2, addr)
    <3>1. put[n] = line[2][n - pos]
      BY <1>6, <1>8, <2>1, <2>2
    <3>2. Holds(sections, k2, o2, addr, line[2][addr - (sections[k].at + o) + 1])
      BY <2>2, NewHolds
    <3>3. addr - (sections[k].at + o) + 1 = n - pos
      <4>1. addr - pos + 1 = n - pos
        BY <1>7, <2>1
      <4> QED
        BY <1>4, <1>7, <4>1, Zenon
    <3> QED
      BY <2>1, <3>1, <3>2, <3>3, Zenon
  <2>3. CASE ~IsNew(sections, line, k, o, o2, addr)
    <3>1. put[n] = list[n]
      BY <1>6, <1>8, <2>1, <2>3
    <3>2. Holds(sections, k, o, addr, list[n])
      BY <1>6, <2>1, Zenon DEF Listed
    <3>3. KeepsOthers(sections, line, k, o, k2, o2)
      BY <1>3, OthersAreKept
    <3> QED
      BY <2>1, <2>3, <3>1, <3>2, <3>3, Zenon DEF KeepsOthers
  <2> QED
    BY <2>2, <2>3
<1>10. ASSUME NEW j \in Nat, NEW addr \in Int, Covers(sections, k2, o2, j, addr)
       PROVE  addr < len
  <2>1. CASE Covers(sections, k, o, j, addr)
    BY <1>1, <2>1, Zenon DEF Listed
  <2>2. CASE IsNew(sections, line, k, o, o2, addr)
    <3>1. addr \in pos .. (pos + size) - 1
      BY <1>8, <2>2
    <3> QED
      BY <1>7, <3>1
  <2> QED
    BY <1>10, <2>1, <2>2, Zenon DEF CoversNext
<1> QED
  BY <1>2, <1>6, <1>9, <1>10, Zenon DEF Listed

\* A line's bytes are at one address and at the one MEMSIZE below.
Upper(here, cell) == here + cell
Lower(here, cell)  == here + cell - MEMSIZE

\* A bit of the bytes at an address that were read.
ReadWith(sections, k, o, addr, v) ==
  \E j \in Nat : /\ Covers(sections, k, o, j, addr)
                 /\ v \in BitsOf(sections[j].bytes[addr - sections[j].at + 1])

\* The memory has the bits of what was read of the two addresses, and no others.
InMemory(sections, here, mem, k, o) ==
  \A cell \in 0 .. MEMSIZE - 1 : \A v :
    v \in BitsOf(mem[cell])
      <=> \/ ReadWith(sections, k, o, Upper(here, cell), v)
          \/ ReadWith(sections, k, o, Lower(here, cell), v)

LEMMA AddressInMemory ==
  ASSUME NEW sections, NEW line, NEW k \in Nat, NEW o, NEW k2 \in Nat, NEW o2,
         CoversNext(sections, line, k, o, k2, o2), AddressLine(sections, line, k, o, k2, o2),
         NEW here \in Nat, NEW mem, InMemory(sections, here, mem, k, o)
  PROVE  InMemory(sections, here, mem, k2, o2)
<1>1. \A addr : ~IsNew(sections, line, k, o, o2, addr)
  BY Zenon DEF AddressLine, IsNew
<1>2. \A j \in Nat, addr \in Int :
        Covers(sections, k2, o2, j, addr) <=> Covers(sections, k, o, j, addr)
  BY <1>1, Zenon DEF CoversNext
<1>3. \A addr \in Int : \A v :
        ReadWith(sections, k2, o2, addr, v) <=> ReadWith(sections, k, o, addr, v)
  BY <1>2, Zenon DEF ReadWith
<1>4. ASSUME NEW cell \in 0 .. MEMSIZE - 1
      PROVE  Upper(here, cell) \in Int /\ Lower(here, cell) \in Int
  BY SizesAssumption DEF Upper, Lower
<1> QED
  BY <1>3, <1>4, Zenon DEF InMemory

\* The byte of a line that comes to an address of the memory.
Puts(line, pos, cell) == {n \in 1 .. Len(line[2]) : Index(pos + n - 1) = cell}

GoesTo(from, o, here, cell) ==
  \A n \in Nat :
    Index((from - here + o) + n - 1) = cell
      <=> n = Upper(here, cell) - (from + o) + 1 \/ n = Lower(here, cell) - (from + o) + 1

LEMMA WhereItGoes ==
  ASSUME NEW from \in Nat, NEW o \in Nat, NEW here \in Nat, NEW cell \in 0 .. MEMSIZE - 1
  PROVE  GoesTo(from, o, here, cell)
<1> SUFFICES ASSUME NEW n \in Nat
             PROVE  Index((from - here + o) + n - 1) = cell
                      <=> \/ n = Upper(here, cell) - (from + o) + 1
                          \/ n = Lower(here, cell) - (from + o) + 1
  BY Zenon DEF GoesTo
<1>1. MEMSIZE \in Nat
  BY SizesAssumption
<1>2. PICK x \in Int : x = (from - here + o) + n - 1
  OBVIOUS
<1>3. Index(x) = cell <=> x = cell \/ x = cell - MEMSIZE
  BY <1>1 DEF Index
<1>4. x = cell <=> n = Upper(here, cell) - (from + o) + 1
  BY <1>1, <1>2 DEF Upper
<1>5. x = cell - MEMSIZE <=> n = Lower(here, cell) - (from + o) + 1
  BY <1>1, <1>2 DEF Lower
<1> QED
  BY <1>2, <1>3, <1>4, <1>5, Zenon

Chosen(line, from, o, one, two) ==
  {n \in 1 .. Len(line[2]) : n = one - (from + o) + 1 \/ n = two - (from + o) + 1}

PutsChosen(line, from, o, here, cell) ==
  Puts(line, from - here + o, cell) = Chosen(line, from, o, Upper(here, cell), Lower(here, cell))

LEMMA WhatIsPut ==
  ASSUME NEW from \in Nat, NEW o \in Nat, NEW here \in Nat, NEW line,
         NEW cell \in 0 .. MEMSIZE - 1
  PROVE  PutsChosen(line, from, o, here, cell)
<1>1. \A n \in 1 .. Len(line[2]) : n \in Nat
  OBVIOUS
<1>2. GoesTo(from, o, here, cell)
  BY WhereItGoes
<1> QED
  BY <1>1, <1>2, Zenon DEF Puts, GoesTo, Chosen, PutsChosen

\* What a line's bytes make of what was at an address of the memory.
MadeOf(line, puts, old, new) ==
  /\ puts = {} => new = old
  /\ \A n : puts = {n} => new = Into[old][line[2][n]]

LEMMA NewIsChosen ==
  ASSUME NEW sections \in Seq(Sections), NEW line, NEW k \in Nat, NEW o \in Nat,
         NEW k2 \in Nat, NEW o2 \in Nat, BytesLine(sections, line, k, o, k2, o2),
         NEW addr \in Int
  PROVE  /\ sections[k].at \in Nat
         /\ IsNew(sections, line, k, o, o2, addr)
              <=> addr - (sections[k].at + o) + 1 \in 1 .. Len(line[2])
<1>1. k \in 1 .. Len(sections) /\ line[1] # "@"
  BY Zenon DEF BytesLine
<1>2. PICK from \in Nat : from = sections[k].at
  BY <1>1, SectionsAre
<1>3. PICK size \in Nat : size = Len(line[2]) /\ size = o2 - o
  <2>1. /\ line[2] \in Seq(Nat) /\ Len(line[2]) = o2 - (o + 1) + 1
    BY Zenon DEF BytesLine, IsSlice
  <2> QED
    BY <2>1
<1>4. IsNew(sections, line, k, o, o2, addr) <=> from + o <= addr /\ addr < from + o2
  BY <1>1, <1>2, Zenon DEF IsNew
<1>5. size = o2 - o
  BY <1>3
<1>6. addr - (from + o) + 1 \in 1 .. size <=> from + o <= addr /\ addr < from + o2
  BY <1>5
<1> QED
  BY <1>2, <1>3, <1>4, <1>6, Zenon

\* The bytes of a line are bytes.
ByteLine(line) == \A n \in 1 .. Len(line[2]) : line[2][n] \in 0 .. 255

HasBytes(line, o, o2) ==
  ByteLine(line) /\ line[2] \in Seq(Nat) /\ Len(line[2]) = o2 - o

\* The bits that a line adds at an address.
AddsAt(line, from, o, addr, v) ==
  addr - (from + o) + 1 \in 1 .. Len(line[2]) /\ v \in BitsOf(line[2][addr - (from + o) + 1])

LEMMA LineReads ==
  ASSUME NEW sections \in Seq(Sections), NEW line, NEW k \in Nat, NEW o \in Nat,
         NEW k2 \in Nat, NEW o2 \in Nat,
         CoversNext(sections, line, k, o, k2, o2), BytesLine(sections, line, k, o, k2, o2),
         NEW addr \in Int, NEW v
  PROVE  ReadWith(sections, k2, o2, addr, v)
           <=> ReadWith(sections, k, o, addr, v) \/ AddsAt(line, sections[k].at, o, addr, v)
<1>1. k2 = k
  BY Zenon DEF BytesLine
<1>2. \A j \in Nat : Covers(sections, k2, o2, j, addr)
                       <=> \/ Covers(sections, k, o, j, addr)
                           \/ j = k /\ IsNew(sections, line, k, o, o2, addr)
  BY <1>1, Zenon DEF CoversNext
<1>3. IsNew(sections, line, k, o, o2, addr)
        <=> addr - (sections[k].at + o) + 1 \in 1 .. Len(line[2])
  BY NewIsChosen
<1>4. ASSUME IsNew(sections, line, k, o, o2, addr)
      PROVE  line[2][addr - (sections[k].at + o) + 1] = sections[k].bytes[addr - sections[k].at + 1]
  <2>1. NewByte(sections, line, k, o, addr)
    BY <1>4, NewHolds
  <2> QED
    BY <2>1, Zenon DEF NewByte
<1>5. IsNew(sections, line, k, o, o2, addr)
        /\ v \in BitsOf(sections[k].bytes[addr - sections[k].at + 1])
      <=> AddsAt(line, sections[k].at, o, addr, v)
  BY <1>3, <1>4, Zenon DEF AddsAt
<1> QED
  BY <1>2, <1>5, Zenon DEF ReadWith

\* The memory behind a line.
Merged(mem, line, pos) ==
  [cell \in 0 .. MEMSIZE - 1 |->
     IF \E n \in 1 .. Len(line[2]) : Index(pos + n - 1) = cell
       THEN Into[mem[cell]][line[2][CHOOSE n \in 1 .. Len(line[2]) : Index(pos + n - 1) = cell]]
       ELSE mem[cell]]

LEMMA MergedIsMade ==
  ASSUME NEW mem, NEW line, NEW pos, NEW cell \in 0 .. MEMSIZE - 1
  PROVE  MadeOf(line, Puts(line, pos, cell), mem[cell], Merged(mem, line, pos)[cell])
<1>1. PICK new : new = Merged(mem, line, pos)[cell]
  OBVIOUS
<1>2. PICK puts : puts = Puts(line, pos, cell)
  OBVIOUS
<1>3. new = IF \E n \in 1 .. Len(line[2]) : Index(pos + n - 1) = cell
              THEN Into[mem[cell]][line[2][CHOOSE n \in 1 .. Len(line[2]) : Index(pos + n - 1) = cell]]
              ELSE mem[cell]
  BY <1>1, Zenon DEF Merged
<1>4. \A n : n \in puts <=> n \in 1 .. Len(line[2]) /\ Index(pos + n - 1) = cell
  BY <1>2, Zenon DEF Puts
<1>5. ASSUME puts = {}
      PROVE  new = mem[cell]
  BY <1>3, <1>4, <1>5, Zenon
<1>6. ASSUME NEW n, puts = {n}
      PROVE  new = Into[mem[cell]][line[2][n]]
  <2>1. \A m \in 1 .. Len(line[2]) : Index(pos + m - 1) = cell <=> m = n
    BY <1>4, <1>6, Zenon
  <2>2. n \in 1 .. Len(line[2]) /\ Index(pos + n - 1) = cell
    BY <1>4, <1>6, Zenon
  <2>3. (CHOOSE m \in 1 .. Len(line[2]) : Index(pos + m - 1) = cell) = n
    BY <2>1, <2>2, Zenon
  <2> QED
    BY <1>3, <2>2, <2>3, Zenon
<1> QED
  BY <1>1, <1>2, <1>5, <1>6, Zenon DEF MadeOf

\* No more than one byte of a line comes to one of the memory.
LEMMA MadeOfBits ==
  ASSUME NEW line, ByteLine(line), NEW len \in Nat, len = Len(line[2]), len <= MEMSIZE,
         NEW from \in Nat, NEW o \in Nat, NEW high \in Int, NEW low \in Int, low = high - MEMSIZE,
         NEW old \in 0 .. 255, NEW new, MadeOf(line, Chosen(line, from, o, high, low), old, new),
         NEW v
  PROVE  v \in BitsOf(new)
           <=> v \in BitsOf(old) \/ AddsAt(line, from, o, high, v) \/ AddsAt(line, from, o, low, v)
<1>1. PICK n \in Int : n = high - (from + o) + 1
  OBVIOUS
<1>2. PICK m \in Int : m = low - (from + o) + 1
  OBVIOUS
<1>3. ~(n \in 1 .. len /\ m \in 1 .. len) /\ (n = m => n \notin 1 .. len)
  BY <1>1, <1>2, SizesAssumption
<1>4. Chosen(line, from, o, high, low) = {w \in 1 .. len : w = n \/ w = m}
  BY <1>1, <1>2, Zenon DEF Chosen
<1>5. /\ AddsAt(line, from, o, high, v) <=> n \in 1 .. len /\ v \in BitsOf(line[2][n])
      /\ AddsAt(line, from, o, low, v) <=> m \in 1 .. len /\ v \in BitsOf(line[2][m])
  BY <1>1, <1>2, Zenon DEF AddsAt
<1>6. ASSUME NEW w \in 1 .. len, Chosen(line, from, o, high, low) = {w}
      PROVE  v \in BitsOf(new) <=> v \in BitsOf(old) \/ v \in BitsOf(line[2][w])
  <2>1. new = Into[old][line[2][w]]
    BY <1>6, Zenon DEF MadeOf
  <2>2. line[2][w] \in 0 .. 255
    BY <1>6, Zenon DEF ByteLine
  <2>3. BitsOf(new) = BitsOf(old) \cup BitsOf(line[2][w])
    BY <2>1, <2>2, BitsOfOr
  <2> QED
    BY <2>3, Zenon
<1>7. CASE n \in 1 .. len
  <2>1. Chosen(line, from, o, high, low) = {n}
    BY <1>3, <1>4, <1>7, Zenon
  <2> QED
    BY <1>3, <1>5, <1>6, <1>7, <2>1, Zenon
<1>8. CASE m \in 1 .. len
  <2>1. Chosen(line, from, o, high, low) = {m}
    BY <1>3, <1>4, <1>8, Zenon
  <2> QED
    BY <1>3, <1>5, <1>6, <1>8, <2>1, Zenon
<1>9. CASE n \notin 1 .. len /\ m \notin 1 .. len
  <2>1. Chosen(line, from, o, high, low) = {}
    BY <1>4, <1>9, Zenon
  <2>2. new = old
    BY <2>1, Zenon DEF MadeOf
  <2> QED
    BY <1>5, <1>9, <2>2, Zenon
<1> QED
  BY <1>7, <1>8, <1>9

LEMMA BytesInMemory ==
  ASSUME NEW sections \in Seq(Sections), NEW line, NEW k \in Nat, NEW o \in Nat,
         NEW k2 \in Nat, NEW o2 \in Nat,
         CoversNext(sections, line, k, o, k2, o2), BytesLine(sections, line, k, o, k2, o2),
         HasBytes(line, o, o2), NEW here \in Nat,
         NEW mem \in [0 .. MEMSIZE - 1 -> 0 .. 255], InMemory(sections, here, mem, k, o),
         NEW pos, pos = sections[k].at - here + o
  PROVE  InMemory(sections, here, Merged(mem, line, pos), k2, o2)
<1>1. PICK from \in Nat : from = sections[k].at
  BY NewIsChosen, 0 \in Int
<1> SUFFICES ASSUME NEW cell \in 0 .. MEMSIZE - 1, NEW v
             PROVE  v \in BitsOf(Merged(mem, line, pos)[cell])
                      <=> \/ ReadWith(sections, k2, o2, Upper(here, cell), v)
                          \/ ReadWith(sections, k2, o2, Lower(here, cell), v)
  BY Zenon DEF InMemory
<1>2. PICK high \in Int : high = Upper(here, cell)
  BY SizesAssumption DEF Upper
<1>3. PICK low \in Int : low = Lower(here, cell) /\ low = high - MEMSIZE
  BY <1>2, SizesAssumption DEF Upper, Lower
<1>4. PICK old \in 0 .. 255 : old = mem[cell]
  BY Zenon
<1>5. PICK new : new = Merged(mem, line, pos)[cell]
  OBVIOUS
<1>6. Puts(line, pos, cell) = Chosen(line, from, o, high, low)
  <2>1. PutsChosen(line, from, o, here, cell)
    BY WhatIsPut
  <2>2. pos = from - here + o
    BY <1>1, Zenon
  <2> QED
    BY <1>2, <1>3, <2>1, <2>2, Zenon DEF PutsChosen
<1>7. MadeOf(line, Chosen(line, from, o, high, low), old, new)
  BY <1>4, <1>5, <1>6, MergedIsMade, Zenon
<1>8. PICK len \in Nat : len = Len(line[2]) /\ len <= MEMSIZE
  <2>1. ByteLine(line) /\ Len(line[2]) = o2 - o /\ o < o2 /\ o2 - o <= LINE
    BY Zenon DEF HasBytes, BytesLine
  <2> QED
    BY <2>1, SizesAssumption
<1>9. v \in BitsOf(new)
        <=> v \in BitsOf(old) \/ AddsAt(line, from, o, high, v) \/ AddsAt(line, from, o, low, v)
  <2>1. ByteLine(line)
    BY Zenon DEF HasBytes
  <2> QED
    BY <1>3, <1>7, <1>8, <2>1, MadeOfBits, ZenonT(40)
<1>10. v \in BitsOf(old)
         <=> ReadWith(sections, k, o, high, v) \/ ReadWith(sections, k, o, low, v)
  BY <1>2, <1>3, <1>4, Zenon DEF InMemory
<1>11. /\ ReadWith(sections, k2, o2, high, v)
            <=> ReadWith(sections, k, o, high, v) \/ AddsAt(line, from, o, high, v)
       /\ ReadWith(sections, k2, o2, low, v)
            <=> ReadWith(sections, k, o, low, v) \/ AddsAt(line, from, o, low, v)
  BY <1>1, LineReads
<1> QED
  BY <1>2, <1>3, <1>5, <1>9, <1>10, <1>11, Zenon

\* A memory of bytes stays one.
LEMMA MergedIsBytes ==
  ASSUME NEW mem \in [0 .. MEMSIZE - 1 -> 0 .. 255], NEW line, NEW pos,
         \A n \in 1 .. Len(line[2]) : line[2][n] \in 0 .. 255
  PROVE  Merged(mem, line, pos) \in [0 .. MEMSIZE - 1 -> 0 .. 255]
<1>1. ASSUME NEW cell \in 0 .. MEMSIZE - 1
      PROVE  Merged(mem, line, pos)[cell] \in 0 .. 255
  <2>1. PICK new : new = Merged(mem, line, pos)[cell]
    OBVIOUS
  <2>2. new = IF \E n \in 1 .. Len(line[2]) : Index(pos + n - 1) = cell
                THEN Into[mem[cell]][line[2][CHOOSE n \in 1 .. Len(line[2]) : Index(pos + n - 1) = cell]]
                ELSE mem[cell]
    BY <2>1, Zenon DEF Merged
  <2>3. mem[cell] \in 0 .. 255
    BY Zenon
  <2>4. CASE \E n \in 1 .. Len(line[2]) : Index(pos + n - 1) = cell
    <3>1. PICK b : b = line[2][CHOOSE n \in 1 .. Len(line[2]) : Index(pos + n - 1) = cell]
      OBVIOUS
    <3>2. b \in 0 .. 255
      BY <2>4, <3>1, Zenon
    <3>3. Into[mem[cell]][b] \in 0 .. 255
      BY <2>3, <3>2, IntoIsByte, Zenon
    <3> QED
      BY <2>1, <2>2, <2>4, <3>1, <3>3, Zenon
  <2>5. CASE ~\E n \in 1 .. Len(line[2]) : Index(pos + n - 1) = cell
    BY <2>1, <2>2, <2>3, <2>5, Zenon
  <2> QED
    BY <2>4, <2>5
<1>2. Merged(mem, line, pos) = [cell \in 0 .. MEMSIZE - 1 |-> Merged(mem, line, pos)[cell]]
  BY Zenon DEF Merged
<1> QED
  BY <1>1, <1>2, Zenon

-----------------------------------------------------------------------------
(* HexDump: how far one is in the lines.                                   *)

Where(sections, lines, n, k, o) ==
  \E secs, gets : ToTheEnd(sections, lines, secs, gets) /\ k = secs[n] /\ o = gets[n]

NextIs(sections, lines, n, k, o) ==
  /\ lines[n + 1] \in DumpLine /\ k \in Nat /\ o \in Nat
  /\ \E k2, o2 \in Nat : /\ Where(sections, lines, n + 1, k2, o2)
                         /\ Follows(sections, lines[n + 1], k, o, k2, o2)

LEMMA NextLine ==
  ASSUME NEW sections, NEW lines, NEW n \in Nat, n < Len(lines), NEW k, NEW o,
         Where(sections, lines, n, k, o)
  PROVE  NextIs(sections, lines, n, k, o)
<1>1. PICK secs, gets : ToTheEnd(sections, lines, secs, gets) /\ k = secs[n] /\ o = gets[n]
  BY Zenon DEF Where
<1>2. PICK len \in Nat : len = Len(lines)
  BY <1>1 DEF ToTheEnd, Walks
<1>3. /\ lines \in Seq(DumpLine) /\ secs \in [0 .. len -> Nat] /\ gets \in [0 .. len -> Nat]
      /\ \A m \in 1 .. len : Follows(sections, lines[m], secs[m - 1], gets[m - 1], secs[m], gets[m])
  BY <1>1, <1>2, Zenon DEF ToTheEnd, Walks
<1>4. n \in 0 .. len /\ n + 1 \in 0 .. len /\ n + 1 \in 1 .. len /\ (n + 1) - 1 = n
  BY <1>2
<1>5. lines[n + 1] \in DumpLine
  BY <1>2, <1>3, <1>4
<1>6. secs[n] \in Nat /\ gets[n] \in Nat /\ secs[n + 1] \in Nat /\ gets[n + 1] \in Nat
  BY <1>3, <1>4
<1>7. Follows(sections, lines[n + 1], secs[n], gets[n], secs[n + 1], gets[n + 1])
  BY <1>3, <1>4, Zenon
<1> QED
  BY <1>1, <1>5, <1>6, <1>7, Zenon DEF NextIs, Where

LEMMA LastLine ==
  ASSUME NEW sections, NEW lines, NEW k, NEW o, Where(sections, lines, Len(lines), k, o)
  PROVE  k = Len(sections) /\ o \in Nat /\ AllRead(sections, k, o)
<1>1. PICK secs, gets : ToTheEnd(sections, lines, secs, gets)
                        /\ k = secs[Len(lines)] /\ o = gets[Len(lines)]
  BY Zenon DEF Where
<1>2. PICK len \in Nat : len = Len(lines)
  BY <1>1 DEF ToTheEnd, Walks
<1>3. gets \in [0 .. len -> Nat] /\ len \in 0 .. len
  BY <1>1, <1>2 DEF ToTheEnd, Walks
<1> QED
  BY <1>1, <1>2, <1>3, Zenon DEF ToTheEnd

LEMMA FirstLineComes ==
  ASSUME NEW sections, NEW lines, IsWalked(sections, lines)
  PROVE  Where(sections, lines, 0, 0, 0) /\ lines \in Seq(DumpLine)
<1>1. PICK secs, gets : ToTheEnd(sections, lines, secs, gets)
  BY Zenon DEF IsWalked
<1> QED
  BY <1>1, Zenon DEF Where, ToTheEnd, Walks

LEMMA WalkEnds ==
  ASSUME NEW sections, NEW lines, NEW o, WalksTo(sections, lines, Len(sections), o),
         AllRead(sections, Len(sections), o)
  PROVE  IsWalked(sections, lines)
BY Zenon DEF WalksTo, IsWalked, ToTheEnd

\* Bytes are bytes.
ByteSections(sections) ==
  \A j \in 1 .. Len(sections) : \A n \in 1 .. Len(sections[j].bytes) : sections[j].bytes[n] <= 255

LEMMA LineHasBytes ==
  ASSUME NEW sections \in Seq(Sections), ByteSections(sections), NEW line, NEW k \in Nat,
         NEW o \in Nat, NEW k2 \in Nat, NEW o2 \in Nat, BytesLine(sections, line, k, o, k2, o2)
  PROVE  HasBytes(line, o, o2)
<1>1. /\ k \in 1 .. Len(sections) /\ o2 <= Len(sections[k].bytes)
      /\ IsSlice(line[2], Nat, sections[k].bytes, o + 1, o2)
  BY Zenon DEF BytesLine
<1>2. PICK bytes \in Seq(Nat) : bytes = sections[k].bytes
  BY <1>1, SectionsAre
<1>3. PICK part \in Seq(Nat) : part = line[2]
  BY <1>1, Zenon DEF IsSlice
<1>4. /\ Len(part) = o2 - (o + 1) + 1
      /\ \A it \in 1 .. o2 - (o + 1) + 1 : part[it] = bytes[o + 1 + it - 1]
  BY <1>1, <1>2, <1>3, Zenon DEF IsSlice
<1>5. Len(part) = o2 - o /\ \A it \in 1 .. o2 - o : part[it] = bytes[o + it]
  <2>1. o2 - (o + 1) + 1 = o2 - o /\ \A it \in 1 .. o2 - o : o + 1 + it - 1 = o + it
    OBVIOUS
  <2> QED
    BY <1>4, <2>1, Zenon
<1>6. PICK size \in Nat : size = Len(bytes)
  OBVIOUS
<1>7. o2 <= size /\ \A n \in 1 .. size : bytes[n] <= 255 /\ bytes[n] \in Nat
  <2>1. \A n \in 1 .. size : bytes[n] \in Nat
    BY <1>6, ElementOfSeq
  <2> QED
    BY <1>1, <1>2, <1>6, <2>1, Zenon DEF ByteSections
<1>8. ASSUME NEW n \in 1 .. o2 - o
      PROVE  part[n] \in 0 .. 255
  <2>1. o + n \in 1 .. size
    BY <1>7
  <2>2. PICK b \in Nat : b = bytes[o + n] /\ b <= 255
    BY <1>7, <2>1, Zenon
  <2>3. part[n] = b
    BY <1>5, <2>2, Zenon
  <2>4. b <= 255
    BY <2>2, Zenon
  <2>5. b \in 0 .. 255
    BY <2>4
  <2> QED
    BY <2>3, <2>5, Zenon
<1> QED
  BY <1>3, <1>5, <1>8, Zenon DEF HasBytes, ByteLine

LEMMA KeptHaveBytes ==
  ASSUME NEW sections \in Seq(Sections), ByteSections(sections), NEW first \in 1 .. Len(sections)
  PROVE  ByteSections(FromSection(sections, first))
<1>1. PICK len \in Nat : len = Len(sections)
  OBVIOUS
<1>2. PICK it : it = FromSection(sections, first)
  OBVIOUS
<1>3. /\ Len(it) = len - first + 1
      /\ \A k \in first .. len : it[k - first + 1] = sections[k]
  BY <1>1, <1>2, FromSectionIs, Zenon
<1>4. ASSUME NEW j \in 1 .. Len(it)
      PROVE  j + first - 1 \in 1 .. len /\ it[j] = sections[j + first - 1]
  <2>1. j + first - 1 \in first .. len /\ (j + first - 1) - first + 1 = j
    BY <1>1, <1>3
  <2>2. j + first - 1 \in 1 .. len
    BY <2>1
  <2> QED
    BY <1>3, <2>1, <2>2, Zenon
<1>5. ByteSections(it)
  <2> SUFFICES ASSUME NEW j \in 1 .. Len(it), NEW n \in 1 .. Len(it[j].bytes)
               PROVE  it[j].bytes[n] <= 255
    BY Zenon DEF ByteSections
  <2>1. j + first - 1 \in 1 .. len /\ it[j] = sections[j + first - 1]
    BY <1>4, Zenon
  <2>2. n \in 1 .. Len(sections[j + first - 1].bytes)
    BY <2>1, Zenon
  <2> QED
    BY <1>1, <2>1, <2>2, Zenon DEF ByteSections
<1> QED
  BY <1>2, <1>5, Zenon

-----------------------------------------------------------------------------
(* HexDump: the invariant.                                                 *)

Empty == [cell \in 0 .. MEMSIZE - 1 |-> 0]

Finished == programmer \in {"parsed", "IndexError"}

DumpTypes ==
  /\ dump \in Seq(Sections) /\ ByteSections(dump) /\ base \in Nat
  /\ programmer \in {"collect", "parse", "parsed", "IndexError"}
  /\ converter \in {"convert", "written", "IndexError"}
  /\ at \in Nat /\ plinecount \in Nat /\ plinecount <= Len(lprog)
  /\ lprog \in Seq(DumpLine) /\ Len(lprog) <= 2 * Len(file)
  /\ prog \in Seq(Nat) /\ \A n \in 1 .. Len(prog) : prog[n] \in 0 .. 255
  /\ membuf \in [0 .. MEMSIZE - 1 -> 0 .. 255]

Stages ==
  /\ programmer = "collect" => at <= Len(file) /\ Len(lprog) <= 2 * at /\ wp = 0
  /\ programmer = "parse" => at <= Len(lprog)
  /\ Finished => at <= Len(file)
  /\ ~Finished => converter = "convert" /\ membuf = Empty

\* The lines from the first address of 0 on.
KeptSoFar(k, o) ==
  IF lprog = <<>> THEN \A j \in 1 .. k : dump[j].at # 0
  ELSE \E first \in Nat : /\ FirstAtZero(dump, first) /\ first <= k
                          /\ WalksTo(FromSection(dump, first), lprog, k - first + 1, o)

CollectInv ==
  programmer = "collect" => \E k, o \in Nat : Where(dump, file, at, k, o) /\ KeptSoFar(k, o)

Located(sections, k, o, from, pos) ==
  InSection(sections, k, o) /\ pos = IF k = 0 THEN 0 ELSE sections[k].at - from + o

Parsed(sections, k, o) ==
  /\ Where(sections, lprog, at, k, o)
  /\ Located(sections, k, o, 0, wp) /\ Listed(sections, prog, k, o)

ParseInv ==
  programmer = "parse" =>
    /\ Begun(dump) \in Seq(Sections) /\ ByteSections(Begun(dump))
    /\ \E k, o \in Nat : Parsed(Begun(dump), k, o)

\* Of a dump of one section at 0.
LengthFits(n, size) ==
  IF size > LINE THEN n - size \in 0 .. LINE - 1 ELSE n = IF size = 0 THEN 0 ELSE 1

LengthRight(size) == LengthFits(Len(prog), size)

ProgramRight(size) ==
  IF size > LINE THEN programmer = "parsed" /\ Len(prog) - size \in 0 .. LINE - 1
  ELSE programmer = "IndexError" <=> size > 1

OneSection == Len(dump) = 1 /\ dump[1].at = 0

OneCollected(lines, all, count, n) ==
  /\ Len(lines) = n /\ \A m \in 1 .. n : lines[m] = all[m]
  /\ count = IF n = 0 THEN 0 ELSE n - 1

OneInv ==
  OneSection =>
    /\ programmer = "collect" => OneCollected(lprog, file, plinecount, at)
    /\ programmer = "parse" => LengthRight(Len(dump[1].bytes))
    /\ Finished => ProgramRight(Len(dump[1].bytes))

Converted(k, o) ==
  /\ Where(dump, file, at, k, o) /\ Located(dump, k, o, base, wp)
  /\ InMemory(dump, base, membuf, k, o)

ConvertInv == Finished /\ converter = "convert" => \E k, o \in Nat : Converted(k, o)

DumpInv ==
  /\ DumpTypes /\ Stages /\ CollectInv /\ ParseInv /\ ParsedIsDump /\ OneInv
  /\ ConvertInv /\ ConvertedIsDump

\* What the invariant says of the lines of the file.
LEMMA FileIs ==
  ASSUME dump \in Seq(Sections)
  PROVE  Where(dump, file, 0, 0, 0) /\ file \in Seq(DumpLine)
<1>1. IsWalked(dump, file)
  BY FileIsWalked, Zenon DEF file
<1> QED
  BY <1>1, FirstLineComes

LEMMA NothingIsCovered ==
  ASSUME NEW sections, NEW list, \A n \in DOMAIN list : list[n] = 0
  PROVE  Listed(sections, list, 0, 0)
<1>1. 1 .. 0 = {}
  OBVIOUS
<1>2. \A j \in Nat, addr \in Int : ~Covers(sections, 0, 0, j, addr)
  BY <1>1, Zenon DEF Covers
<1>3. \A n \in DOMAIN list : Holds(sections, 0, 0, n - 1, list[n])
  BY <1>1, Zenon DEF Holds
<1> QED
  BY <1>2, <1>3, Zenon DEF Listed

LEMMA NothingInMemory ==
  ASSUME NEW sections, NEW here
  PROVE  InMemory(sections, here, Empty, 0, 0)
<1>1. 1 .. 0 = {}
  OBVIOUS
<1>2. \A cell \in 0 .. MEMSIZE - 1 : BitsOf(Empty[cell]) = {}
  BY NoBitsOfNothing, Zenon DEF Empty
<1>3. \A addr, v : ~ReadWith(sections, 0, 0, addr, v)
  BY <1>1, Zenon DEF ReadWith, Covers
<1> QED
  BY <1>2, <1>3, Zenon DEF InMemory

LEMMA AtTheBegin ==
  ASSUME NEW sections \in Seq(Sections), NEW from
  PROVE  Located(sections, 0, 0, from, 0)
BY DEF Located, InSection

LEMMA InitDump == DumpInit => DumpInv
<1> SUFFICES ASSUME DumpInit PROVE DumpInv
  OBVIOUS
<1> USE DEF DumpInit, NothingRead
<1>1. dump \in Seq(Sections) /\ ByteSections(dump) /\ base \in Nat
  <2>1. dump \in Dumps /\ base \in Bases
    OBVIOUS
  <2>2. dump \in Seq(Sections) /\ base \in Nat
    BY <2>1, DumpsAssumption
  <2>3. ByteSections(dump)
    <3> SUFFICES ASSUME NEW j \in 1 .. Len(dump), NEW n \in 1 .. Len(dump[j].bytes)
                 PROVE  dump[j].bytes[n] <= 255
      BY Zenon DEF ByteSections
    <3>1. PICK bytes \in Seq(Nat) : bytes = dump[j].bytes
      BY <2>2, SectionsAre
    <3>2. j \in DOMAIN dump /\ n \in DOMAIN bytes
      BY <2>2, <3>1
    <3> QED
      BY <2>1, <3>1, <3>2, DumpsAssumption, Zenon
  <2> QED
    BY <2>2, <2>3
<1>2. Where(dump, file, 0, 0, 0) /\ file \in Seq(DumpLine)
  BY <1>1, FileIs
<1>3. PICK len \in Nat : len = Len(file)
  BY <1>2
<1>4. DumpTypes
  <2>1. <<>> \in Seq(DumpLine) /\ Len(<<>>) = 0 /\ 0 <= 2 * len /\ <<>> \in Seq(Nat) /\ 1 .. 0 = {}
    OBVIOUS
  <2>2. Empty \in [0 .. MEMSIZE - 1 -> 0 .. 255]
    BY DEF Empty
  <2>3. 0 \in Nat /\ 0 <= 0
    OBVIOUS
  <2> QED
    BY <1>1, <1>3, <2>1, <2>2, <2>3, Zenon DEF DumpTypes, Empty
<1>5. Stages
  <2>1. 0 <= len /\ Len(<<>>) = 0 /\ 0 <= 2 * 0
    OBVIOUS
  <2> QED
    BY <1>3, <2>1 DEF Stages, Finished, Empty
<1>6. CollectInv
  <2>1. KeptSoFar(0, 0)
    <3>1. 1 .. 0 = {}
      OBVIOUS
    <3> QED
      BY <3>1, Zenon DEF KeptSoFar
  <2>2. 0 \in Nat
    OBVIOUS
  <2> QED
    BY <1>2, <2>1, <2>2, Zenon DEF CollectInv
<1>7. OneInv
  <2>1. Len(<<>>) = 0 /\ 1 .. 0 = {}
    OBVIOUS
  <2> QED
    BY <2>1 DEF OneInv, OneCollected, Finished
<1> QED
  BY <1>4, <1>5, <1>6, <1>7
    DEF DumpInv, ParseInv, ConvertInv, ParsedIsDump, ConvertedIsDump, Finished

\* A line that comes is kept from the first address of 0 on, that one twice.
LEMMA KeepsFirst ==
  ASSUME dump \in Seq(Sections), NEW line \in DumpLine, NEW k \in Nat, NEW o \in Nat,
         NEW k2 \in Nat, NEW o2 \in Nat, Follows(dump, line, k, o, k2, o2),
         line = <<"@", 0>>, \A j \in 1 .. k : dump[j].at # 0
  PROVE  k2 = k + 1 /\ o2 = 0 /\ FirstAtZero(dump, k2)
         /\ WalksTo(FromSection(dump, k2), <<line>>, 1, 0)
<1>1. PICK len \in Nat : len = Len(dump)
  OBVIOUS
<1>2. ~Repeats(dump, line, k, o, k2, o2)
  <2> SUFFICES ASSUME Repeats(dump, line, k, o, k2, o2)
               PROVE  FALSE
    OBVIOUS
  <2>1. k \in DOMAIN dump /\ dump[k].at = 0
    BY Zenon DEF Repeats
  <2>2. k \in 1 .. k
    BY <1>1, <2>1
  <2> QED
    BY <2>1, <2>2
<1>3. ~BytesFollow(dump, line, k, o, k2, o2)
  BY DEF BytesFollow
<1>4. k2 = k + 1 /\ o2 = 0 /\ k2 <= len /\ line = <<"@", dump[k2].at>>
  BY <1>1, <1>2, <1>3, Zenon DEF Follows, NextBegins
<1>5. k2 \in 1 .. len /\ 1 .. k2 - 1 = 1 .. k
  BY <1>4
<1>6. dump[k2].at = 0
  BY <1>4
<1>7. WalksTo(FromSection(dump, k2), <<line>>, 1, 0)
  BY <1>1, <1>4, <1>5, WalkBegins
<1> QED
  BY <1>1, <1>4, <1>5, <1>6, <1>7, Zenon DEF FirstAtZero

LEMMA KeepsNone ==
  ASSUME dump \in Seq(Sections), NEW line, NEW k \in Nat, NEW o \in Nat,
         NEW k2 \in Nat, NEW o2 \in Nat, Follows(dump, line, k, o, k2, o2),
         line # <<"@", 0>>, \A j \in 1 .. k : dump[j].at # 0
  PROVE  \A j \in 1 .. k2 : dump[j].at # 0
<1>1. k2 = k \/ (k2 = k + 1 /\ dump[k2].at # 0)
  BY Zenon DEF Follows, NextBegins, BytesFollow, Repeats
<1>2. CASE k2 = k
  BY <1>2
<1>3. CASE k2 = k + 1 /\ dump[k2].at # 0
  <2>1. \A j \in 1 .. k2 : j = k2 \/ j \in 1 .. k
    BY <1>3
  <2> QED
    BY <1>3, <2>1, Zenon
<1> QED
  BY <1>1, <1>2, <1>3

LEMMA KeepsMore ==
  ASSUME dump \in Seq(Sections), NEW line \in DumpLine, NEW k \in Nat, NEW o \in Nat,
         NEW k2 \in Nat, NEW o2 \in Nat, Follows(dump, line, k, o, k2, o2),
         NEW first \in Nat, FirstAtZero(dump, first), first <= k,
         NEW lines \in Seq(DumpLine), WalksTo(FromSection(dump, first), lines, k - first + 1, o)
  PROVE  /\ first <= k2
         /\ WalksTo(FromSection(dump, first), Append(lines, line), k2 - first + 1, o2)
         /\ line = <<"@", 0>> =>
              WalksTo(FromSection(dump, first), Append(Append(lines, line), line), k2 - first + 1, o2)
<1>1. PICK len \in Nat : len = Len(dump)
  OBVIOUS
<1>2. PICK it : it = FromSection(dump, first)
  OBVIOUS
<1>3. first \in 1 .. len
  BY <1>1, Zenon DEF FirstAtZero
<1>4. /\ it \in Seq(Sections)
      /\ \A n \in first .. len : n - first + 1 \in DOMAIN it /\ it[n - first + 1] = dump[n]
  <2>1. /\ it \in Seq(Sections)
        /\ \A n \in first .. len : n - first + 1 \in 1 .. Len(it) /\ it[n - first + 1] = dump[n]
    BY <1>1, <1>2, <1>3, FromSectionIs, Zenon
  <2>2. DOMAIN it = 1 .. Len(it)
    BY <2>1
  <2> QED
    BY <2>1, <2>2, Zenon
<1>5. k2 = k \/ k2 = k + 1
  BY Zenon DEF Follows, NextBegins, BytesFollow, Repeats
<1>6. first <= k2 /\ k2 - first + 1 \in Nat
  BY <1>3, <1>5
<1>7. Follows(it, line, k - first + 1, o, k2 - first + 1, o2)
  <2>1. k >= first
    BY <1>3
  <2> QED
    BY <1>1, <1>2, <1>3, <2>1, FollowsFrom
<1>8. WalksTo(it, Append(lines, line), k2 - first + 1, o2)
  BY <1>2, <1>6, <1>7, WalkGoesOn
<1>9. ASSUME line = <<"@", 0>>
      PROVE  WalksTo(it, Append(Append(lines, line), line), k2 - first + 1, o2)
  <2>1. ~BytesFollow(dump, line, k, o, k2, o2)
    BY <1>9 DEF BytesFollow
  <2>2. o2 = 0 /\ k2 <= len /\ dump[k2].at = 0
    <3>1. CASE NextBegins(dump, line, k, o, k2, o2)
      <4>1. o2 = 0 /\ k2 <= len /\ line = <<"@", dump[k2].at>>
        BY <1>1, <3>1, Zenon DEF NextBegins
      <4> QED
        BY <1>9, <4>1
    <3>2. CASE Repeats(dump, line, k, o, k2, o2)
      <4>1. o2 = 0 /\ k2 \in DOMAIN dump /\ dump[k2].at = 0
        BY <3>2, Zenon DEF Repeats
      <4> QED
        BY <1>1, <4>1
    <3> QED
      BY <2>1, <3>1, <3>2, Zenon DEF Follows
  <2>3. k2 \in first .. len
    BY <1>6, <2>2
  <2>4. k2 - first + 1 \in DOMAIN it /\ it[k2 - first + 1].at = 0
    BY <1>4, <2>2, <2>3, Zenon
  <2>5. Follows(it, line, k2 - first + 1, o2, k2 - first + 1, o2)
    BY <1>9, <2>2, <2>4, Zenon DEF Follows, Repeats
  <2>6. PICK more : more = Append(lines, line)
    OBVIOUS
  <2>7. WalksTo(it, Append(more, line), k2 - first + 1, o2)
    BY <1>6, <1>8, <2>5, <2>6, WalkGoesOn
  <2> QED
    BY <2>6, <2>7, Zenon
<1> QED
  BY <1>2, <1>6, <1>8, <1>9

\* A line more, or two.
IsLonger(lines, line, more, n) ==
  /\ more \in Seq(DumpLine) /\ more # <<>> /\ Len(more) = Len(lines) + n
  /\ \A m \in 1 .. Len(lines) : more[m] = lines[m]
  /\ more[Len(lines) + 1] = line

Longer(lines, line) ==
  /\ lines \o <<line>> \o <<>> = Append(lines, line)
  /\ lines \o <<line>> \o <<line>> = Append(Append(lines, line), line)
  /\ IsLonger(lines, line, Append(lines, line), 1)
  /\ IsLonger(lines, line, Append(Append(lines, line), line), 2)

LEMMA OneLineMore ==
  ASSUME NEW lines \in Seq(DumpLine), NEW line \in DumpLine
  PROVE  /\ IsLonger(lines, line, Append(lines, line), 1)
         /\ lines \o <<line>> = Append(lines, line) /\ lines \o <<>> = lines
<1>1. PICK n \in Nat : n = Len(lines)
  OBVIOUS
<1>2. PICK more : more = Append(lines, line)
  OBVIOUS
<1>3. /\ more \in Seq(DumpLine) /\ Len(more) = n + 1
      /\ \A m \in 1 .. n : more[m] = lines[m]
      /\ more[n + 1] = line
  BY <1>1, <1>2
<1>4. more # <<>>
  BY <1>3
<1>5. lines \o <<line>> = Append(lines, line) /\ lines \o <<>> = lines
  OBVIOUS
<1> QED
  BY <1>1, <1>2, <1>3, <1>4, <1>5, Zenon DEF IsLonger

LEMMA LinesMore ==
  ASSUME NEW lines \in Seq(DumpLine), NEW line \in DumpLine
  PROVE  Longer(lines, line)
<1>1. PICK one : one = Append(lines, line)
  OBVIOUS
<1>2. IsLonger(lines, line, one, 1) /\ lines \o <<line>> = one
  BY <1>1, OneLineMore
<1>3. one \in Seq(DumpLine)
  BY <1>2, Zenon DEF IsLonger
<1>4. PICK two : two = Append(one, line)
  OBVIOUS
<1>5. IsLonger(one, line, two, 1) /\ one \o <<line>> = two /\ one \o <<>> = one
  BY <1>3, <1>4, OneLineMore
<1>6. PICK n \in Nat : n = Len(lines)
  OBVIOUS
<1>7. /\ Len(one) = n + 1 /\ one[n + 1] = line /\ \A m \in 1 .. n : one[m] = lines[m]
      /\ two \in Seq(DumpLine) /\ two # <<>> /\ Len(two) = Len(one) + 1
      /\ \A m \in 1 .. Len(one) : two[m] = one[m]
  BY <1>2, <1>5, <1>6, Zenon DEF IsLonger
<1>8. /\ (n + 1) + 1 = n + 2 /\ n + 1 \in 1 .. n + 1 /\ \A m \in 1 .. n : m \in 1 .. n + 1
  OBVIOUS
<1>9. IsLonger(lines, line, two, 2)
  BY <1>6, <1>7, <1>8, Zenon DEF IsLonger
<1> QED
  BY <1>1, <1>2, <1>4, <1>5, <1>9, Zenon DEF Longer

LEMMA LinesBegin ==
  ASSUME NEW line \in DumpLine
  PROVE  /\ <<>> \o <<>> \o <<line>> = <<line>> /\ <<line>> \in Seq(DumpLine)
         /\ Len(<<line>>) = 1 /\ <<line>>[1] = line /\ <<line>> # <<>>
OBVIOUS

\* What has to be shown of the lines that are kept then.
LEMMA CollectCase ==
  ASSUME DumpInv, Collect, NEW lines \in Seq(DumpLine), lprog' = lines,
         Len(lines) <= 2 * (at + 1), plinecount' \in Nat, plinecount' <= Len(lines),
         CollectInv', OneInv'
  PROVE  DumpInv'
<1>1. /\ dump \in Seq(Sections) /\ at \in Nat
      /\ at' = at + 1 /\ programmer = "collect" /\ at < Len(file)
      /\ UNCHANGED <<dump, base, format, programmer, converter, prog, wp, membuf, files>>
  BY DEF DumpInv, DumpTypes, Collect
<1>2. file' = file /\ file \in Seq(DumpLine)
  BY <1>1, FileIs, Zenon DEF file
<1>3. PICK len \in Nat : len = Len(file)
  BY <1>2
<1>4. PICK size \in Nat : size = Len(lines)
  OBVIOUS
<1>5. at + 1 \in Nat /\ at + 1 <= len /\ size <= 2 * (at + 1) /\ size <= 2 * len
  BY <1>1, <1>3, <1>4
<1>6. DumpTypes'
  BY <1>1, <1>2, <1>3, <1>4, <1>5, Zenon DEF DumpInv, DumpTypes
<1>7. Stages'
  BY <1>1, <1>2, <1>3, <1>4, <1>5, Zenon DEF DumpInv, Stages, Finished
<1>8. converter = "convert"
  BY <1>1 DEF DumpInv, Stages, Finished
<1>9. ParseInv' /\ ParsedIsDump' /\ ConvertInv' /\ ConvertedIsDump'
  BY <1>1, <1>8 DEF ParseInv, ParsedIsDump, ConvertInv, ConvertedIsDump, Finished
<1> QED
  BY <1>6, <1>7, <1>9, Zenon DEF DumpInv

\* Of one section at 0 all lines are kept.
LEMMA OneIsCollected ==
  ASSUME DumpInv, Collect, OneSection
  PROVE  /\ at = 0 => lprog = <<>> /\ file[at + 1] = <<"@", 0>>
         /\ at # 0 => lprog # <<>> /\ file[at + 1] # <<"@", 0>>
<1>1. /\ dump \in Seq(Sections) /\ Len(dump) = 1 /\ dump[1].at = 0 /\ at \in Nat
      /\ lprog \in Seq(DumpLine) /\ programmer = "collect"
  BY DEF DumpInv, DumpTypes, Collect, OneSection
<1>2. Len(lprog) = at
  BY <1>1 DEF DumpInv, OneInv, OneSection, OneCollected
<1>3. lprog = <<>> <=> at = 0
  BY <1>1, <1>2, EmptySeq
<1>4. OneFile(file, Len(dump[1].bytes))
  BY <1>1, OneSectionFile, Zenon DEF file
<1>5. PICK n \in Nat : /\ Len(file) = n + 1 /\ file[1] = <<"@", 0>>
                       /\ \A l \in 1 .. n : file[l + 1][1] = "bytes"
  BY <1>4, Zenon DEF OneFile
<1>6. at < n + 1
  BY <1>5 DEF Collect
<1>7. ASSUME at # 0
      PROVE  file[at + 1] # <<"@", 0>>
  <2>1. at \in 1 .. n
    BY <1>1, <1>6, <1>7
  <2>2. file[at + 1][1] = "bytes"
    BY <1>5, <2>1
  <2> QED
    BY <2>2
<1>8. at = 0 => file[at + 1] = <<"@", 0>>
  BY <1>5
<1> QED
  BY <1>3, <1>7, <1>8

LEMMA CollectKeeps ==
  ASSUME DumpInv, Collect
  PROVE  DumpInv'
<1>1. PICK len \in Nat : len = Len(file)
  BY FileIs DEF DumpInv, DumpTypes
<1>2. /\ dump \in Seq(Sections) /\ file \in Seq(DumpLine) /\ lprog \in Seq(DumpLine)
      /\ at \in Nat /\ at < len /\ Len(lprog) <= 2 * at
      /\ plinecount \in Nat /\ plinecount <= Len(lprog)
  BY <1>1, FileIs DEF DumpInv, DumpTypes, Stages, Collect
<1>3. PICK line : line = file[at + 1]
  OBVIOUS
<1>4. PICK k \in Nat, o \in Nat : Where(dump, file, at, k, o) /\ KeptSoFar(k, o)
  BY DEF DumpInv, CollectInv, Collect
<1>5. line \in DumpLine /\ NextIs(dump, file, at, k, o)
  BY <1>1, <1>2, <1>3, <1>4, NextLine, Zenon DEF NextIs
<1>6. PICK k2 \in Nat, o2 \in Nat : /\ Where(dump, file, at + 1, k2, o2)
                                   /\ Follows(dump, line, k, o, k2, o2)
  BY <1>3, <1>5, Zenon DEF NextIs
<1>7. /\ at' = at + 1 /\ programmer = "collect"
      /\ UNCHANGED <<dump, base, format, programmer, converter, prog, wp, membuf, files>>
      /\ plinecount' = IF lprog # <<>> THEN plinecount + 1 ELSE plinecount
      /\ lprog' = lprog \o (IF lprog # <<>> THEN <<line>> ELSE <<>>)
                        \o (IF line = <<"@", 0>> THEN <<line>> ELSE <<>>)
  BY <1>3, Zenon DEF Collect, CountedLines
<1>8. file' = file
  BY <1>7, Zenon DEF file
<1>9. PICK size \in Nat : size = Len(lprog)
  BY <1>2
<1>10. PICK count \in Nat : count = plinecount /\ count <= size /\ size <= 2 * at
  BY <1>2, <1>9
<1>11. OneSection => /\ at = 0 => lprog = <<>> /\ line = <<"@", 0>>
                     /\ at # 0 => lprog # <<>> /\ line # <<"@", 0>>
  BY <1>3, OneIsCollected, Zenon
<1>12. OneSection => OneCollected(lprog, file, plinecount, at)
  BY <1>7, Zenon DEF DumpInv, OneInv
<1>18. ASSUME OneSection => OneCollected(lprog', file, plinecount', at + 1)
       PROVE  OneInv'
  <2>1. programmer # "parse" /\ ~Finished
    BY <1>7 DEF Finished
  <2> QED
    BY <1>7, <1>8, <1>18, <2>1, Zenon DEF OneInv, OneSection, Finished
<1>13. /\ (Where(dump, file, at + 1, k2, o2) /\ KeptSoFar(k2, o2)') => CollectInv'
  BY <1>6, <1>7, <1>8 DEF CollectInv
<1>14. lprog = <<>> => \A j \in 1 .. k : dump[j].at # 0
  BY <1>4, Zenon DEF KeptSoFar
<1>15. ASSUME lprog = <<>>, line = <<"@", 0>>
       PROVE  DumpInv'
  <2>1. lprog' = <<>> \o <<>> \o <<line>> /\ plinecount' = count
    BY <1>7, <1>10, <1>15, Zenon
  <2>2. PICK lines : lines = <<line>>
    OBVIOUS
  <2>3. /\ lprog' = lines /\ lines \in Seq(DumpLine) /\ Len(lines) = 1 /\ lines[1] = line
        /\ lines # <<>>
    BY <1>5, <2>1, <2>2, LinesBegin, Zenon
  <2>4. size = 0
    BY <1>9, <1>15
  <2>5. Len(lines) <= 2 * (at + 1) /\ plinecount' \in Nat /\ plinecount' <= Len(lines)
    BY <1>2, <1>10, <2>1, <2>3, <2>4
  <2>6. /\ k2 = k + 1 /\ o2 = 0 /\ FirstAtZero(dump, k2)
        /\ WalksTo(FromSection(dump, k2), lines, 1, 0)
    BY <1>2, <1>5, <1>6, <1>14, <1>15, <2>2, KeepsFirst
  <2>7. k2 - k2 + 1 = 1 /\ k2 <= k2
    OBVIOUS
  <2>8. KeptSoFar(k2, o2)'
    BY <1>7, <2>3, <2>6, <2>7, Zenon DEF KeptSoFar
  <2>9. OneInv'
    <3> SUFFICES ASSUME OneSection
                 PROVE  OneCollected(lines, file, count, at + 1)
      BY <1>18, <2>1, <2>3, Zenon
    <3>1. at = 0
      BY <1>11, <1>15, Zenon
    <3>2. count = 0
      BY <1>10, <1>12, <3>1, Zenon DEF OneCollected
    <3>3. at + 1 = 1
      BY <3>1
    <3>4. (\A n \in 1 .. 1 : n = 1) /\ 1 - 1 = 0 /\ 1 # 0
      OBVIOUS
    <3>5. line = file[1]
      BY <1>3, <3>3, Zenon
    <3> QED
      BY <2>3, <3>2, <3>3, <3>4, <3>5, Zenon DEF OneCollected
  <2> QED
    BY <1>6, <1>13, <2>3, <2>5, <2>8, <2>9, CollectCase
<1>16. ASSUME lprog = <<>>, line # <<"@", 0>>
       PROVE  DumpInv'
  <2>1. lprog' = <<>> \o <<>> \o <<>> /\ plinecount' = count
    BY <1>7, <1>10, <1>16, Zenon
  <2>2. lprog' = <<>> /\ <<>> \in Seq(DumpLine) /\ Len(<<>>) = 0
    <3>1. <<>> \o <<>> \o <<>> = <<>> /\ <<>> \in Seq(DumpLine) /\ Len(<<>>) = 0
      OBVIOUS
    <3> QED
      BY <2>1, <3>1, Zenon
  <2>3. size = 0
    BY <1>9, <1>16
  <2>4. Len(<<>>) <= 2 * (at + 1) /\ plinecount' \in Nat /\ plinecount' <= Len(<<>>)
    BY <1>2, <1>10, <2>1, <2>2, <2>3
  <2>5. \A j \in 1 .. k2 : dump[j].at # 0
    BY <1>2, <1>6, <1>14, <1>16, KeepsNone
  <2>6. KeptSoFar(k2, o2)'
    BY <1>7, <2>2, <2>5, Zenon DEF KeptSoFar
  <2>7. OneInv'
    <3>1. ~OneSection
      BY <1>11, <1>16
    <3> QED
      BY <1>7, <3>1 DEF OneInv, OneSection
  <2> QED
    BY <1>6, <1>13, <2>2, <2>4, <2>6, <2>7, CollectCase
<1>17. ASSUME lprog # <<>>
       PROVE  DumpInv'
  <2>1. PICK first \in Nat : /\ FirstAtZero(dump, first) /\ first <= k
                             /\ WalksTo(FromSection(dump, first), lprog, k - first + 1, o)
    BY <1>4, <1>17, Zenon DEF KeptSoFar
  <2>2. /\ first <= k2
        /\ WalksTo(FromSection(dump, first), Append(lprog, line), k2 - first + 1, o2)
        /\ line = <<"@", 0>> =>
             WalksTo(FromSection(dump, first), Append(Append(lprog, line), line), k2 - first + 1, o2)
    BY <1>2, <1>5, <1>6, <2>1, KeepsMore
  <2>3. PICK lines : lines = IF line = <<"@", 0>> THEN Append(Append(lprog, line), line)
                             ELSE Append(lprog, line)
    OBVIOUS
  <2>4. lprog' = lprog \o <<line>> \o (IF line = <<"@", 0>> THEN <<line>> ELSE <<>>)
        /\ plinecount' = count + 1
    BY <1>7, <1>10, <1>17, Zenon
  <2>5. /\ lprog' = lines /\ lines \in Seq(DumpLine) /\ lines # <<>>
        /\ Len(lines) = IF line = <<"@", 0>> THEN size + 2 ELSE size + 1
    <3>1. Longer(lprog, line)
      BY <1>2, <1>5, LinesMore
    <3> QED
      BY <1>9, <2>3, <2>4, <3>1, Zenon DEF Longer, IsLonger
  <2>6. Len(lines) <= 2 * (at + 1) /\ plinecount' \in Nat /\ plinecount' <= Len(lines)
    <3>1. PICK length : length = Len(lines)
      OBVIOUS
    <3>2. at \in Nat /\ size <= 2 * at /\ count <= size /\ (length = size + 2 \/ length = size + 1)
      BY <1>2, <1>10, <2>5, <3>1, Zenon
    <3>3. length <= 2 * (at + 1) /\ count + 1 \in Nat /\ count + 1 <= length
      BY <3>2
    <3> QED
      BY <2>4, <3>1, <3>3, Zenon
  <2>7. WalksTo(FromSection(dump, first), lines, k2 - first + 1, o2)
    BY <2>2, <2>3, Zenon
  <2>8. KeptSoFar(k2, o2)'
    BY <1>7, <2>1, <2>2, <2>5, <2>7, Zenon DEF KeptSoFar
  <2>9. OneInv'
    <3> SUFFICES ASSUME OneSection
                 PROVE  OneCollected(lines, file, count + 1, at + 1)
      BY <1>18, <2>4, <2>5, Zenon
    <3>1. at # 0 /\ line # <<"@", 0>>
      BY <1>11, <1>17
    <3>2. size = at /\ count = at - 1 /\ \A n \in 1 .. at : lprog[n] = file[n]
      <4>1. Len(lprog) = at /\ plinecount = (IF at = 0 THEN 0 ELSE at - 1)
            /\ \A n \in 1 .. at : lprog[n] = file[n]
        BY <1>12, Zenon DEF OneCollected
      <4> QED
        BY <1>9, <1>10, <3>1, <4>1, Zenon
    <3>3. /\ Len(lines) = at + 1 /\ lines[at + 1] = line
          /\ \A n \in 1 .. at : lines[n] = lprog[n]
      <4>1. Longer(lprog, line)
        BY <1>2, <1>5, LinesMore
      <4> QED
        BY <1>9, <2>3, <3>1, <3>2, <4>1, Zenon DEF Longer, IsLonger
    <3>4. /\ \A n \in 1 .. at + 1 : n \in 1 .. at \/ n = at + 1
          /\ count + 1 = (at + 1) - 1 /\ at + 1 # 0
      BY <1>2, <3>2
    <3> QED
      BY <1>3, <3>2, <3>3, <3>4, Zenon DEF OneCollected
  <2> QED
    BY <1>6, <1>13, <2>5, <2>6, <2>8, <2>9, CollectCase
<1> QED
  BY <1>15, <1>16, <1>17

LEMMA ZeroesAre ==
  ASSUME NEW n \in Int
  PROVE  /\ Zeroes(n) \in Seq(Nat) /\ Len(Zeroes(n)) = IF n < 0 THEN 0 ELSE n
         /\ \A m \in DOMAIN Zeroes(n) : Zeroes(n)[m] = 0
<1>1. CASE n < 0
  <2>1. 1 .. n = {} /\ DOMAIN Zeroes(n) = 1 .. n
    BY <1>1 DEF Zeroes
  <2>2. PICK it : it = Zeroes(n)
    OBVIOUS
  <2>3. it \in [1 .. 0 -> Nat]
    <3>1. 1 .. n = 1 .. 0
      BY <1>1
    <3> QED
      BY <2>2, <3>1 DEF Zeroes
  <2>4. it \in Seq(Nat) /\ Len(it) = 0
    BY <2>3
  <2> QED
    BY <1>1, <2>1, <2>2, <2>4
<1>2. CASE n >= 0
  <2>1. Zeroes(n) \in [1 .. n -> Nat] /\ n \in Nat
    BY <1>2 DEF Zeroes
  <2> QED
    BY <1>2, <2>1 DEF Zeroes
<1> QED
  BY <1>1, <1>2

LEMMA SplitIsNumber ==
  ASSUME NEW line \in DumpLine
  PROVE  Split(line) \in Nat
<1>1. CASE line \in {"@"} \X Nat
  BY <1>1 DEF Split
<1>2. CASE line \in {"bytes"} \X Seq(Nat)
  <2>1. line[1] = "bytes" /\ line[2] \in Seq(Nat)
    BY <1>2
  <2>2. line[1] # "@" /\ Len(line[2]) \in Nat
    BY <2>1
  <2> QED
    BY <2>2 DEF Split
<1> QED
  BY <1>1, <1>2 DEF DumpLine

LEMMA LengthIsNumber ==
  ASSUME NEW lines \in Seq(DumpLine), lines # <<>>, NEW count \in Nat, count <= Len(lines)
  PROVE  nproglen(count, lines) \in Int
<1>1. PICK len \in Nat : len = Len(lines) /\ len # 0
  BY EmptySeq
<1>2. PICK line : line = IF count = 0 THEN lines[Len(lines)] ELSE lines[count]
  OBVIOUS
<1>3. line \in DumpLine
  <2>1. len \in 1 .. Len(lines) /\ (count # 0 => count \in 1 .. Len(lines))
    BY <1>1
  <2> QED
    BY <1>1, <1>2, <2>1, ElementOfSeq, Zenon
<1>4. PICK words \in Nat : words = Split(line)
  BY <1>3, SplitIsNumber
<1>5. LINE * (count - 1) \in Int
  BY SizesAssumption
<1>6. nproglen(count, lines) = LINE * (count - 1) + words
  BY <1>2, <1>4, Zenon DEF nproglen
<1> QED
  BY <1>5, <1>6

\* What it is for one section at 0.
LEMMA OneLength ==
  ASSUME NEW all, NEW size \in Nat, OneFile(all, size), NEW lines \in Seq(DumpLine),
         NEW count, OneCollected(lines, all, count, Len(all))
  PROVE  LengthFits(Len(Zeroes(nproglen(count, lines))), size)
<1>0. LINE \in Nat /\ LINE # 0
  BY SizesAssumption
<1>1. PICK n \in Nat :
        /\ Len(all) = n + 1 /\ all[1] = <<"@", 0>>
        /\ \A k \in 1 .. n : all[k + 1][1] = "bytes"
        /\ n = 0 => size = 0
        /\ n # 0 => LINE * (n - 1) < size /\ size <= LINE * n
        /\ n > 1 => Len(all[n][2]) = LINE
  BY Zenon DEF OneFile
<1>2. Len(lines) = n + 1 /\ (\A m \in 1 .. n + 1 : lines[m] = all[m]) /\ count = n
  <2>1. n + 1 # 0 /\ (n + 1) - 1 = n
    OBVIOUS
  <2> QED
    BY <1>1, <2>1, Zenon DEF OneCollected
<1>3. PICK line : line = IF count = 0 THEN lines[Len(lines)] ELSE lines[count]
  OBVIOUS
<1>4. PICK words : words = Split(line)
  OBVIOUS
<1>5. nproglen(count, lines) = LINE * (n - 1) + words
  BY <1>2, <1>3, <1>4, Zenon DEF nproglen
<1>6. 1 \in 1 .. n + 1 /\ (n # 0 => n \in 1 .. n + 1)
  OBVIOUS
<1>7. all[1][1] = "@"
  BY <1>1
<1>8. CASE n = 0
  <2>1. line = all[1]
    <3>1. n + 1 = 1
      BY <1>8
    <3> QED
      BY <1>2, <1>3, <1>6, <1>8, <3>1, Zenon
  <2>2. words = 1
    BY <1>4, <1>7, <2>1, Zenon DEF Split
  <2>3. PICK num \in Int : num = nproglen(count, lines) /\ num <= 0
    <3>1. LINE * (n - 1) = 0 - LINE
      BY <1>0, <1>8
    <3> QED
      BY <1>0, <1>5, <2>2, <3>1
  <2>4. Len(Zeroes(num)) = 0
    BY <2>3, ZeroesAre
  <2>5. size = 0
    BY <1>1, <1>8
  <2> QED
    BY <1>0, <2>3, <2>4, <2>5 DEF LengthFits
<1>9. CASE n = 1
  <2>1. line = all[1]
    <3>1. count = 1 /\ count # 0
      BY <1>2, <1>9
    <3> QED
      BY <1>2, <1>3, <1>6, <3>1, Zenon
  <2>2. words = 1
    BY <1>4, <1>7, <2>1, Zenon DEF Split
  <2>3. LINE * (n - 1) = 0 /\ LINE * n = LINE
    BY <1>0, <1>9
  <2>4. nproglen(count, lines) = 1
    BY <1>5, <2>2, <2>3
  <2>5. Len(Zeroes(1)) = 1
    <3>1. 1 \in Int /\ ~(1 < 0)
      OBVIOUS
    <3> QED
      BY <3>1, ZeroesAre, Zenon
  <2>6. 0 < size /\ size <= LINE
    BY <1>1, <1>9, <2>3
  <2> QED
    BY <1>0, <2>4, <2>5, <2>6 DEF LengthFits
<1>10. CASE n > 1
  <2>1. n # 0 /\ n - 1 \in 1 .. n /\ (n - 1) + 1 = n /\ n - 1 \in Nat
        /\ n - 2 \in Nat /\ (n - 2) + 1 = n - 1
    BY <1>10
  <2>2. line = all[n]
    BY <1>2, <1>3, <1>6, <2>1, Zenon
  <2>3. all[n][1] = "bytes"
    BY <1>1, <2>1, Zenon
  <2>4. words = LINE
    <3>1. all[n][1] # "@"
      BY <2>3
    <3> QED
      BY <1>1, <1>4, <1>10, <2>2, <3>1, Zenon DEF Split
  <2>5. PICK most \in Nat : most = LINE * (n - 1)
    BY <2>1, OneMoreFull
  <2>6. LINE * n = most + LINE
    BY <2>1, <2>5, OneMoreFull, Zenon
  <2>7. most >= LINE
    <3>1. LINE * (n - 2) \in Nat /\ most = LINE * (n - 2) + LINE
      BY <2>1, <2>5, OneMoreFull, Zenon
    <3> QED
      BY <1>0, <3>1
  <2>8. nproglen(count, lines) = most + LINE
    BY <1>5, <2>4, <2>5, Zenon
  <2>9. Len(Zeroes(most + LINE)) = most + LINE
    <3>1. most + LINE \in Int /\ ~(most + LINE < 0)
      BY <1>0
    <3> QED
      BY <3>1, ZeroesAre
  <2>10. most < size /\ size <= most + LINE
    BY <1>1, <2>1, <2>5, <2>6, Zenon
  <2> QED
    BY <1>0, <2>7, <2>8, <2>9, <2>10 DEF LengthFits
<1> QED
  BY <1>8, <1>9, <1>10

\* Behind the last line nothing has been read of the program, or of the file again.
LEMMA AllLinesAreKept ==
  ASSUME DumpInv, Allocate
  PROVE  /\ dump \in Seq(Sections) /\ lprog \in Seq(DumpLine) /\ file \in Seq(DumpLine)
         /\ programmer = "collect" /\ at' = 0 /\ wp = 0 /\ converter = "convert"
         /\ membuf = Empty /\ file' = file
         /\ UNCHANGED <<dump, base, format, converter, lprog, plinecount, wp, membuf, files>>
         /\ \E o \in Nat : AllRead(dump, Len(dump), o) /\ KeptSoFar(Len(dump), o)
         /\ Converted(0, 0)'
<1>1. /\ dump \in Seq(Sections) /\ lprog \in Seq(DumpLine) /\ base \in Nat
      /\ programmer = "collect" /\ at = Len(file) /\ at' = 0
      /\ UNCHANGED <<dump, base, format, converter, lprog, plinecount, wp, membuf, files>>
  BY DEF DumpInv, DumpTypes, Allocate
<1>2. wp = 0 /\ converter = "convert" /\ membuf = Empty
  BY <1>1 DEF DumpInv, Stages, Finished
<1>3. Where(dump, file, 0, 0, 0) /\ file \in Seq(DumpLine) /\ file' = file
  BY <1>1, FileIs, Zenon DEF file
<1>4. PICK k \in Nat, o \in Nat : Where(dump, file, Len(file), k, o) /\ KeptSoFar(k, o)
  BY <1>1, Zenon DEF DumpInv, CollectInv
<1>5. k = Len(dump) /\ AllRead(dump, Len(dump), o)
  BY <1>4, LastLine, Zenon
<1>6. Located(dump, 0, 0, base, 0)
  BY <1>1, AtTheBegin
<1>7. InMemory(dump, base, Empty, 0, 0)
  BY NothingInMemory
<1>8. Converted(0, 0)'
  BY <1>1, <1>2, <1>3, <1>6, <1>7, Zenon DEF Converted
<1> QED
  BY <1>1, <1>2, <1>3, <1>4, <1>5, <1>8, Zenon

LEMMA NoProgram ==
  ASSUME DumpInv, Allocate, lprog = <<>>
  PROVE  DumpInv'
<1>1. /\ dump \in Seq(Sections) /\ lprog \in Seq(DumpLine) /\ file \in Seq(DumpLine)
      /\ at' = 0 /\ wp = 0 /\ converter = "convert" /\ membuf = Empty /\ file' = file
      /\ UNCHANGED <<dump, base, format, converter, lprog, plinecount, wp, membuf, files>>
      /\ Converted(0, 0)'
  BY AllLinesAreKept
<1>2. programmer' = "IndexError" /\ prog' = prog
  BY DEF Allocate
<1>3. 0 \in Nat /\ 0 <= Len(file)
  BY <1>1
<1>4. DumpTypes'
  BY <1>1, <1>2, <1>3, Zenon DEF DumpInv, DumpTypes
<1>5. Stages' /\ CollectInv' /\ ParseInv' /\ ParsedIsDump' /\ ConvertedIsDump'
  BY <1>1, <1>2, <1>3
    DEF Stages, Finished, CollectInv, ParseInv, ParsedIsDump, ConvertedIsDump
<1>6. ConvertInv'
  BY <1>1, <1>3, Zenon DEF ConvertInv
<1>7. ~OneSection
  <2>1. \A j \in 1 .. Len(dump) : dump[j].at # 0
    BY AllLinesAreKept, Zenon DEF KeptSoFar
  <2> SUFFICES ASSUME OneSection
               PROVE  FALSE
    OBVIOUS
  <2>2. 1 \in 1 .. Len(dump)
    BY DEF OneSection
  <2> QED
    BY <2>1, <2>2, Zenon DEF OneSection
<1>8. OneInv'
  BY <1>1, <1>7, Zenon DEF OneInv, OneSection
<1> QED
  BY <1>4, <1>5, <1>6, <1>8, Zenon DEF DumpInv

LEMMA ProgramBegins ==
  ASSUME dump \in Seq(Sections), ByteSections(dump), lprog \in Seq(DumpLine), lprog # <<>>,
         NEW o \in Nat, AllRead(dump, Len(dump), o), KeptSoFar(Len(dump), o)
  PROVE  /\ Begun(dump) \in Seq(Sections) /\ ByteSections(Begun(dump))
         /\ Where(Begun(dump), lprog, 0, 0, 0)
<1>1. PICK len \in Nat : len = Len(dump)
  OBVIOUS
<1>2. PICK first \in Nat : /\ FirstAtZero(dump, first) /\ first <= len
                           /\ WalksTo(FromSection(dump, first), lprog, len - first + 1, o)
  BY <1>1, Zenon DEF KeptSoFar
<1>3. first \in 1 .. len
  BY <1>1, <1>2, Zenon DEF FirstAtZero
<1>4. PICK it : it = FromSection(dump, first)
  OBVIOUS
<1>5. Begun(dump) = it
  BY <1>2, <1>4, BegunIs
<1>6. /\ it \in Seq(Sections) /\ Len(it) = len - first + 1
      /\ \A k \in first .. len : it[k - first + 1] = dump[k]
  BY <1>1, <1>3, <1>4, FromSectionIs, Zenon
<1>7. ByteSections(it)
  BY <1>1, <1>3, <1>4, KeptHaveBytes, Zenon
<1>8. AllRead(it, Len(it), o)
  <2>1. len \in first .. len /\ len # 0
    BY <1>3
  <2>2. it[Len(it)] = dump[len]
    BY <1>6, <2>1, Zenon
  <2> QED
    BY <1>1, <2>1, <2>2, Zenon DEF AllRead
<1>9. WalksTo(it, lprog, Len(it), o)
  BY <1>2, <1>4, <1>6, Zenon
<1>10. Where(it, lprog, 0, 0, 0)
  BY <1>8, <1>9, WalkEnds, FirstLineComes
<1> QED
  BY <1>5, <1>6, <1>7, <1>10, Zenon

LEMMA SomeProgram ==
  ASSUME DumpInv, Allocate, lprog # <<>>
  PROVE  DumpInv'
<1>1. /\ dump \in Seq(Sections) /\ lprog \in Seq(DumpLine) /\ file \in Seq(DumpLine)
      /\ at' = 0 /\ wp = 0 /\ converter = "convert" /\ membuf = Empty /\ file' = file
      /\ UNCHANGED <<dump, base, format, converter, lprog, plinecount, wp, membuf, files>>
  BY AllLinesAreKept
<1>2. /\ ByteSections(dump) /\ plinecount \in Nat /\ plinecount <= Len(lprog)
      /\ programmer = "collect" /\ at = Len(file)
  BY DEF DumpInv, DumpTypes, Allocate
<1>3. PICK num \in Int : num = nproglen(plinecount, lprog)
  BY <1>1, <1>2, LengthIsNumber
<1>4. PICK list : list = Zeroes(num)
  OBVIOUS
<1>5. programmer' = "parse" /\ prog' = list
  BY <1>3, <1>4 DEF Allocate
<1>6. list \in Seq(Nat) /\ \A n \in DOMAIN list : list[n] = 0
  BY <1>4, ZeroesAre
<1>7. \A n \in 1 .. Len(list) : list[n] \in 0 .. 255
  <2>1. 1 .. Len(list) = DOMAIN list /\ 0 \in 0 .. 255
    BY <1>6
  <2> QED
    BY <1>6, <2>1, Zenon
<1>8. PICK o \in Nat : AllRead(dump, Len(dump), o) /\ KeptSoFar(Len(dump), o)
  BY AllLinesAreKept
<1>9. /\ Begun(dump) \in Seq(Sections) /\ ByteSections(Begun(dump))
      /\ Where(Begun(dump), lprog, 0, 0, 0)
  BY <1>1, <1>2, <1>8, ProgramBegins
<1>10. 0 \in Nat /\ 0 <= Len(lprog) /\ 0 <= Len(file)
  BY <1>1
<1>11. DumpTypes'
  BY <1>1, <1>5, <1>6, <1>7, <1>10, Zenon DEF DumpInv, DumpTypes
<1>12. Stages' /\ CollectInv' /\ ParsedIsDump' /\ ConvertInv' /\ ConvertedIsDump'
  BY <1>1, <1>5, <1>10
    DEF Stages, Finished, CollectInv, ParsedIsDump, ConvertInv, ConvertedIsDump
<1>13. ParseInv'
  <2>1. Begun(dump)' = Begun(dump)
    BY <1>1, Zenon DEF Begun
  <2>2. Located(Begun(dump), 0, 0, 0, 0)
    BY <1>9, AtTheBegin
  <2>3. Listed(Begun(dump), list, 0, 0)
    BY <1>6, NothingIsCovered
  <2>4. Parsed(Begun(dump), 0, 0)'
    BY <1>1, <1>5, <1>9, <2>1, <2>2, <2>3, Zenon DEF Parsed
  <2> QED
    BY <1>9, <1>10, <2>1, <2>4, Zenon DEF ParseInv
<1>14. OneInv'
  <2>1. ASSUME OneSection
        PROVE  LengthFits(Len(list), Len(dump[1].bytes))
    <3>1. Len(dump) = 1 /\ dump[1].at = 0 /\ 1 \in 1 .. 1
      BY <2>1 DEF OneSection
    <3>2. PICK size \in Nat : size = Len(dump[1].bytes)
      BY <1>1, <3>1, SectionsAre
    <3>3. OneFile(file, size)
      BY <1>1, <3>1, <3>2, OneSectionFile, Zenon DEF file
    <3>4. OneCollected(lprog, file, plinecount, Len(file))
      BY <1>2, <2>1, Zenon DEF DumpInv, OneInv
    <3>5. LengthFits(Len(Zeroes(nproglen(plinecount, lprog))), size)
      BY <1>1, <3>3, <3>4, OneLength
    <3> QED
      BY <1>3, <1>4, <3>2, <3>5, Zenon
  <2>2. programmer' # "collect" /\ ~Finished'
    BY <1>5 DEF Finished
  <2> QED
    BY <1>1, <1>5, <2>1, <2>2, Zenon DEF OneInv, OneSection, LengthRight
<1> QED
  BY <1>11, <1>12, <1>13, <1>14, Zenon DEF DumpInv

LEMMA AllocateKeeps ==
  ASSUME DumpInv, Allocate
  PROVE  DumpInv'
BY NoProgram, SomeProgram

\* A list of a length that fits holds all, or is too short.
LEMMA EndFits ==
  ASSUME NEW n \in Nat, NEW size \in Nat, LengthFits(n, size), size # 0 => size <= n
  PROVE  IF size > LINE THEN n - size \in 0 .. LINE - 1 ELSE ~(size > 1)
BY SizesAssumption DEF LengthFits

LEMMA StopFits ==
  ASSUME NEW n \in Nat, NEW size \in Nat, LengthFits(n, size), n < size
  PROVE  size > 1 /\ ~(size > LINE)
BY SizesAssumption DEF LengthFits

\* The bytes of a list that a line is put into.
AreBytes(list, n) == list \in Seq(Nat) /\ Len(list) = n /\ \A m \in 1 .. n : list[m] \in 0 .. 255

LEMMA PutIsBytes ==
  ASSUME NEW list \in Seq(Nat), \A n \in 1 .. Len(list) : list[n] \in 0 .. 255,
         NEW line, ByteLine(line), line[2] \in Seq(Nat), NEW pos \in Nat
  PROVE  AreBytes(Put(list, pos, line[2]), Len(list))
<1>1. PICK part \in Seq(Nat) : part = line[2]
  OBVIOUS
<1>2. PICK size \in Nat : size = Len(part)
  OBVIOUS
<1>3. \A n \in 1 .. size : part[n] \in 0 .. 255
  BY <1>1, <1>2, Zenon DEF ByteLine
<1>4. PICK put : put = Put(list, pos, part)
  OBVIOUS
<1>5. put = [n \in DOMAIN list |-> IF n - 1 \in pos .. pos + size - 1 THEN part[n - pos] ELSE list[n]]
  BY <1>2, <1>4, Zenon DEF Put
<1>6. PICK len \in Nat : len = Len(list)
  OBVIOUS
<1>7. DOMAIN list = 1 .. len
  BY <1>6
<1>8. ASSUME NEW n \in 1 .. len
      PROVE  put[n] \in 0 .. 255
  <2>1. CASE n - 1 \in pos .. pos + size - 1
    <3>1. n - pos \in 1 .. size
      BY <2>1
    <3>2. put[n] = part[n - pos]
      BY <1>5, <1>7, <2>1
    <3> QED
      BY <1>3, <3>1, <3>2, Zenon
  <2>2. CASE n - 1 \notin pos .. pos + size - 1
    <3>1. put[n] = list[n]
      BY <1>5, <1>7, <2>2
    <3> QED
      BY <1>6, <3>1, Zenon
  <2> QED
    BY <2>1, <2>2
<1>9. put \in [1 .. len -> Nat]
  <2>1. \A b \in 0 .. 255 : b \in Nat
    OBVIOUS
  <2>2. DOMAIN put = 1 .. len /\ put = [n \in 1 .. len |-> put[n]]
    BY <1>5, <1>7
  <2>3. \A n \in 1 .. len : put[n] \in Nat
    BY <1>8, <2>1, Zenon
  <2> QED
    BY <2>2, <2>3, Zenon
<1>10. put \in Seq(Nat) /\ Len(put) = len
  BY <1>9
<1> QED
  BY <1>1, <1>4, <1>6, <1>8, <1>10, Zenon DEF AreBytes

\* A list that all has been put into.
IsListOf(sections, list) ==
  /\ \A n \in DOMAIN list :
       list[n] = IF HasByte(sections, n - 1) THEN ByteAt(sections, n - 1) ELSE 0
  /\ \A j \in DOMAIN sections :
       sections[j].bytes # <<>> => Ends(sections[j]) <= Len(list)

LEMMA AllIsListed ==
  ASSUME NEW sections \in Seq(Sections), NEW o \in Nat, AllRead(sections, Len(sections), o),
         NEW list \in Seq(Nat), Listed(sections, list, Len(sections), o)
  PROVE  IsListOf(sections, list)
<1>1. ASSUME NEW n \in DOMAIN list
      PROVE  list[n] = IF HasByte(sections, n - 1) THEN ByteAt(sections, n - 1) ELSE 0
  <2>1. PICK addr \in Int : addr = n - 1
    OBVIOUS
  <2>2. Holds(sections, Len(sections), o, addr, list[n])
    BY <2>1, Zenon DEF Listed
  <2>3. list[n] = IF HasByte(sections, addr) THEN ByteAt(sections, addr) ELSE 0
    BY <2>2, AllReadIs
  <2> QED
    BY <2>1, <2>3, Zenon
<1>2. ASSUME NEW j \in DOMAIN sections, sections[j].bytes # <<>>
      PROVE  Ends(sections[j]) <= Len(list)
  <2>1. /\ Ends(sections[j]) - 1 \in Nat
        /\ Covers(sections, Len(sections), o, j, Ends(sections[j]) - 1)
    BY <1>2, LastIsCovered
  <2>2. PICK len \in Nat : len = Len(list)
    OBVIOUS
  <2>3. Ends(sections[j]) \in Nat
    <3>1. j \in 1 .. Len(sections)
      OBVIOUS
    <3>2. PICK from \in Nat : from = sections[j].at
      BY <3>1, SectionsAre
    <3>3. PICK size \in Nat : size = Len(sections[j].bytes)
      BY <3>1, SectionsAre
    <3>4. from + size \in Nat
      OBVIOUS
    <3> QED
      BY <3>2, <3>3, <3>4, Zenon DEF Ends
  <2>4. PICK end \in Nat : end = Ends(sections[j])
    BY <2>3
  <2>5. end - 1 < len
    <3>1. j \in Nat /\ end - 1 \in Int
      OBVIOUS
    <3> QED
      BY <2>1, <2>2, <2>4, <3>1, Zenon DEF Listed
  <2>6. end <= len
    BY <2>5
  <2> QED
    BY <2>2, <2>4, <2>6, Zenon
<1> QED
  BY <1>1, <1>2, Zenon DEF IsListOf

\* What a step of the parser leaves alone, and where the converter begins then.
LEMMA ParseLeaves ==
  ASSUME DumpInv, Parse
  PROVE  /\ dump \in Seq(Sections) /\ lprog \in Seq(DumpLine) /\ file \in Seq(DumpLine)
         /\ base \in Nat /\ prog \in Seq(Nat) /\ at \in Nat /\ at <= Len(lprog)
         /\ programmer = "parse" /\ converter = "convert" /\ membuf = Empty /\ file' = file
         /\ Begun(dump)' = Begun(dump)
         /\ Begun(dump) \in Seq(Sections) /\ ByteSections(Begun(dump))
         /\ UNCHANGED <<dump, base, format, converter, lprog, plinecount, membuf, files>>
         /\ \E k, o \in Nat : Parsed(Begun(dump), k, o)
         /\ at' = 0 /\ wp' = 0 => Converted(0, 0)'
<1>1. /\ dump \in Seq(Sections) /\ lprog \in Seq(DumpLine) /\ base \in Nat
      /\ prog \in Seq(Nat) /\ at \in Nat
      /\ programmer = "parse"
      /\ UNCHANGED <<dump, base, format, converter, lprog, plinecount, membuf, files>>
  BY DEF DumpInv, DumpTypes, Parse
<1>2. converter = "convert" /\ membuf = Empty /\ at <= Len(lprog)
  BY <1>1 DEF DumpInv, Stages, Finished
<1>3. Where(dump, file, 0, 0, 0) /\ file \in Seq(DumpLine) /\ file' = file
  BY <1>1, FileIs, Zenon DEF file
<1>4. Begun(dump)' = Begun(dump)
  BY <1>1, Zenon DEF Begun
<1>5. /\ Begun(dump) \in Seq(Sections) /\ ByteSections(Begun(dump))
      /\ \E k, o \in Nat : Parsed(Begun(dump), k, o)
  BY <1>1, Zenon DEF DumpInv, ParseInv
<1>6. Located(dump, 0, 0, base, 0)
  BY <1>1, AtTheBegin
<1>7. InMemory(dump, base, Empty, 0, 0)
  BY NothingInMemory
<1>8. at' = 0 /\ wp' = 0 => Converted(0, 0)'
  BY <1>1, <1>2, <1>3, <1>6, <1>7, Zenon DEF Converted
<1> QED
  BY <1>1, <1>2, <1>3, <1>4, <1>5, <1>8, Zenon

\* One section at 0 is what the program begins with.
LEMMA OneIsBegun ==
  ASSUME dump \in Seq(Sections), OneSection
  PROVE  /\ Len(Begun(dump)) = 1 /\ Begun(dump)[1] = dump[1]
         /\ dump[1].at = 0 /\ Len(dump[1].bytes) \in Nat
<1>1. Len(dump) = 1 /\ dump[1].at = 0 /\ 1 \in 1 .. Len(dump) /\ 1 .. 1 - 1 = {}
  BY DEF OneSection
<1>2. FirstAtZero(dump, 1)
  BY <1>1, Zenon DEF FirstAtZero
<1>3. Begun(dump) = FromSection(dump, 1)
  BY <1>2, BegunIs
<1>4. PICK it : it = FromSection(dump, 1)
  OBVIOUS
<1>5. Len(Begun(dump)) = 1 /\ Begun(dump)[1] = dump[1]
  <2>1. /\ Len(it) = Len(dump) - 1 + 1
        /\ \A k \in 1 .. Len(dump) : it[k - 1 + 1] = dump[k]
    BY <1>1, <1>4, FromSectionIs, Zenon
  <2>2. Len(dump) - 1 + 1 = 1 /\ 1 - 1 + 1 = 1
    BY <1>1
  <2>3. it[1 - 1 + 1] = dump[1]
    BY <1>1, <2>1, Zenon
  <2>4. Len(it) = 1 /\ it[1] = dump[1]
    BY <2>1, <2>2, <2>3
  <2> QED
    BY <1>3, <1>4, <2>4, Zenon
<1>6. Len(dump[1].bytes) \in Nat
  BY <1>1, SectionsAre
<1> QED
  BY <1>1, <1>5, <1>6

\* The three cases of the parser's step.
LEMMA ParseEnds ==
  ASSUME DumpInv, Parse, at = Len(lprog)
  PROVE  DumpInv'
<1>1. /\ dump \in Seq(Sections) /\ file \in Seq(DumpLine) /\ prog \in Seq(Nat)
      /\ programmer = "parse" /\ converter = "convert" /\ membuf = Empty /\ file' = file
      /\ Begun(dump)' = Begun(dump) /\ Begun(dump) \in Seq(Sections)
      /\ UNCHANGED <<dump, base, format, converter, lprog, plinecount, membuf, files>>
      /\ at' = 0 /\ wp' = 0 => Converted(0, 0)'
  BY ParseLeaves
<1>2. programmer' = "parsed" /\ at' = 0 /\ wp' = 0 /\ prog' = prog
  BY DEF Parse
<1>3. PICK k \in Nat, o \in Nat : Parsed(Begun(dump), k, o)
  BY ParseLeaves
<1>4. k = Len(Begun(dump)) /\ AllRead(Begun(dump), k, o) /\ Listed(Begun(dump), prog, k, o)
  BY <1>3, LastLine, Zenon DEF Parsed
<1>5. IsListOf(Begun(dump), prog)
  BY <1>1, <1>4, AllIsListed
<1>6. ParsedIsDump'
  BY <1>1, <1>2, <1>5, Zenon DEF ParsedIsDump, IsListOf
<1>7. 0 \in Nat /\ 0 <= Len(file)
  BY <1>1
<1>8. DumpTypes'
  BY <1>1, <1>2, <1>7, Zenon DEF DumpInv, DumpTypes
<1>9. Stages' /\ CollectInv' /\ ParseInv' /\ ConvertedIsDump'
  BY <1>1, <1>2, <1>7 DEF Stages, Finished, CollectInv, ParseInv, ConvertedIsDump
<1>10. ConvertInv'
  BY <1>1, <1>2, <1>7, Zenon DEF ConvertInv
<1>11. OneInv'
  <2>1. ASSUME OneSection
        PROVE  ProgramRight(Len(dump[1].bytes))'
    <3>1. Len(Begun(dump)) = 1 /\ Begun(dump)[1] = dump[1] /\ dump[1].at = 0
      BY <1>1, <2>1, OneIsBegun
    <3>2. PICK size \in Nat : size = Len(dump[1].bytes)
      BY <1>1, <2>1, OneIsBegun
    <3>3. PICK n \in Nat : n = Len(prog)
      BY <1>1
    <3>4. LengthFits(n, size)
      BY <1>1, <2>1, <3>2, <3>3, Zenon DEF DumpInv, OneInv, LengthRight
    <3>5. ASSUME size # 0
          PROVE  size <= n
      <4>1. dump[1].bytes # <<>>
        BY <3>2, <3>5
      <4>2. 1 \in DOMAIN Begun(dump)
        BY <1>1, <3>1
      <4>3. Ends(dump[1]) <= n
        BY <1>5, <3>1, <3>3, <4>1, <4>2, Zenon DEF IsListOf
      <4>4. Ends(dump[1]) = 0 + size /\ 0 + size = size
        BY <3>1, <3>2 DEF Ends
      <4> QED
        BY <4>3, <4>4
    <3>6. IF size > LINE THEN n - size \in 0 .. LINE - 1 ELSE ~(size > 1)
      BY <3>4, <3>5, EndFits
    <3>7. programmer' # "IndexError"
      BY <1>2
    <3> QED
      BY <1>1, <1>2, <3>2, <3>3, <3>6, <3>7, Zenon DEF ProgramRight
  <2>2. programmer' # "collect" /\ programmer' # "parse"
    BY <1>2
  <2> QED
    BY <1>1, <2>1, <2>2, Zenon DEF OneInv, OneSection
<1> QED
  BY <1>6, <1>8, <1>9, <1>10, <1>11, Zenon DEF DumpInv

\* The line that is parsed, and what it stands for.
ParsesLine(line, k, o, k2, o2) ==
  /\ line = lprog[at + 1] /\ line \in DumpLine /\ Parsed(Begun(dump), k, o)
  /\ Where(Begun(dump), lprog, at + 1, k2, o2)
  /\ CoversNext(Begun(dump), line, k, o, k2, o2)
  /\ \/ AddressLine(Begun(dump), line, k, o, k2, o2)
     \/ BytesLine(Begun(dump), line, k, o, k2, o2)

LEMMA LineIsParsed ==
  ASSUME DumpInv, Parse, at # Len(lprog)
  PROVE  /\ at + 1 \in Nat /\ at + 1 <= Len(lprog)
         /\ \E k, o, k2, o2 \in Nat : ParsesLine(lprog[at + 1], k, o, k2, o2)
<1>1. /\ lprog \in Seq(DumpLine) /\ at \in Nat /\ at <= Len(lprog)
      /\ Begun(dump) \in Seq(Sections)
  BY ParseLeaves
<1>2. at < Len(lprog) /\ at + 1 \in Nat /\ at + 1 <= Len(lprog)
  BY <1>1
<1>3. PICK k \in Nat, o \in Nat : Parsed(Begun(dump), k, o)
  BY ParseLeaves
<1>4. Where(Begun(dump), lprog, at, k, o) /\ InSection(Begun(dump), k, o)
  BY <1>3, Zenon DEF Parsed, Located
<1>5. NextIs(Begun(dump), lprog, at, k, o)
  BY <1>1, <1>2, <1>4, NextLine
<1>6. PICK line : line = lprog[at + 1]
  OBVIOUS
<1>7. PICK k2 \in Nat, o2 \in Nat : /\ Where(Begun(dump), lprog, at + 1, k2, o2)
                                    /\ Follows(Begun(dump), line, k, o, k2, o2)
  BY <1>5, <1>6, Zenon DEF NextIs
<1>8. line \in DumpLine
  BY <1>5, <1>6, Zenon DEF NextIs
<1>9. CoversNext(Begun(dump), line, k, o, k2, o2)
  BY <1>1, <1>4, <1>7, LineCovers
<1>10. \/ AddressLine(Begun(dump), line, k, o, k2, o2)
       \/ BytesLine(Begun(dump), line, k, o, k2, o2)
  BY <1>1, <1>7, LineMeans
<1>11. ParsesLine(line, k, o, k2, o2)
  BY <1>3, <1>6, <1>7, <1>8, <1>9, <1>10, Zenon DEF ParsesLine
<1> QED
  BY <1>2, <1>6, <1>11, Zenon

\* Where a section's address, and its bytes, come to.
LEMMA LocatedAt ==
  ASSUME NEW sections \in Seq(Sections), NEW k \in 1 .. Len(sections), NEW o \in Nat,
         InSection(sections, k, o), NEW from \in Nat, NEW pos
  PROVE  /\ Located(sections, k, o, from, pos) <=> pos = (sections[k].at - from) + o
         /\ sections[k].at \in Nat
BY SectionsAre DEF Located

LEMMA ParseAddress ==
  ASSUME DumpInv, Parse, at # Len(lprog), lprog[at + 1][1] = "@"
  PROVE  DumpInv'
<1>1. /\ dump \in Seq(Sections) /\ prog \in Seq(Nat)
      /\ programmer = "parse" /\ converter = "convert" /\ membuf = Empty /\ file' = file
      /\ Begun(dump)' = Begun(dump)
      /\ Begun(dump) \in Seq(Sections) /\ ByteSections(Begun(dump))
      /\ UNCHANGED <<dump, base, format, converter, lprog, plinecount, membuf, files>>
  BY ParseLeaves
<1>2. PICK line : line = lprog[at + 1]
  OBVIOUS
<1>3. line[1] = "@" /\ at' = at + 1 /\ wp' = line[2] /\ programmer' = programmer /\ prog' = prog
  BY <1>2, Zenon DEF Parse
<1>4. at + 1 \in Nat /\ at + 1 <= Len(lprog)
  BY LineIsParsed
<1>5. PICK k \in Nat, o \in Nat, k2 \in Nat, o2 \in Nat : ParsesLine(line, k, o, k2, o2)
  BY <1>2, LineIsParsed
<1>6. /\ Parsed(Begun(dump), k, o) /\ Where(Begun(dump), lprog, at + 1, k2, o2)
      /\ CoversNext(Begun(dump), line, k, o, k2, o2)
      /\ AddressLine(Begun(dump), line, k, o, k2, o2)
  BY <1>3, <1>5, Zenon DEF ParsesLine, BytesLine
<1>7. Listed(Begun(dump), prog, k2, o2)
  <2>1. Listed(Begun(dump), prog, k, o)
    BY <1>6, Zenon DEF Parsed
  <2> QED
    BY <1>1, <1>6, <2>1, AddressIsListed
<1>8. Located(Begun(dump), k2, o2, 0, line[2])
  <2>1. InSection(Begun(dump), k2, o2)
    BY <1>6, Zenon DEF CoversNext
  <2>2. k2 \in 1 .. Len(Begun(dump)) /\ o2 = 0 /\ line[2] = Begun(dump)[k2].at
    BY <1>6, Zenon DEF AddressLine
  <2>3. PICK pos \in Nat : pos = Begun(dump)[k2].at
    BY <1>1, <2>2, SectionsAre
  <2>4. pos = (pos - 0) + o2 /\ 0 \in Nat
    BY <2>2
  <2>5. pos = (Begun(dump)[k2].at - 0) + o2
    BY <2>3, <2>4, Zenon
  <2>6. Located(Begun(dump), k2, o2, 0, pos)
    BY <1>1, <2>1, <2>2, <2>4, <2>5, LocatedAt
  <2> QED
    BY <2>2, <2>3, <2>6, Zenon
<1>9. Parsed(Begun(dump), k2, o2)'
  BY <1>1, <1>3, <1>6, <1>7, <1>8, Zenon DEF Parsed
<1>10. ParseInv'
  BY <1>1, <1>9, Zenon DEF ParseInv
<1>11. DumpTypes'
  BY <1>1, <1>3, <1>4, Zenon DEF DumpInv, DumpTypes
<1>12. Stages' /\ CollectInv' /\ ParsedIsDump' /\ ConvertInv' /\ ConvertedIsDump'
  BY <1>1, <1>3, <1>4
    DEF Stages, Finished, CollectInv, ParsedIsDump, ConvertInv, ConvertedIsDump
<1>13. OneInv'
  <2>1. programmer # "collect" /\ ~Finished
    BY <1>1 DEF Finished
  <2> QED
    BY <1>1, <1>3, <2>1, Zenon DEF DumpInv, OneInv, OneSection, Finished, LengthRight
<1> QED
  BY <1>10, <1>11, <1>12, <1>13, Zenon DEF DumpInv

\* What a line's bytes are of, and where they come to.
BytesComeTo(line, k, o, k2, o2) ==
  /\ ByteLine(line) /\ line[2] \in Seq(Nat) /\ Len(line[2]) \in Nat /\ k2 = k
  /\ k \in 1 .. Len(Begun(dump)) /\ o2 = o + Len(line[2])
  /\ o2 <= Len(Begun(dump)[k].bytes) /\ Begun(dump)[k].at \in Nat
  /\ wp = Begun(dump)[k].at + o
  /\ Located(Begun(dump), k2, o2, 0, wp + Len(line[2]))

LEMMA BytesAreAt ==
  ASSUME Begun(dump) \in Seq(Sections), ByteSections(Begun(dump)), NEW line,
         NEW k \in Nat, NEW o \in Nat, NEW k2 \in Nat, NEW o2 \in Nat,
         ParsesLine(line, k, o, k2, o2), BytesLine(Begun(dump), line, k, o, k2, o2)
  PROVE  BytesComeTo(line, k, o, k2, o2)
<1>1. /\ ByteLine(line) /\ line[2] \in Seq(Nat) /\ Len(line[2]) = o2 - o
  <2>1. HasBytes(line, o, o2)
    BY LineHasBytes, Zenon
  <2> QED
    BY <2>1, Zenon DEF HasBytes
<1>2. /\ k2 = k /\ k \in 1 .. Len(Begun(dump)) /\ o < o2 /\ o2 <= Len(Begun(dump)[k].bytes)
  BY Zenon DEF BytesLine
<1>3. PICK size \in Nat : size = Len(line[2]) /\ size = o2 - o
  BY <1>1, <1>2
<1>4. PICK from \in Nat : from = Begun(dump)[k].at
  BY <1>2, SectionsAre
<1>5. Located(Begun(dump), k, o, 0, wp) /\ InSection(Begun(dump), k, o)
  BY Zenon DEF ParsesLine, Parsed, Located
<1>6. wp = (from - 0) + o
  <2>1. 0 \in Nat
    OBVIOUS
  <2>2. PICK pos : pos = wp
    OBVIOUS
  <2>3. Located(Begun(dump), k, o, 0, pos)
    BY <1>5, <2>2, Zenon
  <2>4. pos = (Begun(dump)[k].at - 0) + o
    BY <1>2, <1>5, <2>1, <2>3, LocatedAt
  <2> QED
    BY <1>4, <2>2, <2>4, Zenon
<1>7. wp = from + o
  BY <1>6
<1>8. (from + o) + size = (from - 0) + o2 /\ o2 = o + size
  BY <1>3
<1>9. wp + size = (from - 0) + o2
  BY <1>7, <1>8, Zenon
<1>10. Located(Begun(dump), k2, o2, 0, wp + size)
  <2>1. InSection(Begun(dump), k2, o2)
    BY Zenon DEF ParsesLine, CoversNext
  <2>2. 0 \in Nat
    OBVIOUS
  <2> QED
    BY <1>2, <1>4, <1>9, <2>1, <2>2, LocatedAt, Zenon
<1> QED
  BY <1>1, <1>2, <1>3, <1>4, <1>7, <1>8, <1>10, Zenon DEF BytesComeTo

\* The program has no room for the line.
LEMMA ParseStops ==
  ASSUME DumpInv, Parse, at # Len(lprog), lprog[at + 1][1] # "@",
         wp + Len(lprog[at + 1][2]) > Len(prog)
  PROVE  DumpInv'
<1>1. /\ dump \in Seq(Sections) /\ file \in Seq(DumpLine) /\ prog \in Seq(Nat)
      /\ programmer = "parse" /\ converter = "convert" /\ membuf = Empty /\ file' = file
      /\ Begun(dump)' = Begun(dump)
      /\ Begun(dump) \in Seq(Sections) /\ ByteSections(Begun(dump))
      /\ UNCHANGED <<dump, base, format, converter, lprog, plinecount, membuf, files>>
      /\ at' = 0 /\ wp' = 0 => Converted(0, 0)'
  BY ParseLeaves
<1>2. PICK line : line = lprog[at + 1]
  OBVIOUS
<1>3. /\ line[1] # "@" /\ programmer' = "IndexError" /\ at' = 0 /\ wp' = 0
      /\ prog' = Put(prog, wp, line[2])
  BY <1>2, Zenon DEF Parse
<1>4. PICK k \in Nat, o \in Nat, k2 \in Nat, o2 \in Nat : ParsesLine(line, k, o, k2, o2)
  BY <1>2, LineIsParsed
<1>5. BytesLine(Begun(dump), line, k, o, k2, o2)
  BY <1>3, <1>4, Zenon DEF ParsesLine, AddressLine
<1>6. BytesComeTo(line, k, o, k2, o2)
  BY <1>1, <1>4, <1>5, BytesAreAt
<1>7. ByteLine(line) /\ line[2] \in Seq(Nat) /\ wp \in Nat
  <2>1. PICK from \in Nat : from = Begun(dump)[k].at
    BY <1>6, Zenon DEF BytesComeTo
  <2>2. wp = from + o
    BY <1>6, <2>1, Zenon DEF BytesComeTo
  <2>3. wp \in Nat
    BY <2>2
  <2> QED
    BY <1>6, <2>3, Zenon DEF BytesComeTo
<1>8. /\ prog' \in Seq(Nat) /\ Len(prog') = Len(prog)
      /\ \A n \in 1 .. Len(prog) : prog'[n] \in 0 .. 255
  <2>1. \A n \in 1 .. Len(prog) : prog[n] \in 0 .. 255
    BY Zenon DEF DumpInv, DumpTypes
  <2>2. PICK list \in Seq(Nat) : list = prog
    BY <1>1
  <2>3. \A n \in 1 .. Len(list) : list[n] \in 0 .. 255
    BY <2>1, <2>2, Zenon
  <2>4. PICK pos \in Nat : pos = wp
    BY <1>7
  <2>5. AreBytes(Put(list, pos, line[2]), Len(list))
    BY <1>7, <2>3, PutIsBytes, Zenon
  <2> QED
    BY <1>3, <2>2, <2>4, <2>5, Zenon DEF AreBytes
<1>9. 0 \in Nat /\ 0 <= Len(file)
  BY <1>1
<1>10. DumpTypes'
  BY <1>1, <1>3, <1>8, <1>9, Zenon DEF DumpInv, DumpTypes
<1>11. Stages' /\ CollectInv' /\ ParseInv' /\ ParsedIsDump' /\ ConvertedIsDump'
  BY <1>1, <1>3, <1>9
    DEF Stages, Finished, CollectInv, ParseInv, ParsedIsDump, ConvertedIsDump
<1>12. ConvertInv'
  BY <1>1, <1>3, <1>9, Zenon DEF ConvertInv
<1>13. OneInv'
  <2>1. ASSUME OneSection
        PROVE  ProgramRight(Len(dump[1].bytes))'
    <3>1. Len(Begun(dump)) = 1 /\ Begun(dump)[1] = dump[1] /\ dump[1].at = 0
      BY <1>1, <2>1, OneIsBegun
    <3>2. PICK size \in Nat : size = Len(dump[1].bytes)
      BY <1>1, <2>1, OneIsBegun
    <3>3. PICK n \in Nat : n = Len(prog)
      BY <1>1
    <3>4. LengthFits(n, size)
      BY <1>1, <2>1, <3>2, <3>3, Zenon DEF DumpInv, OneInv, LengthRight
    <3>5. PICK part \in Nat : part = Len(line[2])
      BY <1>6 DEF BytesComeTo
    <3>6. k = 1
      BY <1>6, <3>1 DEF BytesComeTo
    <3>7. o2 = o + part /\ o2 <= size /\ wp = 0 + o
      BY <1>6, <3>1, <3>2, <3>5, <3>6, Zenon DEF BytesComeTo
    <3>8. wp + part > n
      BY <1>2, <3>3, <3>5, Zenon
    <3>9. n < size
      BY <3>7, <3>8
    <3>10. size > 1 /\ ~(size > LINE)
      BY <3>4, <3>9, StopFits
    <3> QED
      BY <1>1, <1>3, <3>2, <3>10, Zenon DEF ProgramRight
  <2>2. programmer' # "collect" /\ programmer' # "parse"
    BY <1>3
  <2> QED
    BY <1>1, <2>1, <2>2, Zenon DEF OneInv, OneSection
<1> QED
  BY <1>10, <1>11, <1>12, <1>13, Zenon DEF DumpInv

LEMMA ParseBytes ==
  ASSUME DumpInv, Parse, at # Len(lprog), lprog[at + 1][1] # "@",
         ~(wp + Len(lprog[at + 1][2]) > Len(prog))
  PROVE  DumpInv'
<1>1. /\ dump \in Seq(Sections) /\ prog \in Seq(Nat)
      /\ programmer = "parse" /\ converter = "convert" /\ membuf = Empty /\ file' = file
      /\ Begun(dump)' = Begun(dump)
      /\ Begun(dump) \in Seq(Sections) /\ ByteSections(Begun(dump))
      /\ UNCHANGED <<dump, base, format, converter, lprog, plinecount, membuf, files>>
  BY ParseLeaves
<1>2. PICK line : line = lprog[at + 1]
  OBVIOUS
<1>3. /\ line[1] # "@" /\ programmer' = programmer /\ at' = at + 1
      /\ wp' = wp + Len(line[2]) /\ prog' = Put(prog, wp, line[2])
  BY <1>2, Zenon DEF Parse
<1>4. PICK k \in Nat, o \in Nat, k2 \in Nat, o2 \in Nat : ParsesLine(line, k, o, k2, o2)
  BY <1>2, LineIsParsed
<1>5. BytesLine(Begun(dump), line, k, o, k2, o2)
  BY <1>3, <1>4, Zenon DEF ParsesLine, AddressLine
<1>6. BytesComeTo(line, k, o, k2, o2)
  BY <1>1, <1>4, <1>5, BytesAreAt
<1>7. ByteLine(line) /\ line[2] \in Seq(Nat) /\ wp \in Nat
  <2>1. PICK from \in Nat : from = Begun(dump)[k].at
    BY <1>6, Zenon DEF BytesComeTo
  <2>2. wp = from + o
    BY <1>6, <2>1, Zenon DEF BytesComeTo
  <2>3. wp \in Nat
    BY <2>2
  <2> QED
    BY <1>6, <2>3, Zenon DEF BytesComeTo
<1>8. /\ prog' \in Seq(Nat) /\ Len(prog') = Len(prog)
      /\ \A n \in 1 .. Len(prog) : prog'[n] \in 0 .. 255
  <2>1. \A n \in 1 .. Len(prog) : prog[n] \in 0 .. 255
    BY Zenon DEF DumpInv, DumpTypes
  <2>2. PICK list \in Seq(Nat) : list = prog
    BY <1>1
  <2>3. \A n \in 1 .. Len(list) : list[n] \in 0 .. 255
    BY <2>1, <2>2, Zenon
  <2>4. PICK pos \in Nat : pos = wp
    BY <1>7
  <2>5. AreBytes(Put(list, pos, line[2]), Len(list))
    BY <1>7, <2>3, PutIsBytes, Zenon
  <2> QED
    BY <1>3, <2>2, <2>4, <2>5, Zenon DEF AreBytes
<1>9. at + 1 \in Nat /\ at + 1 <= Len(lprog)
  BY LineIsParsed
<1>10. HasPlace(Begun(dump), line, prog, k, o, wp)
  <2>1. PICK part \in Nat : part = Len(line[2])
    BY <1>6 DEF BytesComeTo
  <2>2. PICK n \in Nat : n = Len(prog)
    BY <1>1
  <2>3. ~(wp + part > n)
    BY <1>2, <2>1, <2>2, Zenon
  <2>4. wp + part <= n
    BY <1>7, <2>3
  <2>5. wp = Begun(dump)[k].at + o
    BY <1>6, Zenon DEF BytesComeTo
  <2> QED
    BY <2>1, <2>2, <2>4, <2>5, Zenon DEF HasPlace
<1>11. /\ Parsed(Begun(dump), k, o) /\ Where(Begun(dump), lprog, at + 1, k2, o2)
       /\ CoversNext(Begun(dump), line, k, o, k2, o2)
  BY <1>4, Zenon DEF ParsesLine
<1>12. Listed(Begun(dump), prog', k2, o2)
  <2>1. Listed(Begun(dump), prog, k, o)
    BY <1>11, Zenon DEF Parsed
  <2>2. Listed(Begun(dump), Put(prog, wp, line[2]), k2, o2)
    BY <1>1, <1>5, <1>7, <1>10, <1>11, <2>1, BytesAreListed
  <2> QED
    BY <1>3, <2>2, Zenon
<1>13. Located(Begun(dump), k2, o2, 0, wp')
  BY <1>3, <1>6, Zenon DEF BytesComeTo
<1>14. Parsed(Begun(dump), k2, o2)'
  BY <1>1, <1>3, <1>11, <1>12, <1>13, Zenon DEF Parsed
<1>15. ParseInv'
  BY <1>1, <1>14, Zenon DEF ParseInv
<1>16. DumpTypes'
  BY <1>1, <1>3, <1>8, <1>9, Zenon DEF DumpInv, DumpTypes
<1>17. Stages' /\ CollectInv' /\ ParsedIsDump' /\ ConvertInv' /\ ConvertedIsDump'
  BY <1>1, <1>3, <1>9
    DEF Stages, Finished, CollectInv, ParsedIsDump, ConvertInv, ConvertedIsDump
<1>18. OneInv'
  <2>1. programmer # "collect" /\ ~Finished
    BY <1>1 DEF Finished
  <2>2. OneSection => LengthRight(Len(dump[1].bytes))
    BY <1>1, Zenon DEF DumpInv, OneInv
  <2>3. OneSection => LengthFits(Len(prog'), Len(dump[1].bytes))
    BY <1>8, <2>2, Zenon DEF LengthRight
  <2> QED
    BY <1>1, <1>3, <2>1, <2>3, Zenon DEF OneInv, OneSection, Finished, LengthRight
<1> QED
  BY <1>15, <1>16, <1>17, <1>18, Zenon DEF DumpInv

LEMMA ParseKeeps ==
  ASSUME DumpInv, Parse
  PROVE  DumpInv'
BY ParseEnds, ParseAddress, ParseStops, ParseBytes

\* The line that is converted, and what it stands for.
ConvertsLine(line, k, o, k2, o2) ==
  /\ line = file[at + 1] /\ Converted(k, o) /\ Where(dump, file, at + 1, k2, o2)
  /\ CoversNext(dump, line, k, o, k2, o2)
  /\ AddressLine(dump, line, k, o, k2, o2) \/ BytesLine(dump, line, k, o, k2, o2)

LEMMA ConvertLeaves ==
  ASSUME DumpInv, ConvertLine
  PROVE  /\ dump \in Seq(Sections) /\ ByteSections(dump) /\ base \in Nat /\ at \in Nat
         /\ Finished /\ converter = "convert" /\ file' = file /\ at' = at + 1
         /\ at + 1 \in Nat /\ at + 1 <= Len(file)
         /\ UNCHANGED <<dump, base, format, programmer, lprog, plinecount, prog, files>>
         /\ \E k, o, k2, o2 \in Nat : ConvertsLine(file[at + 1], k, o, k2, o2)
<1>1. /\ dump \in Seq(Sections) /\ ByteSections(dump) /\ base \in Nat /\ at \in Nat
      /\ Finished /\ converter = "convert" /\ at < Len(file) /\ at' = at + 1
      /\ UNCHANGED <<dump, base, format, programmer, lprog, plinecount, prog, files>>
  BY DEF DumpInv, DumpTypes, ConvertLine, Converts, Finished
<1>2. file \in Seq(DumpLine) /\ file' = file
  BY <1>1, FileIs, Zenon DEF file
<1>3. at + 1 \in Nat /\ at + 1 <= Len(file)
  BY <1>1, <1>2
<1>4. PICK k \in Nat, o \in Nat : Converted(k, o)
  BY <1>1, Zenon DEF DumpInv, ConvertInv
<1>5. Where(dump, file, at, k, o) /\ InSection(dump, k, o)
  BY <1>4, Zenon DEF Converted, Located
<1>6. NextIs(dump, file, at, k, o)
  BY <1>1, <1>5, NextLine
<1>7. PICK line : line = file[at + 1]
  OBVIOUS
<1>8. PICK k2 \in Nat, o2 \in Nat : /\ Where(dump, file, at + 1, k2, o2)
                                    /\ Follows(dump, line, k, o, k2, o2)
  BY <1>6, <1>7, Zenon DEF NextIs
<1>9. CoversNext(dump, line, k, o, k2, o2)
  BY <1>1, <1>5, <1>8, LineCovers
<1>10. AddressLine(dump, line, k, o, k2, o2) \/ BytesLine(dump, line, k, o, k2, o2)
  BY <1>1, <1>8, LineMeans
<1>11. ConvertsLine(line, k, o, k2, o2)
  BY <1>4, <1>7, <1>8, <1>9, <1>10, Zenon DEF ConvertsLine
<1> QED
  BY <1>1, <1>2, <1>3, <1>7, <1>11, Zenon

\* What has to be shown of the memory then.
LEMMA ConvertCase ==
  ASSUME DumpInv, ConvertLine, NEW mem \in [0 .. MEMSIZE - 1 -> 0 .. 255], membuf' = mem,
         converter' \in {"convert", "IndexError"}, ConvertInv'
  PROVE  DumpInv'
<1>1. /\ dump \in Seq(Sections) /\ base \in Nat
      /\ Finished /\ file' = file /\ at' = at + 1 /\ at + 1 \in Nat /\ at + 1 <= Len(file)
      /\ UNCHANGED <<dump, base, format, programmer, lprog, plinecount, prog, files>>
  BY ConvertLeaves
<1>2. converter' \in {"convert", "written", "IndexError"} /\ converter' # "written"
  OBVIOUS
<1>3. DumpTypes'
  BY <1>1, <1>2, Zenon DEF DumpInv, DumpTypes
<1>4. programmer # "collect" /\ programmer # "parse"
  BY <1>1 DEF Finished
<1>5. Stages'
  BY <1>1, <1>4, Zenon DEF Stages, Finished
<1>6. CollectInv' /\ ParseInv' /\ ConvertedIsDump'
  BY <1>1, <1>2, <1>4, Zenon DEF CollectInv, ParseInv, ConvertedIsDump
<1>7. Begun(dump)' = Begun(dump)
  BY <1>1, Zenon DEF Begun
<1>8. ParsedIsDump'
  BY <1>1, <1>7, Zenon DEF DumpInv, ParsedIsDump
<1>9. OneInv'
  BY <1>1, <1>4, Zenon DEF DumpInv, OneInv, OneSection, Finished, ProgramRight
<1> QED
  BY <1>3, <1>5, <1>6, <1>8, <1>9, Zenon DEF DumpInv

LEMMA ConvertAddress ==
  ASSUME DumpInv, ConvertLine, file[at + 1][1] = "@"
  PROVE  DumpInv'
<1>1. /\ dump \in Seq(Sections) /\ base \in Nat
      /\ Finished /\ converter = "convert" /\ file' = file /\ at' = at + 1
      /\ UNCHANGED <<dump, base, format, programmer, lprog, plinecount, prog, files>>
  BY ConvertLeaves
<1>2. PICK line : line = file[at + 1]
  OBVIOUS
<1>3. /\ line[1] = "@" /\ wp' = line[2] - base /\ membuf' = membuf /\ converter' = converter
  BY <1>2, Zenon DEF ConvertLine
<1>4. PICK k \in Nat, o \in Nat, k2 \in Nat, o2 \in Nat : ConvertsLine(line, k, o, k2, o2)
  BY <1>2, ConvertLeaves
<1>5. /\ Converted(k, o) /\ Where(dump, file, at + 1, k2, o2)
      /\ CoversNext(dump, line, k, o, k2, o2) /\ AddressLine(dump, line, k, o, k2, o2)
  BY <1>3, <1>4, Zenon DEF ConvertsLine, BytesLine
<1>6. InMemory(dump, base, membuf, k2, o2)
  <2>1. InMemory(dump, base, membuf, k, o)
    BY <1>5, Zenon DEF Converted
  <2> QED
    BY <1>1, <1>5, <2>1, AddressInMemory
<1>7. Located(dump, k2, o2, base, line[2] - base)
  <2>1. InSection(dump, k2, o2)
    BY <1>5, Zenon DEF CoversNext
  <2>2. k2 \in 1 .. Len(dump) /\ o2 = 0 /\ line[2] = dump[k2].at
    BY <1>5, Zenon DEF AddressLine
  <2>3. PICK from \in Nat : from = dump[k2].at
    BY <1>1, <2>2, SectionsAre
  <2>4. PICK pos \in Int : pos = from - base /\ pos = (from - base) + o2
    BY <1>1, <2>2
  <2>5. pos = (dump[k2].at - base) + o2
    BY <2>3, <2>4, Zenon
  <2>6. Located(dump, k2, o2, base, pos)
    BY <1>1, <2>1, <2>2, <2>5, LocatedAt
  <2> QED
    BY <2>2, <2>3, <2>4, <2>6, Zenon
<1>8. Converted(k2, o2)'
  BY <1>1, <1>3, <1>5, <1>6, <1>7, Zenon DEF Converted
<1>9. ConvertInv'
  BY <1>8, Zenon DEF ConvertInv
<1>10. membuf \in [0 .. MEMSIZE - 1 -> 0 .. 255]
  BY DEF DumpInv, DumpTypes
<1>11. converter' \in {"convert", "IndexError"}
  BY <1>1, <1>3
<1> QED
  BY <1>3, <1>9, <1>10, <1>11, ConvertCase

LEMMA ConvertBytes ==
  ASSUME DumpInv, ConvertLine, file[at + 1][1] # "@"
  PROVE  DumpInv'
<1>1. /\ dump \in Seq(Sections) /\ ByteSections(dump) /\ base \in Nat
      /\ Finished /\ converter = "convert" /\ file' = file /\ at' = at + 1
      /\ UNCHANGED <<dump, base, format, programmer, lprog, plinecount, prog, files>>
  BY ConvertLeaves
<1>2. PICK line : line = file[at + 1]
  OBVIOUS
<1>3. /\ line[1] # "@" /\ wp' = wp + Len(line[2]) /\ membuf' = Merged(membuf, line, wp)
      /\ converter' = "IndexError" \/ converter' = converter
  <2>1. /\ wp' = wp + Len(file[at + 1][2])
        /\ converter' = IF wp < -MEMSIZE \/ wp + Len(file[at + 1][2]) > MEMSIZE
                           THEN "IndexError" ELSE converter
    BY Zenon DEF ConvertLine
  <2>2. membuf' = Merged(membuf, file[at + 1], wp)
    BY Zenon DEF ConvertLine, Merged
  <2> QED
    BY <1>2, <2>1, <2>2, Zenon
<1>4. PICK k \in Nat, o \in Nat, k2 \in Nat, o2 \in Nat : ConvertsLine(line, k, o, k2, o2)
  BY <1>2, ConvertLeaves
<1>5. /\ Converted(k, o) /\ Where(dump, file, at + 1, k2, o2)
      /\ CoversNext(dump, line, k, o, k2, o2) /\ BytesLine(dump, line, k, o, k2, o2)
  BY <1>3, <1>4, Zenon DEF ConvertsLine, AddressLine
<1>6. HasBytes(line, o, o2) /\ ByteLine(line) /\ line[2] \in Seq(Nat) /\ Len(line[2]) = o2 - o
  <2>1. HasBytes(line, o, o2)
    BY <1>1, <1>5, LineHasBytes, Zenon
  <2> QED
    BY <2>1, Zenon DEF HasBytes
<1>7. /\ k2 = k /\ k \in 1 .. Len(dump) /\ o < o2
      /\ Located(dump, k, o, base, wp) /\ InSection(dump, k, o) /\ InSection(dump, k2, o2)
  BY <1>5, Zenon DEF BytesLine, Converted, Located, CoversNext
<1>8. PICK pos : pos = wp
  OBVIOUS
<1>9. pos = (dump[k].at - base) + o /\ dump[k].at \in Nat
  <2>1. Located(dump, k, o, base, pos)
    BY <1>7, <1>8, Zenon
  <2> QED
    BY <1>1, <1>7, <2>1, LocatedAt
<1>10. InMemory(dump, base, membuf', k2, o2)
  <2>1. InMemory(dump, base, membuf, k, o)
    BY <1>5, Zenon DEF Converted
  <2>2. PICK mem \in [0 .. MEMSIZE - 1 -> 0 .. 255] : mem = membuf
    BY DEF DumpInv, DumpTypes
  <2>3. InMemory(dump, base, mem, k, o)
    BY <2>1, <2>2, Zenon
  <2>4. InMemory(dump, base, Merged(mem, line, pos), k2, o2)
    BY <1>1, <1>5, <1>6, <1>9, <2>3, BytesInMemory, ZenonT(40)
  <2> QED
    BY <1>3, <1>8, <2>2, <2>4, Zenon
<1>11. Located(dump, k2, o2, base, wp')
  <2>1. PICK from \in Nat : from = dump[k].at
    BY <1>9
  <2>2. PICK size \in Nat : size = Len(line[2]) /\ size = o2 - o
    BY <1>6, <1>7
  <2>3. pos = (from - base) + o
    BY <1>9, <2>1, Zenon
  <2>4. PICK next : next = pos + size
    OBVIOUS
  <2>5. next = (from - base) + o2
    BY <1>1, <2>2, <2>3, <2>4
  <2>6. next = (dump[k2].at - base) + o2
    BY <1>7, <2>1, <2>5, Zenon
  <2>7. Located(dump, k2, o2, base, next)
    BY <1>1, <1>7, <2>6, LocatedAt
  <2> QED
    BY <1>3, <1>8, <2>2, <2>4, <2>7, Zenon
<1>12. converter' = "convert" => Converted(k2, o2)'
  BY <1>1, <1>3, <1>5, <1>10, <1>11, Zenon DEF Converted
<1>13. ConvertInv'
  BY <1>12, Zenon DEF ConvertInv
<1>14. membuf' \in [0 .. MEMSIZE - 1 -> 0 .. 255]
  <2>1. membuf \in [0 .. MEMSIZE - 1 -> 0 .. 255]
    BY DEF DumpInv, DumpTypes
  <2>2. \A n \in 1 .. Len(line[2]) : line[2][n] \in 0 .. 255
    BY <1>6, Zenon DEF ByteLine
  <2> QED
    BY <1>3, <2>1, <2>2, MergedIsBytes, Zenon
<1>15. converter' \in {"convert", "IndexError"}
  BY <1>1, <1>3
<1> QED
  BY <1>13, <1>14, <1>15, ConvertCase

LEMMA ConvertLineKeeps ==
  ASSUME DumpInv, ConvertLine
  PROVE  DumpInv'
BY ConvertAddress, ConvertBytes

-----------------------------------------------------------------------------
(* HexDump: what is written.                                               *)

IsCell(sections, here, mem, cell) ==
  BitsOf(mem[cell]) =
    UNION {BitsOf(b) : b \in BytesAt(sections, here + cell)
                             \cup BytesAt(sections, here + cell - MEMSIZE)}

LEMMA MemoryIsDump ==
  ASSUME NEW sections \in Seq(Sections), NEW o \in Nat, AllRead(sections, Len(sections), o),
         NEW here \in Nat, NEW mem, InMemory(sections, here, mem, Len(sections), o),
         NEW cell \in 0 .. MEMSIZE - 1
  PROVE  IsCell(sections, here, mem, cell)
<1>1. PICK k : k = Len(sections)
  OBVIOUS
<1>2. PICK high \in Int : high = Upper(here, cell)
  BY SizesAssumption DEF Upper
<1>3. PICK low \in Int : low = Lower(here, cell)
  BY SizesAssumption DEF Lower
<1>4. \A j \in Nat, addr \in Int : Covers(sections, k, o, j, addr) <=> Has(sections, j, addr)
  BY <1>1, AllCovered, Zenon DEF AllCovers
<1>5. DOMAIN sections \subseteq Nat
  OBVIOUS
<1>6. \A addr \in Int : \A v : ReadWith(sections, k, o, addr, v)
                                <=> \E b \in BytesAt(sections, addr) : v \in BitsOf(b)
  <2> SUFFICES ASSUME NEW addr \in Int, NEW v
               PROVE  ReadWith(sections, k, o, addr, v)
                        <=> \E b \in BytesAt(sections, addr) : v \in BitsOf(b)
    OBVIOUS
  <2>1. ReadWith(sections, k, o, addr, v)
          <=> \E j \in DOMAIN sections :
                Has(sections, j, addr) /\ v \in BitsOf(sections[j].bytes[addr - sections[j].at + 1])
    BY <1>4, <1>5, Zenon DEF ReadWith, Has
  <2>2. \A b : b \in BytesAt(sections, addr)
          <=> \E j \in DOMAIN sections :
                Has(sections, j, addr) /\ b = sections[j].bytes[addr - sections[j].at + 1]
    BY Zenon DEF BytesAt, Has
  <2> QED
    BY <2>1, <2>2, Zenon
<1>7. \A v : v \in BitsOf(mem[cell])
               <=> ReadWith(sections, k, o, high, v) \/ ReadWith(sections, k, o, low, v)
  BY <1>1, <1>2, <1>3, Zenon DEF InMemory
<1>8. \A v : v \in BitsOf(mem[cell])
               <=> \E b \in BytesAt(sections, high) \cup BytesAt(sections, low) : v \in BitsOf(b)
  BY <1>6, <1>7, Zenon
<1>9. BitsOf(mem[cell])
        = UNION {BitsOf(b) : b \in BytesAt(sections, high) \cup BytesAt(sections, low)}
  BY <1>8, Zenon
<1> QED
  BY <1>2, <1>3, <1>9, Zenon DEF IsCell, Upper, Lower

\* The word and the lane of a cell.
LEMMA WordOfCell ==
  ASSUME NEW cell \in 0 .. MEMSIZE - 1
  PROVE  /\ cell \div 4 + 1 \in 1 .. MEMSIZE \div 4 /\ cell % 4 \in 0 .. 3
         /\ 4 * ((cell \div 4 + 1) - 1) + (cell % 4) = cell
<1>1. PICK size \in Nat : size = MEMSIZE /\ size % 4 = 0
  BY SizesAssumption
<1>2. PICK n \in Nat : n = cell /\ n < size
  BY <1>1
<1>3. n \div 4 + 1 \in 1 .. size \div 4 /\ n % 4 \in 0 .. 3 /\ 4 * ((n \div 4 + 1) - 1) + (n % 4) = n
  BY <1>1, <1>2
<1> QED
  BY <1>1, <1>2, <1>3, Zenon

AreWords(words) ==
  \A cell \in 0 .. MEMSIZE - 1 : words[cell \div 4 + 1][cell % 4] = membuf[cell]

AreLanes(lanes) ==
  \A cell \in 0 .. MEMSIZE - 1 : lanes[cell % 4][cell \div 4 + 1] = membuf[cell]

LEMMA WordsAre == AreWords(Words) /\ AreLanes(Lanes(Words))
<1> SUFFICES ASSUME NEW cell \in 0 .. MEMSIZE - 1
             PROVE  /\ Words[cell \div 4 + 1][cell % 4] = membuf[cell]
                    /\ Lanes(Words)[cell % 4][cell \div 4 + 1] = membuf[cell]
  BY Zenon DEF AreWords, AreLanes
<1>1. PICK w \in 1 .. MEMSIZE \div 4 : w = cell \div 4 + 1
  BY WordOfCell
<1>2. PICK lane \in 0 .. 3 : lane = cell % 4
  BY WordOfCell
<1>3. 4 * (w - 1) + lane = cell
  BY <1>1, <1>2, WordOfCell, Zenon
<1>4. PICK words : words = Words
  OBVIOUS
<1>5. words = [v \in 1 .. MEMSIZE \div 4 |-> [l \in 0 .. 3 |-> membuf[4 * (v - 1) + l]]]
  BY <1>4, Zenon DEF Words
<1>6. words[w][lane] = membuf[4 * (w - 1) + lane] /\ w \in DOMAIN words
  BY <1>5, Zenon
<1>7. Lanes(words)[lane][w] = words[w][lane]
  BY <1>6, Zenon DEF Lanes
<1> QED
  BY <1>1, <1>2, <1>3, <1>4, <1>6, <1>7, Zenon

LEMMA WriteKeeps ==
  ASSUME DumpInv, Write
  PROVE  DumpInv'
<1>1. /\ dump \in Seq(Sections) /\ base \in Nat /\ at = Len(file)
      /\ Finished /\ converter = "convert" /\ converter' = "written"
      /\ UNCHANGED <<dump, base, format, programmer, at, lprog, plinecount, prog, wp, membuf>>
  BY DEF DumpInv, DumpTypes, Write, Converts, Finished
<1>2. file' = file
  BY <1>1, Zenon DEF file
<1>3. programmer # "collect" /\ programmer # "parse"
  BY <1>1 DEF Finished
<1>4. DumpTypes'
  BY <1>1, <1>2, Zenon DEF DumpInv, DumpTypes
<1>5. Stages'
  BY <1>1, <1>2, <1>3, Zenon DEF DumpInv, Stages, Finished
<1>6. Begun(dump)' = Begun(dump)
  BY <1>1, Zenon DEF Begun
<1>7. CollectInv' /\ ParseInv' /\ ConvertInv'
  BY <1>1, <1>3 DEF CollectInv, ParseInv, ConvertInv
<1>8. ParsedIsDump' /\ OneInv'
  BY <1>1, <1>3, <1>6, Zenon
    DEF DumpInv, ParsedIsDump, OneInv, OneSection, Finished, ProgramRight
<1>9. \A cell \in 0 .. MEMSIZE - 1 : IsCell(dump, base, membuf, cell)
  <2>1. PICK k \in Nat, o \in Nat : Converted(k, o)
    BY <1>1, Zenon DEF DumpInv, ConvertInv
  <2>2. Where(dump, file, Len(file), k, o) /\ InMemory(dump, base, membuf, k, o)
    BY <1>1, <2>1, Zenon DEF Converted
  <2>3. k = Len(dump) /\ AllRead(dump, Len(dump), o)
    BY <2>2, LastLine, Zenon
  <2>4. InMemory(dump, base, membuf, Len(dump), o)
    BY <2>2, <2>3, Zenon
  <2> QED
    BY <1>1, <2>3, <2>4, MemoryIsDump
<1>10. format \in {"vx4", "mix4"} => files' = Lanes(Words)
  BY DEF Write
<1>11. format \in {"v32", "mif", "mi"} => files' = Words
  BY DEF Write
<1>12. ConvertedIsDump'
  <2>1. AreWords(Words) /\ AreLanes(Lanes(Words))
    BY WordsAre
  <2>3. \A cell \in 0 .. MEMSIZE - 1 : IsCell(dump, base, membuf, cell)'
    BY <1>1, <1>9, Zenon
  <2>4. format \in {"vx4", "mix4"} =>
          \A cell \in 0 .. MEMSIZE - 1 : files'[cell % 4][cell \div 4 + 1] = membuf[cell]
    BY <1>10, <2>1, Zenon DEF AreLanes
  <2>5. format \in {"v32", "mif", "mi"} =>
          \A cell \in 0 .. MEMSIZE - 1 : files'[cell \div 4 + 1][cell % 4] = membuf[cell]
    BY <1>11, <2>1, Zenon DEF AreWords
  <2> QED
    BY <1>1, <2>3, <2>4, <2>5, Zenon DEF ConvertedIsDump, IsCell
<1> QED
  BY <1>4, <1>5, <1>7, <1>8, <1>12, Zenon DEF DumpInv

LEMMA DumpNothing ==
  ASSUME DumpInv, UNCHANGED dumpVars
  PROVE  DumpInv'
<1>1. UNCHANGED <<dump, base, format, programmer, converter, at, lprog, plinecount, prog, wp,
                  membuf, files>>
  BY DEF dumpVars
<1>2. file' = file /\ Begun(dump)' = Begun(dump)
  BY <1>1, Zenon DEF file, Begun
<1>3. DumpTypes' /\ Stages'
  BY <1>1, <1>2, Zenon DEF DumpInv, DumpTypes, Stages, Finished
<1>4. CollectInv'
  BY <1>1, <1>2, Zenon DEF DumpInv, CollectInv, KeptSoFar
<1>5. ParseInv' /\ ParsedIsDump'
  BY <1>1, <1>2, Zenon DEF DumpInv, ParseInv, Parsed, ParsedIsDump
<1>6. OneInv'
  BY <1>1, <1>2, Zenon
    DEF DumpInv, OneInv, OneSection, Finished, LengthRight, ProgramRight
<1>7. ConvertInv' /\ ConvertedIsDump'
  BY <1>1, <1>2, Zenon DEF DumpInv, ConvertInv, Converted, Finished, ConvertedIsDump
<1> QED
  BY <1>3, <1>4, <1>5, <1>6, <1>7, Zenon DEF DumpInv

LEMMA StepDump == DumpInv /\ [DumpNext]_dumpVars => DumpInv'
<1> SUFFICES ASSUME DumpInv, [DumpNext]_dumpVars PROVE DumpInv'
  OBVIOUS
<1> QED
  BY CollectKeeps, AllocateKeeps, ParseKeeps, ConvertLineKeeps, WriteKeeps, DumpNothing, Zenon
    DEF DumpNext

LEMMA DumpInvariance == DumpSpec => []DumpInv
BY InitDump, StepDump, PTL DEF DumpSpec

\* Every variable of the two readers of a dump has its type.
THEOREM DumpTyped == DumpSpec => []DumpTypeOK
<1>1. DumpInv => DumpTypeOK
  <2> SUFFICES ASSUME DumpInv PROVE DumpTypeOK
    OBVIOUS
  <2>1. DumpTypes /\ Stages
    BY DEF DumpInv
  <2>2. PICK len \in Nat : len = Len(file)
    BY <2>1, FileIs DEF DumpTypes
  <2>3. PICK n \in Nat : n = Len(lprog)
    BY <2>1 DEF DumpTypes
  <2>4. at \in Nat /\ n <= 2 * len /\ plinecount \in Nat /\ plinecount <= n
    BY <2>1, <2>2, <2>3, Zenon DEF DumpTypes
  <2>5. at <= len \/ at <= n
    BY <2>1, <2>2, <2>3, Zenon DEF DumpTypes, Stages, Finished
  <2>6. at \in 0 .. 2 * len /\ plinecount \in 0 .. n
    BY <2>4, <2>5
  <2>7. \A k \in DOMAIN prog : prog[k] \in 0 .. 255
    <3>1. prog \in Seq(Nat) /\ \A k \in 1 .. Len(prog) : prog[k] \in 0 .. 255
      BY <2>1, Zenon DEF DumpTypes
    <3>2. DOMAIN prog = 1 .. Len(prog)
      BY <3>1
    <3> QED
      BY <3>1, <3>2, Zenon
  <2>8. \A cell \in DOMAIN membuf : membuf[cell] \in 0 .. 255
    <3>1. membuf \in [0 .. MEMSIZE - 1 -> 0 .. 255]
      BY <2>1, Zenon DEF DumpTypes
    <3>2. DOMAIN membuf = 0 .. MEMSIZE - 1
      BY <3>1, Zenon
    <3> QED
      BY <3>1, <3>2, Zenon
  <2> QED
    BY <2>1, <2>2, <2>3, <2>6, <2>7, <2>8, Zenon DEF DumpTypes, DumpTypeOK
<1> QED
  BY <1>1, DumpInvariance, PTL

\* What each of the two scripts makes of a dump is the dump, whatever its sections
\* overlap: a program that is parsed, with the byte of the last section that has the
\* address; the length of one of a single section; and the memory that is converted,
\* each byte the or of all that come to it (pico-programmer.py:76-111,
\* vdump8to32.py:22-90).
THEOREM DumpStaysRead == DumpSpec => []DumpIsRead
<1>1. DumpInv => DumpIsRead
  <2> SUFFICES ASSUME DumpInv PROVE DumpIsRead
    OBVIOUS
  <2>1. OneSectionIsRead
    <3> SUFFICES ASSUME programmer \in {"parsed", "IndexError"}, Len(dump) = 1, dump[1].at = 0
                 PROVE  ProgramRight(Len(dump[1].bytes))
      BY Zenon DEF OneSectionIsRead, ProgramRight
    <3> QED
      BY DEF DumpInv, OneInv, OneSection, Finished
  <2> QED
    BY <2>1 DEF DumpInv, DumpIsRead
<1> QED
  BY <1>1, DumpInvariance, PTL

\* The two scripts read the same program out of a dump that begins at 0 and whose
\* sections do not overlap.
THEOREM ReadersStayAgreed == DumpSpec => []ReadersAgree
<1>1. DumpInv => ReadersAgree
  <2> SUFFICES ASSUME DumpInv, programmer = "parsed", converter = "written", base = 0,
                      Begun(dump) = dump, ~Overlap(dump),
                      NEW k \in DOMAIN prog, k <= MEMSIZE
               PROVE  prog[k] = membuf[k - 1]
    BY Zenon DEF ReadersAgree
  <2>1. dump \in Seq(Sections) /\ prog \in Seq(Nat)
    BY DEF DumpInv, DumpTypes
  <2>2. k \in Nat \ {0}
    BY <2>1
  <2>3. PICK cell \in 0 .. MEMSIZE - 1 : cell = k - 1
    BY <2>2, SizesAssumption
  <2>4. PICK low \in Int : low = cell - MEMSIZE /\ low < 0
    BY SizesAssumption
  <2>5. prog[k] = IF HasByte(dump, cell) THEN ByteAt(dump, cell) ELSE 0
    BY <2>3, Zenon DEF DumpInv, ParsedIsDump
  <2>6. IsCell(dump, base, membuf, cell)
    BY Zenon DEF DumpInv, ConvertedIsDump, IsCell
  <2>7. base + cell = cell /\ base + cell - MEMSIZE = low
    BY <2>4, SizesAssumption
  <2>8. ~HasByte(dump, low)
    <3> SUFFICES ASSUME NEW j \in DOMAIN dump, low \in dump[j].at .. Ends(dump[j]) - 1
                 PROVE  FALSE
      BY Zenon DEF HasByte
    <3>1. j \in 1 .. Len(dump)
      BY <2>1
    <3>2. PICK from \in Nat : from = dump[j].at
      BY <2>1, <3>1, SectionsAre
    <3>3. PICK size \in Nat : size = Len(dump[j].bytes)
      BY <2>1, <3>1, SectionsAre
    <3>4. low \in from .. (from + size) - 1
      BY <3>2, <3>3, Zenon DEF Ends
    <3> QED
      BY <2>4, <3>4
  <2>9. BytesAt(dump, low) = {} /\ BitsOf(membuf[cell]) = UNION {BitsOf(b) : b \in BytesAt(dump, cell)}
    <3>1. BytesAt(dump, low) = {}
      BY <2>8, Zenon DEF BytesAt, HasByte
    <3> QED
      BY <2>6, <2>7, <3>1, Zenon DEF IsCell
  <2>10. membuf[cell] \in 0 .. 255 /\ prog[k] \in 0 .. 255
    <3>1. k \in 1 .. Len(prog)
      BY <2>1
    <3> QED
      BY <2>3, <3>1, Zenon DEF DumpInv, DumpTypes
  <2>11. CASE HasByte(dump, cell)
    <3>1. BytesAt(dump, cell) = {ByteAt(dump, cell)}
      BY <2>1, <2>11, AloneAt
    <3>2. BitsOf(membuf[cell]) = BitsOf(prog[k])
      BY <2>5, <2>9, <2>11, <3>1, Zenon
    <3> QED
      BY <2>3, <2>10, <3>2, BitsAreByte
  <2>12. CASE ~HasByte(dump, cell)
    <3>1. BytesAt(dump, cell) = {}
      BY <2>12, Zenon DEF BytesAt, HasByte
    <3>2. BitsOf(membuf[cell]) = BitsOf(prog[k])
      BY <2>5, <2>9, <2>12, <3>1, NoBitsOfNothing
    <3> QED
      BY <2>3, <2>10, <3>2, BitsAreByte
  <2> QED
    BY <2>11, <2>12
<1> QED
  BY <1>1, DumpInvariance, PTL
==============================================================================
