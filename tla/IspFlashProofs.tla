--------------------------- MODULE IspFlashProofs ---------------------------
(***************************************************************************)
(* For every program, every number of tries and retries, all checksums and *)
(* every order of the host and the board: the host and the board stay in   *)
(* step, and a flash that is called completed holds the program.           *)
(*                                                                         *)
(* The host may be ahead of the board by many messages.  What ties them is *)
(* the stage the board is at, and the one it will be at when it has taken  *)
(* what is on the line: that is where the host is.                         *)
(***************************************************************************)
EXTENDS IspFlash, TLAPS

Commands == {"sync", "erase", "buffer", "program", "reset"}
Messages == [op : Commands] \cup [op : {"address"}, at : Int \X Int \X Int]
              \cup [op : {"data"}, data : {Good(p) : p \in PageIds}]

\* Where the board is in the program: what it waits for, and for which page.
Points == {"sector", "sector_address", "write", "page", "program", "page_address", "reset", "done"}
At(point, p) == [at |-> point, page |-> p]
Stages == {s \in [at : Points, page : 0 .. Pages] :
             /\ s.at \in {"reset", "done"} <=> s.page = Pages
             /\ s.at \in {"sector", "sector_address"} => s.page % PagesPerSector = 0}

\* A board at s that takes the message m is at t.
Takes(s, m, t) ==
  \/ m.op = "sync"    /\ s = At("sector", 0) /\ t = s
  \/ m.op = "erase"   /\ s.at = "sector" /\ t = At("sector_address", s.page)
  \/ m.op = "address" /\ s.at = "sector_address" /\ m.at = SectorBytes(s.page * pagestep)
                      /\ t = At("write", s.page)
  \/ m.op = "buffer"  /\ s.at \in {"write", "program"} /\ t = At("page", s.page)
  \/ m.op = "data"    /\ s.at = "page" /\ m.data = Good(s.page) /\ t = At("program", s.page)
  \/ m.op = "program" /\ s.at = "program" /\ t = At("page_address", s.page)
  \/ m.op = "address" /\ s.at = "page_address" /\ m.at = AddressBytes(s.page * pagestep)
                      /\ t = At(NextPage(s.page + 1), s.page + 1)
  \/ m.op = "reset"   /\ s.at = "reset" /\ t = At("done", s.page)

\* A board at s that takes the messages q, one after another, is at e.
Leads(s, q, e) ==
  \E at \in [1 .. Len(q) + 1 -> Stages] :
    /\ at[1] = s /\ at[Len(q) + 1] = e
    /\ \A k \in 1 .. Len(q) : Takes(at[k], q[k], at[k + 1])

\* What a board at s waits for.
BoardFor(s) ==
  CASE s.at = "sector_address" -> "erase" [] s.at = "page" -> "buffer"
    [] s.at = "page_address" -> "program" [] s.at = "done" -> "off" [] OTHER -> "idle"

\* Where the host has brought the board, or will have.
HostAt(s) ==
  CASE pc \in {"sync", "synced", "drain", "exit"} -> s = At("sector", 0) /\ page = 0
    [] pc = "erasing" -> s = At("write", page)
    [] pc = "write" -> s \in {At("write", page), At("program", page)}
    [] pc \in {"checksum", "failed"} -> s = At("program", page)
    [] pc = "programming" -> page < Pages /\ s = At(NextPage(page + 1), page + 1)
    [] pc \in {"completing", "completed"} -> s = At("done", page)
    [] OTHER -> s = At(pc, page)

\* The pages before the one the board is at are flashed, and the rest of its
\* sector is erased.
FlashAt(s) ==
  /\ \A p \in PageIds : p < s.page => flash[p] = Good(p)
  /\ s.at \in {"write", "page", "program", "page_address"} =>
       \A p \in PageIds : p >= s.page /\ p \in Sector(s.page) => flash[p] = Erased

\* The buffer has the page, or the host will see that it has not.
BufferAt(s) ==
  /\ s.at = "page_address" => buf = Good(s.page)
  /\ s.at = "program" =>
       /\ buf.page = s.page
       /\ buf.good \/ (~line.late /\ pc \in {"checksum", "write", "page", "failed"})

\* The board is off, and drops what it is sent.
Waiting ==
  /\ board = "off" /\ pc \in {"sync", "synced", "exit"} /\ page = 0 /\ toHost = <<>>
  /\ \A k \in 1 .. Len(toDevice) : toDevice[k].op = "sync"

\* Programs the three bytes of an address reach the end of, on a line that is
\* late or garbles pages.
Sound ==
  /\ Pages <= 65535
  /\ \A l \in Lines : l.late => l.garbles = 0

OnTheWay ==
  \E s, e \in Stages :
    /\ Leads(s, toDevice, e) /\ HostAt(e) /\ board = BoardFor(s)
    /\ Sound => FlashAt(s) /\ BufferAt(s)

\* What is on the line.
Nothing == toDevice = <<>> /\ toHost = <<>>
OneThing ==
  \/ (\E m : toDevice = <<m>>) /\ toHost = <<>>
  \/ toDevice = <<>> /\ \E byte : toHost = <<byte>>

\* A line that is not late holds one message or one answer at a time, and the
\* answer to a page is the sum of what is in the buffer.
InTurn ==
  ~line.late =>
    /\ pc \in {"sync", "drain", "sector", "write", "program", "reset"} => Nothing
    /\ pc \in {"sector_address", "erasing", "page", "checksum", "page_address", "programming"} =>
         OneThing
    /\ Nothing \/ OneThing
    /\ pc = "checksum" => \A byte : toHost = <<byte>> => byte = Checksum(buf)

Typed ==
  /\ pc \in HostPoints /\ page \in 0 .. Pages
  /\ toDevice \in Seq(Messages) /\ toHost \in Seq(Int)
  /\ line \in [late : BOOLEAN, garbles : Nat]
  /\ Sound /\ line.late => line.garbles = 0
  /\ board \in {"off", "idle", "erase", "buffer", "program"}
  /\ buf \in Contents
  /\ flash \in [PageIds -> Contents \cup {Erased, Old}]

IInv == Typed /\ InTurn /\ (Waiting \/ OnTheWay)

-----------------------------------------------------------------------------
(* Addresses.                                                              *)

\* Dividing by 65535 gives the address of every page but the last of the 16
\* megabytes that three bytes can address: that is written to page 255.
THEOREM AddressesReachThePages ==
  ASSUME NEW p \in Nat, p <= 65535
  PROVE  AddressOf(AddressBytes(p * pagestep)) = IF p < 65535 THEN p * pagestep ELSE 255 * pagestep
<1>1. PICK q \in Nat, r \in Nat : p = q * 256 + r /\ r < 256
  <2>1. p \div 256 \in Nat /\ p % 256 \in Nat /\ p % 256 < 256 /\ p = (p \div 256) * 256 + (p % 256)
    OBVIOUS
  <2> QED
    BY <2>1
<1>2. PICK addr \in Nat : addr = p * 256
  OBVIOUS
<1>3. addr % 256 = 0 /\ addr \div 256 = p
  BY <1>2
<1>4. (addr \div 65535) % 256 = IF p < 65535 THEN q ELSE 0
  <2>1. CASE p < 65535
    <3>1. q < 256
      BY <1>1, <2>1
    <3>2. q + r * 256 < 65535
      BY <1>1, <2>1
    <3>3. addr = q * 65535 + (q + r * 256)
      BY <1>1, <1>2
    <3>4. addr \div 65535 = q
      BY <3>2, <3>3
    <3> QED
      BY <2>1, <3>1, <3>4
  <2>2. CASE p = 65535
    BY <1>2, <2>2
  <2> QED
    BY <2>1, <2>2
<1>5. AddressBytes(addr) = <<IF p < 65535 THEN q ELSE 0, r, 0>>
  <2>1. p % 256 = r
    BY <1>1
  <2> QED
    BY <1>3, <1>4, <2>1 DEF AddressBytes
<1>6. \A x, y, z \in Int : AddressOf(<<x, y, z>>) = x * 65536 + y * 256 + z
  BY DEF AddressOf
<1>7. AddressOf(AddressBytes(addr)) = (IF p < 65535 THEN q ELSE 0) * 65536 + r * 256 + 0
  BY <1>5, <1>6
<1>8. CASE p < 65535
  <2>1. AddressOf(AddressBytes(p * 256)) = q * 65536 + r * 256
    BY <1>2, <1>7, <1>8
  <2>2. q * 65536 + r * 256 = p * 256
    BY <1>1
  <2> QED
    BY <1>8, <2>1, <2>2 DEF pagestep
<1>9. CASE p = 65535
  <2>1. r = 255
    BY <1>1, <1>9
  <2> QED
    BY <1>2, <1>7, <1>9, <2>1 DEF pagestep
<1> QED
  BY <1>8, <1>9

LEMMA SectorsReachThePages ==
  ASSUME NEW p \in Nat, p < 65535, p % PagesPerSector = 0
  PROVE  AddressOf(SectorBytes(p * pagestep)) = p * pagestep
<1>1. PICK addr \in Nat : addr = p * pagestep
  BY DEF pagestep
<1>2. addr % 256 = 0 /\ addr \div 256 = p
  BY <1>1 DEF pagestep
<1>3. SectorBytes(addr) = AddressBytes(addr)
  BY <1>2 DEF SectorBytes, AddressBytes, PagesPerSector
<1> QED
  BY <1>1, <1>3, AddressesReachThePages

-----------------------------------------------------------------------------
(* The messages on the line.                                               *)

LEMMA FirstStage == At("sector", 0) \in Stages
BY IspAssumption DEF At, Stages, Points, PagesPerSector

LEMMA LeadsNowhere ==
  ASSUME NEW s \in Stages
  PROVE  /\ Leads(s, <<>>, s)
         /\ \A e : Leads(s, <<>>, e) => e = s
<1>1. Leads(s, <<>>, s)
  <2> DEFINE here == [k \in 1 .. 1 |-> s]
  <2>1. here \in [1 .. 1 -> Stages] /\ here[1] = s
    OBVIOUS
  <2>2. Len(<<>>) = 0 /\ 1 .. 0 = {}
    OBVIOUS
  <2> HIDE DEF here
  <2> QED
    BY <2>1, <2>2 DEF Leads
<1>2. \A e : Leads(s, <<>>, e) => e = s
  BY DEF Leads
<1> QED
  BY <1>1, <1>2

\* One message more.
LEMMA LeadsOn ==
  ASSUME NEW s \in Stages, NEW q \in Seq(Messages), NEW e \in Stages, Leads(s, q, e),
         NEW m \in Messages, NEW t \in Stages, Takes(e, m, t)
  PROVE  Leads(s, Append(q, m), t)
<1>1. PICK at \in [1 .. Len(q) + 1 -> Stages] :
        /\ at[1] = s /\ at[Len(q) + 1] = e
        /\ \A k \in 1 .. Len(q) : Takes(at[k], q[k], at[k + 1])
  BY DEF Leads
<1> DEFINE n  == Len(q)
           on == [k \in 1 .. n + 2 |-> IF k = n + 2 THEN t ELSE at[k]]
<1>2. n \in Nat /\ Len(Append(q, m)) = n + 1
  OBVIOUS
<1>3. on \in [1 .. n + 2 -> Stages] /\ on[1] = s /\ on[n + 2] = t /\ on[n + 1] = e
  BY <1>1, <1>2
<1>4. ASSUME NEW k \in 1 .. n + 1
      PROVE  Takes(on[k], Append(q, m)[k], on[k + 1])
  <2>1. CASE k = n + 1
    <3>1. Append(q, m)[k] = m /\ on[k] = e /\ on[k + 1] = t
      BY <1>2, <1>3, <2>1
    <3> QED
      BY <3>1
  <2>2. CASE k # n + 1
    <3>1. k \in 1 .. n /\ Append(q, m)[k] = q[k] /\ on[k] = at[k] /\ on[k + 1] = at[k + 1]
      BY <1>2, <2>2
    <3> QED
      BY <1>1, <3>1
  <2> QED
    BY <2>1, <2>2
<1>5. on \in [1 .. Len(Append(q, m)) + 1 -> Stages] /\ on[Len(Append(q, m)) + 1] = t
  BY <1>2, <1>3
<1>6. \A k \in 1 .. Len(Append(q, m)) : Takes(on[k], Append(q, m)[k], on[k + 1])
  BY <1>2, <1>4
<1> HIDE DEF on
<1> QED
  BY <1>3, <1>5, <1>6 DEF Leads

\* The first message is taken.
LEMMA LeadsOff ==
  ASSUME NEW s \in Stages, NEW q \in Seq(Messages), NEW e \in Stages, Leads(s, q, e), q # <<>>
  PROVE  \E t \in Stages : Takes(s, Head(q), t) /\ Leads(t, Tail(q), e)
<1>1. PICK at \in [1 .. Len(q) + 1 -> Stages] :
        /\ at[1] = s /\ at[Len(q) + 1] = e
        /\ \A k \in 1 .. Len(q) : Takes(at[k], q[k], at[k + 1])
  BY DEF Leads
<1> DEFINE n   == Len(q)
           off == [k \in 1 .. n |-> at[k + 1]]
<1>2. n \in Nat \ {0} /\ Len(Tail(q)) + 1 = n /\ Head(q) = q[1]
  OBVIOUS
<1>3. at[2] \in Stages /\ Takes(s, Head(q), at[2])
  BY <1>1, <1>2
<1>4. off \in [1 .. n -> Stages] /\ off[1] = at[2] /\ off[n] = e
  BY <1>1, <1>2
<1>5. ASSUME NEW k \in 1 .. Len(Tail(q))
      PROVE  Takes(off[k], Tail(q)[k], off[k + 1])
  <2>1. k + 1 \in 1 .. n /\ Tail(q)[k] = q[k + 1] /\ off[k] = at[k + 1] /\ off[k + 1] = at[(k + 1) + 1]
    BY <1>2
  <2> QED
    BY <1>1, <2>1
<1>6. off \in [1 .. Len(Tail(q)) + 1 -> Stages] /\ off[Len(Tail(q)) + 1] = e
  BY <1>2, <1>4
<1> HIDE DEF off
<1>7. Leads(at[2], Tail(q), e)
  BY <1>4, <1>5, <1>6 DEF Leads
<1> QED
  BY <1>3, <1>7

\* Sync bytes lead nowhere.
LEMMA LeadsSync ==
  ASSUME NEW q \in Seq(Messages), \A k \in 1 .. Len(q) : q[k].op = "sync"
  PROVE  Leads(At("sector", 0), q, At("sector", 0))
<1> DEFINE s == At("sector", 0)
<1>1. s \in Stages
  BY FirstStage
<1> DEFINE here == [k \in 1 .. Len(q) + 1 |-> s]
<1>2. here \in [1 .. Len(q) + 1 -> Stages] /\ here[1] = s /\ here[Len(q) + 1] = s
  BY <1>1
<1>3. \A k \in 1 .. Len(q) : here[k] = s /\ here[k + 1] = s
  OBVIOUS
<1>4. \A k \in 1 .. Len(q) : Takes(here[k], q[k], here[k + 1])
  BY <1>3 DEF Takes
<1> HIDE DEF here
<1> QED
  BY <1>1, <1>2, <1>3, <1>4 DEF Leads

-----------------------------------------------------------------------------
(* The host.                                                               *)

LEMMA OneByte == \A x : <<x>> # <<>> /\ Head(<<x>>) = x /\ Tail(<<x>>) = <<>>
OBVIOUS

LEMMA InitInv == Init => IInv
<1> SUFFICES ASSUME Init
             PROVE  IInv
  OBVIOUS
<1>1. Typed
  BY IspAssumption DEF Init, Typed, Sound, HostPoints, Bad, Old, Contents, PageIds
<1>2. InTurn
  BY DEF Init, InTurn, Nothing
<1>3. board = "off" => Waiting
  BY DEF Init, Waiting
<1>4. ASSUME board = "idle"
      PROVE  OnTheWay
  <2> DEFINE s == At("sector", 0)
  <2>1. s \in Stages /\ Leads(s, <<>>, s)
    BY FirstStage, LeadsNowhere
  <2>2. HostAt(s) /\ BoardFor(s) = "idle" /\ FlashAt(s) /\ BufferAt(s)
    BY IspAssumption DEF Init, At, HostAt, BoardFor, FlashAt, BufferAt, PageIds
  <2> QED
    BY <2>1, <2>2, <1>4 DEF Init, OnTheWay
<1> QED
  BY <1>1, <1>2, <1>3, <1>4 DEF Init, IInv

\* A message that the host sends takes the board from where the host was to where
\* it is then.
LEMMA HostSends ==
  ASSUME IInv, NEW m \in Messages, Send(m), UNCHANGED <<board, flash>>,
         NEW s \in Stages, NEW e \in Stages,
         Leads(s, toDevice, e), board = BoardFor(s), Sound => FlashAt(s) /\ BufferAt(s)',
         NEW t \in Stages, Takes(e, m, t), HostAt(t)'
  PROVE  OnTheWay'
<1>1. Leads(s, toDevice', t)
  BY LeadsOn DEF IInv, Typed, Send
<1>2. FlashAt(s)' <=> FlashAt(s)
  BY DEF FlashAt
<1> QED
  BY <1>1, <1>2 DEF OnTheWay

\* The host moves and sends nothing.
LEMMA HostMoves ==
  ASSUME UNCHANGED <<toDevice, board, flash>>,
         NEW s \in Stages, NEW e \in Stages,
         Leads(s, toDevice, e), board = BoardFor(s), Sound => FlashAt(s) /\ BufferAt(s)', HostAt(e)'
  PROVE  OnTheWay'
<1>1. FlashAt(s)' <=> FlashAt(s)
  BY DEF FlashAt
<1> QED
  BY <1>1 DEF OnTheWay

LEMMA StepCommand ==
  ASSUME IInv, NEW point, NEW byte, NEW next, Command(point, byte, next),
         \/ point = "sector" /\ byte = "erase" /\ next = "sector_address"
         \/ point = "write" /\ byte = "buffer" /\ next = "page"
         \/ point = "program" /\ byte = "program" /\ next = "page_address"
         \/ point = "reset" /\ byte = "reset" /\ next = "completing"
  PROVE  IInv'
<1> DEFINE m == [op |-> byte]
<1>1. /\ pc = point /\ pc' = next /\ Send(m)
      /\ UNCHANGED <<page, toHost, line, board, buf, flash>>
  BY DEF Command
<1>2. m \in Messages
  BY DEF Messages, Commands
<1>3. Typed'
  BY <1>1, <1>2 DEF IInv, Typed, HostPoints, Send
<1>4. InTurn'
  <2>1. ~line.late => Nothing
    BY <1>1 DEF IInv, InTurn
  <2>2. Nothing => OneThing'
    BY <1>1, <1>2 DEF Nothing, OneThing, Send
  <2> QED
    BY <1>1, <2>1, <2>2 DEF InTurn
<1>5. OnTheWay'
  <2>1. PICK s \in Stages, e \in Stages :
          /\ Leads(s, toDevice, e) /\ HostAt(e) /\ board = BoardFor(s)
          /\ Sound => FlashAt(s) /\ BufferAt(s)
    BY <1>1 DEF IInv, Waiting, OnTheWay
  <2>2. BufferAt(s) => BufferAt(s)'
    BY <1>1 DEF BufferAt
  <2>7. PICK t : t = At(IF next = "completing" THEN "done" ELSE next, page)
    OBVIOUS
  <2>3. e = At(point, page) \/ (point = "write" /\ e = At("program", page))
    BY <1>1, <2>1 DEF HostAt
  <2>4. t \in Stages
    BY <2>3, <2>7 DEF At, Stages, Points
  <2>5. Takes(e, m, t)
    BY <2>3, <2>7 DEF Takes, At
  <2>6. HostAt(t)'
    BY <1>1, <2>7 DEF HostAt
  <2> HIDE DEF m
  <2> QED
    BY <1>1, <1>2, <2>1, <2>2, <2>4, <2>5, <2>6, HostSends
<1> QED
  BY <1>3, <1>4, <1>5 DEF IInv

LEMMA StepArgument ==
  ASSUME IInv, NEW point, NEW m, NEW next, Argument(point, m, next),
         \/ /\ point = "sector_address" /\ next = "erasing"
            /\ m = [op |-> "address", at |-> SectorBytes(page * pagestep)]
         \/ point = "page" /\ m = [op |-> "data", data |-> Good(page)] /\ next = "checksum"
         \/ /\ point = "page_address" /\ next = "programming"
            /\ m = [op |-> "address", at |-> AddressBytes(page * pagestep)]
  PROVE  IInv'
<1>1. /\ pc = point /\ pc' = next /\ Send(m)
      /\ toHost # <<>> /\ toHost' = Tail(toHost)
      /\ UNCHANGED <<page, line, board, buf, flash>>
  BY DEF Argument, isp_wait_byte
<1>2. PICK s \in Stages, e \in Stages :
        /\ Leads(s, toDevice, e) /\ HostAt(e) /\ board = BoardFor(s)
        /\ Sound => FlashAt(s) /\ BufferAt(s)
  BY <1>1 DEF IInv, Waiting, OnTheWay
<1>3. e = At(point, page) /\ page \in Nat /\ page < Pages /\ Pages \in Nat
  <2>1. e = At(point, page)
    BY <1>1, <1>2 DEF HostAt
  <2> QED
    BY <2>1, IspAssumption DEF IInv, Typed, Stages, At
<1>4. m \in Messages
  <2>1. SectorBytes(page * pagestep) \in Int \X Int \X Int
    BY <1>3 DEF SectorBytes, pagestep
  <2>2. AddressBytes(page * pagestep) \in Int \X Int \X Int
    BY <1>3 DEF AddressBytes, pagestep
  <2>3. page \in PageIds
    BY <1>3 DEF PageIds
  <2> QED
    BY <2>1, <2>2, <2>3 DEF Messages
<1>5. Typed'
  BY <1>1, <1>4 DEF IInv, Typed, HostPoints, Send
<1>6. InTurn'
  <2>1. ~line.late => OneThing
    BY <1>1 DEF IInv, InTurn
  <2>2. OneThing => OneThing' /\ toHost' = <<>>
    BY <1>1, <1>4 DEF OneThing, Send
  <2> QED
    BY <1>1, <2>1, <2>2 DEF InTurn
<1>7. PICK t : t = IF point = "sector_address" THEN At("write", page)
                   ELSE IF point = "page" THEN At("program", page)
                   ELSE At(NextPage(page + 1), page + 1)
  OBVIOUS
<1>8. t \in Stages
  BY <1>2, <1>3, <1>7 DEF At, Stages, Points, NextPage
<1>9. Takes(e, m, t)
  BY <1>3, <1>7 DEF Takes, At
<1>10. HostAt(t)'
  BY <1>1, <1>3, <1>7 DEF HostAt
<1>11. BufferAt(s) => BufferAt(s)'
  BY <1>1 DEF BufferAt
<1>12. OnTheWay'
  BY <1>1, <1>2, <1>4, <1>8, <1>9, <1>10, <1>11, HostSends
<1> QED
  BY <1>5, <1>6, <1>12 DEF IInv

\* A host that reads the answer to an argument, or does not wait for it.
LEMMA StepAnswered ==
  ASSUME IInv, NEW byte, UNCHANGED <<toDevice, line, board, buf, flash>>,
         pc' \in HostPoints,
         isp_wait_byte(byte) \/ (toHost' = toHost /\ toHost = <<>>)
           \/ (toHost' = toHost /\ line.late),
         \/ pc = "erasing" /\ pc' = "write" /\ isp_wait_byte(byte) /\ page' = page
         \/ pc = "programming" /\ pc' = NextPage(page + 1) /\ isp_wait_byte(byte) /\ page' = page + 1
         \/ pc = "completing" /\ pc' = "completed" /\ page' = page
         \/ pc = "drain" /\ pc' = "sector" /\ page' = page
  PROVE  IInv'
<1>1. PICK s \in Stages, e \in Stages :
        /\ Leads(s, toDevice, e) /\ HostAt(e) /\ board = BoardFor(s)
        /\ Sound => FlashAt(s) /\ BufferAt(s)
  BY DEF IInv, Waiting, OnTheWay
<1>2. page \in Nat /\ Pages \in Nat /\ page <= Pages
  BY IspAssumption DEF IInv, Typed
<1>3. pc = "programming" => page < Pages
  BY <1>1 DEF HostAt
<1>4. Typed'
  <2>1. toHost \in Seq(Int) /\ toHost # <<>> => Tail(toHost) \in Seq(Int)
    OBVIOUS
  <2>2. toHost' \in Seq(Int)
    BY <2>1 DEF IInv, Typed, isp_wait_byte
  <2>3. page' \in 0 .. Pages
    BY <1>2, <1>3
  <2> QED
    BY <2>2, <2>3 DEF IInv, Typed
<1>5. HostAt(e)'
  BY <1>1, <1>2 DEF HostAt, NextPage
<1>6. BufferAt(s) => BufferAt(s)'
  BY DEF BufferAt
<1>7. InTurn'
  <2>1. OneThing /\ isp_wait_byte(byte) => Nothing'
    BY OneByte DEF OneThing, Nothing, isp_wait_byte
  <2>2. Nothing => ~isp_wait_byte(byte)
    BY DEF Nothing, isp_wait_byte
  <2>3. ~line.late => IF pc = "drain" THEN Nothing'
                      ELSE IF pc = "completing" THEN Nothing' \/ OneThing' ELSE Nothing'
    BY <2>1, <2>2 DEF IInv, InTurn, Nothing, OneThing
  <2>4. pc' \notin {"checksum", "sector_address", "erasing", "page", "page_address", "programming"}
    BY DEF NextPage
  <2>5. pc' = "completed" <=> pc = "completing"
    BY DEF NextPage
  <2> QED
    BY <2>3, <2>4, <2>5 DEF InTurn
<1>8. OnTheWay'
  BY <1>1, <1>5, <1>6, HostMoves
<1> QED
  BY <1>4, <1>7, <1>8 DEF IInv

\* A page that was garbled has another sum.
LEMMA GarbledShows ==
  ASSUME NEW data \in Contents, Checksum(data) = Sums[data.page]
  PROVE  data.good
<1>1. \A x \in 0 .. 255 : (x + 1) % 256 # x
  OBVIOUS
<1>2. data.page \in PageIds /\ data.good \in BOOLEAN
  BY DEF Contents
<1>3. Sums[data.page] \in 0 .. 255
  BY <1>2, IspAssumption
<1>4. (Sums[data.page] + 1) % 256 # Sums[data.page]
  BY <1>1, <1>3
<1> QED
  BY <1>2, <1>4 DEF Checksum

LEMMA StepChecksum ==
  ASSUME IInv, pc = "checksum",
         NEW byte, isp_wait_byte(byte),
         \/ ChecksumPass(byte) /\ pc' = "program"
         \/ ~ChecksumPass(byte) /\ pc' = Retry(retries + 1),
         UNCHANGED <<page, toDevice, line, board, buf, flash>>
  PROVE  IInv'
<1>1. PICK s \in Stages, e \in Stages :
        /\ Leads(s, toDevice, e) /\ HostAt(e) /\ board = BoardFor(s)
        /\ Sound => FlashAt(s) /\ BufferAt(s)
  BY DEF IInv, Waiting, OnTheWay
<1>2. pc' \in {"program", "write", "failed"}
  BY DEF Retry
<1>3. Typed'
  <2>1. toHost \in Seq(Int) /\ toHost # <<>> => Tail(toHost) \in Seq(Int)
    OBVIOUS
  <2> QED
    BY <1>2, <2>1 DEF IInv, Typed, isp_wait_byte, HostPoints
<1>4. e = At("program", page) /\ HostAt(e)'
  BY <1>1, <1>2 DEF HostAt
<1>5. ~line.late => toDevice = <<>> /\ toHost = <<byte>> /\ byte = Checksum(buf)
  BY OneByte DEF IInv, InTurn, OneThing, isp_wait_byte
<1>6. InTurn'
  <2>1. ~line.late => Nothing'
    BY <1>5, OneByte DEF isp_wait_byte, Nothing
  <2> QED
    BY <1>2, <2>1 DEF InTurn
<1>7. ASSUME Sound, BufferAt(s)
      PROVE  BufferAt(s)'
  <2>1. CASE pc' # "program"
    BY <1>2, <1>7, <2>1 DEF BufferAt
  <2>2. CASE pc' = "program" /\ line.late
    BY <1>7, <2>2 DEF BufferAt
  <2>3. CASE pc' = "program" /\ ~line.late
    <3>1. s = e
      BY <1>1, <1>5, <2>3, LeadsNowhere
    <3>2. buf.page = page
      BY <1>4, <1>7, <3>1 DEF BufferAt, At
    <3>3. Checksum(buf) = Sums[buf.page]
      BY <1>2, <1>5, <2>3, <3>2 DEF ChecksumPass, Retry
    <3>4. buf.good
      BY <3>3, GarbledShows DEF IInv, Typed
    <3> QED
      BY <1>4, <1>7, <3>1, <3>4 DEF BufferAt, At
  <2> QED
    BY <2>1, <2>2, <2>3 DEF IInv, Typed
<1>8. OnTheWay'
  BY <1>1, <1>4, <1>7, HostMoves
<1> QED
  BY <1>3, <1>6, <1>8 DEF IInv

LEMMA StepSyncWrite == IInv /\ SyncWrite => IInv'
<1> SUFFICES ASSUME IInv, SyncWrite
             PROVE  IInv'
  OBVIOUS
<1> DEFINE m == [op |-> "sync"]
<1>1. /\ pc = "sync" /\ pc' = "synced" /\ Send(m)
      /\ UNCHANGED <<page, line, board, buf, flash>>
  BY DEF SyncWrite
<1>2. PICK n \in 0 .. Len(toHost) : toHost' = SubSeq(toHost, n + 1, Len(toHost))
  BY DEF SyncWrite
<1>3. m \in Messages
  BY DEF Messages, Commands
<1>4. toHost' \in Seq(Int) /\ (toHost = <<>> => toHost' = <<>>)
  <2>1. toHost \in Seq(Int)
    BY DEF IInv, Typed
  <2>2. toHost = <<>> => n = 0
    BY <1>2
  <2> QED
    BY <1>2, <2>1, <2>2
<1>5. Typed'
  BY <1>1, <1>3, <1>4 DEF IInv, Typed, HostPoints, Send
<1>6. InTurn'
  <2>1. ~line.late => Nothing
    BY <1>1 DEF IInv, InTurn
  <2>2. Nothing => OneThing'
    BY <1>1, <1>3, <1>4 DEF Nothing, OneThing, Send
  <2> QED
    BY <1>1, <2>1, <2>2 DEF InTurn
<1>7. Waiting => Waiting'
  BY <1>1, <1>3, <1>4 DEF IInv, Typed, Waiting, Send
<1>8. ASSUME OnTheWay
      PROVE  OnTheWay'
  <2>1. PICK s \in Stages, e \in Stages :
          /\ Leads(s, toDevice, e) /\ HostAt(e) /\ board = BoardFor(s)
          /\ Sound => FlashAt(s) /\ BufferAt(s)
    BY <1>8 DEF OnTheWay
  <2>2. BufferAt(s) => BufferAt(s)'
    BY <1>1 DEF BufferAt
  <2>3. e = At("sector", 0) /\ HostAt(e)'
    BY <1>1, <2>1 DEF HostAt
  <2>4. Takes(e, m, e)
    BY <2>3 DEF Takes
  <2> HIDE DEF m
  <2> QED
    BY <1>1, <1>3, <2>1, <2>2, <2>3, <2>4, HostSends
<1> QED
  BY <1>5, <1>6, <1>7, <1>8 DEF IInv

LEMMA StepSyncRead == IInv /\ SyncRead => IInv'
<1> SUFFICES ASSUME IInv, SyncRead
             PROVE  IInv'
  OBVIOUS
<1>1. PICK byte : /\ ReadSome(byte)
                  /\ pc' = IF byte = 86 THEN "drain" ELSE IF tries < SYNC_TRIES THEN "sync" ELSE "exit"
  BY DEF SyncRead
<1>2. /\ pc = "synced" /\ pc' \in {"drain", "sync", "exit"}
      /\ line.late \/ toDevice = <<>>
      /\ UNCHANGED <<page, toDevice, line, board, buf, flash>>
  BY <1>1 DEF SyncRead
<1>3. Typed'
  <2>1. toHost \in Seq(Int) /\ toHost # <<>> => Tail(toHost) \in Seq(Int)
    OBVIOUS
  <2>2. toHost' \in Seq(Int)
    BY <1>1, <2>1 DEF IInv, Typed, ReadSome, isp_wait_byte
  <2> QED
    BY <1>2, <2>2 DEF IInv, Typed, HostPoints
<1>4. InTurn'
  <2>1. ~line.late => Nothing'
    BY <1>1, <1>2, OneByte DEF IInv, InTurn, Nothing, OneThing, ReadSome, isp_wait_byte
  <2> QED
    BY <1>2, <2>1 DEF InTurn
<1>5. Waiting => Waiting'
  <2>1. toHost = <<>> => pc' # "drain" /\ toHost' = <<>>
    BY <1>1 DEF ReadSome, isp_wait_byte
  <2> QED
    BY <1>2, <2>1 DEF Waiting
<1>6. ASSUME OnTheWay
      PROVE  OnTheWay'
  <2>1. PICK s \in Stages, e \in Stages :
          /\ Leads(s, toDevice, e) /\ HostAt(e) /\ board = BoardFor(s)
          /\ Sound => FlashAt(s) /\ BufferAt(s)
    BY <1>6 DEF OnTheWay
  <2>2. BufferAt(s) => BufferAt(s)'
    BY <1>2 DEF BufferAt
  <2>3. HostAt(e)'
    BY <1>2, <2>1 DEF HostAt
  <2> QED
    BY <1>2, <2>1, <2>2, <2>3, HostMoves
<1> QED
  BY <1>3, <1>4, <1>5, <1>6 DEF IInv

LEMMA StepEnterIsp == IInv /\ EnterIsp => IInv'
<1> SUFFICES ASSUME IInv, EnterIsp
             PROVE  IInv'
  OBVIOUS
<1>1. /\ board = "off" /\ board' = "idle" /\ pc \in {"sync", "synced"}
      /\ UNCHANGED <<host, toDevice, toHost, line, buf, flash>>
  BY DEF EnterIsp
<1>2. Typed' /\ InTurn'
  BY <1>1 DEF IInv, Typed, InTurn, Nothing, OneThing, host
<1>3. ~OnTheWay
  <2> SUFFICES ASSUME OnTheWay
               PROVE  FALSE
    OBVIOUS
  <2>1. PICK s \in Stages, e \in Stages : Leads(s, toDevice, e) /\ HostAt(e) /\ board = BoardFor(s)
    BY DEF OnTheWay
  <2>2. s.at = "done"
    BY <1>1, <2>1 DEF BoardFor
  <2>3. e.at = "sector"
    BY <1>1, <2>1 DEF HostAt, At
  <2>4. toDevice = <<>>
    BY <2>1, <2>2, LeadsOff DEF IInv, Typed, Takes, At
  <2> QED
    BY <2>1, <2>2, <2>3, <2>4, LeadsNowhere
<1>4. PICK s : s = At("sector", 0)
  OBVIOUS
<1>5. Waiting
  BY <1>3 DEF IInv
<1>6. s \in Stages /\ Leads(s, toDevice', s)
  BY <1>1, <1>4, <1>5, FirstStage, LeadsSync DEF IInv, Typed, Waiting
<1>7. HostAt(s)' /\ board' = BoardFor(s) /\ FlashAt(s)' /\ BufferAt(s)'
  BY <1>1, <1>4, <1>5 DEF host, Waiting, HostAt, BoardFor, FlashAt, BufferAt, At, PageIds
<1> QED
  BY <1>2, <1>6, <1>7 DEF IInv, OnTheWay

-----------------------------------------------------------------------------
(* The board.                                                              *)

LEMMA PageOfAddress ==
  ASSUME NEW p \in Nat
  PROVE  (p * pagestep) \div pagestep = p
BY DEF pagestep

LEMMA SectorStarts ==
  ASSUME NEW p \in Nat, NEW q \in Nat, p % 16 = 0, q < p
  PROVE  q \div 16 # p \div 16
OBVIOUS

LEMMA SectorGoesOn ==
  ASSUME NEW p \in Nat, (p + 1) % 16 # 0
  PROVE  (p + 1) \div 16 = p \div 16
OBVIOUS

LEMMA ChecksumType ==
  ASSUME NEW data \in Contents
  PROVE  Checksum(data) \in Int
<1>1. Sums[data.page] \in Int
  BY IspAssumption DEF Contents
<1> QED
  BY <1>1 DEF Checksum

\* What the board does with each message, when it is at the stage s and the
\* message takes it to t.
LEMMA ReceiveTyped ==
  ASSUME Typed, Receive, board # "off",
         board = "buffer" => Head(toDevice).data \in {Good(p) : p \in PageIds}
  PROVE  /\ Typed'
         /\ \E byte \in Int : toHost' = Append(toHost, byte)
                              /\ (board = "buffer" => byte = Checksum(buf)')
<1> DEFINE m == Head(toDevice)
<1>0. toDevice # <<>> /\ toDevice' = Tail(toDevice) /\ toDevice' \in Seq(Messages)
      /\ toHost \in Seq(Int) /\ UNCHANGED host
  BY DEF Typed, Receive
<1>1. buf' \in Contents
  <2>1. CASE board = "buffer"
    <3>1. PICK p \in PageIds : m.data = Good(p)
      BY <2>1
    <3>2. buf' = m.data \/ buf' = Bad(m.data.page)
      BY <2>1 DEF Receive
    <3>3. Good(p) \in Contents /\ Bad(p) \in Contents /\ Good(p).page = p
      BY DEF Good, Bad, Contents
    <3> QED
      BY <3>1, <3>2, <3>3
  <2>2. CASE board # "buffer"
    BY <2>2 DEF Typed, Receive
  <2> QED
    BY <2>1, <2>2
<1>2. PICK byte \in Int : toHost' = Append(toHost, byte) /\ (board = "buffer" => byte = Checksum(buf)')
  <2>1. Checksum(buf)' \in Int
    BY <1>1, ChecksumType
  <2>2. CASE board = "buffer"
    BY <2>1, <2>2 DEF Receive, Answer
  <2>3. CASE board # "buffer"
    BY <2>3 DEF Receive, Answer
  <2> QED
    BY <2>2, <2>3
<1>3. line' \in [late : BOOLEAN, garbles : Nat] /\ (Sound /\ line'.late => line'.garbles = 0)
  <2>1. \/ line' = line
        \/ line.garbles > 0 /\ line' = [line EXCEPT !.garbles = line.garbles - 1]
    BY DEF Receive
  <2>2. line \in [late : BOOLEAN, garbles : Nat] /\ (Sound /\ line.late => line.garbles = 0)
    BY DEF Typed
  <2> QED
    BY <2>1, <2>2
<1>4. board' \in {"off", "idle", "erase", "buffer", "program"}
  BY DEF Typed, Receive
<1>5. flash' \in [PageIds -> Contents \cup {Erased, Old}]
  <2>1. CASE board = "erase"
    <3>1. PICK a : flash' = [p \in PageIds |-> IF p \in Sector(a) THEN Erased ELSE flash[p]]
      BY <2>1 DEF Receive
    <3> QED
      BY <3>1 DEF Typed
  <2>2. CASE board = "program"
    <3>1. PICK p : flash' = [flash EXCEPT ![p] = IF @ = Erased THEN buf ELSE Bad(p)]
      BY <2>2 DEF Receive
    <3>2. p \in PageIds => Bad(p) \in Contents
      BY DEF Bad, Contents
    <3>3. buf \in Contents
      BY DEF Typed
    <3> QED
      BY <3>1, <3>2, <3>3 DEF Typed
  <2>3. CASE board \notin {"erase", "program"}
    BY <2>3 DEF Typed, Receive
  <2> QED
    BY <2>1, <2>2, <2>3
<1>6. toHost' \in Seq(Int)
  BY <1>0, <1>2
<1> QED
  BY <1>0, <1>1, <1>2, <1>3, <1>4, <1>5, <1>6 DEF Typed, host

\* What a board that is at a stage does with the message that takes it to the next.
LEMMA BoardTakes ==
  ASSUME IInv, Receive, NEW s \in Stages, NEW t \in Stages, board = BoardFor(s),
         Takes(s, Head(toDevice), t)
  PROVE  /\ board # "off" /\ board' = BoardFor(t)
         /\ (board = "buffer" => Head(toDevice).data = Good(s.page) /\ s.page \in PageIds)
         /\ (board = "erase" => Head(toDevice).at = SectorBytes(s.page * pagestep))
         /\ (board = "program" => Head(toDevice).at = AddressBytes(s.page * pagestep))
         /\ (board = "erase" <=> s.at = "sector_address")
         /\ (board = "program" <=> s.at = "page_address")
         /\ (board = "buffer" <=> s.at = "page")
<1> DEFINE m == Head(toDevice)
<1>1. s.at \in Points /\ s.page \in 0 .. Pages /\ (s.at = "page" => s.page # Pages)
  BY DEF Stages
<1>2. s.page \in PageIds \/ s.page = Pages
  BY <1>1, IspAssumption DEF PageIds
<1>3. CASE m.op = "sync" /\ s = At("sector", 0) /\ t = s
  BY <1>3 DEF BoardFor, At, Receive
<1>4. CASE m.op = "erase" /\ s.at = "sector" /\ t = At("sector_address", s.page)
  BY <1>4 DEF BoardFor, At, Receive
<1>5. CASE m.op = "address" /\ s.at = "sector_address" /\ m.at = SectorBytes(s.page * pagestep)
           /\ t = At("write", s.page)
  BY <1>5 DEF BoardFor, At, Receive
<1>6. CASE m.op = "buffer" /\ s.at \in {"write", "program"} /\ t = At("page", s.page)
  BY <1>6 DEF BoardFor, At, Receive
<1>7. CASE m.op = "data" /\ s.at = "page" /\ m.data = Good(s.page) /\ t = At("program", s.page)
  BY <1>1, <1>2, <1>7 DEF BoardFor, At, Receive
<1>8. CASE m.op = "program" /\ s.at = "program" /\ t = At("page_address", s.page)
  BY <1>8 DEF BoardFor, At, Receive
<1>9. CASE m.op = "address" /\ s.at = "page_address" /\ m.at = AddressBytes(s.page * pagestep)
           /\ t = At(NextPage(s.page + 1), s.page + 1)
  <2>1. NextPage(s.page + 1) \in {"reset", "sector", "write"}
    BY DEF NextPage
  <2> QED
    BY <1>9, <2>1 DEF BoardFor, At, Receive
<1>10. CASE m.op = "reset" /\ s.at = "reset" /\ t = At("done", s.page)
  BY <1>10 DEF BoardFor, At, Receive
<1> QED
  BY <1>3, <1>4, <1>5, <1>6, <1>7, <1>8, <1>9, <1>10 DEF Takes

\* The flash at the next stage.
LEMMA FlashOn ==
  ASSUME IInv, Receive, Sound, NEW s \in Stages, NEW t \in Stages, board = BoardFor(s),
         Takes(s, Head(toDevice), t), FlashAt(s), BufferAt(s)
  PROVE  FlashAt(t)'
<1> DEFINE m == Head(toDevice)
<1>1. s.page \in Nat /\ Pages \in Nat /\ s.page <= Pages /\ Pages <= 65535
  BY IspAssumption DEF Sound, Stages
<1>2. PageIds \subseteq Nat
  BY IspAssumption DEF PageIds
<1>3. CASE s.at = "sector_address"
  <2>1. s.page < 65535 /\ s.page % PagesPerSector = 0 /\ s.page % 16 = 0
    <3>1. s.page # Pages
      BY <1>3 DEF Stages
    <3>2. s.page % PagesPerSector = 0
      BY <1>3 DEF Stages
    <3> QED
      BY <1>1, <3>1, <3>2 DEF PagesPerSector
  <2>2. AddressOf(m.at) \div pagestep = s.page
    BY <1>1, <1>3, <2>1, BoardTakes, SectorsReachThePages, PageOfAddress
  <2>3. flash' = [p \in PageIds |-> IF p \in Sector(s.page) THEN Erased ELSE flash[p]]
    BY <1>3, <2>2, BoardTakes DEF Receive
  <2>4. t = At("write", s.page)
    BY <1>3 DEF Takes, At
  <2>5. ASSUME NEW p \in PageIds, p < s.page
        PROVE  flash'[p] = Good(p)
    <3>1. p \notin Sector(s.page)
      BY <1>1, <1>2, <2>1, <2>5, SectorStarts DEF Sector, PagesPerSector
    <3> QED
      BY <2>3, <2>5, <3>1 DEF FlashAt
  <2>6. \A p \in PageIds : p \in Sector(s.page) => flash'[p] = Erased
    BY <2>3
  <2> QED
    BY <2>4, <2>5, <2>6 DEF FlashAt, At
<1>4. CASE s.at = "page_address"
  <2>1. s.page \in PageIds /\ s.page < 65535 /\ s.page < Pages
    <3>1. s.page # Pages
      BY <1>4 DEF Stages
    <3> QED
      BY <1>1, <3>1 DEF PageIds
  <2>2. AddressOf(m.at) \div pagestep = s.page
    BY <1>1, <1>4, <2>1, BoardTakes, AddressesReachThePages, PageOfAddress
  <2>3. flash' = [flash EXCEPT ![s.page] = IF @ = Erased THEN buf ELSE Bad(s.page)]
    BY <1>4, <2>2, BoardTakes DEF Receive
  <2>4. flash[s.page] = Erased /\ buf = Good(s.page)
    BY <1>1, <1>4, <2>1 DEF FlashAt, BufferAt, Sector
  <2>5. flash' = [flash EXCEPT ![s.page] = Good(s.page)]
    BY <2>3, <2>4
  <2>6. t = At(NextPage(s.page + 1), s.page + 1)
    BY <1>4 DEF Takes, At
  <2>7. \A p \in PageIds : p < s.page + 1 => flash'[p] = Good(p)
    BY <1>1, <1>2, <2>1, <2>5 DEF FlashAt, IInv, Typed
  <2>8. ASSUME NextPage(s.page + 1) = "write", NEW p \in PageIds, p >= s.page + 1,
               p \in Sector(s.page + 1)
        PROVE  flash'[p] = Erased
    <3>1. (s.page + 1) % 16 # 0
      BY <2>8 DEF NextPage, PagesPerSector
    <3>2. p \in Sector(s.page)
      BY <1>1, <2>8, <3>1, SectorGoesOn DEF Sector, PagesPerSector
    <3>3. p >= s.page /\ p # s.page
      BY <1>1, <1>2, <2>8
    <3> QED
      BY <1>4, <2>5, <3>2, <3>3 DEF FlashAt, IInv, Typed
  <2>9. NextPage(s.page + 1) \in {"reset", "sector", "write"}
    BY DEF NextPage
  <2> QED
    BY <2>6, <2>7, <2>8, <2>9 DEF FlashAt, At
<1>5. CASE s.at \notin {"sector_address", "page_address"}
  <2>1. flash' = flash
    BY <1>5, BoardTakes DEF Receive
  <2>2. t.page = s.page
    BY <1>5 DEF Takes, At
  <2>3. t.at \in {"write", "page", "program", "page_address"}
          => s.at \in {"write", "page", "program", "page_address"}
    BY <1>5 DEF Takes, At
  <2> QED
    BY <2>1, <2>2, <2>3 DEF FlashAt
<1> QED
  BY <1>3, <1>4, <1>5

\* On a line that is not late, the board takes a message only when it is the one
\* thing on the line; the host is then where the message takes the board.
LEMMA TakesOneThing ==
  ASSUME IInv, Receive, ~line.late, NEW s \in Stages, NEW t \in Stages, NEW e \in Stages,
         Takes(s, Head(toDevice), t), Leads(t, Tail(toDevice), e)
  PROVE  /\ toDevice' = <<>> /\ toHost = <<>> /\ t = e
         /\ pc \notin {"sync", "drain", "sector", "write", "program", "reset"}
<1>1. toDevice # <<>> /\ toDevice' = Tail(toDevice)
  BY DEF Receive
<1>2. ~Nothing /\ OneThing
  BY <1>1 DEF IInv, InTurn, Nothing
<1>3. PICK m : toDevice = <<m>> /\ toHost = <<>>
  BY <1>1, <1>2 DEF OneThing
<1>4. Tail(toDevice) = <<>>
  BY <1>3, OneByte
<1>5. t = e
  BY <1>4, LeadsNowhere
<1> QED
  BY <1>1, <1>2, <1>3, <1>4, <1>5 DEF IInv, InTurn

\* The buffer at the next stage.
LEMMA BufferOn ==
  ASSUME IInv, Receive, Sound, NEW s \in Stages, NEW t \in Stages, NEW e \in Stages,
         board = BoardFor(s), Takes(s, Head(toDevice), t), Leads(t, Tail(toDevice), e),
         HostAt(e), BufferAt(s)
  PROVE  BufferAt(t)'
<1>1. UNCHANGED pc
  BY DEF Receive, host
<1>2. CASE t.at = "program"
  <2>1. s.at = "page" /\ t = At("program", s.page)
    BY <1>2 DEF Takes, At, NextPage
  <2>2. board = "buffer" /\ Head(toDevice).data = Good(s.page)
    BY <2>1, BoardTakes
  <2>3. \/ buf' = Good(s.page) /\ line' = line
        \/ line.garbles > 0 /\ buf' = Bad(s.page) /\ line' = [line EXCEPT !.garbles = @ - 1]
    BY <2>2 DEF Receive, Good
  <2>4. CASE buf' = Good(s.page)
    BY <2>1, <2>4 DEF BufferAt, Good, At
  <2>5. CASE line.garbles > 0 /\ buf' = Bad(s.page) /\ line' = [line EXCEPT !.garbles = @ - 1]
    <3>1. ~line.late
      BY <2>5 DEF IInv, Typed
    <3>2. e.at = "program" /\ pc \notin {"sync", "drain", "sector", "write", "program", "reset"}
      BY <2>1, <3>1, TakesOneThing DEF At
    <3>3. pc \in {"checksum", "failed"}
      BY <3>2 DEF HostAt, At, NextPage, IInv, Typed, HostPoints
    <3>4. ~line'.late
      BY <2>5, <3>1 DEF IInv, Typed
    <3> QED
      BY <1>1, <2>1, <2>5, <3>3, <3>4 DEF BufferAt, Bad, At
  <2> QED
    BY <2>3, <2>4, <2>5
<1>3. CASE t.at = "page_address"
  <2>1. s.at = "program" /\ t = At("page_address", s.page)
    BY <1>3 DEF Takes, At, NextPage
  <2>2. board = "idle" /\ buf' = buf
    BY <2>1, BoardTakes DEF BoardFor, Receive
  <2>3. buf.page = s.page /\ buf.good
    <3>1. ASSUME ~line.late
          PROVE  pc \notin {"checksum", "write", "page", "failed"}
      <4>1. e.at = "page_address"
        BY <2>1, <3>1, TakesOneThing DEF At
      <4> QED
        BY <4>1 DEF HostAt, At
    <3> QED
      BY <2>1, <3>1 DEF BufferAt
  <2>4. buf = Good(s.page)
    <3>1. buf \in [page : PageIds, good : BOOLEAN]
      BY DEF IInv, Typed, Contents
    <3>2. buf = [page |-> buf.page, good |-> buf.good]
      BY <3>1
    <3>3. buf.good = TRUE
      BY <2>3, <3>1
    <3> QED
      BY <2>3, <3>2, <3>3 DEF Good
  <2> QED
    BY <2>1, <2>2, <2>4 DEF BufferAt, At
<1> QED
  BY <1>2, <1>3 DEF BufferAt

LEMMA StepReceive == IInv /\ Receive => IInv'
<1> SUFFICES ASSUME IInv, Receive
             PROVE  IInv'
  OBVIOUS
<1>1. toDevice # <<>> /\ toDevice' = Tail(toDevice) /\ toDevice \in Seq(Messages)
      /\ UNCHANGED <<pc, page>>
  BY DEF IInv, Typed, Receive, host
<1>2. CASE Waiting
  <2>1. UNCHANGED <<toHost, line, board, buf, flash>> /\ board = "off"
    BY <1>2 DEF Waiting, Receive
  <2>2. Typed'
    BY <1>1, <2>1 DEF IInv, Typed
  <2>3. Waiting'
    <3>1. \A k \in 1 .. Len(toDevice') : k + 1 \in 1 .. Len(toDevice) /\ toDevice'[k] = toDevice[k + 1]
      BY <1>1
    <3> QED
      BY <1>1, <1>2, <2>1, <3>1 DEF Waiting
  <2>4. InTurn'
    <3>1. ASSUME ~line.late
          PROVE  Nothing' /\ pc # "sync"
      <4>1. ~Nothing /\ OneThing
        BY <1>1, <3>1 DEF IInv, InTurn, Nothing
      <4>2. PICK m : toDevice = <<m>> /\ toHost = <<>>
        BY <1>1, <4>1 DEF OneThing
      <4> QED
        BY <1>1, <2>1, <3>1, <4>1, <4>2, OneByte DEF IInv, InTurn, Nothing
    <3> QED
      BY <1>1, <1>2, <2>1, <3>1 DEF Waiting, InTurn
  <2> QED
    BY <2>2, <2>3, <2>4 DEF IInv
<1>3. CASE OnTheWay
  <2>1. PICK s \in Stages, e \in Stages :
          /\ Leads(s, toDevice, e) /\ HostAt(e) /\ board = BoardFor(s)
          /\ Sound => FlashAt(s) /\ BufferAt(s)
    BY <1>3 DEF OnTheWay
  <2>2. PICK t \in Stages : Takes(s, Head(toDevice), t) /\ Leads(t, Tail(toDevice), e)
    BY <1>1, <2>1, LeadsOff
  <2>3. board # "off" /\ board' = BoardFor(t)
        /\ (board = "buffer" => Head(toDevice).data = Good(s.page) /\ s.page \in PageIds)
        /\ (board = "buffer" <=> s.at = "page")
    BY <2>1, <2>2, BoardTakes
  <2>4. Typed' /\ \E byte \in Int : toHost' = Append(toHost, byte)
                                    /\ (board = "buffer" => byte = Checksum(buf)')
    BY <2>3, ReceiveTyped DEF IInv
  <2>5. HostAt(e)'
    BY <1>1, <2>1 DEF HostAt
  <2>6. OnTheWay'
    <3>1. Sound => FlashAt(t)' /\ BufferAt(t)'
      BY <2>1, <2>2, FlashOn, BufferOn
    <3> QED
      BY <1>1, <2>2, <2>3, <2>5, <3>1 DEF OnTheWay
  <2>7. InTurn'
    <3>1. line'.late = line.late
      BY DEF IInv, Typed, Receive
    <3>2. ASSUME ~line.late
          PROVE  /\ pc \notin {"sync", "drain", "sector", "write", "program", "reset"}
                 /\ OneThing' /\ (pc = "checksum" => \A byte : toHost' = <<byte>> => byte = Checksum(buf)')
      <4>1. /\ toDevice' = <<>> /\ toHost = <<>> /\ t = e
            /\ pc \notin {"sync", "drain", "sector", "write", "program", "reset"}
        BY <2>2, <3>2, TakesOneThing
      <4>2. PICK byte \in Int : toHost' = <<byte>> /\ (board = "buffer" => byte = Checksum(buf)')
        BY <2>4, <4>1
      <4>3. pc = "checksum" => board = "buffer"
        <5>1. pc = "checksum" => t.at = "program"
          BY <2>1, <4>1 DEF HostAt, At
        <5>2. t.at = "program" => s.at = "page"
          BY <2>2 DEF Takes, At, NextPage
        <5> QED
          BY <2>3, <5>1, <5>2
      <4>4. \A x : toHost' = <<x>> => x = byte
        BY <4>2
      <4> QED
        BY <4>1, <4>2, <4>3, <4>4 DEF OneThing
    <3> QED
      BY <1>1, <3>1, <3>2 DEF InTurn
  <2> QED
    BY <2>4, <2>6, <2>7 DEF IInv
<1> QED
  BY <1>2, <1>3 DEF IInv

-----------------------------------------------------------------------------
(* The invariant, and what it says.                                        *)

LEMMA StepInv == IInv /\ [Next]_vars => IInv'
<1> SUFFICES ASSUME IInv, [Next]_vars
             PROVE  IInv'
  OBVIOUS
<1>1. CASE SyncWrite
  BY <1>1, StepSyncWrite
<1>2. CASE SyncRead
  BY <1>2, StepSyncRead
<1>3. CASE Drain
  <2>1. PICK byte : isp_wait_byte(byte) \/ (toHost' = toHost /\ (line.late \/ toHost = <<>>))
    BY <1>3 DEF Drain, ReadSome
  <2>2. pc = "drain" /\ pc' = "sector" /\ UNCHANGED <<page, toDevice, line, board, buf, flash>>
    BY <1>3 DEF Drain
  <2>3. pc' \in HostPoints
    BY <2>2 DEF HostPoints
  <2> QED
    BY <2>1, <2>2, <2>3, StepAnswered
<1>4. CASE isp_exec_esec
  <2>1. CASE Command("sector", "erase", "sector_address")
    BY <2>1, StepCommand
  <2>2. CASE Argument("sector_address", [op |-> "address", at |-> SectorBytes(page * pagestep)], "erasing")
    BY <2>2, StepArgument
  <2>3. CASE pc = "erasing" /\ \E byte \in Bytes : isp_wait_byte(byte)
    <3>1. PICK byte : isp_wait_byte(byte)
      BY <2>3
    <3>2. pc' = "write" /\ UNCHANGED <<page, toDevice, line, board, buf, flash>>
      BY <1>4, <2>3 DEF isp_exec_esec, Command, Argument
    <3>3. pc' \in HostPoints
      BY <3>2 DEF HostPoints
    <3> QED
      BY <2>3, <3>1, <3>2, <3>3, StepAnswered
  <2> QED
    BY <1>4, <2>1, <2>2, <2>3 DEF isp_exec_esec
<1>5. CASE isp_exec_wbuf
  <2>1. CASE Command("write", "buffer", "page")
    BY <2>1, StepCommand
  <2>2. CASE Argument("page", [op |-> "data", data |-> Good(page)], "checksum")
    BY <2>2, StepArgument
  <2>3. CASE pc = "checksum"
    <3>1. PICK byte : /\ isp_wait_byte(byte)
                      /\ \/ ChecksumPass(byte) /\ pc' = "program"
                         \/ ~ChecksumPass(byte) /\ pc' = Retry(retries + 1)
      BY <1>5, <2>3 DEF isp_exec_wbuf, Command, Argument
    <3>2. UNCHANGED <<page, toDevice, line, board, buf, flash>>
      BY <1>5, <2>3 DEF isp_exec_wbuf, Command, Argument
    <3> QED
      BY <2>3, <3>1, <3>2, StepChecksum DEF ChecksumPass
  <2> QED
    BY <1>5, <2>1, <2>2, <2>3 DEF isp_exec_wbuf
<1>6. CASE isp_exec_wpag
  <2>1. CASE Command("program", "program", "page_address")
    BY <2>1, StepCommand
  <2>2. CASE Argument("page_address", [op |-> "address", at |-> AddressBytes(page * pagestep)], "programming")
    BY <2>2, StepArgument
  <2>3. CASE pc = "programming" /\ \E byte \in Bytes : isp_wait_byte(byte)
    <3>1. PICK byte : isp_wait_byte(byte)
      BY <2>3
    <3>2. /\ pc' = NextPage(page + 1) /\ page' = page + 1
          /\ UNCHANGED <<toDevice, line, board, buf, flash>>
      BY <1>6, <2>3 DEF isp_exec_wpag, Command, Argument
    <3>3. pc' \in HostPoints
      BY <3>2 DEF HostPoints, NextPage
    <3> QED
      BY <2>3, <3>1, <3>2, <3>3, StepAnswered
  <2> QED
    BY <1>6, <2>1, <2>2, <2>3 DEF isp_exec_wpag
<1>7. CASE isp_exec_rst
  <2>1. CASE Command("reset", "reset", "completing")
    BY <2>1, StepCommand
  <2>2. CASE pc = "completing" /\ \E byte \in Bytes : ReadSome(byte)
    <3>1. PICK byte : isp_wait_byte(byte) \/ (toHost' = toHost /\ (line.late \/ toHost = <<>>))
      BY <2>2 DEF ReadSome
    <3>2. pc' = "completed" /\ UNCHANGED <<page, toDevice, line, board, buf, flash>>
      BY <1>7, <2>2 DEF isp_exec_rst, Command
    <3>3. pc' \in HostPoints
      BY <3>2 DEF HostPoints
    <3> QED
      BY <2>2, <3>1, <3>2, <3>3, StepAnswered
  <2> QED
    BY <1>7, <2>1, <2>2 DEF isp_exec_rst
<1>8. CASE EnterIsp
  BY <1>8, StepEnterIsp
<1>9. CASE Receive
  BY <1>9, StepReceive
<1>10. CASE UNCHANGED vars
  <2>1. UNCHANGED <<pc, page, toDevice, toHost, line, board, buf, flash>>
    BY <1>10 DEF vars, host
  <2>2. Typed' /\ InTurn' /\ (Waiting => Waiting')
    BY <2>1 DEF IInv, Typed, InTurn, Nothing, OneThing, Waiting
  <2>3. ASSUME OnTheWay
        PROVE  OnTheWay'
    <3>1. PICK s \in Stages, e \in Stages :
            /\ Leads(s, toDevice, e) /\ HostAt(e) /\ board = BoardFor(s)
            /\ Sound => FlashAt(s) /\ BufferAt(s)
      BY <2>3 DEF OnTheWay
    <3>2. HostAt(e)' /\ (BufferAt(s) => BufferAt(s)')
      BY <2>1, <3>1 DEF HostAt, BufferAt
    <3> QED
      BY <2>1, <3>1, <3>2, HostMoves
  <2> QED
    BY <2>2, <2>3 DEF IInv
<1> QED
  BY <1>1, <1>2, <1>3, <1>4, <1>5, <1>6, <1>7, <1>8, <1>9, <1>10 DEF Next, Host

LEMMA Invariant == Spec => []IInv
<1> QED
  BY InitInv, StepInv, PTL DEF Spec

\* However late the line, however many pages it garbles and however long the
\* program, the board never takes the argument of one command for another
\* command, or for another's argument.
THEOREM StaysInStep == Spec => []InStep
<1>1. IInv => InStep
  <2> SUFFICES ASSUME IInv, toDevice # <<>>
               PROVE  InStep
    BY DEF InStep
  <2>1. CASE Waiting
    BY <2>1 DEF Waiting, InStep
  <2>2. CASE OnTheWay
    <3>1. PICK s \in Stages, e \in Stages : Leads(s, toDevice, e) /\ board = BoardFor(s)
      BY <2>2 DEF OnTheWay
    <3>2. PICK t \in Stages : Takes(s, Head(toDevice), t)
      BY <3>1, LeadsOff DEF IInv, Typed
    <3> QED
      BY <3>1, <3>2 DEF Takes, BoardFor, InStep, At
  <2> QED
    BY <2>1, <2>2 DEF IInv
<1> QED
  BY <1>1, Invariant, PTL

\* "Flashing completed" is true: for every program of at most 65535 pages, on a
\* line that is late or garbles pages but not both, the flash of a board that has
\* done what it was sent then holds every page of the program.
THEOREM CompletedIsProgram ==
  ASSUME Sound
  PROVE  Spec => []CompletedIsFlashed
<1>1. IInv => CompletedIsFlashed
  <2> SUFFICES ASSUME IInv, pc = "completed", toDevice = <<>>
               PROVE  \A p \in PageIds : flash[p] = Good(p)
    BY DEF CompletedIsFlashed
  <2>1. PICK s \in Stages, e \in Stages : Leads(s, toDevice, e) /\ HostAt(e) /\ FlashAt(s)
    BY DEF IInv, Waiting, OnTheWay
  <2>2. s = At("done", page)
    BY <2>1, LeadsNowhere DEF HostAt
  <2>3. s.page = Pages
    BY <2>2 DEF Stages, At
  <2>4. \A p \in PageIds : p < Pages
    BY IspAssumption DEF PageIds
  <2> QED
    BY <2>1, <2>3, <2>4 DEF FlashAt
<1> QED
  BY <1>1, Invariant, PTL

\* The same programs on the same lines: no page is programmed that is not erased.
THEOREM ProgramsOnlyErased ==
  ASSUME Sound
  PROVE  Spec => ProgramsErased
<1>1. ASSUME IInv, [Next]_vars, NEW p \in PageIds, flash'[p] # flash[p], flash'[p] # Erased
      PROVE  flash[p] = Erased
  <2>1. Receive
    BY <1>1 DEF Next, Host, SyncWrite, SyncRead, Drain, isp_exec_esec, isp_exec_wbuf,
                isp_exec_wpag, isp_exec_rst, Command, Argument, EnterIsp, vars
  <2>2. board # "off" /\ toDevice # <<>>
    BY <1>1, <2>1 DEF Receive
  <2>3. PICK s \in Stages, e \in Stages :
          Leads(s, toDevice, e) /\ board = BoardFor(s) /\ FlashAt(s)
    BY <1>1, <2>2 DEF IInv, Waiting, OnTheWay
  <2>4. PICK t \in Stages : Takes(s, Head(toDevice), t)
    BY <1>1, <2>2, <2>3, LeadsOff DEF IInv, Typed
  <2>5. board = "program"
    <3>1. board # "erase"
      BY <1>1, <2>1 DEF Receive
    <3> QED
      BY <1>1, <2>1, <3>1 DEF Receive
  <2>6. s.at = "page_address" /\ Head(toDevice).at = AddressBytes(s.page * pagestep)
    BY <1>1, <2>1, <2>3, <2>4, <2>5, BoardTakes
  <2>7. s.page \in Nat /\ s.page < 65535 /\ s.page < Pages
    BY <2>6, IspAssumption DEF Stages, Sound
  <2>8. AddressOf(Head(toDevice).at) \div pagestep = s.page
    BY <2>6, <2>7, AddressesReachThePages, PageOfAddress
  <2>9. flash' = [flash EXCEPT ![s.page] = IF @ = Erased THEN buf ELSE Bad(s.page)]
    BY <2>1, <2>5, <2>8 DEF Receive
  <2>10. p = s.page
    BY <1>1, <2>9 DEF IInv, Typed
  <2> QED
    BY <2>3, <2>6, <2>7, <2>10, IspAssumption DEF FlashAt, Sector, PageIds
<1>2. IInv /\ [Next]_vars =>
        [\A p \in PageIds : flash'[p] # flash[p] /\ flash'[p] # Erased => flash[p] = Erased]_vars
  BY <1>1
<1> QED
  BY <1>2, Invariant, PTL DEF Spec, ProgramsErased
=============================================================================
