------------------------------ MODULE IspFlash ------------------------------
(***************************************************************************)
(* picotiny/ktiny/flash/sw/pico-programmer.py: the host that programs the  *)
(* flash of a board over a serial line, and the board's ISP flasher, which *)
(* is not in the repository and answers as the comments and the calls of   *)
(* the host say.                                                           *)
(*                                                                         *)
(* The line keeps its order.  It can be late: a read with a timeout then   *)
(* finds nothing, and reset_input_buffer discards only what has arrived.   *)
(* It can garble the data of a page, which changes the sum of its bytes.   *)
(* A page, three address bytes and the pair of sync bytes are one message. *)
(***************************************************************************)
EXTENDS Integers, Sequences

CONSTANTS
  Pages,             \* how many pages the program has
  SYNC_TRIES,        \* 100
  wbufRetryLimit,    \* 3
  Sums,              \* the checksum of each page
  Lines              \* what the line may do: whether answers may be late, and
                     \* how many times a page may be garbled

PageIds  == 0 .. Pages - 1
pagestep == 256
PagesPerSector == 16
Sector(p) == {q \in PageIds : q \div PagesPerSector = p \div PagesPerSector}

ASSUME IspAssumption ==
  /\ {Pages, SYNC_TRIES} \subseteq Nat \ {0}
  /\ wbufRetryLimit \in Nat
  /\ Sums \in [PageIds -> 0 .. 255]
  /\ Lines \subseteq [late : BOOLEAN, garbles : Nat]

VARIABLES
  pc,        \* host: the statement it is at
  tries,     \* host: of the sync loop
  page,      \* host: the page that curraddr points to
  retries,   \* host: wbufRetryCnt
  toDevice,  \* line: messages on their way to the board
  toHost,    \* line: bytes on their way to the host
  line,      \* line: what it may still do
  board,     \* board: what it is waiting for
  buf,       \* board: the page buffer
  flash      \* board: what each page of the flash holds

host == <<pc, tries, page, retries>>
vars == <<host, toDevice, toHost, line, board, buf, flash>>

\* A page as the board has it.
Good(p)    == [page |-> p, good |-> TRUE]
Bad(p)     == [page |-> p, good |-> FALSE]
Erased     == [page |-> -1, good |-> TRUE]
Old        == [page |-> -1, good |-> FALSE]
Contents   == [page : PageIds, good : BOOLEAN]
Checksum(data) == IF data.good THEN Sums[data.page] ELSE (Sums[data.page] + 1) % 256

-----------------------------------------------------------------------------
(* Addresses.                                                              *)

\* The three bytes of isp_exec_wpag, the first divided by 65535.
AddressBytes(addr) == <<(addr \div 65535) % 256, (addr \div 256) % 256, addr % 256>>

\* The three bytes of isp_exec_esec.
SectorBytes(addr) ==
  <<(addr \div 65535) % 256, ((addr \div 256) % 256) - ((addr \div 256) % 16), 0>>

\* What the board makes of them.
AddressOf(bytes) == bytes[1] * 65536 + bytes[2] * 256 + bytes[3]

-----------------------------------------------------------------------------
(* The host.  Send(m) writes to the line; isp_wait_byte takes the next byte, *)
(* whatever it is: only the checksum is compared.                            *)

Send(m) == toDevice' = Append(toDevice, m)
isp_wait_byte(byte) == toHost # <<>> /\ byte = Head(toHost) /\ toHost' = Tail(toHost)

\* A read that gives up after 10 ms: the byte that is there, or none.
ReadSome(byte) ==
  \/ isp_wait_byte(byte)
  \/ (line.late \/ toHost = <<>>) /\ byte = -1 /\ UNCHANGED toHost

Bytes == 0 .. 255 \cup {-1}

\* Bytes that have arrived are discarded, then the two sync bytes are written.
SyncWrite ==
  /\ pc = "sync"
  /\ \E n \in 0 .. Len(toHost) : (~line.late => n = Len(toHost))
                                 /\ toHost' = SubSeq(toHost, n + 1, Len(toHost))
  /\ Send([op |-> "sync"])
  /\ tries' = tries + 1
  /\ pc' = "synced"
  /\ UNCHANGED <<page, retries, line, board, buf, flash>>

\* The answer comes within 0.1 s, or the loop goes on, or gives up.
SyncRead ==
  /\ pc = "synced"
  /\ line.late \/ toDevice = <<>>
  /\ \E byte \in Bytes :
       /\ ReadSome(byte)
       /\ pc' = IF byte = 86 THEN "drain" ELSE IF tries < SYNC_TRIES THEN "sync" ELSE "exit"
  /\ UNCHANGED <<tries, page, retries, toDevice, line, board, buf, flash>>

\* One byte more is read and forgotten.
Drain ==
  /\ pc = "drain"
  /\ \E byte \in Bytes : ReadSome(byte)
  /\ pc' = "sector"
  /\ UNCHANGED <<tries, page, retries, toDevice, line, board, buf, flash>>

\* The commands: a byte, an answer, what the command is for, an answer.
Command(at, byte, next) ==
  /\ pc = at
  /\ Send([op |-> byte])
  /\ pc' = next
  /\ UNCHANGED <<tries, page, retries, toHost, line, board, buf, flash>>

Argument(at, m, next) ==
  /\ pc = at
  /\ \E byte \in Bytes : isp_wait_byte(byte)
  /\ Send(m)
  /\ pc' = next
  /\ UNCHANGED <<tries, page, retries, line, board, buf, flash>>

\* Mutant: only the first sector is erased.
FirstSectorOnly(p) == IF p = Pages THEN "reset" ELSE "write"

\* After a page, or at the head of the loops: the next sector is erased.
NextPage(p) ==
  IF p = Pages THEN "reset" ELSE IF p % PagesPerSector = 0 THEN "sector" ELSE "write"

isp_exec_esec ==
  \/ Command("sector", "erase", "sector_address")
  \/ Argument("sector_address", [op |-> "address", at |-> SectorBytes(page * pagestep)], "erasing")
  \/ /\ pc = "erasing"
     /\ \E byte \in Bytes : isp_wait_byte(byte)
     /\ pc' = "write"
     /\ UNCHANGED <<tries, page, retries, toDevice, line, board, buf, flash>>

\* Mutant: whatever the board answers is taken for the checksum.
AnyAnswer(byte) == TRUE

ChecksumPass(byte) == byte = Sums[page]

\* Mutant: the data is sent again without the command before it.
SendDataAgain(n) == IF n > wbufRetryLimit THEN "failed" ELSE "page"

\* After the n-th failure.
Retry(n) == IF n > wbufRetryLimit THEN "failed" ELSE "write"

\* The page goes into the board's buffer, again if the answer is not its
\* checksum, until the limit of retries is passed.
isp_exec_wbuf ==
  \/ Command("write", "buffer", "page")
  \/ Argument("page", [op |-> "data", data |-> Good(page)], "checksum")
  \/ /\ pc = "checksum"
     /\ \E byte \in Bytes :
          /\ isp_wait_byte(byte)
          /\ \/ /\ ChecksumPass(byte)
                /\ retries' = 0
                /\ pc' = "program"
             \/ /\ ~ChecksumPass(byte)
                /\ retries' = retries + 1
                /\ pc' = Retry(retries + 1)
     /\ UNCHANGED <<tries, page, toDevice, line, board, buf, flash>>

isp_exec_wpag ==
  \/ Command("program", "program", "page_address")
  \/ Argument("page_address", [op |-> "address", at |-> AddressBytes(page * pagestep)], "programming")
  \/ /\ pc = "programming"
     /\ \E byte \in Bytes : isp_wait_byte(byte)
     /\ page' = page + 1
     /\ pc' = NextPage(page + 1)
     /\ UNCHANGED <<tries, retries, toDevice, line, board, buf, flash>>

\* "Flashing completed" is printed, whether or not the answer is there.
isp_exec_rst ==
  \/ Command("reset", "reset", "completing")
  \/ /\ pc = "completing"
     /\ \E byte \in Bytes : ReadSome(byte)
     /\ pc' = "completed"
     /\ UNCHANGED <<tries, page, retries, toDevice, line, board, buf, flash>>

-----------------------------------------------------------------------------
(* The board, outside the repository.                                      *)

\* Somebody pushes the button: the board starts in ISP mode.
EnterIsp ==
  /\ board = "off" /\ pc \in {"sync", "synced"}
  /\ board' = "idle"
  /\ UNCHANGED <<host, toDevice, toHost, line, buf, flash>>

Answer(byte) == toHost' = Append(toHost, byte)

\* A command is answered, and its argument awaited.
Receive ==
  /\ toDevice # <<>>
  /\ toDevice' = Tail(toDevice)
  /\ LET m == Head(toDevice)
     IN  \/ /\ board = "off"
            /\ UNCHANGED <<toHost, line, board, buf, flash>>
         \/ /\ board = "idle" /\ m.op = "sync"
            /\ Answer(86)
            /\ UNCHANGED <<line, board, buf, flash>>
         \/ /\ board = "idle" /\ m.op \in {"erase", "buffer", "program"}
            /\ Answer(CASE m.op = "erase" -> 49 [] m.op = "buffer" -> 17 [] m.op = "program" -> 65)
            /\ board' = m.op
            /\ UNCHANGED <<line, buf, flash>>
         \/ /\ board = "idle" /\ m.op = "reset"
            /\ Answer(241)
            /\ board' = "off"
            /\ UNCHANGED <<line, buf, flash>>
         \/ /\ board = "erase"
            /\ Answer(50)
            /\ flash' = [p \in PageIds |-> IF p \in Sector(AddressOf(m.at) \div pagestep)
                                           THEN Erased ELSE flash[p]]
            /\ board' = "idle"
            /\ UNCHANGED <<line, buf>>
         \/ /\ board = "buffer"
            /\ \/ /\ buf' = m.data
                  /\ UNCHANGED line
               \/ /\ line.garbles > 0
                  /\ buf' = Bad(m.data.page)
                  /\ line' = [line EXCEPT !.garbles = @ - 1]
            /\ Answer(Checksum(buf'))
            /\ board' = "idle"
            /\ UNCHANGED flash
         \/ /\ board = "program"
            /\ Answer(66)
            /\ LET p == AddressOf(m.at) \div pagestep
               IN  flash' = [flash EXCEPT ![p] = IF @ = Erased THEN buf ELSE Bad(p)]
            /\ board' = "idle"
            /\ UNCHANGED <<line, buf>>
  /\ UNCHANGED host

Init ==
  /\ pc = "sync" /\ tries = 0 /\ page = 0 /\ retries = 0
  /\ toDevice = <<>> /\ toHost = <<>>
  /\ line \in Lines
  /\ board \in {"off", "idle"}
  /\ buf = Bad(0)
  /\ flash = [p \in PageIds |-> Old]

Host ==
  \/ SyncWrite \/ SyncRead \/ Drain
  \/ isp_exec_esec \/ isp_exec_wbuf \/ isp_exec_wpag \/ isp_exec_rst

Next == Host \/ EnterIsp \/ Receive

\* The host runs, and what is written to the line arrives.
Spec == Init /\ [][Next]_vars /\ WF_vars(Host) /\ WF_vars(Receive)

-----------------------------------------------------------------------------
(* Properties.                                                             *)

HostPoints ==
  {"sync", "synced", "drain", "sector", "sector_address", "erasing", "write", "page",
   "checksum", "program", "page_address", "programming", "reset", "completing",
   "completed", "failed", "exit"}

\* Every variable has its type; the board is never told of a page it has not.
TypeOK ==
  /\ pc \in HostPoints
  /\ tries \in 0 .. SYNC_TRIES
  /\ page \in 0 .. Pages
  /\ retries \in 0 .. wbufRetryLimit + 1
  /\ \A k \in DOMAIN toHost : toHost[k] \in 0 .. 255
  /\ line.late \in BOOLEAN /\ line.garbles \in Nat
  /\ board \in {"off", "idle", "erase", "buffer", "program"}
  /\ buf \in Contents
  /\ flash \in [PageIds -> Contents \cup {Erased, Old}]

\* The host and the board agree on what comes next: an argument on the line
\* always follows the command that takes it, even when the host is a byte behind
\* in what it reads (pico-programmer.py:27-31, 40-44, 58-62).
InStep ==
  toDevice # <<>> =>
    CASE board \in {"erase", "program"} -> Head(toDevice).op = "address"
      [] board = "buffer" -> Head(toDevice).op = "data"
      [] board = "idle" -> Head(toDevice).op \notin {"address", "data"}
      [] OTHER -> TRUE

\* "Flashing completed" (pico-programmer.py:211): when the host says so and the
\* board has done what it was sent, the flash holds the program.
CompletedIsFlashed ==
  pc = "completed" /\ toDevice = <<>> => \A p \in PageIds : flash[p] = Good(p)

\* A page is only ever programmed once erased, and not twice, however often its
\* data is sent again (pico-programmer.py:171-196).
ProgramsErased ==
  [][\A p \in PageIds : flash'[p] # flash[p] /\ flash'[p] # Erased => flash[p] = Erased]_vars

\* The host never waits for ever for an answer, in the sync loop, in a command or
\* in its retries, as long as no byte is lost (pico-programmer.py:12-17, 120-202).
HostEnds == <>(pc \in {"exit", "failed", "completed"})
=============================================================================
