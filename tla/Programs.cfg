SPECIFICATION Spec
CHECK_DEADLOCK FALSE
CONSTANTS
  Running = {"AtomicBits", "Vsfs", "Forks", "IntFuncs", "IpLab", "KernelStart", "Characteristics", "HexDump", "Console"}
  NTH = 4
  Functions = {"_sync_qwerty", "qwerty"}
  Builders = {"vsfs", "vsfs_0.1"}
  CommandLines <- MCCommandLines
  BinaryCounts = {7, 8192}
  Forking = {"allocStacksTest1", "allocStacksTest", "fork"}
  FORKS = 3
  THREADS1 = 2
  THREADS = 1
  Limits <- MCLimits
  IntMax = 2047
  Reversed <- MCInts
  Written <- MCWritten
  Texts <- MCTexts
  Lines <- MCLines
  NoLine = NoLine
  Text <- MCText
  DataValues <- MCDataValues
  BssSizes <- MCBssSizes
  Junk = 9
  RAM = 40
  UART = 80
  Names = {"foo", "bar"}
  Tables <- MCTables
  Values = {0, 20}
  Deltas = {20}
  Rolls = {1, 6, 20}
  Hardness = {7}
  BOUND = 21
  Dumps <- MCDumps
  Bases <- MCBases
  Formats = {"v32", "vx4", "bin"}
  LINE = 4
  MEMSIZE = 16
  Calls <- MCCalls
  Behind <- MCBehind
  IntArgs <- MCIntArgs
  PtrArgs <- MCPtrArgs
  Other = Other
  MaxInt = 127
  MaxPtr = 65535
  BUF = 4
INVARIANTS
  ProgramTypeOK
  NoBitLost
  TestsAnswer
  BlocksAreOwn
  EntriesFindFiles
  TextsAreStored
  EndedChildrenCount
  LinesInOrder
  NeverOverflows
  ResultsRight
  AnswersRight
  MainFinds
  TableRight
  DumpIsRead
  ReadersAgree
  FormatIsWritten
PROPERTIES
  NoBitInvented
  EveryProgramEnds
