SPECIFICATION Spec
CONSTANTS
  Names = {"a"}
  Paths <- AllPaths
  Flags = {{}, {"FS_O_WRONLY"}, {"FS_O_TRUNC"}}
  INMEM_BLOCKS_NUM = 3
  INMEM_INODES_NUM = 5
  MAX_FILES_OPENED = 2
  NDIRECT = 1
  BSIZE = 2
  MAXFILES = 4
  INODES_PER_BLOCK = 3
  INODE_BITS = 5
  INUM_RANGE = 4
  DIRENTS_PER_BLOCK = 2
  DATA_BLOCKS = 2
  Images <- MCImages
  KillPoints = {"ready", "link", "store", "dead"}
  CloseOrder = "any"
CHECK_DEADLOCK FALSE
INVARIANTS
  InductiveInv
  BlocksMarked
  NoSharedBlocks
  DirectoryConsistent
  BufferPoolLasts
  NullDerefCause
  LiveInodesLocked
  ClosedIsUnreadable
