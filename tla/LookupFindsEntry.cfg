SPECIFICATION Spec
CONSTANTS
  Names = {"a", "b"}
  Paths <- NamedPaths
  Flags = {{}, {"FS_O_WRONLY"}, {"FS_O_TRUNC"}}
  INMEM_BLOCKS_NUM = 3
  INMEM_INODES_NUM = 6
  MAX_FILES_OPENED = 3
  NDIRECT = 2
  BSIZE = 2
  MAXFILES = 4
  INODES_PER_BLOCK = 4
  INODE_BITS = 5
  INUM_RANGE = 6
  DIRENTS_PER_BLOCK = 2
  DATA_BLOCKS = 4
  Images <- MCImages
  KillPoints = {"ready"}
  CloseOrder = "lifo"
CHECK_DEADLOCK FALSE
INVARIANTS
  LookupFindsEntry
