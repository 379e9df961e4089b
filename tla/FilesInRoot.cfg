SPECIFICATION Spec
CONSTANTS
  Names = {"f"}
  NDIRECT = 3
  BSIZE = 2
  MAXFILES = 8
  INODE_BITS = 10
  INUM_RANGE = 6
  DIRENTS_PER_BLOCK = 3
  DATA_BLOCKS = 6
  BITS_PER_BITMAP = 8
  DATA_BITS = 10
  RECLEN = 1
  CommandLines <- MCCommandLines
  LEAST <- MCLeast
  Uninitialised = {0, 1}
CHECK_DEADLOCK FALSE
INVARIANT FilesInRoot
