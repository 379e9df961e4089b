SPECIFICATION Spec
CONSTANTS
  Files = {0, 1}
  BSIZE = 2
  MAX_BLOCKS_PER_FILE = 3
  Blocks = {8, 9, 10}
  Bytes = {0, 1}
  Images <- MCImages
  UINT = 14
  Flags = {{"FS_O_RDWR"}}
  Sizes = {3}
  Buffers <- MCBuffers
  MAX_FILES_OPENED = 2
  INMEM_INODES_NUM = 4
  Access = "any"
CHECK_DEADLOCK FALSE
INVARIANTS
  BytesInFile
PROPERTIES
  WritesStayInRange
