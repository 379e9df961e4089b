SPECIFICATION Spec
CONSTANTS
  Files = {0, 1}
  BSIZE = 2
  MAX_BLOCKS_PER_FILE = 3
  Blocks = {8, 9, 10}
  Bytes = {0, 1}
  Images <- MCImages
  UINT = 16
  Flags = {{"FS_O_RDWR"}, {"FS_O_WRONLY"}, {"FS_O_RDWR", "FS_O_TRUNC"}}
  Sizes = {1, 3}
  Buffers <- MCBuffers
  MAX_FILES_OPENED = 2
  INMEM_INODES_NUM = 4
  Access = "any"
CHECK_DEADLOCK FALSE
PROPERTIES
  ReadAfterWrite
