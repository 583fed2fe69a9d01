\* Files of up to two blocks and three calls: a compress, a decompress and
\* a third call that may overwrite the archive or compress the folder twice.
CONSTANTS
  NoFile = NoFile  Unreadable = Unreadable  SubDir = SubDir
  Blocks <- TwoBlocks
  MaxBlocks = 2
  Folders <- SmallFolders
  MaxCalls = 3
SPECIFICATION Spec
INVARIANT TypeOK
INVARIANT OnlyTailsLost
CHECK_DEADLOCK FALSE
