\* compress_file then decompress_file, both returning true.
CONSTANTS
  NoFile = NoFile  Unreadable = Unreadable  SubDir = SubDir
  Blocks <- TwoBlocks
  MaxBlocks = 2
  Folders <- SmallFolders
  MaxCalls = 2
SPECIFICATION Spec
INVARIANT RoundTrip
CHECK_DEADLOCK FALSE
