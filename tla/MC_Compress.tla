----------------------------- MODULE MC_Compress -----------------------------
(* Model-checking instance of Compress: two block values, and folders of   *)
(* two entries among a one-block file, an unreadable file and an empty     *)
(* subdirectory.                                                           *)
EXTENDS Compress, TLC

TwoBlocks == {1, 2}
SmallFolders == {<<SubDir, <<1>>>>, <<<<2>>, SubDir>>, <<Unreadable, <<1>>>>}
=============================================================================
