----------------------------- MODULE MCFileSystem -----------------------------
(***************************************************************************)
(* An image for TLC.  Blocks hold two bytes, so a read of up to five bytes *)
(* crosses every boundary.  Inode 0 is three bytes over blocks 2 and 0,    *)
(* out of order and ending inside a block; inode 1 is exactly two blocks;  *)
(* inode 2 is empty.  The directory has ".", the RTC, the three files and  *)
(* a regular file whose name begins with "rtc".  The process has two user  *)
(* descriptors, so a file and the directory can be open at once.          *)
(***************************************************************************)
EXTENDS FileSystem

MC_BLOCK == 2
MC_Blocks == <<<<1, 2>>, <<3, 4>>, <<5, 6>>>>
MC_Inodes == << [length |-> 3, blocks |-> <<3, 1>>],
                [length |-> 4, blocks |-> <<2, 3>>],
                [length |-> 0, blocks |-> <<>>] >>
MC_Dentries == << [name |-> "dot",  type |-> 1, inode |-> 0],
                  [name |-> "rtc",  type |-> 0, inode |-> 0],
                  [name |-> "frame0", type |-> 2, inode |-> 0],
                  [name |-> "frame1", type |-> 2, inode |-> 1],
                  [name |-> "empty", type |-> 2, inode |-> 2],
                  [name |-> "rtclog", type |-> 2, inode |-> 1] >>
MC_Names    == {"dot", "rtc", "frame0", "frame1", "empty", "rtclog", "missing"}
MC_RtcNames == {"rtc", "rtclog"}
MC_DotNames == {"dot"}
MC_NFD      == 4
MC_Sizes    == {0, 1, 2, 5}
=============================================================================
