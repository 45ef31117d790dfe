---------------------------- MODULE MCFileTable ----------------------------
(***************************************************************************)
(* Model-checking instance of FileTable.  The code has six pids, four      *)
(* entries per terminal and eight descriptors.  The runs use three pids    *)
(* and four descriptors (user descriptors 2 and 3): enough for a parent    *)
(* and a child each holding descriptors, for a pid to be reused, and for   *)
(* a full table to reach the file[8] overrun.  Every PCB keeps whatever    *)
(* an earlier occupant left, so larger tables multiply stale contents.     *)
(***************************************************************************)
EXTENDS FileTable

MC_NPROC == 6
MC_NPROC_TINY == 3
MC_TERM_CAP == 4
\* pcb_t.file[8]; four entries, user descriptors 2 and 3
MC_NFD == 8
MC_NFD_TINY == 4
MC_Kinds == {"rtc", "file"}
=============================================================================
