------------------------------ MODULE FileSystem ------------------------------
(***************************************************************************)
(* The read-only file system of lmaOS (filesys.c) as a process reaches it  *)
(* through the open, read and close system calls (syscall.c:377-528): the  *)
(* directory lookup, read_data's copy across data blocks, and the cursors  *)
(* (file[fd].pos) that read_file and read_dir advance.                     *)
(*                                                                         *)
(* The boot block image is given by constants: its directory entries,     *)
(* inodes (length and data-block list) and data blocks of BLOCK bytes.    *)
(* Names are model values; the sets RtcNames and DotNames are the names   *)
(* that begin with "rtc" and with ".", which open tests by strncmp.       *)
(*                                                                         *)
(* One process with no interrupts: get_pcb_address() is the caller, so    *)
(* read_file's read of pos, the copy and the update of pos run as one     *)
(* step.  Reads through a descriptor of another terminal's process are    *)
(* FileTable's and Kernel's concern.  A full table (open's file[8]) is    *)
(* FileTable's: here open needs a free entry.                             *)
(***************************************************************************)
EXTENDS Integers, Sequences, SequencesExt

CONSTANTS
    BLOCK,          \* ABS_BLOCK_SIZE (4096)
    Dentries,       \* boot_block->dir_entries[0 .. dir_count-1]: records
                    \*   [name, type, inode]; type 0 RTC, 1 directory, 2 file
    Inodes,         \* inodes: sequence of [length, blocks], blocks being
                    \*   the data_block[] entries in use
    Blocks,         \* data blocks: block number -> sequence of BLOCK bytes
    NFD,            \* entries of pcb_t.file[] (8)
    Names,          \* names programs pass to open
    RtcNames,       \* names beginning with "rtc"
    DotNames,       \* names beginning with "."
    Sizes,          \* nbytes values programs pass to read
    NoName          \* file_name of a zeroed directory slot

Fds     == 0 .. NFD - 1
UserFds == 2 .. NFD - 1

\* boot_block->dir_count and inode_count (filesys.h:44-50).
DirCount   == Len(Dentries)
InodeCount == Len(Inodes)

VARIABLES
    file,           \* file[fd]: [kind, inode, pos] of the caller's PCB
    got             \* got[fd]: what reads on fd returned since it was
                    \*   opened (auxiliary, for the properties)

vars == <<file, got>>

Closed == [kind |-> "closed", inode |-> 0, pos |-> 0]

-----------------------------------------------------------------------------
(* Directory lookup.                                                       *)

\* Mutant: the bound check lets index = dir_count through.
ReadDentryByIndexPast(index) ==
    IF index > DirCount THEN NoName
    ELSE IF index = DirCount THEN [name |-> NoName, type |-> 0, inode |-> 0]
    ELSE Dentries[index + 1]

\* read_dentry_by_index (filesys.c:65-81): the entry at index, or none
\* past dir_count.  The slots after dir_count are zeroed in the image.
ReadDentryByIndex(index) ==
    IF index >= DirCount THEN NoName ELSE Dentries[index + 1]

\* read_dentry_by_name (filesys.c:31-55): the first entry whose name
\* matches, or none.
ReadDentryByName(name) ==
    IF \E k \in 1 .. DirCount : Dentries[k].name = name
    THEN Dentries[Min({k \in 1 .. DirCount : Dentries[k].name = name})]
    ELSE NoName

-----------------------------------------------------------------------------
(* read_data (filesys.c:90-134).                                           *)

\* Mutant: the end-of-file test one byte late.
ReadDataPastEnd(inode, offset, length) ==
    IF inode >= InodeCount THEN <<>> ELSE
    LET nd == Inodes[inode + 1]
        RECURSIVE Copy(_, _, _, _)
        Copy(i, datablock, byte_offset, buf) ==
            IF i >= length \/ i + offset > nd.length THEN buf
            ELSE LET next == byte_offset >= BLOCK
                     db   == IF next THEN datablock + 1 ELSE datablock
                     bo   == IF next THEN 0 ELSE byte_offset
                 IN Copy(i + 1, db, bo + 1,
                         Append(buf, Blocks[nd.blocks[db + 1]][bo + 1]))
    IN Copy(0, offset \div BLOCK, offset % BLOCK, <<>>)

\* The bytes copied into buf: the loop of lines 110-130 stops at length
\* bytes or at the inode's end (line 112), and moves to the next entry of
\* data_block[] when byte_offset reaches the block size (lines 116-123).
\* An invalid inode copies nothing (line 98).
ReadData(inode, offset, length) ==
    IF inode >= InodeCount THEN <<>> ELSE
    LET nd == Inodes[inode + 1]
        RECURSIVE Copy(_, _, _, _)
        Copy(i, datablock, byte_offset, buf) ==
            IF i >= length \/ i + offset >= nd.length THEN buf
            ELSE LET next == byte_offset >= BLOCK
                     db   == IF next THEN datablock + 1 ELSE datablock
                     bo   == IF next THEN 0 ELSE byte_offset
                 IN Copy(i + 1, db, bo + 1,
                         Append(buf, Blocks[nd.blocks[db + 1]][bo + 1]))
    IN Copy(0, offset \div BLOCK, offset % BLOCK, <<>>)

-----------------------------------------------------------------------------
(* The system calls.                                                       *)

\* open_file and open_dir (filesys.c:196-215, 297-315): the name is looked
\* up again and some file[i], i < 8, must have flags 0.
DriverOpens(name) ==
    /\ ReadDentryByName(name) # NoName
    /\ \E i \in Fds : file[i].kind = "closed"

\* The entry open fills for dentry d opened as name (syscall.c:455-490):
\* the RTC for type 0 or a name beginning "rtc", a directory for type 1 or
\* a name beginning ".", a file for type 2; nothing otherwise.
OpenedAs(d, name) ==
    CASE d.type = 0 \/ name \in RtcNames -> [kind |-> "rtc", inode |-> 0, pos |-> 0]
      [] d.type = 1 \/ name \in DotNames -> [kind |-> "dir", inode |-> 0, pos |-> 0]
      [] d.type = 2 -> [kind |-> "file", inode |-> d.inode, pos |-> 0]
      [] OTHER -> Closed

\* open(name) (syscall.c:435-497): the lookup, the first free descriptor
\* from 2, and the entry for the dentry's type.
Open(name) ==
    LET d  == ReadDentryByName(name)
        fd == Min({i \in UserFds : file[i].kind = "closed"})
    IN
    /\ d # NoName
    /\ \E i \in UserFds : file[i].kind = "closed"
    /\ OpenedAs(d, name) # Closed
    /\ OpenedAs(d, name).kind \in {"dir", "file"} => DriverOpens(name)
    /\ file' = [file EXCEPT ![fd] = OpenedAs(d, name)]
    /\ got' = [got EXCEPT ![fd] = <<>>]

\* The checks of read (syscall.c:377-389): a buffer, fd in 0-7,
\* nbytes >= 0, and an open descriptor.
ReadCallOk(fd, nbytes) ==
    fd \in Fds /\ nbytes >= 0 /\ file[fd].kind # "closed"

\* read on a file (filesys.c:146-161): read_data from pos, and pos
\* advanced by the count it returns.
ReadFile(fd, nbytes) ==
    /\ ReadCallOk(fd, nbytes)
    /\ file[fd].kind = "file"
    /\ LET bytes == ReadData(file[fd].inode, file[fd].pos, nbytes) IN
       /\ got' = [got EXCEPT ![fd] = @ \o bytes]
       /\ file' = [file EXCEPT ![fd].pos = @ + Len(bytes)]

\* read on a directory (filesys.c:224-262): the name of the entry at pos
\* and pos advanced, or 0 bytes once pos is past the directory.
ReadDir(fd, nbytes) ==
    /\ ReadCallOk(fd, nbytes)
    /\ file[fd].kind = "dir"
    /\ LET d == ReadDentryByIndex(file[fd].pos) IN
       IF d # NoName
       THEN /\ got' = [got EXCEPT ![fd] = Append(@, d.name)]
            /\ file' = [file EXCEPT ![fd].pos = @ + 1]
       ELSE UNCHANGED vars

\* close(fd) (syscall.c:507-528): fd 2-7 and open; close_file and
\* close_dir return 0, and the entry is cleared.
Close(fd) ==
    /\ fd \in UserFds
    /\ file[fd].kind # "closed"
    /\ file' = [file EXCEPT ![fd] = Closed]
    /\ UNCHANGED got

-----------------------------------------------------------------------------

\* A process just started by execute: stdin and stdout, nothing else open.
Init ==
    /\ file = [i \in Fds |-> IF i = 0 THEN [kind |-> "stdin", inode |-> 0, pos |-> 0]
                             ELSE IF i = 1 THEN [kind |-> "stdout", inode |-> 0, pos |-> 0]
                             ELSE Closed]
    /\ got = [i \in Fds |-> <<>>]

Next ==
    \/ \E name \in Names : Open(name)
    \/ \E fd \in UserFds, n \in Sizes : ReadFile(fd, n) \/ ReadDir(fd, n)
    \/ \E fd \in UserFds : Close(fd)

Spec == Init /\ [][Next]_vars

-----------------------------------------------------------------------------
(* Properties.                                                             *)

\* The file's contents, as the reference for read_data: the data blocks
\* the inode lists, in order, cut at its length.
Content(inode) ==
    LET nd == Inodes[inode + 1]
    IN SubSeq(FlattenSeq([k \in 1 .. Len(nd.blocks) |-> Blocks[nd.blocks[k]]]),
              1, nd.length)

\* Successive reads of an open file return its contents in order, with no
\* byte skipped, repeated or read past its end, whatever the sizes asked
\* for and however they fall across data-block boundaries; the cursor is
\* the number of bytes returned.
FileReadsInOrder ==
    \A i \in UserFds :
        file[i].kind = "file" =>
            /\ file[i].pos = Len(got[i])
            /\ Len(got[i]) <= Len(Content(file[i].inode))
            /\ got[i] = SubSeq(Content(file[i].inode), 1, Len(got[i]))

\* Successive reads of the directory return the names of its entries,
\* each once and in order, and nothing past the last one.
DirReadsInOrder ==
    \A i \in UserFds :
        file[i].kind = "dir" =>
            /\ file[i].pos = Len(got[i])
            /\ Len(got[i]) <= DirCount
            /\ \A k \in 1 .. Len(got[i]) : got[i][k] = Dentries[k].name

=============================================================================
