------------------------------ MODULE FileTable ------------------------------
(***************************************************************************)
(* The per-process file-descriptor tables of lmaOS (the file[8] array of   *)
(* pcb_t, syscall.h:49) under the open and close system calls              *)
(* (syscall.c:435-528), execute's pre-opening of stdin/stdout               *)
(* (syscall.c:277-285) and halt's close loop (syscall.c:62-81), for the    *)
(* processes stacked on terminal 0 with no interrupts.                     *)
(*                                                                         *)
(* Every descriptor call finds its PCB with get_pcb_address(), the newest  *)
(* process listed by the displayed terminal; with one terminal and no      *)
(* interrupts that is the calling process, except inside halt, which has   *)
(* already unlisted the caller when its close loop runs.                   *)
(*                                                                         *)
(* A descriptor is its flag and, while the flag is 1, its file_op: the    *)
(* jump table of a closed descriptor is never read again before open      *)
(* rewrites it.  Cursor and inode fields are left out: read and write     *)
(* only move a cursor (read_file, read_dir) or touch a device.  Directory *)
(* and regular-file descriptors behave alike here ("file").                *)
(***************************************************************************)
EXTENDS Integers, Sequences, SequencesExt, FiniteSets, FiniteSetsExt

CONSTANTS
    NPROC,          \* size of process_state[] (6)
    TERM_CAP,       \* size of terminal_t.processes[] (4)
    NFD,            \* entries of pcb_t.file[] (8)
    Kinds,          \* file types open resolves to: subset of {"rtc", "file"}
    WILD            \* no PCB: get_pcb_address() of an empty array

Pids    == 0 .. NPROC - 1
Fds     == 0 .. NFD - 1
UserFds == 2 .. NFD - 1
\* "closed": flags # 1; otherwise the jump table of the open descriptor.
FdStates == {"closed", "stdin", "stdout", "rtc", "file", "nothing"}

ASSUME /\ NPROC \in Nat \ {0} /\ TERM_CAP \in Nat \ {0} /\ NFD >= 3
       /\ Kinds \subseteq {"rtc", "file"}

VARIABLES
    procs,          \* terminals[0].processes[] up to its first -1
    active,         \* pids marked 1 in process_state[]
    fds,            \* fds[p][fd]: pcb p's file[fd] as a FdStates value
    over            \* over[p]: bytes 12-15 of pcb p's arg[] read as
                    \*   file[NFD].flags (1, or anything else as 0)

vars == <<procs, active, fds, over>>

-----------------------------------------------------------------------------
(* get_pcb_address() (syscall.c:611-629) on terminal 0.                   *)

Caller(list) == IF list # <<>> THEN Last(list) ELSE WILD

-----------------------------------------------------------------------------
(* open (syscall.c:435-497).                                              *)

\* First descriptor from 2 whose flag is not 1, NFD when there is none
\* (the loop of syscall.c:448-453 leaves fd = 8).
FirstFreeFd(p) ==
    IF \E fd \in UserFds : fds[p][fd] = "closed"
    THEN Min({fd \in UserFds : fds[p][fd] = "closed"})
    ELSE NFD

\* The check of syscall.c:454, which reads file[8] past the array: the
\* bytes 12-15 of arg[] that follow it in pcb_t.
SlotFree(p, fd) == IF fd < NFD THEN fds[p][fd] = "closed" ELSE over[p] # 1

\* open_file and open_dir (filesys.c:196-213, 297-313) succeed only when
\* some file[i], i < 8, has flags 0; rtc_open (rtc.c:126-131) always does.
DriverOpens(p, kind) ==
    kind = "rtc" \/ \E i \in Fds : fds[p][i] = "closed"

\* Fill the descriptor: file_op, pos, inode, flags (syscall.c:455-490).
\* The entry at NFD is the first 16 bytes of arg[].
Open(kind) ==
    LET p  == Caller(procs)
        fd == FirstFreeFd(p)
    IN
    /\ SlotFree(p, fd)
    /\ DriverOpens(p, kind)
    /\ IF fd < NFD
       THEN /\ fds' = [fds EXCEPT ![p][fd] = kind]
            /\ UNCHANGED over
       ELSE /\ over' = [over EXCEPT ![p] = 1]
            /\ UNCHANGED fds
    /\ UNCHANGED <<procs, active>>

-----------------------------------------------------------------------------
(* close (syscall.c:507-528).                                             *)

\* Mutant: stdout passes the range check.
ValidCloseFdLow(fd) == fd >= 1 /\ fd <= NFD - 1

\* The range check of syscall.c:510.
ValidCloseFd(fd) == fd >= 2 /\ fd <= NFD - 1

\* close(fd) in the calling process: the driver's close is called and the
\* flag, inode and cursor cleared (syscall.c:514-521).
Close(fd) ==
    /\ ValidCloseFd(fd)
    /\ fds[Caller(procs)][fd] # "closed"
    /\ fds' = [fds EXCEPT ![Caller(procs)][fd] = "closed"]
    /\ UNCHANGED <<procs, active, over>>

-----------------------------------------------------------------------------
(* execute (syscall.c:124-364), as far as the new PCB's table goes.       *)

\* The num_proc > 3 rejection of syscall.c:138-141.
ExecCapOk(n) == n < TERM_CAP

\* A new process on the lowest free pid: stdin and stdout set up, the
\* other entries left as the PCB memory holds them; the command line is
\* copied with its terminator, over bytes 12-15 of arg[] when it has 12
\* characters or more.
Spawned(p, long) ==
    /\ fds' = [fds EXCEPT ![p][0] = "stdin", ![p][1] = "stdout"]
    /\ over' = [over EXCEPT ![p] = IF long THEN 0 ELSE @]

Execute ==
    /\ ExecCapOk(Len(procs))
    /\ active # Pids
    /\ LET p == Min(Pids \ active) IN
       /\ active' = active \cup {p}
       /\ procs' = Append(procs, p)
       /\ \E long \in BOOLEAN : Spawned(p, long)

-----------------------------------------------------------------------------
(* halt (syscall.c:34-110).                                               *)

\* The user descriptors the halting process q holds: close(i) is called
\* for each (syscall.c:76-79).
HeldFds(q) == {i \in UserFds : fds[q][i] # "closed"}

\* close(i) for each held i, through get_pcb_address() of the shortened
\* array: the descriptors of pcb c with those numbers are closed.  When that
\* array is empty, get_pcb_address() reads the byte before terminals[0]
\* and the loop writes into memory this model does not track.
ClosedAll(c, held) ==
    [fds EXCEPT ![c] = [i \in Fds |-> IF i \in held THEN "closed" ELSE @[i]]]

\* file_op = &do_nothing for all eight entries of q (syscall.c:80): the
\* entries still open now dispatch to bad_call.
HaltReset(f, q) ==
    [f EXCEPT ![q] = [i \in Fds |-> IF @[i] = "closed" THEN "closed" ELSE "nothing"]]

\* Mutant: halt never finds it removed the terminal's last process.
IsLastNever(rest) == FALSE

\* is_process0 (syscall.c:55-58): no process left on the terminal.
IsLast(rest) == rest = <<>>

\* The halt of the newest process q: unlisted first (syscall.c:62-68),
\* then its close loop, then execute("shell") if it was the last one.
Halt ==
    LET q    == Caller(procs)
        rest == Front(procs)
        c    == Caller(rest)
        held == HeldFds(q)
        fo   == HaltReset(IF c \in Pids THEN ClosedAll(c, held) ELSE fds, q)
    IN
    /\ procs # <<>>
    /\ IF ~IsLast(rest)
       THEN /\ procs' = rest
            /\ active' = active \ {q}
            /\ fds' = fo
            /\ UNCHANGED over
       ELSE LET p == Min(Pids \ (active \ {q})) IN
            /\ procs' = <<p>>
            /\ active' = (active \ {q}) \cup {p}
            /\ \E long \in BOOLEAN :
                  /\ fds' = [fo EXCEPT ![p][0] = "stdin", ![p][1] = "stdout"]
                  /\ over' = [over EXCEPT ![p] = IF long THEN 0 ELSE @]

-----------------------------------------------------------------------------

\* Terminal 0 after kernel.c's execute("shell"): pid 0 with stdin and
\* stdout; the other PCBs are zeroed memory.
Init ==
    /\ procs = <<0>>
    /\ active = {0}
    /\ fds = [p \in Pids |-> [i \in Fds |->
                 IF p = 0 /\ i = 0 THEN "stdin"
                 ELSE IF p = 0 /\ i = 1 THEN "stdout" ELSE "closed"]]
    /\ over = [p \in Pids |-> 0]

Next ==
    \/ \E kind \in Kinds : Open(kind)
    \/ \E fd \in Fds : Close(fd)
    \/ Execute
    \/ Halt

Spec == Init /\ [][Next]_vars

-----------------------------------------------------------------------------
(* Properties.                                                             *)

TypeOK ==
    /\ procs \in Seq(Pids) /\ Len(procs) \in 1 .. TERM_CAP
    /\ active \subseteq Pids
    /\ fds \in [Pids -> [Fds -> FdStates]]
    /\ over \in [Pids -> {0, 1}]

\* Every live process reads stdin on descriptor 0 and writes stdout on 1:
\* close refuses them, open never hands them out, and execute sets them
\* up for every new PCB, whatever its previous occupant left.
StdStreamsOpen ==
    \A p \in active :
        /\ fds[p][0] = "stdin" /\ fds[p][1] = "stdout"

=============================================================================
