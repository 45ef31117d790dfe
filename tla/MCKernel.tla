------------------------------ MODULE MCKernel ------------------------------
(***************************************************************************)
(* Model-checking instance of Kernel.  The code's table sizes are          *)
(* process_state[6], NUM_TERM = 3 and terminal_t.processes[4]; the runs    *)
(* shrink the process table so that TLC can enumerate the interleavings   *)
(* of execute's stretches, ticks and key presses with every system call.  *)
(***************************************************************************)
EXTENDS Kernel

\* process tables for the runs with key presses / with PIT ticks
MC_NPROC_SMALL == 4
MC_NPROC_TINY == 3
MC_NTERM == 3
MC_TERM_CAP == 4
\* one terminal's cap plus one pid: both the cap rejection with a pid free
\* and the all-taken rejection (after a leaked pid) happen
MC_NPROC_SINGLE == MC_TERM_CAP + 1

\* Every class of command line execute distinguishes.
MC_Commands == AllCommands
\* "missing" stands for every failure that leaves the state as it was.
MC_Commands_Distinct == {"shell", "prog", "toolong", "missing"}
\* Only commands that succeed.
MC_Commands_Basic == {"shell", "prog"}

\* Lowest num_proc explored.  0 keeps halt from decrementing an empty
\* terminal's counter: it cuts off the underflow of syscall.c:47, which is
\* reachable with key presses (a shell left running on a terminal whose
\* lazy spawn failed).  -1 lets one such halt happen.
MC_NUM_PROC_MIN == 0
MC_NUM_PROC_UNDER == -1
=============================================================================
