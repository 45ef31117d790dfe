------------------------------- MODULE Kernel -------------------------------
(***************************************************************************)
(* Process and terminal core of the lmaOS kernel (src/student-distrib):   *)
(* execute and halt (syscall.c), the PIT scheduler (scheduling.c) and the *)
(* foreground terminal switch (terminal.c), over the shared kernel state  *)
(* they mutate: the process-state table, the three terminal records, the  *)
(* last-shell table, the PCBs, the page-directory entry of the user slot, *)
(* the TSS kernel-stack pointer and the CPU's current stack.              *)
(*                                                                         *)
(* A saved execution context (an esp/ebp pair) is abstracted to the pid   *)
(* whose kernel stack it points into.  "cpu" is the stack the CPU is      *)
(* executing on; a process in user mode or spinning in a syscall is the   *)
(* owner of that stack.  halt, the scheduler and the terminal switch run  *)
(* with interrupts disabled and are one step each; the execute system     *)
(* call runs with interrupts enabled and is three steps, between which    *)
(* a tick or a key press may come (the stretches in Windows).             *)
(***************************************************************************)
EXTENDS Integers, Sequences, FiniteSets, FiniteSetsExt, Functions

CONSTANTS
    NPROC,          \* size of process_state[] (6)
    NTERM,          \* NUM_TERM (3)
    TERM_CAP,       \* size of terminal_t.processes[] (4)
    Commands,       \* command lines a shell may pass to execute
    Interrupts,     \* interrupt sources delivered: subset of {"pit", "kbd"}
    NUM_PROC_MIN,   \* bound: lowest num_proc value explored (it can underflow)
    Windows         \* stretches of execute after which an interrupt may be
                    \* delivered: subset of {"checked", "loaded"}

Pids  == 0 .. NPROC - 1
Terms == 0 .. NTERM - 1
Slots == 0 .. TERM_CAP - 1

\* Command lines, abstracted to how execute treats them.
\*   "shell"   the shell executable          "prog"   another executable
\*   "missing" name not in the file system   "noexec" file without ELF magic
\*   "toolong" executable name over 32 chars ""       empty command
AllCommands == {"shell", "prog", "missing", "noexec", "toolong", ""}

\* Special values, model values in the configurations: no context saved,
\* the boot stack of kernel.c, control transferred through a pointer the
\* code never initialised, a NULL term_proc.
CONSTANTS NONE, BOOT, WILD, NULL

ASSUME /\ NPROC \in Nat \ {0} /\ NTERM \in Nat \ {0} /\ TERM_CAP \in Nat \ {0}
       /\ Commands \subseteq AllCommands
       /\ Interrupts \subseteq {"pit", "kbd"}
       /\ NUM_PROC_MIN \in Int
       /\ Windows \subseteq {"checked", "loaded"}

VARIABLES
    process_state,  \* process_state[pid] \in {0,1}          (syscall.c:22)
    last_shell,     \* last_shell[term] \in Pids \cup {-1}     (syscall.c:23)
    processes,      \* terminals[t].processes[i]               (terminal.h:14)
    term_proc,      \* terminals[t].term_proc, a pid or NULL   (terminal.h:15)
    num_proc,       \* terminals[t].num_proc                   (terminal.h:16)
    first_run,      \* terminals[t].first_run                  (terminal.h:19)
    parent_pid,     \* pcb->parent_pid
    parent_ctx,     \* pcb->parent_esp/parent_ebp: stack execute ran on
    ctx,            \* pcb->esp/ebp: stack saved by scheduler or switch
    prog,           \* executable the pid slot holds ("shell" or "prog")
    cur_term,       \* displayed terminal                      (terminal.c:9)
    running_term,   \* scheduled terminal                      (scheduling.h:24)
    mapped,         \* pid whose 4MB slot page_directory[32] maps
    esp0,           \* pid whose kernel stack tss.esp0 points to
    cpu,            \* stack the CPU executes on
    pit_blocked,    \* IRQ0 left in service without EOI: PIC delivers nothing
    kpc,            \* kernel continuation inside an interrupts-off path
    exec            \* exec[p]: the execute system call pending on p's stack

kvars == <<process_state, last_shell, processes, term_proc, num_proc,
           first_run, parent_pid, parent_ctx, ctx, prog>>
hwvars == <<cur_term, running_term, mapped, esp0, cpu, pit_blocked>>
vars == <<kvars, hwvars, kpc, exec>>

Ctx == Pids \cup {BOOT, NONE}

\* Kernel continuations: returned to user mode, booting, the execute at
\* the end of switch_terminal, the execute of halt's respawn for a pid.
USER    == [op |-> "user", pid |-> NONE]
BOOTING == [op |-> "boot", pid |-> NONE]
SPAWN   == [op |-> "spawn", pid |-> NONE]

\* The CPU runs a process with interrupts enabled: in user mode, or inside
\* a system call on its kernel stack.
InUser == kpc = USER /\ cpu \in Pids

\* An interrupt may be taken: the CPU is in user mode, or inside an execute
\* at the end of a stretch the run lets an interrupt follow.
Interruptible == IF exec[cpu] = NONE THEN TRUE ELSE exec[cpu].stage \in Windows

-----------------------------------------------------------------------------
(* Helpers over the terminal records.                                      *)

\* Pids listed in terminal t's process array.
Listed(t) == Range(processes[t]) \ {-1}

\* Number of non-empty entries of terminal t's process array.
NumListed(t) == Cardinality({i \in Slots : processes[t][i] # -1})

\* Index of the first empty entry, TERM_CAP if none (the loop of
\* get_pcb_address, syscall.c:618-622).
FirstEmpty(t) ==
    IF \E i \in Slots : processes[t][i] = -1
    THEN Min({i \in Slots : processes[t][i] = -1})
    ELSE TERM_CAP

\* Mutant: the terminal's base process instead of its top one.
GetPcbAddressBase(t) ==
    IF FirstEmpty(t) > 0 THEN processes[t][0]
    ELSE IF t > 0 THEN 0 ELSE WILD

\* get_pcb_address(): the entry before the first empty one of the displayed
\* terminal.  With an empty array it reads processes[-1]: for t > 0 that is
\* the zero padding byte ending terminals[t-1], i.e. pid 0; for t = 0 it is
\* a byte outside the array.
GetPcbAddress(t) ==
    IF FirstEmpty(t) > 0 THEN processes[t][FirstEmpty(t) - 1]
    ELSE IF t > 0 THEN 0 ELSE WILD

\* Restoring a saved esp/ebp: a context that was never saved, or the boot
\* stack of kernel.c, is not a process context.
Resume(c) == IF c \in Pids THEN c ELSE WILD

-----------------------------------------------------------------------------
(* execute (syscall.c:124-364), run on stack cpu by the caller.           *)

AllActive == \A p \in Pids : process_state[p] = 1

\* Lowest free pid, chosen by the loop of syscall.c:152-158.
FreePid == Min({p \in Pids : process_state[p] = 0})

\* Early returns before a pid is allocated (syscall.c:128-141).
ExecRejectedNoCap(cmd) == cmd = "" \/ AllActive

ExecRejected(cmd) ==
    \/ cmd = ""
    \/ AllActive
    \/ num_proc[cur_term] > 3

\* Every failing path of an execute that runs with interrupts disabled
\* (boot, halt's respawn, switch_terminal): returns -1 to the caller.  A
\* name longer than 32 characters returns from inside the parse loop
\* (syscall.c:176-178) after the pid was marked active, without releasing
\* it; a missing or non-executable file releases it (syscall.c:209, 221).
ExecuteFails(cmd) ==
    /\ \/ ExecRejected(cmd)
       \/ cmd \in {"toolong", "missing", "noexec"}
    /\ process_state' =
           IF ~ExecRejected(cmd) /\ cmd = "toolong"
           THEN [process_state EXCEPT ![FreePid] = 1]
           ELSE process_state
    /\ UNCHANGED <<last_shell, processes, term_proc, num_proc, first_run,
                   parent_pid, parent_ctx, ctx, prog, exec>>

\* Mutant: the first-run flag is never cleared.
FirstRunKept(t) == first_run

\* The first process of a terminal clears its first-run flag (syscall.c:259).
ClearFirstRun(t) == [first_run EXCEPT ![t] = 0]

\* The rest of execute for the new pid p on terminal t, from the PCB setup
\* (syscall.c:232-347) to the IRET into the new program, on stack cpu.
\* Interrupts are on for most of this stretch, but it is one step: no
\* interrupt is delivered inside it (the windows of Windows lie before it).
Register(cmd, p, t) ==
    LET \* registration in the terminal's array (syscall.c:256-267)
        arr == IF first_run[t] = 1
               THEN [processes[t] EXCEPT ![0] = p]
               ELSE IF FirstEmpty(t) < TERM_CAP
                    THEN [processes[t] EXCEPT ![FirstEmpty(t)] = p]
                    ELSE processes[t]
        ls  == IF first_run[t] = 1 /\ t = 0
               THEN [last_shell EXCEPT ![0] = 0] ELSE last_shell
    IN
    /\ processes' = [processes EXCEPT ![t] = arr]
    /\ first_run' = IF first_run[t] = 1 THEN ClearFirstRun(t) ELSE first_run
    \* parent: the array's first entry for the terminal's first process,
    \* otherwise the terminal's last shell (syscall.c:270-275)
    /\ parent_pid' = [parent_pid EXCEPT ![p] =
                         IF num_proc[t] = 0 THEN arr[0] ELSE ls[t]]
    /\ num_proc' = [num_proc EXCEPT ![t] = @ + 1]
    /\ last_shell' = IF cmd = "shell" THEN [ls EXCEPT ![t] = p] ELSE ls
    /\ prog' = [prog EXCEPT ![p] = cmd]
    \* set_process_page, parent esp/ebp, both term_proc writes, tss.esp0
    /\ mapped' = p
    /\ parent_ctx' = [parent_ctx EXCEPT ![p] = cpu]
    /\ term_proc' = [term_proc EXCEPT ![t] = p, ![running_term] = p]
    /\ esp0' = p
    /\ cpu' = p
    /\ UNCHANGED ctx

\* The whole of execute with interrupts disabled, on the displayed terminal.
ExecuteSucceeds(cmd) ==
    /\ ~ExecRejected(cmd)
    /\ cmd \in {"shell", "prog"}
    /\ process_state' = [process_state EXCEPT ![FreePid] = 1]
    /\ Register(cmd, FreePid, cur_term)
    /\ exec' = [exec EXCEPT ![FreePid] = NONE]

-----------------------------------------------------------------------------
(* execute as a system call.  int 0x80 is a trap gate (idt.c:55-56), so   *)
(* the call runs with interrupts enabled until the cli before its IRET    *)
(* (syscall.c:347): a tick or a key press may come between its stretches, *)
(* and exec[p] records where the execute on p's kernel stack stands.      *)

\* The execute on the running stack has reached stage.
InExecute(stage) == exec[cpu] # NONE /\ exec[cpu].stage = stage

\* Entry and checks (syscall.c:126-141), on the displayed terminal read at
\* line 127.  A rejected command returns -1 and changes nothing.
ExecCheck(cmd) ==
    /\ ~ExecRejected(cmd)
    /\ exec' = [exec EXCEPT ![cpu] =
                   [cmd |-> cmd, t |-> cur_term, pid |-> NONE, stage |-> "checked"]]
    /\ UNCHANGED <<kvars, hwvars, kpc>>

\* Pids the loop of syscall.c:152-158 can leave in active_pid.  When every
\* pid was taken since the check, the loop never assigns it and the
\* uninitialised stack byte is used: the pid of a live PCB, or a value past
\* the table whose PCB lies in kernel memory (WILD).
LoadedPid == IF AllActive THEN Pids \cup {WILD} ELSE {FreePid}

\* The pid loop, the parse and the file checks (syscall.c:152-222).
ExecLoad ==
    LET e == exec[cpu] IN
    /\ InExecute("checked")
    /\ \E p \in LoadedPid :
        IF p = WILD
        THEN /\ cpu' = WILD
             /\ UNCHANGED <<kvars, cur_term, running_term, mapped, esp0,
                            pit_blocked, exec>>
        ELSE /\ process_state' = [process_state EXCEPT ![p] =
                                     IF e.cmd \in {"missing", "noexec"} THEN 0 ELSE 1]
             /\ exec' = [exec EXCEPT ![cpu] =
                            IF e.cmd \in {"shell", "prog"}
                            THEN [e EXCEPT !.pid = p, !.stage = "loaded"]
                            ELSE NONE]
             /\ UNCHANGED <<last_shell, processes, term_proc, num_proc,
                            first_run, parent_pid, parent_ctx, ctx, prog, hwvars>>
    /\ UNCHANGED kpc

\* Registration and hand-over on the terminal read at entry; the caller's
\* stack stays in execute until the child halts.
ExecFinish ==
    LET e == exec[cpu] IN
    /\ InExecute("loaded")
    /\ Register(e.cmd, e.pid, e.t)
    /\ exec' = [exec EXCEPT ![cpu] = NONE, ![e.pid] = NONE]
    /\ UNCHANGED <<process_state, cur_term, running_term, pit_blocked, kpc>>

-----------------------------------------------------------------------------
(* halt (syscall.c:34-110), run on stack cpu.  The process it tears down  *)
(* is get_pcb_address(): the top of the displayed terminal's array.       *)

\* Mutant: the search loop starts at index 1.
UnlistedFromOne(t, q) ==
    IF \E i \in Slots \ {0} : processes[t][i] = q
    THEN [processes[t] EXCEPT ![Min({i \in Slots \ {0} : processes[t][i] = q})] = -1]
    ELSE processes[t]

\* The array with the first entry holding q emptied (syscall.c:63-68).
Unlisted(t, q) ==
    IF q \in Listed(t)
    THEN [processes[t] EXCEPT ![Min({i \in Slots : processes[t][i] = q})] = -1]
    ELSE processes[t]

\* Mutant: the last-shell table is not updated.
ShellAfterHaltKept(t, q) == last_shell

\* A halted shell hands the terminal's last-shell entry to its parent
\* (syscall.c:72-73).
ShellAfterHalt(t, q) ==
    IF last_shell[t] = q THEN [last_shell EXCEPT ![t] = parent_pid[q]]
    ELSE last_shell

\* Mutant: the count is tested before the decrement.
IsProcess0Before(t) == num_proc[t] = 0

\* halt removes the last process of its terminal (syscall.c:55-58), tested
\* on the count before this halt's decrement.
IsProcess0(t) == num_proc[t] - 1 = 0

\* Mutant: the TSS is left pointing at the halted process's stack.
HaltResumeNoTss(q) ==
    /\ mapped' = parent_pid[q]
    /\ UNCHANGED esp0
    /\ cpu' = Resume(parent_ctx[q])

\* Tail of halt: map the parent's slot, point the TSS at its kernel stack,
\* and restore the parent's esp/ebp saved by execute (syscall.c:88-106).
\* A parent_pid of -1 maps 8MB - 4MB, the kernel's own page.
HaltResume(q) ==
    /\ mapped' = parent_pid[q]
    /\ esp0' = parent_pid[q]
    /\ cpu' = Resume(parent_ctx[q])

\* The whole of halt up to the respawn decision.  num_proc is decremented
\* before the inactive check, so a refused halt still decrements it.
Halt ==
    LET t == cur_term
        q == GetPcbAddress(t)
    IN
    /\ num_proc[t] > NUM_PROC_MIN
    /\ num_proc' = [num_proc EXCEPT ![t] = @ - 1]
    /\ IF q = WILD
       THEN /\ cpu' = WILD
            /\ UNCHANGED <<process_state, last_shell, processes, term_proc,
                           first_run, parent_pid, parent_ctx, prog,
                           mapped, esp0, kpc>>
       ELSE IF process_state[q] = 0
       THEN UNCHANGED <<process_state, last_shell, processes, term_proc,
                        first_run, parent_pid, parent_ctx, prog,
                        mapped, esp0, cpu, kpc>>
       ELSE /\ process_state' = [process_state EXCEPT ![q] = 0]
            /\ processes' = [processes EXCEPT ![t] = Unlisted(t, q)]
            /\ term_proc' = [term_proc EXCEPT ![t] = parent_pid[q]]
            /\ last_shell' = ShellAfterHalt(t, q)
            /\ UNCHANGED <<first_run, parent_pid, parent_ctx, prog>>
            \* last process of the terminal: execute("shell") first
            /\ IF IsProcess0(t)
               THEN /\ kpc' = [op |-> "respawn", pid |-> q]
                    /\ UNCHANGED <<mapped, esp0, cpu>>
               ELSE /\ HaltResume(q)
                    /\ UNCHANGED kpc

\* halt(status) system call, or an exception handler of idt.c calling
\* halt(256) on behalf of the process executing in user mode.
HaltCall ==
    /\ InUser
    /\ exec[cpu] = NONE
    /\ Halt
    /\ UNCHANGED <<ctx, cur_term, running_term, pit_blocked, exec>>

\* execute("shell") called from halt (syscall.c:84-86): it never returns
\* when it succeeds; when it fails halt resumes the parent.
HaltRespawn ==
    /\ kpc.op = "respawn"
    /\ \/ ExecuteSucceeds("shell")
       \/ ExecuteFails("shell") /\ HaltResume(kpc.pid)
    /\ kpc' = USER
    /\ UNCHANGED <<cur_term, running_term, pit_blocked>>

\* execute(command) system call made by a shell in user mode.
SysExecute(cmd) ==
    /\ InUser
    /\ exec[cpu] = NONE
    /\ prog[cpu] = "shell"
    /\ ExecCheck(cmd)

\* The later stretches of an execute, when the CPU is back on its stack.
ExecContinue ==
    /\ kpc = USER
    /\ cpu \in Pids
    /\ ExecLoad \/ ExecFinish

-----------------------------------------------------------------------------
(* scheduling() (scheduling.c:55-141), on every PIT interrupt.            *)

\* The term_proc pointers the scheduler dereferences: NULL, and get_pcb(-1)
\* = 8MB, lie in no page the kernel maps.
IsPcb(x) == x \in Pids

\* The scheduler page-faults: at scheduling.c:63 or the save of lines 87-92
\* when the running terminal's term_proc is not a PCB, or at line 127 after
\* advancing when the next one is get_pcb(-1).  idt_14 then halts the
\* displayed terminal's top process, and the PIT is never acknowledged.
SchedulingFault ==
    LET r == (running_term + 1) % NTERM IN
    /\ kpc = USER
    /\ "pit" \in Interrupts
    /\ ~pit_blocked
    /\ cpu \in Pids
    /\ Interruptible
    /\ \/ /\ ~IsPcb(term_proc[running_term])
          /\ UNCHANGED <<ctx, running_term>>
       \/ /\ IsPcb(term_proc[running_term])
          /\ term_proc[r] = -1
          /\ ctx' = [ctx EXCEPT ![term_proc[running_term]] = cpu]
          /\ running_term' = r
    /\ Halt
    /\ pit_blocked' = TRUE
    /\ UNCHANGED <<cur_term, exec>>

\* Save the context into the running terminal's term_proc, advance the
\* running terminal; if it has a process, map its slot,
\* point the TSS at it and load its saved context.
Scheduling ==
    LET r == (running_term + 1) % NTERM IN
    /\ kpc = USER
    /\ "pit" \in Interrupts
    /\ ~pit_blocked
    /\ cpu \in Pids
    /\ Interruptible
    /\ IsPcb(term_proc[running_term])
    /\ term_proc[r] # -1
    /\ LET saved == [ctx EXCEPT ![term_proc[running_term]] = cpu]
           np    == term_proc[r]
       IN
       /\ ctx' = saved
       /\ running_term' = r
       /\ IF np = NULL
          THEN UNCHANGED <<mapped, esp0, cpu>>
          ELSE /\ mapped' = np
               /\ esp0' = np
               /\ cpu' = Resume(saved[np])
    /\ UNCHANGED <<process_state, last_shell, processes, term_proc, num_proc,
                   first_run, parent_pid, parent_ctx, prog, cur_term,
                   pit_blocked, kpc, exec>>

-----------------------------------------------------------------------------
(* switch_terminal(tid) (terminal.c:46-113), from the alt+F1..F3 branches *)
(* of kb_intr (keyboard.c:199-219), which send EOI first.                 *)

\* Save the context into the displayed terminal's top PCB, display tid,
\* map the slot of tid's top PCB, point the TSS at it and load its saved
\* context; a terminal that never ran then executes a shell on that stack.
SwitchTerminal(tid) ==
    /\ kpc = USER
    /\ "kbd" \in Interrupts
    /\ ~pit_blocked
    /\ cpu \in Pids
    /\ Interruptible
    /\ tid # cur_term
    /\ LET cp == GetPcbAddress(cur_term)
           np == GetPcbAddress(tid)
       IN
       IF cp = WILD \/ np = WILD
       THEN /\ cpu' = WILD
            /\ UNCHANGED <<ctx, cur_term, mapped, esp0, kpc>>
       ELSE LET saved == [ctx EXCEPT ![cp] = cpu]
            IN
            /\ ctx' = saved
            /\ cur_term' = tid
            /\ mapped' = np
            /\ esp0' = np
            /\ cpu' = Resume(saved[np])
            /\ kpc' = IF first_run[tid] = 1 /\ Resume(saved[np]) # WILD
                      THEN SPAWN ELSE USER
    /\ UNCHANGED <<process_state, last_shell, processes, term_proc, num_proc,
                   first_run, parent_pid, parent_ctx, prog, running_term,
                   pit_blocked, exec>>

\* execute("shell") at the end of switch_terminal (terminal.c:109-111);
\* a failure returns through the loaded context.
SwitchSpawn ==
    /\ kpc = SPAWN
    /\ \/ ExecuteSucceeds("shell")
       \/ ExecuteFails("shell") /\ UNCHANGED <<mapped, esp0, cpu>>
    /\ kpc' = USER
    /\ UNCHANGED <<cur_term, running_term, pit_blocked>>

-----------------------------------------------------------------------------
(* Boot: terminal_init (terminal.c:19-35) and the static initialisers,    *)
(* then the kernel's first execute("shell") on the boot stack.            *)

Init ==
    /\ process_state = [p \in Pids |-> 0]
    /\ last_shell = [t \in Terms |-> -1]
    /\ processes = [t \in Terms |-> [i \in Slots |-> -1]]
    /\ term_proc = [t \in Terms |-> NULL]
    /\ num_proc = [t \in Terms |-> 0]
    /\ first_run = [t \in Terms |-> 1]
    /\ parent_pid = [p \in Pids |-> NONE]
    /\ parent_ctx = [p \in Pids |-> NONE]
    /\ ctx = [p \in Pids |-> NONE]
    /\ prog = [p \in Pids |-> NONE]
    /\ cur_term = 0
    /\ running_term = 1 % NTERM
    /\ mapped = NONE
    /\ esp0 = NONE
    /\ cpu = BOOT
    /\ pit_blocked = FALSE
    /\ kpc = BOOTING
    /\ exec = [p \in Pids |-> NONE]

BootShell ==
    /\ kpc = BOOTING
    /\ ExecuteSucceeds("shell")
    /\ kpc' = USER
    /\ UNCHANGED <<cur_term, running_term, pit_blocked>>

Next ==
    \/ BootShell
    \/ \E cmd \in Commands : SysExecute(cmd)
    \/ ExecContinue
    \/ HaltCall
    \/ HaltRespawn
    \/ Scheduling
    \/ SchedulingFault
    \/ \E tid \in Terms : SwitchTerminal(tid)
    \/ SwitchSpawn

Spec == Init /\ [][Next]_vars

-----------------------------------------------------------------------------
(* Properties.                                                             *)

TypeOK ==
    /\ process_state \in [Pids -> {0, 1}]
    /\ last_shell \in [Terms -> Pids \cup {-1}]
    /\ processes \in [Terms -> [Slots -> Pids \cup {-1}]]
    /\ term_proc \in [Terms -> Pids \cup {-1, NULL}]
    /\ num_proc \in [Terms -> NUM_PROC_MIN .. TERM_CAP]
    /\ first_run \in [Terms -> {0, 1}]
    /\ parent_pid \in [Pids -> Pids \cup {-1, NONE}]
    /\ parent_ctx \in [Pids -> Ctx]
    /\ ctx \in [Pids -> Ctx]
    /\ prog \in [Pids -> {"shell", "prog", NONE}]
    /\ cur_term \in Terms
    /\ running_term \in Terms
    /\ mapped \in Pids \cup {-1, NONE}
    /\ esp0 \in Pids \cup {-1, NONE}
    /\ cpu \in Pids \cup {BOOT, WILD}
    /\ pit_blocked \in BOOLEAN
    /\ kpc \in {BOOTING, USER, SPAWN} \cup [op : {"respawn"}, pid : Pids]
    /\ exec \in [Pids -> {NONE} \cup
                 [cmd : Commands, t : Terms, pid : Pids \cup {NONE},
                  stage : {"checked", "loaded"}]]

\* terminals[t].num_proc equals the number of non-empty entries of its
\* process array, after every execute, halt, tick and switch.
NumProcMatchesList ==
    \A t \in Terms : num_proc[t] = NumListed(t)

\* A pid appears in at most one entry of all terminal arrays, and every
\* listed pid is marked active in process_state.
ListedUniqueAndActive ==
    /\ \A t1, t2 \in Terms, i, j \in Slots :
          processes[t1][i] # -1 /\ processes[t1][i] = processes[t2][j]
          => t1 = t2 /\ i = j
    /\ \A t \in Terms : \A p \in Listed(t) : process_state[p] = 1

\* The parent halt will resume is listed below the process in the same
\* terminal (the first process of a terminal is its own parent), and the
\* stack execute saved for the return belongs to that same parent: halt maps
\* parent_pid's slot and then returns on parent_esp's stack.
ParentChain ==
    \A t \in Terms, i \in Slots :
        LET p == processes[t][i] IN
        p # -1 =>
            IF i = 0 THEN parent_pid[p] = p
            ELSE /\ \E j \in 0 .. i - 1 : processes[t][j] = parent_pid[p]
                 /\ parent_ctx[p] = parent_pid[p]

\* Whenever the CPU runs a process, the user slot mapped in the page
\* directory and the kernel stack in the TSS are that process's own.
AddressSpaceConsistent ==
    InUser => mapped = cpu /\ esp0 = cpu

\* The kernel never loads a context it did not save: no jump through an
\* uninitialised esp/ebp or an out-of-bounds PCB.
NoWildJump == cpu # WILD

\* A terminal that has run a process always lists one and counts what it
\* lists: halt respawns a shell when it removes the terminal's last process.
StartedTerminalsPopulated ==
    kpc = USER =>
        \A t \in Terms : first_run[t] = 0 =>
            /\ Listed(t) # {}
            /\ num_proc[t] = NumListed(t)

\* Only the newest process of a terminal runs: every process below it is
\* blocked inside execute until its child halts.  The scheduler and the
\* switch must never load the context of such a waiting parent.
OnlyTopsRun ==
    InUser => \E t \in Terms : FirstEmpty(t) > 0 /\ GetPcbAddress(t) = cpu

-----------------------------------------------------------------------------
(* Refinement of the terminal registry's contract, ProcessStack: each     *)
(* terminal's chain is its process array read from index 0 with the      *)
(* empty (-1) entries skipped.                                             *)

Chain(t) == SelectSeq([i \in 1 .. TERM_CAP |-> processes[t][i - 1]],
                      LAMBDA x : x # -1)

PS == INSTANCE ProcessStack
          WITH Pids <- Pids, Terms <- Terms, CAP <- TERM_CAP,
               stacks <- [t \in Terms |-> Chain(t)]

\* Every execute, halt and respawn changes a terminal's process array only
\* by adding a pid no terminal holds after its last listed entry, or by
\* removing its last listed entry: the chain of each terminal behaves as
\* the stack the registry promises, whatever holes or padding reads the
\* code's index arithmetic could produce.
RefinesProcessStack == PS!Spec

=============================================================================
