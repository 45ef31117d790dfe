# TLA+ models of the lmaOS kernel

lmaOS (`src/student-distrib`) is a small x86 teaching kernel. It has three
virtual terminals, at most six processes, a PIT round-robin scheduler and a
keyboard-driven terminal switch. This directory holds TLA+ models of its
process, terminal and input machinery, the TLC configurations that check
them, and `PROJECT.json`. That file lists the components, the runs, the
mutants that show each checked property can fail, the map from every model
definition to the C lines it translates, the findings and the hazards.

## The system and how its parts interact

| Part | Code | Shared state it writes |
|---|---|---|
| execute / halt | `syscall.c:34-364` | `process_state[6]`, `last_shell[3]`, `terminals[t]` (process array, `num_proc`, `term_proc`, `first_run`), PCB fields, `page_directory[32]`, `tss.esp0`, the CPU stack |
| PIT scheduler | `scheduling.c:55-141` | `running_term`, `pcb->esp/ebp`, the mapping, TSS and stack; sends the PIT EOI |
| terminal switch (Alt+F1..F3) | `keyboard.c:199-219`, `terminal.c:46-113` | `cur_term`, `pcb->esp/ebp`, the mapping, TSS and stack, the saved cursor and keyboard buffer; may run `execute("shell")` |
| exceptions | `idt.c:132-261` | call `halt` for the running process |
| descriptor calls | `syscall.c:376-528` | `pcb->file[8]` of the process `get_pcb_address()` returns |
| keyboard interrupt | `keyboard.c:91-271` | `kb_buffer[128]`, `kb_buffer_index` (uint8_t), `enter_flag`, the screen cursor |
| terminal read / write | `terminal.c:137-218` | spins on `enter_flag`, copies and resets the buffer; `cursor_x` |
| RTC driver and interrupt | `rtc.c`, `i8259.c:82-92` | `int_flag`, the rate field of RTC register A; `rtc_read` spins on `int_flag` |
| read-only file system | `filesys.c` | only `pcb->file[fd].pos`, through `read_file` and `read_dir`; the image is read-only |

There is one CPU and there are no locks. Interrupts are the only
concurrency, and the code relies on interrupts being disabled inside the
handlers:
- The PIT and keyboard handlers run with interrupts off.
- `halt` starts with `cli`.
- `int 0x80` is a trap gate (`idt.c:54-56`), so a system call runs with
  interrupts on. A shell spinning in `terminal_read` can therefore be
  preempted, and so can `execute` before its final `cli`.

Three facts shape almost every interaction:
- **The current process is looked up, not tracked.** `get_pcb_address()`
  (`syscall.c:611-629`) returns the last listed process of the *displayed*
  terminal, not of the process that is running. `halt`, `open`, `close`,
  `read`, `write` and `switch_terminal` all use it.
- **`term_proc` is the scheduler's separate view.** The scheduler instead
  uses `terminals[running_term].term_proc`, which `execute`, `halt` and
  the scheduler write independently.
- **Keyboard state is global.** The keyboard buffer, its index and
  `enter_flag` are globals that belong to whichever terminal is displayed.
  So is the RTC's `int_flag`, which every reader of the RTC clears.

## Modules

| Module | Models | State |
|---|---|---|
| `Kernel.tla` | execute, halt, the exception path, the scheduler, the process side of the terminal switch, boot | process table, terminal records, last-shell table, PCB parent/ctx fields, the mapping, TSS, CPU stack, PIT EOI, kernel continuation, the execute pending on each stack |
| `ProcessStack.tla` | the terminal registry's contract from the spec: one chain of processes per terminal, newest on top | `stacks[t]` |
| `FileTable.tla` | open, close, the descriptor setup of execute and the close loop of halt | the processes on terminal 0, every PCB's `file[8]` and the bytes past it |
| `LineDiscipline.tla` | `kb_intr`'s key classes, the buffer save and restore of the switch, `terminal_read`, `terminal_write` | buffer, index, enter flag, cursor, `cursor_x`, per-terminal saved copies, each shell's place in `terminal_read` |
| `RTC.tla` | `rtc_init`, `rtc_intr` with its EOI, `rtc_read`, `rtc_open`, `rtc_write` and `set_frequency` | `int_flag`, the rate field, whether IRQ8 will come again, each process's place in `rtc_read` |
| `FileSystem.tla` | `read_dentry_by_name`/`_by_index`, `read_data`, `read_file`, `read_dir`, and open, read and close on files and the directory | one process's `file[8]` (kind, inode, pos), and what each descriptor's reads returned |
| `MC*.tla` | constants for TLC | |

### Kernel

**State.** A saved esp/ebp pair is abstracted to the pid whose kernel
stack it points into. `cpu` is the stack the CPU executes on.
- `BOOT` is the stack of the kernel entry.
- `WILD` stands for a jump through an uninitialised context or a PCB
  outside the array. It is a crash, so a state with `cpu = WILD` has no
  successor that matters.
- `kpc` is the continuation of an interrupts-off path that calls
  `execute("shell")`: from boot (`BootShell`), from `halt` of a terminal's
  last process (`HaltRespawn`), or from the lazy spawn at the end of
  `switch_terminal` (`SwitchSpawn`).

**Actions.** Each interrupts-off handler is one action, and the whole
body is in it. `execute` called by a shell runs with interrupts on, so it
is three actions, one per stretch between two points where an interrupt
may come. `exec[p]` records the execute pending on p's stack, with the
terminal it read at entry and the pid it allocated:
- `SysExecute(cmd)` is the entry and the checks (`ExecCheck`,
  `syscall.c:124-141`). A rejected command returns -1.
- `ExecLoad` is the pid loop, the parse and the file checks (152-222). A
  failing lookup or ELF check releases the pid, and a name over 32
  characters leaks it. If every pid was taken since the check, the loop
  leaves `active_pid` uninitialised: `LoadedPid` is then any pid, or
  `WILD` for a value past the table.
- `ExecFinish` is `Register`, from the PCB setup to the IRET (241-347).
  It acts on the terminal read at entry and on the `running_term` of the
  moment.
- `Windows` names the stretches after which `Interruptible` lets a tick
  or a key press in. With `Windows = {}` execute is atomic with respect to
  interrupts.
- The kernel's own `execute("shell")` calls (boot, halt's respawn, the
  switch's lazy spawn) run with interrupts off. They are
  `ExecuteSucceeds` and `ExecuteFails` in one step.
- `HaltCall` is `halt` from the process in user mode, voluntary or through
  an `idt_N` handler.
- `Scheduling` and `SchedulingFault` are the PIT handler's normal and
  faulting paths.
- `SwitchTerminal(tid)` is the switch.

**Undefined behaviour.** It is made concrete where the C build fixes it:
- `processes[-1]` of terminal t>0 is the zero padding at the end of
  `terminals[t-1]`, so it reads as pid 0.
- For t=0 it lies outside the array, so the result is `WILD`.

**Refinement.** `Chain(t)` reads terminal t's process array from index 0
and skips the empty entries. `PS == INSTANCE ProcessStack WITH stacks <- ...`
maps Kernel onto the abstract chains. `RefinesProcessStack` checks
`PS!Spec`: every step either leaves the chains alone, adds a pid that no
chain holds on top of one, or removes the top of one.

**Command lines** are abstracted to the classes `execute` treats
differently: `shell`, `prog`, `missing`, `noexec`, `toolong` and the empty
command.

### FileTable

A descriptor is its flag together with its jump table while open (`"rtc"`,
`"file"`, `"stdin"`, `"stdout"`, or `"nothing"` after halt's reset).
- `over` is the flag word of `file[8]`, which is really bytes 12-15 of
  `arg[]`: open can fill `file[8]`, and a later open then finds it taken.

The module keeps to terminal 0 with no interrupts, so `get_pcb_address()`
is the newest process, except inside `halt`.

### LineDiscipline

One action per key class:
- `CharKey` is a printable key.
- `Enter`, `Backspace` and `ClearScreen` (Ctrl+L).
- `SwitchTerminal` is Alt+F, the keyboard part of the switch.

One action per stretch of `terminal_read` that runs between two
interrupts:
- `ReadStart` is the entry.
- `ReadSeeEnter` is the loop ending on `enter_flag`.
- `ReadCopy` is `get_kb_buffer`.
- `ReadReturn` is `reset_keyboard` followed by the return.

`TerminalWrite` moves the cursor forward over some output and records
`cursor_x`. `putc`'s wrap and scroll (`lib.c`, not in this repository) are
`EchoPos`. The index keeps its unsigned wrap, as `% INDEX_MOD`.

`FairSpec` adds weak fairness of `ReadSeeEnter`, `ReadCopy` and
`ReadReturn` for each terminal. This is the best case the code could
give: a shell in `terminal_read` polls `enter_flag` on every pass of its
loop, and a working PIT round robin would give every started terminal's
shell the CPU. The code does not guarantee even that: a tick can fault
at `scheduling.c:63` before its EOI. So `FairSpec` is used only where it
makes a violation stronger. `enter_lost_on_switch` shows a read that
never returns even under it, and it fails all the more without it. Keys
and writes get no fairness, because they are the user's and the
programs' choice.

### RTC

- `RtcIntr` is `rtc_intr`: it sends the EOI (`SendEoi`), sets `int_flag`
  and reads register C. `armed` is whether IRQ8 will be raised again;
  the code always re-arms it.
- `rtc_read` is three stretches with interrupts on: `ReadStart` (clear
  `int_flag`), `ReadSee` (the loop ends) and `ReadReturn` (clear it again).
- `RtcOpen` and `RtcWrite` rewrite the rate field through `FreqHexcode`,
  which is `set_frequency`'s switch. A refused value leaves the field as
  it was.
- `ticked[p]` is an auxiliary history variable: an interrupt has come
  since `p` entered `rtc_read`.

No fairness is assumed, and no liveness is checked. A reader gets the
CPU only through the PIT round robin. After a tick faults at
`scheduling.c:63` without its EOI, IRQ0 stays in service, and IRQ8
(lower in priority) is no longer delivered either. Even with a working
PIT, a reader would run again only at some point, perhaps while
`int_flag` is 0. So no fairness the code guarantees makes a waiting read
return.

### FileSystem

- The boot block image is given by constants: `Dentries` (name, type,
  inode), `Inodes` (length and the used part of `data_block[]`) and
  `Blocks` of `BLOCK` bytes. `DirCount` and `InodeCount` are the boot
  block's counts.
- `ReadData` is `read_data` as a `RECURSIVE` operator whose parameters
  are the C loop's variables (`i`, `datablock`, `byte_offset`, `buf`). It
  tests end of file before switching blocks, as the code does.
- `Open` is `open`: the lookup, the first free entry from 2, and
  `OpenedAs`, the choice of driver by type *or by name prefix* (names
  beginning `rtc` or `.`). `DriverOpens` is the second lookup done by
  `open_file`/`open_dir`.
- `ReadFile` and `ReadDir` are `read` (its checks are `ReadCallOk`)
  dispatching to `read_file` and `read_dir`. Each runs as one step,
  because the model has one process and no interrupts. `Close` is
  `close`.
- `got[fd]` is auxiliary: the bytes, or the names, that reads of `fd`
  returned since it was opened.

The properties compare the reads with a reference definition.
`Content(inode)` is the inode's blocks concatenated (`FlattenSeq`) and
cut at its length. `FileReadsInOrder` says that what has been read is a
prefix of it and that `pos` is its length. `DirReadsInOrder` says the same
of the directory's names.

## Runs

The property definitions carry comments in the modules. Each passing
property has a mutant in `PROJECT.json`: a plausible one-line bug in the
mapped code that TLC catches.

| Run | Expect | Checks | What it shows |
|---|---|---|---|
| `single_terminal` | pass | TypeOK, NumProcMatchesList, ListedUniqueAndActive, ParentChain, AddressSpaceConsistent, OnlyTopsRun, NoWildJump, RefinesProcessStack | Without interrupts, any sequence of execute (in its three stretches) and halt over all command classes keeps the tables, the parent chain and the address space consistent. It reaches the 4-per-terminal cap and the all-pids-taken rejection. The process array implements the ProcessStack contract (69k states). |
| `terminal_switch` | pass | ParentChain, StartedTerminalsPopulated | Alt+F switches among 3 terminals keep the parent chain consistent, including switches while an execute sits between load and registration. Lazily spawned shells populate their terminals. Both hold only while no halt runs on a terminal with no processes: `MC_NUM_PROC_MIN = 0` cuts that halt off, and `halt_empty_terminal` shows that it is reachable. |
| `halt_empty_terminal` | violation | NumProcMatchesList | Terminal 1's processes take every pid, so the lazy spawn of Alt+F3 fails. Shell 0 goes on running with terminal 2 displayed. Its halt drives terminal 2's count to -1 and frees pid 0 while terminal 0 still lists it. |
| `scheduler` | pass | NumProcMatchesList, ListedUniqueAndActive, StartedTerminalsPopulated | With PIT ticks, faulting paths included, the counts and lists stay consistent (529k states, about 1 min). |
| `scheduler_runs_parent` | violation | OnlyTopsRun | Boot leaves shell 0 in terminal 1's `term_proc` (`syscall.c:325` with `running_term` = 1). A program that shell 0 starts while terminal 2 runs replaces it in the `term_proc` of terminals 0 and 2 only. Two ticks later the scheduler resumes shell 0, which is blocked in that execute. |
| `exec_pid_race` | violation | ListedUniqueAndActive | An Alt+F between execute's check and its pid loop lets the lazy spawn take the last pid. The loop then leaves `active_pid` uninitialised, and the failing lookup frees pid 0, a live shell. |
| `file_table` | pass | TypeOK, StdStreamsOpen | stdin and stdout of every live process survive every open/close/execute/halt sequence (44k states). |
| `line_discipline` | pass | CursorOnScreen | Keys, switches, reads and writes keep every cursor, live and saved, on the screen. |
| `read_steals_line` | violation | ReadCopiesOwnLine | A background shell in `terminal_read` takes the Enter typed on the displayed terminal, then copies and resets that terminal's line. |
| `enter_lost_on_switch` | violation | EnterEndsRead | With the readers weakly fair, an Enter for the displayed terminal's waiting shell is cleared by an Alt+F before the shell polls, and its read never returns. |
| `rtc` | pass | TypeOK, FrequencyTableCorrect, ReadWaitsForInterrupt | `set_frequency` accepts exactly 2..1024 in powers of two and writes the rate code the MC146818 divides down to that frequency. A read ends only on an interrupt that came after it started. |
| `file_system` | pass | FileReadsInOrder, DirReadsInOrder | Any sequence of opens, reads of 0, 1, 2 or 5 bytes, and closes returns each file's bytes in order, across block boundaries and out-of-order block lists, and stops at the end. Two descriptors can be open at once, and reopening restarts at 0. The directory listing gives each name once. A file named `rtclog` opens as the RTC, as the code does (1024 states). |

Liveness is checked only in `enter_lost_on_switch`, under the fairness
described above. In Kernel, no fairness is assumed. The round
robin would justify weak fairness of `Scheduling` while IRQ0 is
acknowledged. But a tick that finds the running terminal's `term_proc`
NULL faults before its EOI (`scheduling.c:63`, Kernel's `pit_blocked`),
and after that IRQ0 is never acknowledged again. Boot gives only
terminals 0 and 1 a `term_proc` (`syscall.c:254` and `325`). So unless
a process is started while terminal 2 runs, the second tick faults.
The `scheduler` run fires this fault. No run states that the PIT stays
acknowledged, because the run list is at its limit.

## Bounds and why they suffice

- **Kernel:**
  - `NTERM = 3` and `TERM_CAP = 4` are the code's values.
  - `NPROC` is 5 without interrupts, 4 with key presses and 3 with PIT
    ticks. Five is one terminal's cap plus one, so `single_terminal`
    reaches both the cap rejection with a pid free and the all-taken
    rejection (after a leaked pid). It also keeps the refinement check
    within time. With key presses, 4 pids suffice for every terminal to
    start a shell and for one to exhaust the table.
  - `Windows`:
    - In `single_terminal` both stretches are open, which changes nothing
      without interrupts.
    - In `terminal_switch` only the load window is open: with the check
      window open too, the pid race breaks `ListedUniqueAndActive`, which
      `exec_pid_race` shows.
    - The PIT runs take execute atomically (`Windows = {}`). With the load
      window open, `scheduler` takes more than 5 minutes per property.
  - `NUM_PROC_MIN` is the lowest `num_proc` explored. It is 0 in the
    passing runs. This cuts off halt on a terminal with no processes,
    and that halt is reachable: a failed lazy spawn leaves shell 0
    running with an empty terminal displayed. The passing Kernel
    properties therefore hold for the behaviours without that halt.
    `halt_empty_terminal` sets the bound to -1 and shows the underflow of
    `syscall.c:47`. In `single_terminal` the cut removes nothing, because
    without interrupts terminal 0 is always the one displayed.
  - `halt_empty_terminal` takes execute atomically, to show that the
    underflow needs no race inside execute.
  - The command sets shrink with the process table. `exec_pid_race` uses
    `MC_Commands_Distinct`. `terminal_switch`, `halt_empty_terminal` and
    the PIT runs use only the commands that succeed.
- **FileTable:**
  - 3 pids and 4 descriptor entries, so there are 2 user descriptors. The
    table fills after two opens, so the `file[8]` case is reached.
  - A child can hold an open descriptor when it halts.
  - Every pid gets reused.
  - The cap of 4 per terminal is the code's.
- **LineDiscipline:**
  - 2 terminals, enough for a reader on one and keys on the other.
  - A 1-character buffer and a 2x2 screen. The full test, the echo wrap,
    backspace at column 0 of a lower row and the index wrap all occur.
  - A 1-bit index (`INDEX_MOD = 2`), so the wrap lands above the buffer
    size as 255 does above 128.
  - `enter_lost_on_switch` uses Enter as the only control key: editing
    the line does not bear on whether the read returns.
  - Each terminal's saved copy multiplies the states, so nothing larger
    finishes in time.

- **RTC:**
  - Three processes, as there are three terminals. Two readers race on
    `int_flag`, and a third starts a read while they wait.
  - `rtc_write` gets 1024 (a valid rate other than `open`'s 2 Hz), 0, 3
    and 2048.
  - `FrequencyTableCorrect` checks `set_frequency` on every integer from
    -2 to 1100 and on 2048 and 4096.
- **FileSystem:**
  - 2-byte blocks, so reads of 1, 2 and 5 bytes start and end at every
    offset within a block and cross boundaries. 0 is `read`'s empty read.
  - Inode 0 is 3 bytes over blocks 3 then 1: the list is out of order,
    and the file ends inside a block. Inode 1 is exactly two blocks, so
    its end falls on a boundary. Inode 2 is empty.
  - Six entries: the directory, the RTC, three files, and `rtclog`, a
    file whose name begins `rtc`.
  - 2 user descriptors, so a file can be read while another file or the
    directory is open. A full table is FileTable's case.

## What is not modelled, and why

- **`vidmap`, `map2user`, `save_vidmem`/`restore_vidmem` and the video
  page copies of the switch:** these are screen contents, which no
  property reads.
- **`read`/`write` through another process's descriptors, and
  `getargs`:** `read` on files and the directory is FileSystem's, and
  `rtc_read`/`rtc_write` are RTC's, each for the calling process.
  FileTable, which has the descriptor tables of several processes, keeps
  no cursors. `getargs` only copies bytes. The off-by-one store at
  `terminal.c:181` is listed as a hazard.
- **`fs_init`, `write_file`, `write_dir`, `close_file`, `close_dir`:**
  the first only computes addresses into the image, which FileSystem's
  constants stand for. The others return a constant and change nothing.
  `read_dir`'s 33-byte zeroing of the user buffer, and its return of
  the name's full length when `nbytes` cuts the copy, concern user memory,
  which no model keeps. One call reaches each; they are listed as hazards.
- **The PIC's mask writes, `idt_init`, `init_pit`,
  `keyboard_init`, `rtc_close` and `tests.c`:** the spec puts the drivers
  and the vector-table bootstrap out of scope as external collaborators
  (section 1). The rest is device programming, read-only data, or (for
  `rtc_close`) a check that changes nothing. The RTC driver and the file
  system are modelled all the same: the RTC's read shares one flag
  between terminals, and the file system's reads must agree with its
  image across successive calls.
- **A property that the PIT stays acknowledged:** Kernel models the fault
  at `scheduling.c:63` (`SchedulingFault` sets `pit_blocked`), and the
  `scheduler` run reaches it. The second tick finds terminal 2's
  `term_proc` NULL unless a process was started while terminal 2 ran.
  A run stating that IRQ0 stays acknowledged would be a violation run,
  and the run list is at its limit. The fault's consequence, that no
  fairness of scheduled code is justified, shapes the fairness choices
  above.
- **The PIT and the keyboard together in Kernel:** with both interrupt
  sources, TLC's first counterexample to each Kernel property is one the
  PIT alone produces, through the stale `term_proc` of `syscall.c:325`.
  So a combined run would only repeat `scheduler_runs_parent`. The switch leaving `running_term` unchanged
  (`terminal.c:103`) is listed as a hazard.
- **Type-ahead overwriting an entered line:** telling the entered line
  from a later one needs a per-terminal history of typed characters,
  which multiplies the LineDiscipline states beyond what finishes in time.
- **Bugs reached by one call or a fixed key sequence, which a unit test
  reaches:**
  - the leaked pid of a long command name (`syscall.c:176-178`);
  - open indexing `file[8]` (`syscall.c:454`);
  - Backspace wrapping the index (`keyboard.c:174`);
  - halt's close loop closing the parent's descriptors (`syscall.c:78`),
    since the caller is already unlisted.

  The models keep all four behaviours, but no run states a property
  about them. They are listed as hazards.
- **A failed lazy spawn resuming an interrupted execute
  (`terminal.c:110`):** `terminal_switch` reaches it with the load window
  open and the table full: a saved context lands in another process's
  PCB. It has the same cause as `exec_pid_race` and no run of its own.

## Plan for later sittings

1. Compose FileTable with Kernel's terminal switch, so that the descriptor
   calls of a background process act through `get_pcb_address()` on the
   displayed one.
2. Open the load window in the PIT runs once a smaller encoding of the
   scheduler state fits in time.
3. Add the type-ahead history to LineDiscipline once a smaller encoding
   fits.
4. Model the video mapping (`vidmap`, `map2user`, the scheduler's remap
   at `scheduling.c:115-118`) in Kernel. The property to check is that a
   running program's video page is its own terminal's screen.
