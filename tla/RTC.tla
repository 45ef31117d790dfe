--------------------------------- MODULE RTC ---------------------------------
(***************************************************************************)
(* The real-time-clock driver of lmaOS (rtc.c): the periodic interrupt     *)
(* rtc_intr, and rtc_open, rtc_read and rtc_write as the processes of the  *)
(* terminals call them through the descriptor table (syscall.c:16,         *)
(* 455-457).                                                               *)
(*                                                                         *)
(* One global int_flag serves every reader.  int 0x80 is a trap gate      *)
(* (idt.c:54-56), so a process spinning in rtc_read runs with interrupts   *)
(* on: the RTC interrupt and PIT preemption, which hands the CPU to the    *)
(* process of another terminal, fall between any two of its steps.  Each  *)
(* step below is a stretch of code that runs between two such points.    *)
(*                                                                         *)
(* The frequency is the rate field, the low nibble, of register A; the    *)
(* other bits are written back as read (W_MASK) and are left out.  A      *)
(* write whose descriptor, length or buffer is refused (rtc.c:104-106)    *)
(* changes nothing this model keeps and is left out; so is rtc_close,     *)
(* which only checks its descriptor.                                       *)
(***************************************************************************)
EXTENDS Integers, FiniteSets

CONSTANTS
    Procs,          \* processes that use the RTC, one per terminal
    Freqs,          \* frequencies user programs pass to rtc_write
    FreqDomain      \* the inputs set_frequency is checked on

VARIABLES
    int_flag,       \* int_flag (rtc.c:5)
    rate,           \* rate field of register A: low nibble of port 0x71
    armed,          \* IRQ8 will be raised again: the PIC has had its EOI
                    \*   and register C has been read since the last one
    pc,             \* pc[p]: where process p is in rtc_read
    ticked          \* ticked[p]: an RTC interrupt has arrived since p
                    \*   entered rtc_read (auxiliary, for the properties)

vars == <<int_flag, rate, armed, pc, ticked>>

-----------------------------------------------------------------------------
(* set_frequency (rtc.c:159-205).                                         *)

\* Mutant: the 512 Hz case given 256 Hz's code.
FreqHexcodeTypo(f) ==
    CASE f = 2    -> 15 [] f = 4    -> 14 [] f = 8    -> 13
      [] f = 16   -> 12 [] f = 32   -> 11 [] f = 64   -> 10
      [] f = 128  -> 9  [] f = 256  -> 8  [] f = 512  -> 8
      [] f = 1024 -> 6  [] OTHER    -> -1

\* The switch of rtc.c:163-196: the rate code for a frequency, -1 for any
\* other value.
FreqHexcode(f) ==
    CASE f = 2    -> 15 [] f = 4    -> 14 [] f = 8    -> 13
      [] f = 16   -> 12 [] f = 32   -> 11 [] f = 64   -> 10
      [] f = 128  -> 9  [] f = 256  -> 8  [] f = 512  -> 7
      [] f = 1024 -> 6  [] OTHER    -> -1

\* Mutant: the default case's early return dropped.
SetFrequencyNoCheck(f) == rate' = FreqHexcode(f)

\* Register A rewritten with the new rate field (rtc.c:197-202), or left
\* alone when the frequency is refused.
SetFrequency(f) ==
    rate' = IF FreqHexcode(f) = -1 THEN rate ELSE FreqHexcode(f)

-----------------------------------------------------------------------------
(* The interrupt.                                                         *)

\* send_eoi(IRQ8) (i8259.c:82-92): the slave and then the master get
\* their EOI, so the PIC delivers IRQ8 again.
SendEoi == armed' = TRUE

\* rtc_intr (rtc.c:46-64), with interrupts off: EOI, int_flag set,
\* register C read (the RTC raises no further interrupt until it is) and
\* IRQ8 unmasked.  Whoever is spinning in rtc_read has now been ticked.
RtcIntr ==
    /\ armed
    /\ SendEoi
    /\ int_flag' = 1
    /\ ticked' = [p \in Procs |-> IF pc[p] = "spin" THEN TRUE ELSE ticked[p]]
    /\ UNCHANGED <<rate, pc>>

-----------------------------------------------------------------------------
(* rtc_read (rtc.c:77-87) by process p.                                   *)

\* Mutant: the clear of line 79 left out.
ReadStartNoClear(p) ==
    /\ pc[p] = "user"
    /\ pc' = [pc EXCEPT ![p] = "spin"]
    /\ ticked' = [ticked EXCEPT ![p] = FALSE]
    /\ UNCHANGED <<int_flag, rate, armed>>

\* Entry: int_flag cleared "to make sure" the loop is entered (line 79).
ReadStart(p) ==
    /\ pc[p] = "user"
    /\ int_flag' = 0
    /\ pc' = [pc EXCEPT ![p] = "spin"]
    /\ ticked' = [ticked EXCEPT ![p] = FALSE]
    /\ UNCHANGED <<rate, armed>>

\* The loop of lines 80-82 finds int_flag set and ends.  While the flag is
\* 0 the process only spins, until the PIT takes the CPU away.
ReadSee(p) ==
    /\ pc[p] = "spin" /\ int_flag = 1
    /\ pc' = [pc EXCEPT ![p] = "seen"]
    /\ UNCHANGED <<int_flag, rate, armed, ticked>>

\* int_flag reset and 0 returned (lines 84-86).
ReadReturn(p) ==
    /\ pc[p] = "seen"
    /\ int_flag' = 0
    /\ pc' = [pc EXCEPT ![p] = "user"]
    /\ UNCHANGED <<rate, armed, ticked>>

-----------------------------------------------------------------------------
(* rtc_open and rtc_write by a process between reads.                     *)

\* rtc_open (rtc.c:126-131): the filename of open() is never NULL, so the
\* RTC is set to 2 Hz, for every process that uses it.
RtcOpen(p) ==
    /\ pc[p] = "user"
    /\ SetFrequency(2)
    /\ UNCHANGED <<int_flag, armed, pc, ticked>>

\* rtc_write of the 4-byte frequency f from a descriptor >= 2
\* (rtc.c:100-115), with interrupts off throughout.
RtcWrite(p, f) ==
    /\ pc[p] = "user"
    /\ SetFrequency(f)
    /\ UNCHANGED <<int_flag, armed, pc, ticked>>

-----------------------------------------------------------------------------

\* After rtc_init (rtc.c:18-34): rate field 0x0F (2 Hz, FREQ), periodic
\* interrupts enabled in register B and IRQ8 unmasked; int_flag is 0
\* (rtc.c:5); no process is in rtc_read.
Init ==
    /\ int_flag = 0
    /\ rate = 15
    /\ armed = TRUE
    /\ pc = [p \in Procs |-> "user"]
    /\ ticked = [p \in Procs |-> FALSE]

Next ==
    \/ RtcIntr
    \/ \E p \in Procs :
          \/ ReadStart(p) \/ ReadSee(p) \/ ReadReturn(p)
          \/ RtcOpen(p)
          \/ \E f \in Freqs : RtcWrite(p, f)

Spec == Init /\ [][Next]_vars

\* No fairness is assumed.  The readers get the CPU only through the PIT
\* round robin, and scheduling() stops being called once a tick faults
\* at scheduling.c:63 without its EOI (Kernel's pit_blocked); that also
\* leaves IRQ8, below IRQ0 in priority, undelivered.

-----------------------------------------------------------------------------
(* Properties.                                                             *)

TypeOK ==
    /\ int_flag \in {0, 1}
    /\ rate \in 0 .. 15
    /\ armed \in BOOLEAN
    /\ pc \in [Procs -> {"user", "spin", "seen"}]
    /\ ticked \in [Procs -> BOOLEAN]

\* The frequencies set_frequency accepts, as its header states: powers of
\* two up to 1024 (the RTC's slowest periodic rate is 2 Hz).
ValidHz == {2^k : k \in 1 .. 10}

\* The MC146818's periodic interrupt frequency for rate field r >= 3:
\* 32768 Hz divided by 2^(r-1).
RefHz(r) == 32768 \div 2^(r - 1)

\* set_frequency's table is right: it accepts exactly the powers of two
\* from 2 to 1024, and the rate code it writes into register A makes the
\* RTC interrupt at the frequency asked for; so the live rate field, after
\* any sequence of opens and writes, is one a program may ask for.
FrequencyTableCorrect ==
    /\ RefHz(rate) \in ValidHz
    /\ \A f \in FreqDomain :
          IF f \in ValidHz
          THEN FreqHexcode(f) \in 3 .. 15 /\ RefHz(FreqHexcode(f)) = f
          ELSE FreqHexcode(f) = -1

\* rtc_read returns only after an RTC interrupt that arrived while it was
\* waiting: an interrupt taken before the call, by this process or any
\* other, never satisfies it.
ReadWaitsForInterrupt ==
    \A p \in Procs : pc[p] = "seen" => ticked[p]

=============================================================================
