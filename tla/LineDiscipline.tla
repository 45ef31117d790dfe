---------------------------- MODULE LineDiscipline ----------------------------
(***************************************************************************)
(* The keyboard line buffer of lmaOS: the keyboard interrupt handler        *)
(* kb_intr (keyboard.c:91-271) writing kb_buffer[] and kb_buffer_index,    *)
(* the save and restore of that buffer when Alt+F<n> switches the          *)
(* displayed terminal (terminal.c:59-68, 76-87), the shells blocked in     *)
(* terminal_read (terminal.c:137-185) and terminal_write                   *)
(* (terminal.c:197-218).                                                   *)
(*                                                                         *)
(* The buffer, its index and enter_flag are single globals: they belong   *)
(* to the displayed terminal, and the saved copies in terminals[] to the  *)
(* others.  A shell in terminal_read spins on enter_flag with interrupts  *)
(* on (int 0x80 is a trap gate, idt.c:55-56), so keyboard interrupts and  *)
(* PIT preemption interleave with every step of the read.  Every started  *)
(* terminal runs a shell that may be reading; the scheduler that decides  *)
(* which of them polls next is modelled in Kernel.                         *)
(*                                                                         *)
(* Screen coordinates are kept (backspace's guards read them); the screen *)
(* is NUM_COLS x NUM_ROWS and the shell prompt PROMPT_LEN wide.  A key    *)
(* stands for the character its scan code maps to under the shift and     *)
(* caps-lock flags, so only the resulting character is kept.              *)
(***************************************************************************)
EXTENDS Integers, Sequences, FiniteSets

CONSTANTS
    NTERM,          \* terminals (3)
    KB_BUF_SIZE,    \* kb_buffer[] size (128, keyboard.h:10)
    NUM_COLS,       \* screen columns (80)
    NUM_ROWS,       \* screen rows (25)
    PROMPT_LEN,     \* length of "391OS> " put back by Ctrl+L (7)
    Chars,          \* printable characters a key can produce
    INDEX_MOD,      \* 2^8: kb_buffer_index is a uint8_t
    Keys,           \* the control keys that occur: subset of
                    \*   {"enter", "backspace", "clear"}
    NUL             \* '\0'

Terms   == 0 .. NTERM - 1
Slots   == 0 .. KB_BUF_SIZE - 1
Bytes   == 0 .. INDEX_MOD - 1
Cols    == 0 .. NUM_COLS - 1
Rows    == 0 .. NUM_ROWS - 1
Buffers == [Slots -> Chars \cup {NUL}]
Empty   == [i \in Slots |-> NUL]

ASSUME /\ KB_BUF_SIZE \in 1 .. 128 /\ INDEX_MOD > KB_BUF_SIZE /\ PROMPT_LEN \in Cols /\ NUM_ROWS >= 1
       /\ Keys \subseteq {"enter", "backspace", "clear"}

VARIABLES
    cur_term,       \* displayed terminal (terminal.c:9)
    kb,             \* kb_buffer[] (keyboard.c:12)
    idx,            \* kb_buffer_index, uint8_t (keyboard.c:13)
    enter,          \* enter_flag (keyboard.c:15)
    sx, sy,         \* screen_x, screen_y of the live screen (lib.c)
    cursor_x,       \* column where the last terminal_write ended
    tkb, tidx,      \* terminals[t].kb_buffer, .kb_buffer_index
    tsx, tsy,       \* terminals[t].screen_x, .screen_y
    rd              \* rd[t]: where terminal t's shell is in terminal_read

kbd  == <<kb, idx, enter>>
scr  == <<sx, sy, cursor_x>>
saved == <<tkb, tidx, tsx, tsy>>
vars == <<cur_term, kbd, scr, saved, rd>>

-----------------------------------------------------------------------------
(* kb_intr (keyboard.c:91-271): one scan code with interrupts off.        *)

\* kb_buffer[i] = v: a store at i >= KB_BUF_SIZE lands past the array.
Store(buf, i, v) == IF i < KB_BUF_SIZE THEN [buf EXCEPT ![i] = v] ELSE buf

\* putc of one character (lib.c): next column, next row at the right
\* edge, the screen scrolled at the bottom.
EchoPos(x, y) ==
    IF x + 1 < NUM_COLS THEN <<x + 1, y>>
    ELSE IF y + 1 < NUM_ROWS THEN <<0, y + 1>> ELSE <<0, y>>

\* The buffer-full test of keyboard.c:238.
Full(i) == i >= KB_BUF_SIZE

\* A printable key (keyboard.c:221, 238-262): echoed and appended,
\* or dropped when the buffer is full.
CharKey(c) ==
    /\ IF Full(idx)
       THEN UNCHANGED <<kb, idx, sx, sy>>
       ELSE /\ kb' = Store(kb, idx, c)
            /\ idx' = (idx + 1) % INDEX_MOD
            /\ sx' = EchoPos(sx, sy)[1] /\ sy' = EchoPos(sx, sy)[2]
    /\ UNCHANGED <<cur_term, enter, cursor_x, saved, rd>>

\* Enter (keyboard.c:139-159): the flag set and the index rewound, the
\* buffer left as it is; the cursor moves to the next line or scrolls.
Enter ==
    /\ "enter" \in Keys
    /\ enter' = 1
    /\ idx' = 0
    /\ sx' = 0
    /\ sy' = IF sy = NUM_ROWS - 1 THEN sy ELSE sy + 1
    /\ UNCHANGED <<cur_term, kb, cursor_x, saved, rd>>

\* kb_buffer_index-- on a uint8_t.
Dec(i) == (i + INDEX_MOD - 1) % INDEX_MOD

\* Mutant: the row guard of the wrap branch dropped.
BackRowAny(y) == TRUE

\* The row guard of keyboard.c:182.
BackRowOk(y) == y # 0

\* Backspace (keyboard.c:160-198): on the same row, the character at the
\* index and the one before it are cleared; at column 0, the cursor goes
\* back to the end of the previous row and only the one at the index is.
\* Neither branch looks at the index.
Backspace ==
    /\ "backspace" \in Keys
    /\ LET back == Dec(idx) IN
       IF sx # 0 /\ sx # cursor_x
       THEN /\ kb' = Store(Store(kb, idx, NUL), back, NUL)
            /\ idx' = back
            /\ sx' = sx - 1 /\ sy' = sy
       ELSE IF BackRowOk(sy) /\ sx # cursor_x
       THEN /\ kb' = Store(kb, idx, NUL)
            /\ idx' = back
            /\ sx' = NUM_COLS - 1 /\ sy' = sy - 1
       ELSE UNCHANGED <<kb, idx, sx, sy>>
    /\ UNCHANGED <<cur_term, enter, cursor_x, saved, rd>>

\* Ctrl+L (keyboard.c:222-237): screen cleared, the prompt put back
\* (shell_flag is 1 from the first execute, syscall.c:126) and the index
\* rewound; the buffer and enter_flag are left.
ClearScreen ==
    /\ "clear" \in Keys
    /\ idx' = 0
    /\ sx' = PROMPT_LEN /\ sy' = 0
    /\ UNCHANGED <<cur_term, kb, enter, cursor_x, saved, rd>>

\* Alt+F<n> on another terminal (keyboard.c:199-219), the keyboard and
\* cursor part of switch_terminal (terminal.c:59-68, 76-87): the displayed
\* terminal's cursor, buffer and index saved, reset_keyboard() (which
\* clears enter_flag), then the target's buffer, index and cursor loaded.
\* The process switch that follows is modelled in Kernel.
SwitchTerminal(tid) ==
    /\ tid # cur_term
    /\ tsx'  = [tsx EXCEPT ![cur_term] = sx]
    /\ tsy'  = [tsy EXCEPT ![cur_term] = sy]
    /\ tkb'  = [tkb EXCEPT ![cur_term] = kb]
    /\ tidx' = [tidx EXCEPT ![cur_term] = idx]
    /\ enter' = 0
    /\ kb' = tkb[tid] /\ idx' = tidx[tid]
    /\ cur_term' = tid
    /\ sx' = tsx[tid] /\ sy' = tsy[tid]
    /\ UNCHANGED <<cursor_x, rd>>

-----------------------------------------------------------------------------
(* terminal_read (terminal.c:137-185) by the shell of terminal t, one     *)
(* step per stretch that runs between two interrupts.                     *)

\* Entry: the caller's buffer cleared (terminal.c:139-159).
ReadStart(t) ==
    /\ rd[t] = "idle"
    /\ rd' = [rd EXCEPT ![t] = "spin"]
    /\ UNCHANGED <<cur_term, kbd, scr, saved>>

\* check_enter_pressed() finds enter_flag 1 and the loop ends
\* (terminal.c:161-167); while it is 0 the shell only spins.
ReadSeeEnter(t) ==
    /\ rd[t] = "spin" /\ enter = 1
    /\ rd' = [rd EXCEPT ![t] = "seen"]
    /\ UNCHANGED <<cur_term, kbd, scr, saved>>

\* get_kb_buffer(): a copy of the global buffer, whichever terminal it
\* now belongs to (terminal.c:169-175); the copy is what the call returns.
ReadCopy(t) ==
    /\ rd[t] = "seen"
    /\ rd' = [rd EXCEPT ![t] = "copied"]
    /\ UNCHANGED <<cur_term, kbd, scr, saved>>

\* reset_keyboard() (keyboard.c:344-352).
ResetKeyboard == kb' = Empty /\ enter' = 0 /\ idx' = 0

\* reset_keyboard() and the return (terminal.c:177-183).
ReadReturn(t) ==
    /\ rd[t] = "copied"
    /\ ResetKeyboard
    /\ rd' = [rd EXCEPT ![t] = "idle"]
    /\ UNCHANGED <<cur_term, scr, saved>>

\* terminal_write with nbytes >= 1 (terminal.c:197-218), by the process of
\* any terminal: putc moves the live cursor forward over the output (or
\* scrolls), and set_stop_x records the column it ends at.
TerminalWrite ==
    \E x \in Cols, y \in Rows :
        /\ \/ y > sy
           \/ y = sy /\ x > sx
           \/ y = NUM_ROWS - 1
        /\ sx' = x /\ sy' = y /\ cursor_x' = x
        /\ UNCHANGED <<cur_term, kbd, saved, rd>>

-----------------------------------------------------------------------------

\* After terminal_init and keyboard_init: terminal 0 displayed, every
\* buffer empty, the screen cleared, no shell reading yet.
Init ==
    /\ cur_term = 0
    /\ kb = Empty /\ idx = 0 /\ enter = 0
    /\ sx = 0 /\ sy = 0 /\ cursor_x = 0
    /\ tkb = [t \in Terms |-> Empty] /\ tidx = [t \in Terms |-> 0]
    /\ tsx = [t \in Terms |-> 0] /\ tsy = [t \in Terms |-> 0]
    /\ rd = [t \in Terms |-> "idle"]

Next ==
    \/ \E c \in Chars : CharKey(c)
    \/ Enter
    \/ Backspace
    \/ ClearScreen
    \/ \E tid \in Terms : SwitchTerminal(tid)
    \/ \E t \in Terms : ReadStart(t) \/ ReadSeeEnter(t) \/ ReadCopy(t) \/ ReadReturn(t)
    \/ TerminalWrite

Spec == Init /\ [][Next]_vars

\* The best scheduling the code could give: a shell in terminal_read polls
\* enter_flag on every pass of its loop and runs the copy and the reset
\* once it has left it, and the PIT round robin would give every started
\* terminal's shell the CPU.  The code does not guarantee even this (a
\* tick faults at scheduling.c:63 without its EOI), so a read that fails
\* to return under it fails without it too.  Key presses and
\* terminal_write are the user's and the programs' choice: no fairness.
Fairness ==
    \A t \in Terms : /\ WF_vars(ReadSeeEnter(t))
                    /\ WF_vars(ReadCopy(t))
                    /\ WF_vars(ReadReturn(t))

FairSpec == Spec /\ Fairness

-----------------------------------------------------------------------------
(* Properties.                                                             *)

\* The cursor of every terminal, live or saved, stays on the screen
\* through echo, Enter, Ctrl+L, both backspace branches and the saves and
\* restores of switch_terminal.
CursorOnScreen ==
    /\ sx \in Cols /\ sy \in Rows
    /\ \A t \in Terms : tsx[t] \in Cols /\ tsy[t] \in Rows

\* terminal_read on terminal t returns a line typed on t: when it copies
\* kb_buffer[], the buffer is terminal t's, that is t is displayed.
ReadCopiesOwnLine ==
    [][\A t \in Terms : rd[t] = "seen" /\ rd'[t] = "copied" => cur_term = t]_vars

\* terminal_read blocks until line input is complete: once the user has
\* pressed Enter on the displayed terminal while its shell spins in
\* terminal_read, that shell's read eventually returns the line.
EnterEndsRead ==
    \A t \in Terms :
        (cur_term = t /\ rd[t] = "spin" /\ enter = 1) ~> rd[t] = "idle"

=============================================================================
