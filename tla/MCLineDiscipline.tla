--------------------------- MODULE MCLineDiscipline ---------------------------
(***************************************************************************)
(* Instances of LineDiscipline for TLC.  Two terminals suffice for every  *)
(* cross-terminal case (a reader on one, keys on the other).  The buffer  *)
(* holds one character and the screen is 2 x 2: the full test, the echo   *)
(* wrapping onto the next row, backspace at column 0 of a lower row and   *)
(* the index wrapping below 0 all occur.  Each terminal's saved buffer,   *)
(* index and cursor multiply the states, which is why nothing is larger.  *)
(* The prompt is one column wide, so Ctrl+L leaves the cursor right of   *)
(* column 0 as "391OS> " does.                                            *)
(***************************************************************************)
EXTENDS LineDiscipline

MC_NTERM       == 2
MC_KB_BUF_SIZE == 1
MC_NUM_COLS    == 2
MC_NUM_ROWS    == 2
MC_PROMPT_LEN  == 1
\* A uint8_t index wraps to 255, above the 128 slots; a 1-bit one wraps
\* to 1, above the single slot.
MC_INDEX_MOD   == 2
\* Only positions matter to the properties: one character.
MC_Chars       == {"a"}
MC_Keys        == {"enter", "backspace", "clear"}
\* Only Enter among the control keys: the line is never edited.
MC_Keys_Enter  == {"enter"}
=============================================================================
