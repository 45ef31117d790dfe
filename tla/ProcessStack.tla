---------------------------- MODULE ProcessStack ----------------------------
(***************************************************************************)
(* What the terminal registry promises about its process lists (spec.md   *)
(* sections 3 and 4.2): each terminal holds an ordered chain of process   *)
(* identifiers, the newest one in the foreground.  execute puts a new     *)
(* process on top of its terminal's chain, halt removes the foreground    *)
(* process, and an identifier is in at most one chain at a time.  The     *)
(* chain has a fixed capacity.                                             *)
(***************************************************************************)
EXTENDS Sequences, SequencesExt

CONSTANTS
    Pids,           \* process identifiers
    Terms,          \* terminals
    CAP             \* capacity of a terminal's chain

VARIABLE stacks     \* stacks[t]: terminal t's chain, foreground last

\* Identifiers held by some chain.
Held == UNION {ToSet(stacks[t]) : t \in Terms}

Init == stacks = [t \in Terms |-> <<>>]

\* A process created on terminal t becomes its foreground process.
Push(t, p) ==
    /\ p \notin Held
    /\ Len(stacks[t]) < CAP
    /\ stacks' = [stacks EXCEPT ![t] = Append(@, p)]

\* The foreground process of terminal t ends; the one below it resumes.
Pop(t) ==
    /\ stacks[t] # <<>>
    /\ stacks' = [stacks EXCEPT ![t] = Front(@)]

Next == \E t \in Terms : Pop(t) \/ \E p \in Pids : Push(t, p)

Spec == Init /\ [][Next]_stacks

=============================================================================
