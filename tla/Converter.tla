------------------------------ MODULE Converter ------------------------------
(***************************************************************************)
(* What the two upper-case exercises (01-shm-template-to-upper.c and       *)
(* 02-shm-to-upper.c) do for the user at the terminal: he types a line,    *)
(* and the next line that is printed is that line in upper case.  At the   *)
(* end of the input they do not stop: nobody looks at the result of        *)
(* fgets(), and the last answer is printed again and again.                *)
(***************************************************************************)
CONSTANTS
    Lines,      \* the strings that fit in SHM_SIZE
    Upper,      \* to_uppercase() as a function on Lines
    None

VARIABLES
    request,    \* the line that has not been answered yet, or None
    printed,    \* the last answer
    eof         \* the input has ended

vars == <<request, printed, eof>>

Init == request = None /\ printed = None /\ eof = FALSE

\* A line is typed.
Ask ==
    /\ ~eof /\ request = None
    /\ request' \in Lines
    /\ UNCHANGED <<printed, eof>>

\* After the input has ended a line that nobody typed is taken: one whose
\* answer has just been printed, or any if there is none yet.
Repeat ==
    /\ request = None
    /\ eof' = TRUE
    /\ request' \in Lines
    /\ printed # None => Upper[request'] = printed
    /\ UNCHANGED printed

\* The input ends and no line is taken, because the user has interrupted.
EndOfInput == eof' = TRUE /\ UNCHANGED <<request, printed>>

Answer ==
    /\ request # None
    /\ printed' = Upper[request] /\ request' = None
    /\ UNCHANGED eof

Next == Ask \/ Repeat \/ EndOfInput \/ Answer

Spec == Init /\ [][Next]_vars
=============================================================================
