------------------------------ MODULE LineEditor ------------------------------
(***************************************************************************)
(* What the shell promises somebody who types: a line that grows at its    *)
(* end, that backspace shortens by what was written last, and that enter   *)
(* and a line of output clear.  The line holds what backspace can still    *)
(* take away, and not what was typed: output that does not end the line    *)
(* moves into it from behind and pushes as much out of it in front, and of *)
(* the name of a raw key, which is several characters long, one counts.    *)
(* Module Shell implements it on a screen of rows.                         *)
(***************************************************************************)
EXTENDS Integers, Sequences

CONSTANTS
    Char,   \* what a typed character may look like
    Text,   \* the texts that are put out without an end of line
    Name    \* the names that raw keys are written with

VARIABLE line

Init == line = <<>>

Ending(s, n) == SubSeq(s, Len(s) - n + 1, Len(s))

Type(c) == line' = Append(line, c)

TypeRaw(name) == line' = Ending(line \o name, Len(line) + 1)

Output(text) == line' = Ending(line \o text, Len(line))

Backspace ==
    /\ line # <<>>
    /\ line' = SubSeq(line, 1, Len(line) - 1)

\* Backspace as a raw key at the start of a row takes nothing away, but counts.
Forget ==
    /\ line # <<>>
    /\ line' = Tail(line)

Discard == line' = <<>>

Next ==
    \/ \E c \in Char : Type(c)
    \/ \E name \in Name : TypeRaw(name)
    \/ \E text \in Text : Output(text)
    \/ Backspace \/ Forget \/ Discard

Spec == Init /\ [][Next]_line
=============================================================================
