--------------------------------- MODULE Vga ---------------------------------
(***************************************************************************)
(* The text-mode writer, src/src/vga_buffer.rs, as operators on a writer:  *)
(* a record of the rows of the screen and the column position.  A cell is  *)
(* what it shows; colours are left out, but for the prompt, whose cells    *)
(* have a value of their own.  The writer always writes to the last row.   *)
(***************************************************************************)
EXTENDS Integers, Sequences

CONSTANTS BUFFER_WIDTH, BUFFER_HEIGHT

ASSUME VgaAssumption ==
    /\ BUFFER_WIDTH \in Nat \ {0}
    /\ BUFFER_HEIGHT \in Nat \ {0, 1}

Rows == 0 .. BUFFER_HEIGHT - 1
Cols == 0 .. BUFFER_WIDTH - 1
Bottom == BUFFER_HEIGHT - 1

Blank == " "
BlankRow == [col \in Cols |-> Blank]

\* What a byte is shown as: one that is not printable ASCII becomes 0xfe.
Shown(char) == IF char = "control" THEN "fe" ELSE char

\* new_line: every row moves up, the last one is cleared.
NewLine_NotCleared(w) ==
    [chars |-> [row \in Rows |-> IF row = Bottom THEN w.chars[row] ELSE w.chars[row + 1]],
     column_position |-> 0]

NewLine(w) ==
    [chars |-> [row \in Rows |-> IF row = Bottom THEN BlankRow ELSE w.chars[row + 1]],
     column_position |-> 0]

\* old_line: every row moves down, the first one is cleared.
OldLine(w) ==
    [chars |-> [row \in Rows |-> IF row = 0 THEN BlankRow ELSE w.chars[row - 1]],
     column_position |-> 0]

\* The check both set_byte_colored and write_colored_string start with.
Wrapped_OffByOne(w) == IF w.column_position > BUFFER_WIDTH THEN NewLine(w) ELSE w
Wrapped(w) == IF w.column_position >= BUFFER_WIDTH THEN NewLine(w) ELSE w

\* set_byte of a byte other than '\n': the column stays.
SetByte(w, char) ==
    LET v == Wrapped(w)
    IN  [v EXCEPT !.chars[Bottom][v.column_position] = char]

\* write_byte of a byte other than '\n', and a step of write_colored_string.
WriteByte(w, char) ==
    [SetByte(w, char) EXCEPT !.column_position = @ + 1]

\* write_string, write_colored_string: the bytes one after the other.
WriteBytes(w, s) ==
    LET written[i \in 0 .. Len(s)] == IF i = 0 THEN w ELSE WriteByte(written[i - 1], s[i])
    IN  written[Len(s)]

IsCurrentRowClear(w) == w.chars[Bottom] = BlankRow
-----------------------------------------------------------------------------
\* write_char_indexed: the row and the column of the cell it writes.  The two
\* masks of the code keep the bits 0 to 4 and the bits 8 to 14.
IndexedRow(index) == index % 2^5
IndexedCol(index) == ((index \div 2^8) % 2^7) * 2^8
=============================================================================
