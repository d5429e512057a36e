------------------------------ MODULE VgaIndexed ------------------------------
(***************************************************************************)
(* Writer::write_char_indexed, src/src/vga_buffer.rs, called with every    *)
(* index its doc comment allows: the row in the first byte, the column in  *)
(* the second.                                                             *)
(***************************************************************************)
EXTENDS Vga

VARIABLES
    asked,     \* the row and the column of the last call
    written,   \* the cells written since, each a row and a column
    panicked   \* an index was out of bounds

vars == <<asked, written, panicked>>

Init == asked = <<0, 0>> /\ written = {<<0, 0>>} /\ panicked = FALSE

\* The access is bounds-checked: outside of the buffer it panics.
WriteCharIndexed(row, col) ==
    LET index == row + 2^8 * col
        inside == IndexedRow(index) \in Rows /\ IndexedCol(index) \in Cols
    IN  /\ ~panicked
        /\ asked' = <<row, col>>
        /\ written' = IF inside THEN {<<IndexedRow(index), IndexedCol(index)>>} ELSE {}
        /\ panicked' = ~inside

Next == \E row \in Rows, col \in Cols : WriteCharIndexed(row, col)

Spec == Init /\ [][Next]_vars

\* "First byte: value from 0-24", "Second byte: value from 0-79"
\* (src/src/vga_buffer.rs:287-289): a call of write_char_indexed with such an
\* index writes the cell of that row and that column.
IndexNamesCell == written = {asked}
=============================================================================
