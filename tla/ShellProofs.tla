------------------------------ MODULE ShellProofs ------------------------------
(***************************************************************************)
(* Proofs about Shell and the writer below it, for a screen of any size, a *)
(* prompt that fits a row, and any keys and outputs.                       *)
(*                                                                         *)
(* BackspaceSparesPrompt is not inductive: it says what the next backspace *)
(* clears, and not what the one after it does.  ShellInv says that none of *)
(* the last written_char_count cells before the cursor is of the prompt,   *)
(* the rows read one after the other, and that the row is empty behind the *)
(* cursor.  Distance counts the cells from a cell to the cursor: a byte    *)
(* that is written moves every cell one further from it, whether the rows  *)
(* scroll or not, and a backspace one nearer.  The refinement of the line  *)
(* editor follows from the same two facts.                                 *)
(***************************************************************************)
EXTENDS Shell, TLAPS, WellFoundedInduction

\* f is what write_string leaves behind, byte by byte.
Steps(f, w, s, n) == f = [i \in 0 .. n |-> IF i = 0 THEN w ELSE WriteByte(f[i - 1], s[i])]

\* A property of the numbers up to n that is not true of all of them fails
\* first somewhere.
LEMMA FirstFailure ==
    ASSUME NEW n \in Nat, NEW bad \in SUBSET (0 .. n), bad # {}
    PROVE  \E m \in bad : \A k \in bad : m <= k
  <1>1. bad \subseteq Nat
    OBVIOUS
  <1>2. PICK m \in bad : \A k \in bad : ~ (<<k, m>> \in OpToRel(<, Nat))
    BY <1>1, NatLessThanWellFounded, WFMin, Zenon
  <1>3. \A k \in bad : ~ (k < m)
    BY <1>1, <1>2, Zenon DEF OpToRel
  <1>4. \A k \in bad : m <= k
    BY <1>1, <1>3
  <1> QED
    BY <1>4

\* The loop of write_string goes through one writer after the other.
LEMMA StepsExist ==
    ASSUME NEW w, NEW s, NEW n \in Nat
    PROVE  \E f : Steps(f, w, s, n)
  <1> SUFFICES ASSUME ~ \E f : Steps(f, w, s, n) PROVE FALSE
    OBVIOUS
  <1> DEFINE bad == {k \in 0 .. n : ~ \E f : Steps(f, w, s, k)}
  <1>1. bad \in SUBSET (0 .. n) /\ n \in bad
    OBVIOUS
  <1>2. PICK m \in bad : \A k \in bad : m <= k
    BY <1>1, FirstFailure, Zenon
  <1>3. m \in 0 .. n /\ ~ \E f : Steps(f, w, s, m)
    BY <1>2
  <1>4. CASE m = 0
    <2> DEFINE f == [i \in 0 .. 0 |-> w]
    <2>1. f = [i \in 0 .. 0 |-> IF i = 0 THEN w ELSE WriteByte(f[i - 1], s[i])]
      OBVIOUS
    <2> QED
      BY <1>3, <1>4, <2>1, Zenon DEF Steps
  <1>5. CASE m # 0
    <2>1. m - 1 \in 0 .. n /\ m - 1 \notin bad
      BY <1>2, <1>3, <1>5
    <2>2. PICK f : Steps(f, w, s, m - 1)
      BY <2>1
    <2> DEFINE g == [i \in 0 .. m |-> IF i = m THEN WriteByte(f[m - 1], s[m]) ELSE f[i]]
               h == [i \in 0 .. m |-> IF i = 0 THEN w ELSE WriteByte(g[i - 1], s[i])]
    <2>3. \A i \in 0 .. m - 1 : f[i] = IF i = 0 THEN w ELSE WriteByte(f[i - 1], s[i])
      BY <2>2 DEF Steps
    <2>4. \A i \in 0 .. m : i # m => g[i] = f[i]
      BY <1>3
    <2>5. g[m] = WriteByte(f[m - 1], s[m]) /\ g[m - 1] = f[m - 1]
      BY <1>3, <1>5
    <2>6. ASSUME NEW i \in 0 .. m PROVE g[i] = h[i]
      <3> HIDE DEF g
      <3>1. CASE i = m
        BY <1>3, <1>5, <2>5, <3>1
      <3>2. CASE i # m
        <4>1. i \in 0 .. m - 1 /\ (i # 0 => i - 1 \in 0 .. m /\ i - 1 # m)
          BY <1>3, <2>6, <3>2
        <4> QED
          BY <2>3, <2>4, <3>2, <4>1
      <3> QED
        BY <3>1, <3>2
    <2>7. g = h
      BY <2>6
    <2> QED
      BY <1>3, <2>7, Zenon DEF Steps
  <1> QED
    BY <1>4, <1>5

\* WriteBytes is the last of them.
LEMMA WriteBytesSteps ==
    ASSUME NEW w, NEW s, Len(s) \in Nat
    PROVE  \E f : Steps(f, w, s, Len(s)) /\ WriteBytes(w, s) = f[Len(s)]
  <1> DEFINE c == CHOOSE f : Steps(f, w, s, Len(s))
  <1>1. Steps(c, w, s, Len(s))
    BY StepsExist
  <1>2. WriteBytes(w, s) = c[Len(s)]
    BY DEF WriteBytes, Steps
  <1> QED
    BY <1>1, <1>2, Zenon

\* What holds of the writer before the loop, and is kept from one byte to the
\* next, holds behind the loop.  R relates the number of bytes written to the
\* writers that may be there then.
LEMMA WriteBytesInduction ==
    ASSUME NEW w, NEW s, Len(s) \in Nat, NEW R, <<0, w>> \in R,
           \A i \in 1 .. Len(s) : \A v :
               <<i - 1, v>> \in R => <<i, WriteByte(v, s[i])>> \in R
    PROVE  <<Len(s), WriteBytes(w, s)>> \in R
  <1>1. PICK f : Steps(f, w, s, Len(s)) /\ WriteBytes(w, s) = f[Len(s)]
    BY WriteBytesSteps
  <1>2. \A i \in 0 .. Len(s) : f[i] = IF i = 0 THEN w ELSE WriteByte(f[i - 1], s[i])
    BY <1>1 DEF Steps
  <1> SUFFICES ASSUME <<Len(s), f[Len(s)]>> \notin R PROVE FALSE
    BY <1>1
  <1> DEFINE bad == {k \in 0 .. Len(s) : <<k, f[k]>> \notin R}
  <1>3. bad \in SUBSET (0 .. Len(s)) /\ Len(s) \in bad
    OBVIOUS
  <1>4. PICK m \in bad : \A k \in bad : m <= k
    BY <1>3, FirstFailure, Zenon
  <1>5. m \in 0 .. Len(s) /\ <<m, f[m]>> \notin R
    BY <1>4
  <1>6. m # 0
    BY <1>2, <1>5
  <1>7. m \in 1 .. Len(s) /\ m - 1 \in 0 .. Len(s) /\ m - 1 \notin bad
    BY <1>4, <1>5, <1>6
  <1>8. <<m - 1, f[m - 1]>> \in R
    BY <1>7
  <1>9. f[m] = WriteByte(f[m - 1], s[m])
    BY <1>2, <1>5, <1>6
  <1> QED
    BY <1>5, <1>7, <1>8, <1>9
-----------------------------------------------------------------------------
(* The operations of the writer, cell by cell.                             *)

Writers == [chars : [Rows -> [Cols -> Cells]], column_position : 0 .. BUFFER_WIDTH]

\* The rows and columns of the screen.
LEMMA Screen ==
    /\ BUFFER_WIDTH \in Nat /\ BUFFER_WIDTH > 0 /\ BUFFER_HEIGHT \in Nat /\ BUFFER_HEIGHT > 1
    /\ Bottom \in Nat /\ Bottom \in Rows /\ Bottom - 1 \in Rows /\ 0 \in Rows /\ Bottom # 0
    /\ \A row : row \in Rows <=> row \in Int /\ 0 <= row /\ row <= Bottom
    /\ \A col : col \in Cols <=> col \in Int /\ 0 <= col /\ col < BUFFER_WIDTH
    /\ Blank \in Cells /\ "prompt" \in Cells /\ "name" \in Cells
    /\ BlankRow \in [Cols -> Cells]
    /\ \A col \in Cols : BlankRow[col] = Blank
  BY VgaAssumption DEF Bottom, Rows, Cols, Cells, Blank, BlankRow

\* new_line: the rows move up, the last one is empty.
LEMMA NewLineShape ==
    ASSUME NEW w \in Writers
    PROVE  /\ NewLine(w) \in Writers
           /\ NewLine(w).column_position = 0
           /\ \A row \in Rows : row # Bottom => NewLine(w).chars[row] = w.chars[row + 1]
           /\ NewLine(w).chars[Bottom] = BlankRow
           /\ \A col \in Cols : NewLine(w).chars[Bottom][col] = Blank
  <1>1. w.chars \in [Rows -> [Cols -> Cells]]
    BY DEF Writers
  <1>2. \A row \in Rows : row # Bottom => row + 1 \in Rows
    BY Screen
  <1>3. NewLine(w).chars \in [Rows -> [Cols -> Cells]]
    BY <1>1, <1>2, Screen DEF NewLine
  <1>4. NewLine(w) \in Writers
    BY <1>3, Screen DEF NewLine, Writers
  <1> QED
    BY <1>4, Screen DEF NewLine

\* old_line: the rows move down, the first one is empty.
LEMMA OldLineShape ==
    ASSUME NEW w \in Writers
    PROVE  /\ OldLine(w) \in Writers
           /\ \A row \in Rows : row # 0 => OldLine(w).chars[row] = w.chars[row - 1]
           /\ OldLine(w).chars[0] = BlankRow
  <1>1. w.chars \in [Rows -> [Cols -> Cells]]
    BY DEF Writers
  <1>2. \A row \in Rows : row # 0 => row - 1 \in Rows
    BY Screen
  <1>3. OldLine(w).chars \in [Rows -> [Cols -> Cells]]
    BY <1>1, <1>2, Screen DEF OldLine
  <1>4. OldLine(w) \in Writers
    BY <1>3, Screen DEF OldLine, Writers
  <1> QED
    BY <1>4, Screen DEF OldLine

\* A writer moved to a column.
LEMMA MovedShape ==
    ASSUME NEW w \in Writers, NEW col \in 0 .. BUFFER_WIDTH
    PROVE  /\ [w EXCEPT !.column_position = col] \in Writers
           /\ [w EXCEPT !.column_position = col].chars = w.chars
           /\ [w EXCEPT !.column_position = col].column_position = col
  BY DEF Writers

\* The check for the end of the row.
LEMMA WrappedShape ==
    ASSUME NEW w \in Writers
    PROVE  /\ Wrapped(w) \in Writers
           /\ Wrapped(w).column_position \in Cols
           /\ w.column_position \in Cols => Wrapped(w) = w
           /\ w.column_position = BUFFER_WIDTH => Wrapped(w) = NewLine(w)
           /\ w.column_position \in Cols \/ w.column_position = BUFFER_WIDTH
  <1>1. w.column_position \in 0 .. BUFFER_WIDTH
    BY DEF Writers
  <1>2. CASE w.column_position = BUFFER_WIDTH
    BY <1>2, NewLineShape, Screen DEF Wrapped
  <1>3. CASE w.column_position # BUFFER_WIDTH
    BY <1>1, <1>3, Screen DEF Wrapped
  <1> QED
    BY <1>2, <1>3

\* set_byte: one cell of the last row changes.
LEMMA SetByteShape ==
    ASSUME NEW w \in Writers, NEW char \in Cells
    PROVE  LET v == Wrapped(w)
               x == SetByte(w, char)
           IN  /\ x \in Writers
               /\ x.column_position = v.column_position
               /\ \A row \in Rows : row # Bottom => x.chars[row] = v.chars[row]
               /\ \A col \in Cols : x.chars[Bottom][col] =
                      IF col = v.column_position THEN char ELSE v.chars[Bottom][col]
  <1> DEFINE v == Wrapped(w)
             p == v.column_position
             x == [v EXCEPT !.chars[Bottom][p] = char]
  <1>1. v \in Writers /\ p \in Cols
    BY WrappedShape
  <1>2. SetByte(w, char) = x
    BY DEF SetByte
  <1> HIDE DEF v
  <1>3. v.chars \in [Rows -> [Cols -> Cells]] /\ p \in 0 .. BUFFER_WIDTH
    BY <1>1 DEF Writers
  <1>4. x.column_position = p /\ x.chars = [v.chars EXCEPT ![Bottom][p] = char]
    BY <1>1 DEF Writers
  <1>5. x.chars \in [Rows -> [Cols -> Cells]]
    BY <1>1, <1>3, <1>4, Screen
  <1>6. x \in Writers
    BY <1>1, <1>3, <1>4, <1>5, Zenon DEF Writers
  <1>7. \A row \in Rows : row # Bottom => x.chars[row] = v.chars[row]
    BY <1>3, <1>4
  <1>8. \A col \in Cols : x.chars[Bottom][col] = IF col = p THEN char ELSE v.chars[Bottom][col]
    BY <1>1, <1>3, <1>4, Screen
  <1> QED
    BY <1>2, <1>4, <1>6, <1>7, <1>8 DEF v

\* write_byte: the same, and the column moves on.
LEMMA WriteByteShape ==
    ASSUME NEW w \in Writers, NEW char \in Cells
    PROVE  LET v == Wrapped(w)
               x == WriteByte(w, char)
           IN  /\ x \in Writers
               /\ x.column_position = v.column_position + 1
               /\ \A row \in Rows : row # Bottom => x.chars[row] = v.chars[row]
               /\ \A col \in Cols : x.chars[Bottom][col] =
                      IF col = v.column_position THEN char ELSE v.chars[Bottom][col]
  <1> DEFINE v == Wrapped(w)
             y == SetByte(w, char)
  <1>1. v.column_position \in Cols
    BY WrappedShape
  <1>2. /\ y \in Writers /\ y.column_position = v.column_position
        /\ \A row \in Rows : row # Bottom => y.chars[row] = v.chars[row]
        /\ \A col \in Cols : y.chars[Bottom][col] =
               IF col = v.column_position THEN char ELSE v.chars[Bottom][col]
    BY SetByteShape
  <1>3. WriteByte(w, char) = [y EXCEPT !.column_position = y.column_position + 1]
    BY DEF WriteByte
  <1> HIDE DEF v, y
  <1>4. y.column_position + 1 \in 0 .. BUFFER_WIDTH
    BY <1>1, <1>2, Screen
  <1>5. /\ WriteByte(w, char) \in Writers
        /\ WriteByte(w, char).chars = y.chars
        /\ WriteByte(w, char).column_position = y.column_position + 1
    BY <1>2, <1>3, <1>4, MovedShape
  <1> QED
    BY <1>2, <1>5 DEF v
-----------------------------------------------------------------------------
(* How far a cell is before the cursor, the rows read one after the other. *)

Up(rows) == rows * BUFFER_WIDTH
Distance(w, row, col) == Up(Bottom - row) + w.column_position - col

\* Rows are BUFFER_WIDTH apart.
LEMMA UpBy ==
    /\ Up(0) = 0
    /\ \A r \in Int : Up(r) \in Int /\ Up(r + 1) = Up(r) + BUFFER_WIDTH
    /\ \A r \in Nat : r # 0 => Up(r) >= BUFFER_WIDTH
  <1>1. BUFFER_WIDTH \in Nat
    BY Screen
  <1>2. \A r, b \in Int : r * b \in Int /\ (r + 1) * b = r * b + b
    BY SMT
  <1>3. \A r, b \in Nat : r # 0 => r * b >= b
    BY SMT
  <1> QED
    BY <1>1, <1>2, <1>3 DEF Up

\* A distance is a number.
LEMMA DistanceType ==
    ASSUME NEW w \in Writers, NEW row \in Rows, NEW col \in Cols
    PROVE  /\ Distance(w, row, col) \in Int /\ Bottom - row \in Nat /\ Up(Bottom - row) \in Int
           /\ w.column_position \in 0 .. BUFFER_WIDTH /\ col \in Int
  BY UpBy, Screen DEF Distance, Writers

\* write_byte: the cell before the cursor is the one it has written; those
\* before it are the ones that were there.
LEMMA WriteByteCells ==
    ASSUME NEW w \in Writers, NEW char \in Cells, NEW row \in Rows, NEW col \in Cols,
           Distance(WriteByte(w, char), row, col) >= 1
    PROVE  LET x == WriteByte(w, char)
               d == Distance(x, row, col)
           IN  /\ d = 1 => x.chars[row][col] = char
               /\ d # 1 => \E above \in Rows : /\ Distance(w, above, col) = d - 1
                                               /\ x.chars[row][col] = w.chars[above][col]
  <1> DEFINE v == Wrapped(w)
             x == WriteByte(w, char)
             d == Distance(x, row, col)
  <1>1. /\ x \in Writers /\ x.column_position = v.column_position + 1
        /\ \A r \in Rows : r # Bottom => x.chars[r] = v.chars[r]
        /\ \A k \in Cols : x.chars[Bottom][k] =
               IF k = v.column_position THEN char ELSE v.chars[Bottom][k]
    BY WriteByteShape
  <1>2. /\ v \in Writers /\ v.column_position \in Cols
        /\ w.column_position \in Cols => v = w
        /\ w.column_position = BUFFER_WIDTH => v = NewLine(w)
        /\ w.column_position \in Cols \/ w.column_position = BUFFER_WIDTH
    BY WrappedShape
  <1> HIDE DEF v, x
  <1>3. /\ d = Up(Bottom - row) + v.column_position + 1 - col
        /\ v.column_position \in 0 .. BUFFER_WIDTH - 1 /\ col \in 0 .. BUFFER_WIDTH - 1
        /\ Bottom - row \in Nat /\ Up(Bottom - row) \in Int /\ d \in Int /\ d >= 1
        /\ BUFFER_WIDTH \in Nat
    <2>1. d = Up(Bottom - row) + x.column_position - col
      BY DEF Distance, d
    <2>2. d \in Int /\ Bottom - row \in Nat /\ Up(Bottom - row) \in Int
      BY <1>1, DistanceType DEF d
    <2>3. /\ v.column_position \in 0 .. BUFFER_WIDTH - 1 /\ col \in 0 .. BUFFER_WIDTH - 1
          /\ BUFFER_WIDTH \in Nat
      BY <1>2, Screen
    <2>4. d >= 1
      BY DEF d, x
    <2> HIDE DEF d
    <2> QED
      BY <1>1, <2>1, <2>2, <2>3, <2>4
  <1>4. CASE row = Bottom
    <2>1. d = v.column_position + 1 - col /\ Bottom - row = 0
      BY <1>3, <1>4, UpBy, Screen
    <2>2. CASE d = 1
      BY <1>1, <1>3, <1>4, <2>1, <2>2 DEF x
    <2>3. CASE d # 1
      <3>1. v.column_position > 0 /\ col # v.column_position
        BY <1>3, <2>1, <2>3
      <3>2. v = w
        BY <1>2, <3>1, NewLineShape
      <3>3. Distance(w, row, col) = d - 1
        BY <1>3, <1>4, <2>1, <3>2, UpBy DEF Distance
      <3>4. x.chars[row][col] = w.chars[row][col]
        BY <1>1, <1>4, <3>1, <3>2
      <3> QED
        BY <2>3, <3>3, <3>4 DEF x
    <2> QED
      BY <2>2, <2>3
  <1>5. CASE row # Bottom
    <2>1. Up(Bottom - row) >= BUFFER_WIDTH
      BY <1>3, <1>5, UpBy, Screen
    <2>2. d # 1 /\ x.chars[row] = v.chars[row]
      BY <1>1, <1>3, <1>5, <2>1
    <2>3. CASE w.column_position \in Cols
      <3>1. Distance(w, row, col) = d - 1 /\ x.chars[row][col] = w.chars[row][col]
        BY <1>2, <1>3, <2>2, <2>3 DEF Distance
      <3> QED
        BY <2>2, <3>1 DEF x
    <2>4. CASE w.column_position = BUFFER_WIDTH
      <3>1. v.column_position = 0 /\ v.chars[row] = w.chars[row + 1] /\ row + 1 \in Rows
        BY <1>2, <1>5, <2>4, NewLineShape, Screen
      <3>2. Bottom - (row + 1) \in Int /\ (Bottom - (row + 1)) + 1 = Bottom - row
        BY Screen
      <3>3. Up(Bottom - (row + 1)) \in Int /\ Up(Bottom - row) = Up(Bottom - (row + 1)) + BUFFER_WIDTH
        BY <3>2, UpBy
      <3>4. Distance(w, row + 1, col) = d - 1
        BY <1>3, <2>4, <3>1, <3>3 DEF Distance
      <3> QED
        BY <2>2, <3>1, <3>4 DEF x
    <2> QED
      BY <1>2, <2>3, <2>4
  <1> QED
    BY <1>4, <1>5 DEF x

\* Backspace: the cells before the cursor are those before the one that was
\* cleared, or of the empty row that old_line moved in.
LEMMA BackspaceCells ==
    ASSUME NEW w \in Writers
    PROVE  LET x == SetByte(Back(w), Blank)
           IN  /\ x \in Writers
               /\ \A row \in Rows, col \in Cols : Distance(x, row, col) >= 1 =>
                     \/ x.chars[row][col] = Blank /\ row = 0 /\ w.column_position = 0
                     \/ \E below \in Rows : /\ Distance(w, below, col) = Distance(x, row, col) + 1
                                            /\ x.chars[row][col] = w.chars[below][col]
  <1> DEFINE b == Back(w)
             x == SetByte(b, Blank)
  <1>1. w.column_position \in 0 .. BUFFER_WIDTH
    BY DEF Writers
  <1>2. ASSUME w.column_position > 0
        PROVE  /\ b \in Writers /\ b.chars = w.chars
               /\ b.column_position = w.column_position - 1 /\ b.column_position \in Cols
    <2>1. b = [w EXCEPT !.column_position = w.column_position - 1]
      BY <1>2 DEF Back
    <2>2. w.column_position - 1 \in 0 .. BUFFER_WIDTH /\ w.column_position - 1 \in Cols
      BY <1>1, <1>2, Screen
    <2> HIDE DEF b
    <2> QED
      BY <2>1, <2>2, MovedShape
  <1>3. ASSUME w.column_position = 0
        PROVE  /\ b \in Writers /\ b.chars = OldLine(w).chars
               /\ b.column_position = BUFFER_WIDTH - 1 /\ b.column_position \in Cols
    <2>1. b = [OldLine(w) EXCEPT !.column_position = BUFFER_WIDTH - 1]
      BY <1>3 DEF Back
    <2>2. BUFFER_WIDTH - 1 \in 0 .. BUFFER_WIDTH /\ BUFFER_WIDTH - 1 \in Cols
      BY Screen
    <2>3. OldLine(w) \in Writers
      BY OldLineShape
    <2> HIDE DEF b
    <2> QED
      BY <2>1, <2>2, <2>3, MovedShape
  <1>4. b \in Writers /\ b.column_position \in Cols
    BY <1>1, <1>2, <1>3
  <1>5. Wrapped(b) = b
    BY <1>4, WrappedShape
  <1>6. /\ x \in Writers /\ x.column_position = b.column_position
        /\ \A row \in Rows : row # Bottom => x.chars[row] = b.chars[row]
        /\ \A col \in Cols : x.chars[Bottom][col] =
               IF col = b.column_position THEN Blank ELSE b.chars[Bottom][col]
    <2>1. Blank \in Cells
      BY Screen
    <2> HIDE DEF b
    <2> QED
      BY <1>4, <1>5, <2>1, SetByteShape
  <1> HIDE DEF b, x
  <1>7. ASSUME NEW row \in Rows, NEW col \in Cols, Distance(x, row, col) >= 1
        PROVE  \/ x.chars[row][col] = Blank /\ row = 0 /\ w.column_position = 0
               \/ \E below \in Rows : /\ Distance(w, below, col) = Distance(x, row, col) + 1
                                      /\ x.chars[row][col] = w.chars[below][col]
    <2>1. Distance(x, row, col) = Up(Bottom - row) + b.column_position - col
      BY <1>6 DEF Distance
    <2>2. /\ Up(Bottom - row) \in Int /\ col \in Int /\ BUFFER_WIDTH \in Nat
          /\ b.column_position \in Int
      BY <1>4, DistanceType, Screen
    <2>3. x.chars[row][col] = b.chars[row][col]
      <3>1. CASE row = Bottom
        <4>1. Up(Bottom - row) = 0
          BY <3>1, UpBy, Screen
        <4>2. col # b.column_position
          BY <1>7, <2>1, <2>2, <4>1
        <4> QED
          BY <1>6, <3>1, <4>2
      <3>2. CASE row # Bottom
        BY <1>6, <3>2
      <3> QED
        BY <3>1, <3>2
    <2>4. CASE w.column_position > 0
      <3>1. Distance(w, row, col) = Distance(x, row, col) + 1
        BY <1>1, <1>2, <2>1, <2>2, <2>4 DEF Distance
      <3> QED
        BY <1>2, <2>3, <2>4, <3>1
    <2>5. CASE w.column_position = 0 /\ row # 0
      <3>1. row - 1 \in Rows /\ b.chars[row] = w.chars[row - 1]
        BY <1>3, <2>5, OldLineShape, Screen
      <3>2. Bottom - row \in Int /\ (Bottom - row) + 1 = Bottom - (row - 1)
        BY Screen
      <3>3. Up(Bottom - (row - 1)) = Up(Bottom - row) + BUFFER_WIDTH
        BY <3>2, UpBy
      <3>4. Distance(w, row - 1, col) = Distance(x, row, col) + 1
        BY <1>3, <2>1, <2>2, <2>5, <3>3 DEF Distance
      <3> QED
        BY <2>3, <3>1, <3>4
    <2>6. CASE w.column_position = 0 /\ row = 0
      BY <1>3, <2>3, <2>6, OldLineShape, Screen
    <2> QED
      BY <1>1, <2>4, <2>5, <2>6
  <1> QED
    BY <1>6, <1>7 DEF b, x
-----------------------------------------------------------------------------
(* What the shell relies on.                                               *)

\* The last row is empty from the cursor on.
TailBlank(w) == \A col \in Cols : col >= w.column_position => w.chars[Bottom][col] = Blank

\* None of the last n cells before the cursor is part of a prompt.
Spared(w, n) ==
    \A row \in Rows, col \in Cols : Distance(w, row, col) \in 1 .. n => w.chars[row][col] # "prompt"

\* write_byte goes on in an empty row, or behind what was written.
LEMMA WriteByteTail ==
    ASSUME NEW w \in Writers, NEW char \in Cells, TailBlank(w)
    PROVE  TailBlank(WriteByte(w, char))
  <1> DEFINE v == Wrapped(w)
             x == WriteByte(w, char)
  <1>1. /\ x.column_position = v.column_position + 1
        /\ \A col \in Cols : x.chars[Bottom][col] =
               IF col = v.column_position THEN char ELSE v.chars[Bottom][col]
    BY WriteByteShape
  <1>2. v.column_position \in Cols /\ TailBlank(v)
    <2>1. CASE w.column_position \in Cols
      BY <2>1, WrappedShape
    <2>2. CASE w.column_position = BUFFER_WIDTH
      BY <2>2, WrappedShape, NewLineShape DEF TailBlank
    <2> QED
      BY <2>1, <2>2, WrappedShape
  <1> HIDE DEF v, x
  <1>3. TailBlank(x)
    <2> SUFFICES ASSUME NEW col \in Cols, col >= v.column_position + 1
                 PROVE  x.chars[Bottom][col] = Blank
      BY <1>1 DEF TailBlank
    <2>1. col # v.column_position /\ col >= v.column_position
      BY <1>2, Screen
    <2> QED
      BY <1>1, <1>2, <2>1 DEF TailBlank
  <1> QED
    BY <1>3 DEF x

\* A byte that is not of a prompt adds a cell to those that are spared.
LEMMA WriteByteSpared ==
    ASSUME NEW w \in Writers, NEW char \in Cells, char # "prompt", NEW n \in Nat, Spared(w, n)
    PROVE  Spared(WriteByte(w, char), n + 1)
  <1> DEFINE x == WriteByte(w, char)
  <1> SUFFICES ASSUME NEW row \in Rows, NEW col \in Cols, Distance(x, row, col) \in 1 .. n + 1
               PROVE  x.chars[row][col] # "prompt"
    BY DEF Spared
  <1>1. Distance(x, row, col) >= 1
    OBVIOUS
  <1>2. CASE Distance(x, row, col) = 1
    BY <1>1, <1>2, WriteByteCells
  <1>3. CASE Distance(x, row, col) # 1
    <2>1. PICK above \in Rows : /\ Distance(w, above, col) = Distance(x, row, col) - 1
                                /\ x.chars[row][col] = w.chars[above][col]
      BY <1>1, <1>3, WriteByteCells
    <2>2. Distance(w, above, col) \in 1 .. n
      BY <1>3, <2>1
    <2> QED
      BY <2>1, <2>2 DEF Spared
  <1> QED
    BY <1>2, <1>3

\* write_string from a writer whose last row is empty from the cursor on.
LEMMA WriteBytesTail ==
    ASSUME NEW w \in Writers, NEW s \in Seq(Cells)
    PROVE  /\ WriteBytes(w, s) \in Writers
           /\ TailBlank(w) => TailBlank(WriteBytes(w, s))
  <1> DEFINE R == {p \in Nat \X Writers : TailBlank(w) => TailBlank(p[2])}
  <1>1. Len(s) \in Nat /\ <<0, w>> \in R
    OBVIOUS
  <1>2. ASSUME NEW i \in 1 .. Len(s), NEW v, <<i - 1, v>> \in R
        PROVE  <<i, WriteByte(v, s[i])>> \in R
    <2>1. v \in Writers /\ (TailBlank(w) => TailBlank(v)) /\ i \in Nat /\ s[i] \in Cells
      BY <1>2
    <2>2. WriteByte(v, s[i]) \in Writers
      BY <2>1, WriteByteShape
    <2>3. TailBlank(w) => TailBlank(WriteByte(v, s[i]))
      BY <2>1, WriteByteTail
    <2> QED
      BY <2>1, <2>2, <2>3
  <1> HIDE DEF R
  <1>3. <<Len(s), WriteBytes(w, s)>> \in R
    BY <1>1, <1>2, WriteBytesInduction
  <1> QED
    BY <1>3 DEF R

\* A text without cells of a prompt adds its length to the spared cells.
LEMMA WriteBytesSpared ==
    ASSUME NEW w \in Writers, NEW s \in Seq(Cells), NEW n \in Nat, Spared(w, n),
           \A i \in 1 .. Len(s) : s[i] # "prompt"
    PROVE  Spared(WriteBytes(w, s), n + Len(s))
  <1> DEFINE R == {p \in Nat \X Writers : Spared(p[2], n + p[1])}
  <1>1. Len(s) \in Nat /\ <<0, w>> \in R
    OBVIOUS
  <1>2. ASSUME NEW i \in 1 .. Len(s), NEW v, <<i - 1, v>> \in R
        PROVE  <<i, WriteByte(v, s[i])>> \in R
    <2>1. /\ v \in Writers /\ Spared(v, n + (i - 1)) /\ i \in Nat /\ s[i] \in Cells
          /\ s[i] # "prompt" /\ n + (i - 1) \in Nat
      BY <1>2
    <2>2. WriteByte(v, s[i]) \in Writers
      BY <2>1, WriteByteShape
    <2>3. Spared(WriteByte(v, s[i]), (n + (i - 1)) + 1)
      BY <2>1, WriteByteSpared
    <2>4. (n + (i - 1)) + 1 = n + i
      BY <2>1
    <2> QED
      BY <2>1, <2>2, <2>3, <2>4
  <1> HIDE DEF R
  <1>3. <<Len(s), WriteBytes(w, s)>> \in R
    BY <1>1, <1>2, WriteBytesInduction
  <1> QED
    BY <1>3 DEF R

\* A text that fits the row stands where the cursor was, and nothing else
\* changes.
LEMMA WriteBytesInRow ==
    ASSUME NEW w \in Writers, NEW s \in Seq(Cells), w.column_position + Len(s) <= BUFFER_WIDTH
    PROVE  LET x == WriteBytes(w, s)
               p == w.column_position
           IN  /\ x \in Writers
               /\ x.column_position = p + Len(s)
               /\ \A row \in Rows : row # Bottom => x.chars[row] = w.chars[row]
               /\ \A col \in Cols : x.chars[Bottom][col] =
                      IF col \in p .. p + Len(s) - 1 THEN s[col - p + 1] ELSE w.chars[Bottom][col]
  <1> DEFINE p == w.column_position
             R == {q \in Nat \X Writers :
                     /\ q[2].column_position = p + q[1]
                     /\ \A row \in Rows : row # Bottom => q[2].chars[row] = w.chars[row]
                     /\ \A col \in Cols : q[2].chars[Bottom][col] =
                            IF col \in p .. p + q[1] - 1 THEN s[col - p + 1]
                            ELSE w.chars[Bottom][col]}
  <1>0. p \in 0 .. BUFFER_WIDTH /\ BUFFER_WIDTH \in Nat /\ Len(s) \in Nat
    BY Screen DEF Writers
  <1>1. <<0, w>> \in R
    BY <1>0
  <1>2. ASSUME NEW i \in 1 .. Len(s), NEW v, <<i - 1, v>> \in R
        PROVE  <<i, WriteByte(v, s[i])>> \in R
    <2> DEFINE x == WriteByte(v, s[i])
    <2>1. /\ v \in Writers /\ v.column_position = p + (i - 1) /\ s[i] \in Cells
          /\ \A row \in Rows : row # Bottom => v.chars[row] = w.chars[row]
          /\ \A col \in Cols : v.chars[Bottom][col] =
                 IF col \in p .. p + (i - 1) - 1 THEN s[col - p + 1] ELSE w.chars[Bottom][col]
      BY <1>2
    <2>2. v.column_position \in Cols
      <3>1. v.column_position \in Int /\ 0 <= v.column_position /\ v.column_position < BUFFER_WIDTH
        BY <1>0, <2>1
      <3> QED
        BY <3>1, Screen
    <2>3. Wrapped(v) = v
      BY <2>1, <2>2, WrappedShape
    <2>4. /\ x \in Writers /\ x.column_position = v.column_position + 1
          /\ \A row \in Rows : row # Bottom => x.chars[row] = v.chars[row]
          /\ \A col \in Cols : x.chars[Bottom][col] =
                 IF col = v.column_position THEN s[i] ELSE v.chars[Bottom][col]
      BY <2>1, <2>3, WriteByteShape
    <2> HIDE DEF x
    <2>5. x.column_position = p + i
      BY <1>0, <2>1, <2>4
    <2>6. ASSUME NEW col \in Cols
          PROVE  x.chars[Bottom][col] =
                    IF col \in p .. p + i - 1 THEN s[col - p + 1] ELSE w.chars[Bottom][col]
      <3>1. col \in Int
        BY Screen
      <3>2. CASE col = v.column_position
        <4>1. col \in p .. p + i - 1 /\ col - p + 1 = i
          BY <1>0, <2>1, <3>2
        <4> QED
          BY <2>4, <3>2, <4>1
      <3>3. CASE col # v.column_position
        <4>1. col \in p .. p + (i - 1) - 1 <=> col \in p .. p + i - 1
          BY <1>0, <2>1, <3>1, <3>3
        <4> QED
          BY <2>1, <2>4, <3>3, <4>1
      <3> QED
        BY <3>2, <3>3
    <2>7. \A row \in Rows : row # Bottom => x.chars[row] = w.chars[row]
      BY <2>1, <2>4
    <2>8. i \in Nat
      OBVIOUS
    <2> HIDE DEF p
    <2> QED
      BY <2>4, <2>5, <2>6, <2>7, <2>8 DEF x
  <1> HIDE DEF R
  <1>3. <<Len(s), WriteBytes(w, s)>> \in R
    BY <1>0, <1>1, <1>2, WriteBytesInduction
  <1> QED
    BY <1>3 DEF R
-----------------------------------------------------------------------------
(* The operations of the shell.                                            *)

\* Fewer cells are spared, too.
LEMMA SparedLess ==
    ASSUME NEW w, NEW n \in Nat, NEW m \in Nat, m <= n, Spared(w, n)
    PROVE  Spared(w, m)
  <1>1. 1 .. m \subseteq 1 .. n
    OBVIOUS
  <1> QED
    BY <1>1 DEF Spared

\* Nothing has to be spared behind a new prompt.
LEMMA SparedNone == ASSUME NEW w PROVE Spared(w, 0)
  BY DEF Spared

\* The writer one character back.
LEMMA BackShape ==
    ASSUME NEW w \in Writers
    PROVE  /\ Back(w) \in Writers /\ Back(w).column_position \in Cols
           /\ w.column_position > 0 => /\ Back(w).chars = w.chars
                                       /\ Back(w).column_position = w.column_position - 1
           /\ w.column_position = 0 => Back(w).column_position = BUFFER_WIDTH - 1
  <1>1. w.column_position \in 0 .. BUFFER_WIDTH
    BY DEF Writers
  <1>2. CASE w.column_position > 0
    <2>1. Back(w) = [w EXCEPT !.column_position = w.column_position - 1]
      BY <1>2 DEF Back
    <2>2. w.column_position - 1 \in 0 .. BUFFER_WIDTH /\ w.column_position - 1 \in Cols
      BY <1>1, <1>2, Screen
    <2> QED
      BY <1>2, <2>1, <2>2, MovedShape
  <1>3. CASE w.column_position = 0
    <2>1. Back(w) = [OldLine(w) EXCEPT !.column_position = BUFFER_WIDTH - 1]
      BY <1>3 DEF Back
    <2>2. BUFFER_WIDTH - 1 \in 0 .. BUFFER_WIDTH /\ BUFFER_WIDTH - 1 \in Cols
      BY Screen
    <2>3. OldLine(w) \in Writers
      BY OldLineShape
    <2> QED
      BY <1>3, <2>1, <2>2, <2>3, MovedShape
  <1> QED
    BY <1>1, <1>2, <1>3

\* Backspace leaves the row empty from the cursor on, and one cell less to go.
LEMMA BackspaceKeeps ==
    ASSUME NEW w \in Writers, TailBlank(w), NEW n \in Nat, n # 0, Spared(w, n)
    PROVE  LET x == SetByte(Back(w), Blank)
           IN  x \in Writers /\ TailBlank(x) /\ Spared(x, n - 1)
  <1> DEFINE b == Back(w)
             x == SetByte(b, Blank)
  <1>1. /\ b \in Writers /\ b.column_position \in Cols
        /\ w.column_position > 0 => /\ b.chars = w.chars
                                    /\ b.column_position = w.column_position - 1
        /\ w.column_position = 0 => b.column_position = BUFFER_WIDTH - 1
    BY BackShape
  <1>2. /\ x \in Writers
        /\ \A row \in Rows, col \in Cols : Distance(x, row, col) >= 1 =>
              \/ x.chars[row][col] = Blank /\ row = 0 /\ w.column_position = 0
              \/ \E below \in Rows : /\ Distance(w, below, col) = Distance(x, row, col) + 1
                                     /\ x.chars[row][col] = w.chars[below][col]
    BY BackspaceCells
  <1>3. w.column_position \in 0 .. BUFFER_WIDTH /\ Blank \in Cells
    BY Screen DEF Writers
  <1> HIDE DEF b
  <1>4. Wrapped(b) = b
    BY <1>1, WrappedShape
  <1>5. /\ x.column_position = b.column_position
        /\ \A col \in Cols : x.chars[Bottom][col] =
               IF col = b.column_position THEN Blank ELSE b.chars[Bottom][col]
    BY <1>1, <1>3, <1>4, SetByteShape
  <1> HIDE DEF x
  <1>6. TailBlank(x)
    <2> SUFFICES ASSUME NEW col \in Cols, col >= b.column_position, col # b.column_position
                 PROVE  b.chars[Bottom][col] = Blank
      BY <1>5 DEF TailBlank
    <2>1. w.column_position > 0 /\ col >= w.column_position
      BY <1>1, <1>3, Screen
    <2> QED
      BY <1>1, <2>1 DEF TailBlank
  <1>7. Spared(x, n - 1)
    <2> SUFFICES ASSUME NEW row \in Rows, NEW col \in Cols, Distance(x, row, col) \in 1 .. n - 1
                 PROVE  x.chars[row][col] # "prompt"
      BY DEF Spared
    <2>1. CASE x.chars[row][col] = Blank
      BY <2>1, Zenon DEF Blank
    <2>2. CASE x.chars[row][col] # Blank
      <3>1. PICK below \in Rows : /\ Distance(w, below, col) = Distance(x, row, col) + 1
                                  /\ x.chars[row][col] = w.chars[below][col]
        BY <1>2, <2>2
      <3>2. Distance(w, below, col) \in 1 .. n
        BY <3>1
      <3> QED
        BY <3>1, <3>2 DEF Spared
    <2> QED
      BY <2>1, <2>2
  <1> QED
    BY <1>2, <1>6, <1>7 DEF b, x

\* Backspace as a raw key does the same, within a row.
LEMMA RawBackspaceIs ==
    ASSUME NEW w \in Writers, w.column_position > 0
    PROVE  [WriteByte([w EXCEPT !.column_position = @ - 1], Blank) EXCEPT !.column_position = @ - 1]
              = SetByte(Back(w), Blank)
  <1> DEFINE b == [w EXCEPT !.column_position = @ - 1]
             y == SetByte(b, Blank)
             z == [y EXCEPT !.column_position = @ + 1]
             x == [z EXCEPT !.column_position = @ - 1]
  <1>1. b = Back(w)
    BY DEF Back
  <1>2. WriteByte(b, Blank) = z
    BY DEF WriteByte
  <1> HIDE DEF b
  <1>3. y \in Writers /\ y.column_position \in Cols
    <2>1. b \in Writers /\ b.column_position \in Cols /\ Blank \in Cells
      BY <1>1, BackShape, Screen
    <2>2. Wrapped(b) = b
      BY <2>1, WrappedShape
    <2> QED
      BY <2>1, <2>2, SetByteShape
  <1> HIDE DEF y
  <1>4. y.column_position + 1 \in 0 .. BUFFER_WIDTH /\ (y.column_position + 1) - 1 = y.column_position
    BY <1>3, Screen
  <1>5. z \in Writers /\ z.chars = y.chars /\ z.column_position = y.column_position + 1
    BY <1>3, <1>4, MovedShape
  <1> HIDE DEF z
  <1>6. x \in Writers /\ x.chars = y.chars /\ x.column_position = y.column_position
    <2>1. z.column_position - 1 \in 0 .. BUFFER_WIDTH
      BY <1>3, <1>4, <1>5, Screen
    <2> QED
      BY <1>4, <1>5, <2>1, MovedShape
  <1> HIDE DEF x
  <1>7. x = y
    BY <1>3, <1>6 DEF Writers
  <1> QED
    BY <1>1, <1>2, <1>7, Zenon DEF b, y, z, x

\* The texts: the prompt, an output, the name of a raw key.
LEMMA Texts ==
    /\ Prompt \in Seq(Cells) /\ Len(Prompt) = PromptLength
    /\ \A i \in 1 .. PromptLength : Prompt[i] = "prompt"
    /\ Outputs \subseteq Seq(Cells)
    /\ \A s \in Outputs : \A i \in 1 .. Len(s) : s[i] # "prompt"
    /\ \A length \in RawNames :
          LET name == NameOf(length)
          IN  name \in Seq(Cells) /\ Len(name) = length /\ \A i \in 1 .. length : name[i] = "name"
    /\ \A char \in Keys : Shown(char) \in Cells /\ Shown(char) # "prompt"
  <1>1. PromptLength \in Nat
    BY ShellAssumption, Screen
  <1>2. Prompt \in Seq(Cells) /\ Len(Prompt) = PromptLength
    BY <1>1, Screen DEF Prompt
  <1>3. ASSUME NEW s \in Outputs PROVE s \in Seq(Cells)
    <2>1. s \in Seq(STRING)
      BY <1>3, ShellAssumption
    <2>2. \A i \in 1 .. Len(s) : s[i] \in Cells
      BY <1>3 DEF Cells
    <2> QED
      BY <2>1, <2>2
  <1>4. ASSUME NEW length \in RawNames
        PROVE  LET name == NameOf(length)
               IN  name \in Seq(Cells) /\ Len(name) = length
                   /\ \A i \in 1 .. length : name[i] = "name"
    <2>1. length \in Nat
      BY <1>4, ShellAssumption
    <2> QED
      BY <2>1, Screen DEF NameOf
  <1>5. ASSUME NEW char \in Keys PROVE Shown(char) \in Cells /\ Shown(char) # "prompt"
    BY <1>5, ShellAssumption DEF Shown, Cells
  <1>6. \A s \in Outputs : \A i \in 1 .. Len(s) : s[i] # "prompt"
    BY ShellAssumption
  <1> QED
    BY <1>2, <1>3, <1>4, <1>5, <1>6, Zenon DEF Prompt

\* A new line leaves the last row empty, whatever was written before.
LEMMA NewLineTail ==
    ASSUME NEW w \in Writers
    PROVE  /\ NewLine(w) \in Writers /\ TailBlank(NewLine(w))
           /\ WriteBytes(NewLine(w), Prompt) \in Writers
           /\ TailBlank(WriteBytes(NewLine(w), Prompt))
  <1>1. NewLine(w) \in Writers /\ TailBlank(NewLine(w))
    BY NewLineShape DEF TailBlank
  <1> QED
    BY <1>1, Texts, WriteBytesTail

\* The state of the shell that its operations go through.
Sound(st) ==
    /\ st \in [writer : Writers, count : Nat]
    /\ TailBlank(st.writer)
    /\ Spared(st.writer, st.count)

\* newline starts over.
LEMMA NewlineSound ==
    ASSUME NEW w \in Writers
    PROVE  Sound(Newline(w)) /\ Newline(w).count = 0
  BY NewLineTail, SparedNone DEF Newline, Sound

\* key_event keeps the shell sound, and counts at most one character more.
LEMMA KeyEventSound ==
    ASSUME NEW st, Sound(st), NEW key \in DecodedKeys
    PROVE  /\ Sound(KeyEvent(st, key))
           /\ KeyEvent(st, key).count <= st.count + 1
           /\ key[1] \notin {"char", "raw"} => KeyEvent(st, key).count <= st.count
  <1> DEFINE w == st.writer
             n == st.count
  <1>1. /\ w \in Writers /\ n \in Nat /\ TailBlank(w) /\ Spared(w, n)
        /\ st = [writer |-> w, count |-> n]
    BY DEF Sound
  <1>2. CASE key = <<"enter", 0>>
    <2>1. KeyEvent(st, key) = Newline(w)
      BY <1>2 DEF KeyEvent
    <2> QED
      BY <1>1, <1>2, <2>1, NewlineSound
  <1>3. CASE key \in {"char"} \X Keys
    <2> DEFINE x == WriteByte(w, Shown(key[2]))
               new == [writer |-> x, count |-> n + 1]
    <2>1. key[1] = "char" /\ key[2] \in Keys
      BY <1>3
    <2>2. KeyEvent(st, key) = KeyChar(st, key[2])
      BY <2>1 DEF KeyEvent
    <2>3. KeyEvent(st, key) = new
      BY <1>1, <2>2, Zenon DEF KeyChar
    <2>4. Shown(key[2]) \in Cells /\ Shown(key[2]) # "prompt"
      BY <2>1, Texts
    <2>5. x \in Writers
      BY <1>1, <2>4, WriteByteShape
    <2>6. TailBlank(x)
      BY <1>1, <2>4, WriteByteTail
    <2>7. Spared(x, n + 1)
      BY <1>1, <2>4, WriteByteSpared
    <2> HIDE DEF x
    <2>8. Sound(new) /\ new.count = n + 1
      BY <1>1, <2>5, <2>6, <2>7 DEF Sound
    <2> QED
      BY <1>1, <2>1, <2>3, <2>8
  <1>4. CASE key = <<"backspace", 0>>
    <2> DEFINE x == SetByte(Back(w), Blank)
               new == [writer |-> x, count |-> n - 1]
    <2>1. KeyEvent(st, key) = KeyBackspace(st)
      BY <1>4 DEF KeyEvent
    <2>2. CASE n = 0
      BY <1>1, <1>4, <2>1, <2>2 DEF KeyBackspace
    <2>3. CASE n # 0
      <3>1. KeyEvent(st, key) = new
        BY <1>1, <2>1, <2>3, Zenon DEF KeyBackspace
      <3>2. x \in Writers /\ TailBlank(x) /\ Spared(x, n - 1)
        BY <1>1, <2>3, BackspaceKeeps
      <3> HIDE DEF x
      <3>3. Sound(new) /\ new.count = n - 1
        BY <1>1, <2>3, <3>2 DEF Sound
      <3> QED
        BY <1>1, <1>4, <3>1, <3>3
    <2> QED
      BY <2>2, <2>3
  <1>5. CASE key \in {"raw"} \X RawNames
    <2> DEFINE name == NameOf(key[2])
               x == WriteBytes(w, name)
               new == [writer |-> x, count |-> n + 1]
    <2>1. key[1] = "raw" /\ key[2] \in RawNames /\ key[2] \in Nat /\ key[2] # 0
      BY <1>5, ShellAssumption, Zenon
    <2>2. KeyEvent(st, key) = KeyRaw(st, key[2])
      BY <2>1 DEF KeyEvent
    <2>3. KeyEvent(st, key) = new
      BY <1>1, <2>2 DEF KeyRaw
    <2>4. name \in Seq(Cells) /\ Len(name) = key[2] /\ \A i \in 1 .. Len(name) : name[i] # "prompt"
      BY <2>1, Texts
    <2> HIDE DEF name
    <2>5. x \in Writers /\ TailBlank(x)
      BY <1>1, <2>4, WriteBytesTail
    <2>6. Spared(x, n + Len(name))
      BY <1>1, <2>4, WriteBytesSpared
    <2>7. n + 1 \in Nat /\ n + Len(name) \in Nat /\ n + 1 <= n + Len(name)
      BY <1>1, <2>1, <2>4
    <2>8. Spared(x, n + 1)
      BY <2>6, <2>7, SparedLess
    <2> HIDE DEF x
    <2>9. Sound(new) /\ new.count = n + 1
      BY <1>1, <2>5, <2>8 DEF Sound
    <2> QED
      BY <1>1, <2>1, <2>3, <2>9
  <1>6. CASE key = <<"raw_backspace", 0>>
    <2> DEFINE x == IF w.column_position > 0
                    THEN [WriteByte([w EXCEPT !.column_position = @ - 1], Blank)
                            EXCEPT !.column_position = @ - 1]
                    ELSE w
               new == [writer |-> x, count |-> n - 1]
    <2>1. KeyEvent(st, key) = RawBackspace(st)
      BY <1>6 DEF KeyEvent
    <2>2. CASE n = 0
      BY <1>1, <1>6, <2>1, <2>2 DEF RawBackspace
    <2>3. CASE n # 0
      <3>1. KeyEvent(st, key) = new
        BY <1>1, <2>1, <2>3 DEF RawBackspace
      <3>2. x \in Writers /\ TailBlank(x) /\ Spared(x, n - 1)
        <4>1. CASE w.column_position > 0
          <5>1. x = SetByte(Back(w), Blank)
            BY <1>1, <4>1, RawBackspaceIs
          <5> QED
            BY <1>1, <2>3, <5>1, BackspaceKeeps
        <4>2. CASE ~ (w.column_position > 0)
          <5>1. n - 1 \in Nat /\ n - 1 <= n
            BY <1>1, <2>3
          <5> QED
            BY <1>1, <4>2, <5>1, SparedLess
        <4> QED
          BY <4>1, <4>2
      <3> HIDE DEF x
      <3>3. Sound(new) /\ new.count = n - 1
        BY <1>1, <2>3, <3>2 DEF Sound
      <3> QED
        BY <1>1, <1>6, <3>1, <3>3
    <2> QED
      BY <2>2, <2>3
  <1> QED
    BY <1>2, <1>3, <1>4, <1>5, <1>6 DEF DecodedKeys

\* The handlers: without one a key changes nothing; with one it is handled
\* once, if there is a shell.
LEMMA CalledOnce ==
    ASSUME NEW key
    PROVE  /\ keyboard = <<>> => CallKeyboardEvent(key) = State
           /\ keyboard = <<"key_event">> =>
                 CallKeyboardEvent(key) = IF INITIALIZED THEN KeyEvent(State, key) ELSE State
  <1> DEFINE next(st) == IF INITIALIZED THEN KeyEvent(st, key) ELSE st
             P(f, n) == f = [i \in 0 .. n |-> IF i = 0 THEN State ELSE next(f[i - 1])]
             c(n) == CHOOSE f : P(f, n)
  <1>1. CallKeyboardEvent(key) = c(Len(keyboard))[Len(keyboard)]
    BY DEF CallKeyboardEvent
  <1> HIDE DEF next
  <1>2. ASSUME keyboard = <<>> PROVE CallKeyboardEvent(key) = State
    <2> DEFINE f == [i \in 0 .. 0 |-> State]
    <2>1. P(f, 0)
      OBVIOUS
    <2>2. P(c(0), 0)
      BY <2>1
    <2>3. c(0)[0] = State
      BY <2>2
    <2>4. Len(keyboard) = 0
      BY <1>2
    <2> QED
      BY <1>1, <2>3, <2>4
  <1>3. ASSUME keyboard = <<"key_event">> PROVE CallKeyboardEvent(key) = next(State)
    <2> DEFINE f == [i \in 0 .. 1 |-> IF i = 0 THEN State ELSE next(State)]
               g == [i \in 0 .. 1 |-> IF i = 0 THEN State ELSE next(f[i - 1])]
    <2>1. \A i \in 0 .. 1 : f[i] = g[i]
      <3>1. f[0] = State /\ f[1] = next(State)
        OBVIOUS
      <3> HIDE DEF f
      <3>2. g[0] = State /\ g[1] = next(f[0])
        OBVIOUS
      <3>3. \A i \in 0 .. 1 : i = 0 \/ i = 1
        OBVIOUS
      <3> HIDE DEF g
      <3> QED
        BY <3>1, <3>2, <3>3
    <2>2. P(f, 1)
      BY <2>1
    <2> HIDE DEF f, g
    <2>3. P(c(1), 1)
      BY <2>2
    <2> HIDE DEF c
    <2>4. c(1)[0] = State
      BY <2>3
    <2>5. c(1)[1] = next(c(1)[0])
      BY <2>3
    <2>6. Len(keyboard) = 1
      BY <1>3
    <2> QED
      BY <1>1, <2>4, <2>5, <2>6
  <1> QED
    BY <1>2, <1>3 DEF next
-----------------------------------------------------------------------------
(* The invariant, inductive.                                               *)

ShellInv ==
    /\ ShellTypeOK
    /\ INITIALIZED => TailBlank(writer)
    /\ Spared(writer, written_char_count)
    /\ ~INITIALIZED => written_char_count = 0 /\ keyboard = <<>>

\* The shell starts over with an empty line.
LEMMA ShellInitOK == Init => ShellInv
  <1> SUFFICES ASSUME Init PROVE ShellInv
    OBVIOUS
  <1>1. PICK cell \in {Blank, "text"} :
           writer = [chars |-> [row \in Rows |-> [col \in Cols |-> cell]], column_position |-> 0]
    BY DEF Init
  <1>2. cell \in Cells
    BY Screen DEF Cells
  <1>3. writer \in Writers
    BY <1>1, <1>2, Screen DEF Writers
  <1>4. written_char_count \in 0 .. MaxTyped
    BY ShellAssumption DEF Init
  <1>5. /\ ~INITIALIZED /\ INITIALIZED \in BOOLEAN
        /\ prompt_enabled \in BOOLEAN /\ keyboard = <<>> /\ written_char_count = 0
    BY Zenon DEF Init
  <1>6. ShellTypeOK
    BY <1>3, <1>4, <1>5 DEF ShellTypeOK, Writers
  <1> QED
    BY <1>5, <1>6, SparedNone DEF ShellInv

\* What the state of the shell becomes, when it is sound.
LEMMA BecomeSound ==
    ASSUME ShellInv, INITIALIZED, NEW st, Sound(st), st.count <= MaxTyped, Become(st),
           UNCHANGED <<INITIALIZED, prompt_enabled, keyboard>>
    PROVE  ShellInv'
  <1>1. /\ writer' \in Writers /\ written_char_count' \in 0 .. MaxTyped
        /\ TailBlank(writer') /\ Spared(writer', written_char_count')
    BY ShellAssumption DEF Sound, Become
  <1>2. ShellTypeOK'
    BY <1>1 DEF ShellInv, ShellTypeOK, Writers
  <1> QED
    BY <1>1, <1>2 DEF ShellInv

\* The state of a shell that is there.
LEMMA StateSound ==
    ASSUME ShellInv, INITIALIZED
    PROVE  Sound(State) /\ State.count = written_char_count
  BY ShellAssumption DEF ShellInv, ShellTypeOK, Sound, State, Writers

\* Every step keeps the invariant.
LEMMA ShellNextInv == ShellInv /\ [Next]_vars => ShellInv'
  <1> SUFFICES ASSUME ShellInv, [Next]_vars PROVE ShellInv'
    OBVIOUS
  <1>0. /\ writer \in Writers /\ ShellTypeOK /\ written_char_count \in 0 .. MaxTyped
        /\ MaxTyped \in Nat
    BY ShellAssumption DEF ShellInv, ShellTypeOK, Writers
  <1>1. CASE ShellInit
    <2> DEFINE w == IF IsCurrentRowClear(writer) THEN writer ELSE NewLine(writer)
    <2>1. w \in Writers /\ TailBlank(w)
      <3>1. CASE IsCurrentRowClear(writer)
        BY <1>0, <3>1, Screen DEF IsCurrentRowClear, TailBlank
      <3>2. CASE ~ IsCurrentRowClear(writer)
        BY <1>0, <3>2, NewLineTail
      <3> QED
        BY <3>1, <3>2
    <2>2. writer' = WriteBytes(w, Prompt) /\ written_char_count' = 0 /\ ~INITIALIZED
      BY <1>1 DEF ShellInit, ShellInv
    <2> HIDE DEF w
    <2>3. writer' \in Writers /\ TailBlank(writer')
      BY <2>1, <2>2, Texts, WriteBytesTail
    <2>4. ShellTypeOK'
      BY <1>0, <1>1, <2>3 DEF ShellInit, ShellTypeOK, Writers
    <2>5. Spared(writer', 0)
      BY SparedNone
    <2> QED
      BY <1>1, <2>2, <2>3, <2>4, <2>5 DEF ShellInit, ShellInv
  <1>2. CASE InitKbHandler
    <2>1. keyboard' = <<"key_event">>
      BY <1>2 DEF InitKbHandler
    <2>2. UNCHANGED <<writer, INITIALIZED, written_char_count, prompt_enabled>> /\ INITIALIZED
      BY <1>2 DEF InitKbHandler
    <2>3. ShellTypeOK'
      BY <1>0, <2>1, <2>2 DEF ShellTypeOK
    <2> QED
      BY <2>2, <2>3 DEF ShellInv
  <1>3. ASSUME NEW s \in Outputs, PrintlnWriter(s) PROVE ShellInv'
    <2>1. s \in Seq(Cells)
      BY Texts
    <2>2. WriteBytes(writer, s) \in Writers
      BY <1>0, <2>1, WriteBytesTail
    <2>3. writer' \in Writers
      BY <1>3, <2>2, NewLineTail DEF PrintlnWriter
    <2>4. ShellTypeOK'
      BY <1>0, <1>3, <2>3 DEF PrintlnWriter, ShellTypeOK, Writers
    <2>5. written_char_count' = 0
      BY <1>3 DEF PrintlnWriter, ShellInv
    <2>6. Spared(writer', 0)
      BY SparedNone
    <2> QED
      BY <1>3, <2>4, <2>5, <2>6 DEF PrintlnWriter, ShellInv
  <1>4. ASSUME NEW s \in Outputs, PrintlnShell(s) PROVE ShellInv'
    <2>1. s \in Seq(Cells)
      BY Texts
    <2>2. WriteBytes(writer, s) \in Writers
      BY <1>0, <2>1, WriteBytesTail
    <2> DEFINE st == Newline(WriteBytes(writer, s))
    <2>3. Sound(st) /\ st.count = 0
      BY <2>2, NewlineSound
    <2>4. Become(st) /\ INITIALIZED /\ UNCHANGED <<INITIALIZED, prompt_enabled, keyboard>>
      BY <1>4 DEF PrintlnShell
    <2> HIDE DEF st
    <2>5. st.count <= MaxTyped
      BY <1>0, <2>3
    <2> QED
      BY <2>3, <2>4, <2>5, BecomeSound
  <1>5. ASSUME NEW s \in Outputs, WriteColored(s) PROVE ShellInv'
    <2>1. s \in Seq(Cells)
      BY Texts
    <2>2. WriteBytes(writer, s) \in Writers
      BY <1>0, <2>1, WriteBytesTail
    <2> DEFINE x == WriteBytes(NewLine(WriteBytes(writer, s)), Prompt)
               st == [writer |-> x, count |-> 0]
    <2>3. x \in Writers /\ TailBlank(x) /\ Spared(x, 0)
      BY <2>2, NewLineTail, SparedNone
    <2>4. Become(st) /\ INITIALIZED /\ UNCHANGED <<INITIALIZED, prompt_enabled, keyboard>>
      BY <1>5 DEF WriteColored
    <2> HIDE DEF x
    <2>5. Sound(st) /\ st.count = 0
      BY <2>3 DEF Sound
    <2> HIDE DEF st
    <2>6. st.count <= MaxTyped
      BY <1>0, <2>5
    <2> QED
      BY <2>4, <2>5, <2>6, BecomeSound
  <1>6. ASSUME NEW enabled \in BOOLEAN, SetEnablePrompt(enabled) PROVE ShellInv'
    BY <1>6 DEF SetEnablePrompt, ShellInv, ShellTypeOK
  <1>7. ASSUME NEW key \in DecodedKeys, KeyboardInterrupt(key) PROVE ShellInv'
    <2>1. /\ key[1] \in {"char", "raw"} => written_char_count < MaxTyped
          /\ Become(CallKeyboardEvent(key))
          /\ UNCHANGED <<INITIALIZED, prompt_enabled, keyboard>>
      BY <1>7 DEF KeyboardInterrupt
    <2>2. keyboard = <<>> \/ keyboard = <<"key_event">>
      BY <1>0 DEF ShellTypeOK
    <2>3. CASE CallKeyboardEvent(key) = State
      <3>1. UNCHANGED <<writer, written_char_count>>
        BY <2>1, <2>3 DEF Become, State
      <3> QED
        BY <2>1, <3>1 DEF ShellInv, ShellTypeOK
    <2>4. CASE CallKeyboardEvent(key) # State
      <3>1. INITIALIZED /\ CallKeyboardEvent(key) = KeyEvent(State, key)
        BY <2>2, <2>4, CalledOnce
      <3>2. Sound(State) /\ State.count = written_char_count
        BY <3>1, StateSound
      <3> DEFINE st == KeyEvent(State, key)
      <3>3. /\ Sound(st) /\ st.count <= State.count + 1
            /\ key[1] \notin {"char", "raw"} => st.count <= State.count
        BY <3>2, KeyEventSound
      <3>4. Become(st)
        BY <2>1, <3>1
      <3> HIDE DEF st
      <3>5. st.count \in Nat
        BY <3>3 DEF Sound
      <3>6. st.count <= MaxTyped
        BY <1>0, <2>1, <3>2, <3>3, <3>5
      <3> QED
        BY <2>1, <3>1, <3>3, <3>4, <3>6, BecomeSound
    <2> QED
      BY <2>3, <2>4
  <1>8. ASSUME NEW s \in Outputs, PrintWriter(s) PROVE ShellInv'
    <2>1. writer' \in Writers
      BY <1>0, <1>8, Texts, WriteBytesTail DEF PrintWriter
    <2>2. ShellTypeOK'
      BY <1>0, <1>8, <2>1 DEF PrintWriter, ShellTypeOK, Writers
    <2>3. written_char_count' = 0
      BY <1>8 DEF PrintWriter, ShellInv
    <2>4. Spared(writer', 0)
      BY SparedNone
    <2> QED
      BY <1>8, <2>2, <2>3, <2>4 DEF PrintWriter, ShellInv
  <1>9. ASSUME NEW s \in Outputs, PrintShell(s) PROVE ShellInv'
    <2>1. /\ s \in Seq(Cells) /\ Len(s) \in Nat /\ \A i \in 1 .. Len(s) : s[i] # "prompt"
          /\ written_char_count \in Nat
      BY <1>0, Texts
    <2>2. /\ INITIALIZED /\ TailBlank(writer) /\ Spared(writer, written_char_count)
          /\ writer' = WriteBytes(writer, s)
          /\ UNCHANGED <<INITIALIZED, written_char_count, prompt_enabled, keyboard>>
      BY <1>9 DEF PrintShell, ShellInv
    <2>3. writer' \in Writers /\ TailBlank(writer')
      BY <1>0, <2>1, <2>2, WriteBytesTail
    <2>4. Spared(writer', written_char_count + Len(s))
      BY <1>0, <2>1, <2>2, WriteBytesSpared
    <2>5. Spared(writer', written_char_count)
      <3>1. /\ written_char_count + Len(s) \in Nat
            /\ written_char_count <= written_char_count + Len(s)
        BY <2>1
      <3> QED
        BY <2>1, <2>4, <3>1, SparedLess
    <2>6. ShellTypeOK'
      BY <1>0, <2>2, <2>3 DEF ShellTypeOK, Writers
    <2> QED
      BY <2>2, <2>3, <2>5, <2>6 DEF ShellInv
  <1>10. CASE UNCHANGED vars
    BY <1>10 DEF vars, ShellInv, ShellTypeOK
  <1> QED
    BY <1>1, <1>2, <1>3, <1>4, <1>5, <1>6, <1>7, <1>8, <1>9, <1>10 DEF Next

\* The shell's invariant, for a screen, keys and texts of any size.
THEOREM ShellInvariant == Spec => []ShellInv
  BY ShellInitOK, ShellNextInv, PTL DEF Spec

\* The cursor stays on the screen or one past the row, the count within its
\* bound, and there is at most one handler for keys.
THEOREM ShellTyped == Spec => []ShellTypeOK
  <1>1. ShellInv => ShellTypeOK
    BY DEF ShellInv
  <1> QED
    BY <1>1, ShellInvariant, PTL

\* Backspace clears no cell of the prompt, and goes back a row only from an
\* empty one (Shell::key_event).
THEOREM BackspaceAlwaysSparesPrompt == Spec => []BackspaceSparesPrompt
  <1>1. ShellInv => BackspaceSparesPrompt
    <2> SUFFICES ASSUME ShellInv, written_char_count > 0
                 PROVE  /\ EraseTarget # "prompt"
                        /\ writer.column_position = 0 => IsCurrentRowClear(writer)
      BY DEF BackspaceSparesPrompt
    <2>1. /\ writer \in Writers /\ 1 \in 1 .. written_char_count
          /\ INITIALIZED /\ TailBlank(writer) /\ Spared(writer, written_char_count)
          /\ writer.column_position \in 0 .. BUFFER_WIDTH
          /\ writer.chars \in [Rows -> [Cols -> Cells]]
      BY ShellAssumption DEF ShellInv, ShellTypeOK, Writers
    <2>2. CASE writer.column_position > 0
      <3>1. writer.column_position - 1 \in Cols
        BY <2>1, <2>2, Screen
      <3>2. Distance(writer, Bottom, writer.column_position - 1) = 1
        <4>1. Bottom - Bottom = 0
          BY Screen
        <4> QED
          BY <2>1, <4>1, UpBy DEF Distance
      <3>3. writer.chars[Bottom][writer.column_position - 1] # "prompt"
        BY <2>1, <3>1, <3>2, Screen DEF Spared
      <3> QED
        BY <2>2, <3>3 DEF EraseTarget
    <2>3. CASE writer.column_position = 0
      <3>1. BUFFER_WIDTH - 1 \in Cols /\ Bottom - 1 \in Rows
        BY Screen
      <3>2. Distance(writer, Bottom - 1, BUFFER_WIDTH - 1) = 1
        <4>1. Bottom - (Bottom - 1) = 0 + 1 /\ BUFFER_WIDTH \in Nat
          BY Screen
        <4>2. Up(0 + 1) = BUFFER_WIDTH
          BY <4>1, UpBy
        <4> QED
          BY <2>3, <4>1, <4>2 DEF Distance
      <3>3. writer.chars[Bottom - 1][BUFFER_WIDTH - 1] # "prompt"
        BY <2>1, <3>1, <3>2 DEF Spared
      <3>4. EraseTarget # "prompt"
        BY <2>3, <3>3 DEF EraseTarget
      <3>5. writer.chars[Bottom] \in [Cols -> Cells]
        BY <2>1, Screen
      <3>6. \A col \in Cols : writer.chars[Bottom][col] = BlankRow[col]
        BY <2>1, <2>3, Screen DEF TailBlank
      <3>7. writer.chars[Bottom] = BlankRow
        BY <3>5, <3>6 DEF BlankRow
      <3> QED
        BY <3>4, <3>7 DEF IsCurrentRowClear
    <2> QED
      BY <2>1, <2>2, <2>3
  <1> QED
    BY <1>1, ShellInvariant, PTL

\* A text that fits the row, a new line, and a prompt or none.
LEMMA PrintedRows ==
    ASSUME NEW w \in Writers, NEW s \in Seq(Cells), w.column_position + Len(s) <= BUFFER_WIDTH,
           NEW x, x \in {NewLine(WriteBytes(w, s)), WriteBytes(NewLine(WriteBytes(w, s)), Prompt)}
    PROVE  /\ \A i \in 1 .. Len(s) : x.chars[Bottom - 1][w.column_position + i - 1] = s[i]
           /\ \A col \in Cols : x.chars[Bottom][col] \in {Blank, "prompt"}
  <1> DEFINE p == w.column_position
             y == WriteBytes(w, s)
             z == NewLine(y)
  <1>1. /\ y \in Writers
        /\ \A col \in Cols : y.chars[Bottom][col] =
               IF col \in p .. p + Len(s) - 1 THEN s[col - p + 1] ELSE w.chars[Bottom][col]
    BY WriteBytesInRow
  <1>2. p \in 0 .. BUFFER_WIDTH /\ Len(s) \in Nat /\ BUFFER_WIDTH \in Nat
    BY Screen DEF Writers
  <1>3. \A i \in 1 .. Len(s) : y.chars[Bottom][p + i - 1] = s[i]
    <2> SUFFICES ASSUME NEW i \in 1 .. Len(s) PROVE y.chars[Bottom][p + i - 1] = s[i]
      OBVIOUS
    <2>0. p + Len(s) <= BUFFER_WIDTH /\ i \in Int /\ 1 <= i /\ i <= Len(s)
      BY <1>2
    <2>1. p + i - 1 \in p .. p + Len(s) - 1 /\ (p + i - 1) - p + 1 = i
      BY <1>2
    <2>2. p + i - 1 \in Int /\ 0 <= p + i - 1 /\ p + i - 1 < BUFFER_WIDTH
      BY <1>2, <2>0
    <2>3. p + i - 1 \in Cols
      BY <2>2, Screen
    <2> HIDE DEF p, y
    <2> QED
      BY <1>1, <2>1, <2>3
  <1> HIDE DEF y
  <1>4. /\ z \in Writers /\ z.column_position = 0
        /\ z.chars[Bottom - 1] = y.chars[Bottom]
        /\ \A col \in Cols : z.chars[Bottom][col] = Blank
    <2>1. Bottom - 1 \in Rows /\ Bottom - 1 # Bottom /\ (Bottom - 1) + 1 = Bottom
      BY Screen
    <2> QED
      BY <1>1, <2>1, NewLineShape
  <1> HIDE DEF z
  <1>5. CASE x = z
    BY <1>3, <1>4, <1>5
  <1>6. CASE x = WriteBytes(z, Prompt)
    <2>1. Prompt \in Seq(Cells) /\ z.column_position + Len(Prompt) <= BUFFER_WIDTH
      BY <1>4, Texts, ShellAssumption, Screen
    <2>2. /\ \A row \in Rows : row # Bottom => x.chars[row] = z.chars[row]
          /\ \A col \in Cols : x.chars[Bottom][col] =
                 IF col \in z.column_position .. z.column_position + Len(Prompt) - 1
                 THEN Prompt[col - z.column_position + 1] ELSE z.chars[Bottom][col]
      BY <1>4, <1>6, <2>1, WriteBytesInRow
    <2>3. Bottom - 1 \in Rows /\ Bottom - 1 # Bottom
      BY Screen
    <2>4. x.chars[Bottom - 1] = y.chars[Bottom]
      BY <1>4, <2>2, <2>3
    <2>5. ASSUME NEW col \in Cols PROVE x.chars[Bottom][col] \in {Blank, "prompt"}
      <3>1. CASE col \in 0 .. PromptLength - 1
        <4>1. col - 0 + 1 \in 1 .. PromptLength /\ 0 + PromptLength - 1 = PromptLength - 1
          BY <3>1, ShellAssumption, Screen
        <4>2. x.chars[Bottom][col] = Prompt[col - 0 + 1]
          BY <1>4, <2>2, <3>1, <4>1, Texts
        <4> QED
          BY <4>1, <4>2, Texts
      <3>2. CASE col \notin 0 .. PromptLength - 1
        <4>1. 0 + PromptLength - 1 = PromptLength - 1
          BY ShellAssumption, Screen
        <4> QED
          BY <1>4, <2>2, <3>2, <4>1, Texts
      <3> QED
        BY <3>1, <3>2
    <2> QED
      BY <1>3, <2>4, <2>5
  <1> QED
    BY <1>5, <1>6 DEF y, z

\* println! leaves its text in the row above the last, from the column the
\* cursor was at, and the last row empty but for a prompt (_print).
THEOREM PrintlnAlwaysOutput == Spec => PrintlnOutput
  <1> DEFINE A == \A s \in Outputs :
                (PrintlnWriter(s) \/ PrintlnShell(s)) /\ writer.column_position + Len(s) <= BUFFER_WIDTH
                => /\ \A i \in 1 .. Len(s) :
                         writer'.chars[Bottom - 1][writer.column_position + i - 1] = s[i]
                   /\ \A col \in Cols : writer'.chars[Bottom][col] \in {Blank, "prompt"}
  <1>1. ShellInv => A
    <2> SUFFICES ASSUME ShellInv, NEW s \in Outputs, PrintlnWriter(s) \/ PrintlnShell(s),
                        writer.column_position + Len(s) <= BUFFER_WIDTH
                 PROVE  /\ \A i \in 1 .. Len(s) :
                              writer'.chars[Bottom - 1][writer.column_position + i - 1] = s[i]
                        /\ \A col \in Cols : writer'.chars[Bottom][col] \in {Blank, "prompt"}
      OBVIOUS
    <2>1. writer \in Writers /\ s \in Seq(Cells)
      BY Texts DEF ShellInv, ShellTypeOK, Writers
    <2>2. writer' \in {NewLine(WriteBytes(writer, s)),
                       WriteBytes(NewLine(WriteBytes(writer, s)), Prompt)}
      BY Zenon DEF PrintlnWriter, PrintlnShell, Become, Newline
    <2> QED
      BY <2>1, <2>2, PrintedRows
  <1>2. ShellInv => [A]_vars
    BY <1>1
  <1>3. [][A]_vars => PrintlnOutput
    BY DEF PrintlnOutput
  <1> HIDE DEF A
  <1>4. Spec => [][A]_vars
    BY <1>2, ShellInvariant, PTL
  <1> QED
    BY <1>3, <1>4
-----------------------------------------------------------------------------
(* The cells before the cursor as a line.                                  *)

\* The cell that is k cells before the cursor.
Behind(w, k) ==
    LET i == Up(Bottom) + w.column_position - k
    IN  w.chars[i \div BUFFER_WIDTH][i % BUFFER_WIDTH]

\* The row and the column of an index.
LEMMA RowAndColumn ==
    ASSUME NEW i \in Int
    PROVE  /\ i \div BUFFER_WIDTH \in Int /\ i % BUFFER_WIDTH \in Cols
           /\ i = Up(i \div BUFFER_WIDTH) + (i % BUFFER_WIDTH)
  <1>1. \A b \in Nat : b # 0 => /\ i \div b \in Int /\ i % b \in Int
                                /\ 0 <= i % b /\ i % b < b
                                /\ i = (i \div b) * b + (i % b)
    BY SMT
  <1> QED
    BY <1>1, Screen DEF Up

\* Up is linear.
LEMMA UpMinus ==
    ASSUME NEW a \in Int, NEW b \in Int
    PROVE  Up(a - b) = Up(a) - Up(b)
  <1>1. \A x, y, z \in Int : (x - y) * z = x * z - y * z
    BY SMT
  <1> QED
    BY <1>1, Screen DEF Up

\* A cell is where its distance says.
LEMMA OneCellAt ==
    ASSUME NEW w \in Writers, NEW row \in Rows, NEW col \in Cols
    PROVE  Behind(w, Distance(w, row, col)) = w.chars[row][col]
  <1> DEFINE i == Up(Bottom) + w.column_position - Distance(w, row, col)
             r == i \div BUFFER_WIDTH
             c == i % BUFFER_WIDTH
  <1>1. /\ Up(Bottom) \in Int /\ Up(row) \in Int /\ row \in Int /\ col \in 0 .. BUFFER_WIDTH - 1
        /\ w.column_position \in Int /\ BUFFER_WIDTH \in Nat /\ Bottom \in Int
    BY UpBy, Screen DEF Writers
  <1>2. Distance(w, row, col) = Up(Bottom) - Up(row) + w.column_position - col
    BY <1>1, UpMinus DEF Distance
  <1>3. i \in Int /\ i = Up(row) + col
    BY <1>1, <1>2
  <1> HIDE DEF i
  <1>4. r \in Int /\ c \in 0 .. BUFFER_WIDTH - 1 /\ i = Up(r) + c /\ Up(r) \in Int
    BY <1>3, RowAndColumn, UpBy DEF Cols
  <1> HIDE DEF r, c
  <1>5. ASSUME NEW x \in Int, NEW y \in Int, x < y PROVE Up(y) - Up(x) >= BUFFER_WIDTH
    <2>1. y - x \in Nat /\ y - x # 0
      BY <1>5
    <2> QED
      BY <2>1, UpBy, UpMinus
  <1>6. ~ (row < r) /\ ~ (r < row)
    BY <1>1, <1>3, <1>4, <1>5
  <1>7. r = row
    BY <1>1, <1>4, <1>6
  <1>8. c = col
    BY <1>1, <1>3, <1>4, <1>7
  <1> QED
    BY <1>7, <1>8 DEF Behind, i, r, c

\* Every distance up to the top of the screen is that of a cell.
LEMMA CellAtDistance ==
    ASSUME NEW w \in Writers, NEW k \in Nat, k # 0, k <= Up(Bottom) + w.column_position
    PROVE  \E row \in Rows, col \in Cols : Distance(w, row, col) = k
  <1> DEFINE i == Up(Bottom) + w.column_position - k
             r == i \div BUFFER_WIDTH
             c == i % BUFFER_WIDTH
  <1>1. /\ Up(Bottom) \in Int /\ w.column_position \in 0 .. BUFFER_WIDTH /\ BUFFER_WIDTH \in Nat
        /\ Bottom \in Nat /\ i \in Int /\ i >= 0 /\ i < Up(Bottom) + BUFFER_WIDTH
    BY UpBy, Screen DEF Writers
  <1> HIDE DEF i
  <1>2. r \in Int /\ c \in Cols /\ c \in 0 .. BUFFER_WIDTH - 1 /\ i = Up(r) + c /\ Up(r) \in Int
    BY <1>1, RowAndColumn, UpBy, Zenon DEF Cols
  <1> HIDE DEF r, c
  <1>3. r >= 0
    <2> SUFFICES ASSUME r < 0 PROVE FALSE
      BY <1>2
    <2>1. 0 - r \in Nat /\ 0 - r # 0
      BY <1>2
    <2>2. Up(0 - r) >= BUFFER_WIDTH /\ Up(0 - r) = Up(0) - Up(r)
      BY <1>2, <2>1, UpBy, UpMinus
    <2> QED
      BY <1>1, <1>2, <2>2, UpBy
  <1>4. r <= Bottom
    <2> SUFFICES ASSUME r > Bottom PROVE FALSE
      BY <1>1, <1>2
    <2>1. r - Bottom \in Nat /\ r - Bottom # 0
      BY <1>1, <1>2
    <2>2. Up(r - Bottom) >= BUFFER_WIDTH /\ Up(r - Bottom) = Up(r) - Up(Bottom)
      BY <1>1, <1>2, <2>1, UpBy, UpMinus
    <2> QED
      BY <1>1, <1>2, <2>2
  <1>5. r \in Rows
    BY <1>2, <1>3, <1>4, Screen
  <1>6. Distance(w, r, c) = Up(Bottom) - Up(r) + w.column_position - c
    BY <1>1, <1>2, UpMinus DEF Distance
  <1>7. Distance(w, r, c) = k
    BY <1>1, <1>2, <1>6 DEF i
  <1> QED
    BY <1>2, <1>5, <1>7

\* A typed character is the cell before the cursor, behind those typed before.
LEMMA TypedBehind ==
    ASSUME NEW w \in Writers, NEW char \in Cells, NEW k \in Nat, k # 0, k <= Up(Bottom) + 1
    PROVE  LET x == WriteByte(w, char)
           IN  Behind(x, k) = IF k = 1 THEN char ELSE Behind(w, k - 1)
  <1> DEFINE x == WriteByte(w, char)
  <1>1. x \in Writers /\ x.column_position >= 1
    <2>1. Wrapped(w).column_position \in Cols
      BY WrappedShape
    <2>2. x \in Writers /\ x.column_position = Wrapped(w).column_position + 1
      BY WriteByteShape
    <2> HIDE DEF x
    <2> QED
      BY <2>1, <2>2, Screen
  <1>2. k <= Up(Bottom) + x.column_position
    <2>1. Up(Bottom) \in Int /\ x.column_position \in Int
      BY <1>1, UpBy, Screen DEF Writers
    <2> HIDE DEF x
    <2> QED
      BY <1>1, <2>1
  <1>3. PICK row \in Rows, col \in Cols : Distance(x, row, col) = k
    <2> HIDE DEF x
    <2> QED
      BY <1>1, <1>2, CellAtDistance
  <1>4. Behind(x, k) = x.chars[row][col]
    <2> HIDE DEF x
    <2> QED
      BY <1>1, <1>3, OneCellAt
  <1>5. Distance(WriteByte(w, char), row, col) >= 1
    BY <1>3
  <1>6. /\ k = 1 => x.chars[row][col] = char
        /\ k # 1 => \E above \in Rows : /\ Distance(w, above, col) = k - 1
                                        /\ x.chars[row][col] = w.chars[above][col]
    BY <1>3, <1>5, WriteByteCells
  <1> HIDE DEF x
  <1>7. k # 1 => Behind(w, k - 1) = x.chars[row][col]
    BY <1>6, OneCellAt
  <1> QED
    BY <1>4, <1>6, <1>7 DEF x

\* Backspace: what was behind the cleared cell is before the cursor.
LEMMA ErasedBehind ==
    ASSUME NEW w \in Writers, NEW k \in Nat, k # 0, k < Up(Bottom)
    PROVE  Behind(SetByte(Back(w), Blank), k) = Behind(w, k + 1)
  <1> DEFINE x == SetByte(Back(w), Blank)
  <1>1. /\ x \in Writers
        /\ \A row \in Rows, col \in Cols : Distance(x, row, col) >= 1 =>
              \/ x.chars[row][col] = Blank /\ row = 0 /\ w.column_position = 0
              \/ \E below \in Rows : /\ Distance(w, below, col) = Distance(x, row, col) + 1
                                     /\ x.chars[row][col] = w.chars[below][col]
    BY BackspaceCells
  <1>2. w.column_position = 0 => x.column_position = BUFFER_WIDTH - 1
    <2>1. /\ Back(w) \in Writers /\ Back(w).column_position \in Cols
          /\ w.column_position = 0 => Back(w).column_position = BUFFER_WIDTH - 1
      BY BackShape
    <2>2. Wrapped(Back(w)) = Back(w)
      BY <2>1, WrappedShape
    <2>3. Blank \in Cells
      BY Screen
    <2>4. x.column_position = Wrapped(Back(w)).column_position
      BY <2>1, <2>3, SetByteShape
    <2>5. x.column_position = Back(w).column_position
      BY <2>2, <2>4
    <2> QED
      BY <2>1, <2>5
  <1> HIDE DEF x
  <1>3. Up(Bottom) \in Int /\ x.column_position \in 0 .. BUFFER_WIDTH /\ BUFFER_WIDTH \in Nat
    BY <1>1, UpBy, Screen DEF Writers
  <1>4. k <= Up(Bottom) + x.column_position
    BY <1>3
  <1>5. PICK row \in Rows, col \in Cols : Distance(x, row, col) = k
    BY <1>1, <1>4, CellAtDistance
  <1>6. Behind(x, k) = x.chars[row][col]
    BY <1>1, <1>5, OneCellAt
  <1>7. ~ (row = 0 /\ w.column_position = 0)
    <2> SUFFICES ASSUME row = 0, w.column_position = 0 PROVE FALSE
      OBVIOUS
    <2>1. Bottom - 0 = Bottom
      BY Screen
    <2>2. k = Up(Bottom) + (BUFFER_WIDTH - 1) - col
      BY <1>2, <1>5, <2>1 DEF Distance
    <2>3. col \in Int /\ col < BUFFER_WIDTH
      BY Screen
    <2> QED
      BY <1>3, <2>2, <2>3
  <1>8. PICK below \in Rows : /\ Distance(w, below, col) = k + 1
                              /\ x.chars[row][col] = w.chars[below][col]
    BY <1>1, <1>5, <1>7
  <1>9. Behind(w, k + 1) = w.chars[below][col]
    BY <1>8, OneCellAt
  <1> QED
    BY <1>6, <1>8, <1>9 DEF x

\* The last n cells before the cursor.
Line(w, n) == [i \in 1 .. n |-> Behind(w, n - i + 1)]

\* A function on 1 .. n with one element more.
With(f, n, c) == [i \in 1 .. n + 1 |-> IF i = n + 1 THEN c ELSE f[i]]

\* A function on 1 .. n is a sequence; its end and its front.
LEMMA Listed ==
    ASSUME NEW S, NEW n \in Nat, NEW f \in [1 .. n -> S], NEW c
    PROVE  /\ Len(f) = n /\ (n = 0 <=> f = <<>>)
           /\ Append(f, c) = With(f, n, c)
           /\ n # 0 => SubSeq(f, 1, n - 1) = [i \in 1 .. n - 1 |-> f[i]]
  <1>1. f \in Seq(S \cup {c}) /\ Len(f) = n
    <2>1. f \in [1 .. n -> S \cup {c}]
      OBVIOUS
    <2> QED
      BY <2>1
  <1>2. n = 0 <=> f = <<>>
    BY <1>1
  <1>3. Append(f, c) = With(f, n, c)
    <2>1. c \in S \cup {c}
      OBVIOUS
    <2> DEFINE g == Append(f, c)
    <2>2. /\ g \in Seq(S \cup {c}) /\ Len(g) = n + 1
          /\ \A i \in 1 .. n + 1 : g[i] = IF i = n + 1 THEN c ELSE f[i]
      BY <1>1, <2>1
    <2> HIDE DEF g
    <2>3. g = [i \in 1 .. n + 1 |-> g[i]]
      BY <2>2
    <2>4. g = [i \in 1 .. n + 1 |-> IF i = n + 1 THEN c ELSE f[i]]
      BY <2>2, <2>3
    <2> QED
      BY <2>4 DEF g, With
  <1>4. n # 0 => SubSeq(f, 1, n - 1) = [i \in 1 .. n - 1 |-> f[i]]
    <2> SUFFICES ASSUME n # 0 PROVE SubSeq(f, 1, n - 1) = [i \in 1 .. n - 1 |-> f[i]]
      OBVIOUS
    <2> DEFINE g == SubSeq(f, 1, n - 1)
    <2>1. /\ g \in Seq(S \cup {c}) /\ Len(g) = n - 1
          /\ \A i \in 1 .. n - 1 : g[i] = f[i]
      BY <1>1
    <2> HIDE DEF g
    <2>2. g = [i \in 1 .. n - 1 |-> g[i]]
      BY <2>1
    <2>3. g = [i \in 1 .. n - 1 |-> f[i]]
      BY <2>1, <2>2
    <2> QED
      BY <2>3 DEF g
  <1> QED
    BY <1>1, <1>2, <1>3, <1>4

\* It is a sequence, and empty if it counts no cell.
LEMMA LineType ==
    ASSUME NEW w, NEW n \in Nat
    PROVE  /\ Len(Line(w, n)) = n /\ DOMAIN Line(w, n) = 1 .. n
           /\ n = 0 <=> Line(w, n) = <<>>
           /\ \A i \in 1 .. n : Line(w, n)[i] = Behind(w, n - i + 1)
           /\ \E S : Line(w, n) \in [1 .. n -> S]
  <1> DEFINE S == {Behind(w, n - i + 1) : i \in 1 .. n}
  <1>1. /\ DOMAIN Line(w, n) = 1 .. n
        /\ \A i \in 1 .. n : Line(w, n)[i] = Behind(w, n - i + 1)
    BY DEF Line
  <1>2. Line(w, n) \in [1 .. n -> S]
    BY DEF Line
  <1> HIDE DEF S
  <1>3. Len(Line(w, n)) = n /\ (n = 0 <=> Line(w, n) = <<>>)
    BY <1>2, Listed
  <1> QED
    BY <1>1, <1>2, <1>3

\* A character that is typed is appended to the line.
LEMMA TypedLine ==
    ASSUME NEW w \in Writers, NEW char \in Cells, NEW n \in Nat, n <= Up(Bottom)
    PROVE  Line(WriteByte(w, char), n + 1) = Append(Line(w, n), char)
  <1> DEFINE x == WriteByte(w, char)
             new == Line(x, n + 1)
             old == Line(w, n)
  <1>1. Up(Bottom) \in Int
    BY UpBy, Screen
  <1>2. /\ DOMAIN new = 1 .. n + 1
        /\ \A i \in 1 .. n + 1 : new[i] = Behind(x, n + 1 - i + 1)
        /\ new = [i \in 1 .. n + 1 |-> Behind(x, n + 1 - i + 1)]
    BY LineType DEF Line
  <1>3. Len(old) = n /\ \A i \in 1 .. n : old[i] = Behind(w, n - i + 1)
    BY LineType
  <1>4. Append(old, char) = With(old, n, char)
    <2>1. PICK S : old \in [1 .. n -> S]
      BY LineType, Zenon
    <2> HIDE DEF old
    <2> QED
      BY <2>1, Listed, Zenon
  <1>5. ASSUME NEW i \in 1 .. n + 1
        PROVE  new[i] = IF i = n + 1 THEN char ELSE old[i]
    <2> DEFINE k == n + 1 - i + 1
    <2>1. k \in Nat /\ k # 0 /\ k <= Up(Bottom) + 1 /\ (k = 1 <=> i = n + 1)
      BY <1>1
    <2>2. Behind(x, k) = IF k = 1 THEN char ELSE Behind(w, k - 1)
      <3> HIDE DEF k
      <3> QED
        BY <2>1, TypedBehind
    <2>3. i # n + 1 => i \in 1 .. n /\ k - 1 = n - i + 1
      OBVIOUS
    <2> HIDE DEF x, new, old
    <2>4. new[i] = Behind(x, k)
      BY <1>2
    <2> HIDE DEF k
    <2> QED
      BY <1>3, <2>1, <2>2, <2>3, <2>4
  <1> HIDE DEF x, new, old
  <1>6. new = With(old, n, char)
    BY <1>2, <1>5 DEF With
  <1> QED
    BY <1>4, <1>6 DEF x, new, old

\* Backspace takes the last character from the line.
LEMMA ErasedLine ==
    ASSUME NEW w \in Writers, NEW n \in Nat, n # 0, n <= Up(Bottom)
    PROVE  Line(SetByte(Back(w), Blank), n - 1) = SubSeq(Line(w, n), 1, n - 1)
  <1> DEFINE x == SetByte(Back(w), Blank)
             new == Line(x, n - 1)
             old == Line(w, n)
  <1>1. Up(Bottom) \in Int /\ n - 1 \in Nat
    BY UpBy, Screen
  <1>2. new = [i \in 1 .. n - 1 |-> Behind(x, n - 1 - i + 1)]
    BY DEF Line
  <1>3. Len(old) = n /\ \A i \in 1 .. n : old[i] = Behind(w, n - i + 1)
    BY LineType
  <1>4. SubSeq(old, 1, n - 1) = [i \in 1 .. n - 1 |-> old[i]]
    <2>1. PICK S : old \in [1 .. n -> S]
      BY LineType, Zenon
    <2> HIDE DEF old
    <2> QED
      BY <2>1, Listed
  <1>5. ASSUME NEW i \in 1 .. n - 1
        PROVE  Behind(x, n - 1 - i + 1) = old[i]
    <2> DEFINE k == n - 1 - i + 1
    <2>1. k \in Nat /\ k # 0 /\ k < Up(Bottom) /\ k + 1 = n - i + 1 /\ i \in 1 .. n
      BY <1>1
    <2>2. Behind(x, k) = Behind(w, k + 1)
      <3> HIDE DEF k
      <3> QED
        BY <2>1, ErasedBehind
    <2> HIDE DEF x, old
    <2> QED
      BY <1>3, <2>1, <2>2
  <1> HIDE DEF x, new, old
  <1>6. new = [i \in 1 .. n - 1 |-> old[i]]
    BY <1>2, <1>5
  <1> QED
    BY <1>4, <1>6 DEF x, new, old

\* The line of the refinement, by the cells behind the cursor.
LEMMA LineIs ==
    ASSUME writer \in Writers, NEW n \in Nat
    PROVE  BeforeCursor(n) = Line(writer, n)
  <1> DEFINE cursor == Bottom * BUFFER_WIDTH + writer.column_position
  <1>1. /\ Bottom * BUFFER_WIDTH = Up(Bottom) /\ Up(Bottom) \in Int
        /\ writer.column_position \in Int
    BY UpBy, Screen DEF Up, Writers
  <1>2. ASSUME NEW i \in 1 .. n
        PROVE  CellAt(cursor - n + i - 1) = Behind(writer, n - i + 1)
    <2>1. cursor - n + i - 1 = Up(Bottom) + writer.column_position - (n - i + 1)
      BY <1>1
    <2> HIDE DEF cursor
    <2> QED
      BY <2>1 DEF CellAt, Behind
  <1>3. BeforeCursor(n) = [i \in 1 .. n |-> CellAt(cursor - n + i - 1)]
    BY DEF BeforeCursor
  <1> HIDE DEF cursor
  <1> QED
    BY <1>2, <1>3 DEF Line

\* A text that is written stands before the cursor, behind what was there.
LEMMA WrittenBehind ==
    ASSUME NEW w \in Writers, NEW s \in Seq(Cells), NEW k \in Nat, k # 0, k <= Up(Bottom) + 1
    PROVE  Behind(WriteBytes(w, s), k) =
              IF k <= Len(s) THEN s[Len(s) - k + 1] ELSE Behind(w, k - Len(s))
  <1> DEFINE Shows(v, n, j) == Behind(v, j) = IF j <= n THEN s[n - j + 1] ELSE Behind(w, j - n)
             far == Up(Bottom) + 1
             R == {p \in Nat \X Writers : \A j \in 1 .. far : Shows(p[2], p[1], j)}
  <1>0. far \in Int /\ Len(s) \in Nat
    <2>1. Up(Bottom) \in Int
      BY UpBy, Screen
    <2> QED
      BY <2>1
  <1>1. <<0, w>> \in R
    <2>1. \A j \in 1 .. far : Shows(w, 0, j)
      BY <1>0
    <2> HIDE DEF Shows
    <2> QED
      BY <2>1
  <1>2. ASSUME NEW i \in 1 .. Len(s), NEW v, <<i - 1, v>> \in R
        PROVE  <<i, WriteByte(v, s[i])>> \in R
    <2> DEFINE x == WriteByte(v, s[i])
    <2>1. v \in Writers /\ s[i] \in Cells /\ i \in Nat /\ i # 0
      BY <1>2
    <2>2. \A j \in 1 .. far : Shows(v, i - 1, j)
      <3> HIDE DEF Shows, far
      <3> QED
        BY <1>2
    <2>3. x \in Writers
      BY <2>1, WriteByteShape
    <2>4. ASSUME NEW j \in 1 .. far PROVE Shows(x, i, j)
      <3>1. j \in Nat /\ j # 0 /\ j <= Up(Bottom) + 1
        BY <1>0
      <3>2. Behind(x, j) = IF j = 1 THEN s[i] ELSE Behind(v, j - 1)
        BY <2>1, <3>1, TypedBehind
      <3> HIDE DEF x
      <3>3. CASE j = 1
        BY <2>1, <3>2, <3>3
      <3>4. CASE j # 1
        <4>1. j - 1 \in 1 .. far
          BY <1>0, <3>1, <3>4
        <4>2. Behind(v, j - 1) = IF j - 1 <= i - 1 THEN s[(i - 1) - (j - 1) + 1]
                                 ELSE Behind(w, (j - 1) - (i - 1))
          BY <2>2, <4>1
        <4>3. /\ j - 1 <= i - 1 <=> j <= i
              /\ (i - 1) - (j - 1) + 1 = i - j + 1 /\ (j - 1) - (i - 1) = j - i
          BY <2>1, <3>1
        <4> QED
          BY <3>2, <3>4, <4>2, <4>3
      <3> QED
        BY <3>3, <3>4
    <2> HIDE DEF Shows, far, x
    <2>5. <<i, x>> \in R
      BY <2>1, <2>3, <2>4
    <2> QED
      BY <2>5 DEF x
  <1>3. <<Len(s), WriteBytes(w, s)>> \in R
    <2> HIDE DEF R
    <2> QED
      BY <1>0, <1>1, <1>2, WriteBytesInduction
  <1>4. k \in 1 .. far
    BY <1>0
  <1>5. Shows(WriteBytes(w, s), Len(s), k)
    <2> HIDE DEF Shows, far
    <2> QED
      BY <1>3, <1>4
  <1> QED
    BY <1>5

\* The last m elements of a function on 1 .. n with a sequence behind it.
LastOf(f, n, s, m) ==
    [i \in 1 .. m |-> LET k == m - i + 1
                      IN  IF k <= Len(s) THEN s[Len(s) - k + 1] ELSE f[n + Len(s) - k + 1]]

LEMMA EndingOf ==
    ASSUME NEW S, NEW n \in Nat, NEW f \in [1 .. n -> S], NEW s \in Seq(S),
           NEW m \in Nat, m <= n + Len(s)
    PROVE  Editor!Ending(f \o s, m) = LastOf(f, n, s, m)
  <1> DEFINE t == f \o s
             l == Len(s)
             g == SubSeq(t, Len(t) - m + 1, Len(t))
  <1>1. f \in Seq(S) /\ Len(f) = n /\ l \in Nat
    OBVIOUS
  <1>2. /\ t \in Seq(S) /\ Len(t) = n + l
        /\ \A i \in 1 .. n + l : t[i] = IF i <= n THEN f[i] ELSE s[i - n]
    BY <1>1
  <1> HIDE DEF t, l
  <1>3. Editor!Ending(t, m) = g
    BY DEF Editor!Ending
  <1>4. g \in Seq(S) /\ Len(g) = m /\ \A i \in 1 .. m : g[i] = t[n + l - m + 1 + i - 1]
    BY <1>1, <1>2 DEF l
  <1> HIDE DEF g
  <1>5. ASSUME NEW i \in 1 .. m
        PROVE  g[i] = LET k == m - i + 1
                      IN  IF k <= l THEN s[l - k + 1] ELSE f[n + l - k + 1]
    <2> DEFINE k == m - i + 1
    <2>1. k \in 1 .. m /\ n + l - m + 1 + i - 1 = n + l - k + 1 /\ m <= n + l
      BY <1>1 DEF l
    <2> HIDE DEF k
    <2>2. n + l - k + 1 \in 1 .. n + l /\ (n + l - k + 1 <= n <=> ~ (k <= l))
          /\ (n + l - k + 1) - n = l - k + 1
      BY <1>1, <2>1
    <2>3. g[i] = t[n + l - k + 1]
      BY <1>4, <2>1
    <2>4. g[i] = IF k <= l THEN s[l - k + 1] ELSE f[n + l - k + 1]
      BY <1>2, <2>2, <2>3
    <2> QED
      BY <2>4 DEF k
  <1>6. g = [i \in 1 .. m |-> g[i]]
    BY <1>4
  <1> QED
    BY <1>3, <1>5, <1>6 DEF t, l, LastOf

\* A text that is written moves into the line from behind.
LEMMA WrittenLine ==
    ASSUME NEW w \in Writers, NEW s \in Seq(Cells), NEW n \in Nat, NEW m \in Nat,
           m <= n + Len(s), m <= Up(Bottom) + 1
    PROVE  Line(WriteBytes(w, s), m) = Editor!Ending(Line(w, n) \o s, m)
  <1> DEFINE x == WriteBytes(w, s)
             l == Len(s)
             old == Line(w, n)
             shown(k) == IF k <= l THEN s[l - k + 1] ELSE Behind(w, k - l)
  <1>1. /\ Len(old) = n /\ \A i \in 1 .. n : old[i] = Behind(w, n - i + 1)
        /\ Up(Bottom) \in Int /\ l \in Nat
    <2>1. Up(Bottom) \in Int
      BY UpBy, Screen
    <2> QED
      BY <2>1, LineType
  <1>2. PICK S : old \in [1 .. n -> S]
    BY LineType, Zenon
  <1> DEFINE T == S \cup Cells
  <1>3. old \in [1 .. n -> T] /\ s \in Seq(T)
    <2> HIDE DEF old
    <2> QED
      BY <1>2
  <1>4. Editor!Ending(old \o s, m) = LastOf(old, n, s, m)
    <2> HIDE DEF old, T
    <2> QED
      BY <1>3, EndingOf
  <1>5. Line(x, m) = [i \in 1 .. m |-> Behind(x, m - i + 1)]
    BY DEF Line
  <1>6. ASSUME NEW i \in 1 .. m
        PROVE  Behind(x, m - i + 1) = LET k == m - i + 1
                                      IN  IF k <= l THEN s[l - k + 1] ELSE old[n + l - k + 1]
    <2> DEFINE k == m - i + 1
    <2>1. k \in Nat /\ k # 0 /\ k <= Up(Bottom) + 1 /\ k <= n + l
      BY <1>1
    <2> HIDE DEF k
    <2>2. Behind(x, k) = shown(k)
      BY <2>1, WrittenBehind
    <2> HIDE DEF x, old, l
    <2>3. ~ (k <= l) => /\ n + l - k + 1 \in 1 .. n
                        /\ n - (n + l - k + 1) + 1 = k - l
      BY <1>1, <2>1
    <2>4. Behind(x, k) = IF k <= l THEN s[l - k + 1] ELSE old[n + l - k + 1]
      BY <1>1, <2>2, <2>3
    <2> QED
      BY <2>4 DEF k
  <1> HIDE DEF x, old, l
  <1> QED
    BY <1>4, <1>5, <1>6 DEF x, old, l, LastOf

\* One character less is counted, and none has gone.
LEMMA ForgottenLine ==
    ASSUME NEW w, NEW n \in Nat, n # 0
    PROVE  Line(w, n - 1) = Tail(Line(w, n))
  <1> DEFINE old == Line(w, n)
             g == Tail(old)
  <1>1. Len(old) = n /\ \A i \in 1 .. n : old[i] = Behind(w, n - i + 1)
    BY LineType
  <1>2. PICK S : old \in [1 .. n -> S]
    BY LineType, Zenon
  <1> HIDE DEF old
  <1>3. old \in Seq(S) /\ old # <<>>
    BY <1>1, <1>2
  <1>4. g \in Seq(S) /\ Len(g) = n - 1 /\ \A i \in 1 .. n - 1 : g[i] = old[i + 1]
    BY <1>1, <1>3
  <1> HIDE DEF g
  <1>5. ASSUME NEW i \in 1 .. n - 1 PROVE g[i] = Behind(w, n - 1 - i + 1)
    <2>1. i + 1 \in 1 .. n /\ n - (i + 1) + 1 = n - 1 - i + 1
      OBVIOUS
    <2> QED
      BY <1>1, <1>4, <2>1
  <1>6. g = [i \in 1 .. n - 1 |-> g[i]]
    BY <1>4
  <1>7. Line(w, n - 1) = [i \in 1 .. n - 1 |-> Behind(w, n - 1 - i + 1)]
    BY DEF Line
  <1> QED
    BY <1>5, <1>6, <1>7 DEF g, old

\* What a step may do to the line.
Edited(old, new) ==
    \/ new = old
    \/ new = <<>>
    \/ \E char \in Keys : new = Append(old, Shown(char))
    \/ \E length \in RawNames : new = Editor!Ending(old \o NameOf(length), Len(old) + 1)
    \/ \E s \in Outputs : new = Editor!Ending(old \o s, Len(old))
    \/ old # <<>> /\ new = SubSeq(old, 1, Len(old) - 1)
    \/ old # <<>> /\ new = Tail(old)

\* key_event edits the line.
LEMMA KeyEventEdits ==
    ASSUME NEW st, Sound(st), NEW key \in DecodedKeys, st.count <= Up(Bottom)
    PROVE  LET new == KeyEvent(st, key)
           IN  Edited(Line(st.writer, st.count), Line(new.writer, new.count))
  <1> DEFINE w == st.writer
             n == st.count
             new == KeyEvent(st, key)
             L == Line(w, n)
             M == Line(new.writer, new.count)
  <1>1. /\ w \in Writers /\ n \in Nat /\ n <= Up(Bottom) /\ Up(Bottom) \in Int
        /\ st = [writer |-> w, count |-> n]
    BY UpBy, Screen DEF Sound
  <1>2. Len(L) = n /\ (n # 0 => L # <<>>)
    BY <1>1, LineType
  <1>3. CASE key = <<"enter", 0>>
    <2>1. new = Newline(w)
      BY <1>3 DEF KeyEvent
    <2>2. new.count = 0
      BY <2>1 DEF Newline
    <2> HIDE DEF new
    <2>3. M = <<>>
      BY <2>2, LineType
    <2> QED
      BY <2>3 DEF Edited, new
  <1>4. CASE key \in {"char"} \X Keys
    <2>1. key[1] = "char" /\ key[2] \in Keys /\ Shown(key[2]) \in Cells
      BY <1>4, Texts
    <2>2. new = KeyChar(st, key[2])
      BY <2>1 DEF KeyEvent
    <2>3. new.writer = WriteByte(w, Shown(key[2])) /\ new.count = n + 1
      BY <1>1, <2>2 DEF KeyChar
    <2> HIDE DEF new
    <2>4. M = Append(L, Shown(key[2]))
      BY <1>1, <2>1, <2>3, TypedLine
    <2> QED
      BY <2>1, <2>4 DEF Edited, new
  <1>5. CASE key = <<"backspace", 0>>
    <2>1. new = KeyBackspace(st)
      BY <1>5 DEF KeyEvent
    <2>2. CASE n = 0
      BY <2>1, <2>2 DEF KeyBackspace, Edited
    <2>3. CASE n # 0
      <3>1. new.writer = SetByte(Back(w), Blank) /\ new.count = n - 1
        BY <1>1, <2>1, <2>3 DEF KeyBackspace
      <3> HIDE DEF new
      <3>2. M = SubSeq(L, 1, n - 1)
        BY <1>1, <2>3, <3>1, ErasedLine
      <3> HIDE DEF L, M
      <3> QED
        BY <1>2, <2>3, <3>2 DEF Edited, new, L, M
    <2> QED
      BY <2>2, <2>3
  <1>6. CASE key \in {"raw"} \X RawNames
    <2> DEFINE name == NameOf(key[2])
    <2>1. key[1] = "raw" /\ key[2] \in RawNames /\ key[2] \in Nat /\ key[2] # 0
      BY <1>6, ShellAssumption, Zenon
    <2>2. name \in Seq(Cells) /\ Len(name) = key[2]
      BY <2>1, Texts
    <2>3. new = KeyRaw(st, key[2])
      BY <2>1 DEF KeyEvent
    <2>4. new.writer = WriteBytes(w, name) /\ new.count = n + 1
      BY <2>3 DEF KeyRaw
    <2> HIDE DEF new, name
    <2>5. n + 1 \in Nat /\ n + 1 <= n + Len(name) /\ n + 1 <= Up(Bottom) + 1
      BY <1>1, <2>1, <2>2
    <2>6. M = Editor!Ending(L \o name, n + 1)
      BY <1>1, <2>2, <2>4, <2>5, WrittenLine
    <2> QED
      BY <1>2, <2>1, <2>6 DEF Edited, new, name
  <1>7. CASE key = <<"raw_backspace", 0>>
    <2>1. new = RawBackspace(st)
      BY <1>7 DEF KeyEvent
    <2>2. CASE n = 0
      BY <2>1, <2>2 DEF RawBackspace, Edited
    <2>3. CASE n # 0 /\ w.column_position > 0
      <3>1. /\ new.writer = [WriteByte([w EXCEPT !.column_position = @ - 1], Blank)
                               EXCEPT !.column_position = @ - 1]
            /\ new.count = n - 1
        BY <2>1, <2>3 DEF RawBackspace
      <3> HIDE DEF new
      <3>2. new.writer = SetByte(Back(w), Blank)
        BY <1>1, <2>3, <3>1, RawBackspaceIs
      <3>3. M = SubSeq(L, 1, n - 1)
        BY <1>1, <2>3, <3>1, <3>2, ErasedLine, Zenon
      <3> HIDE DEF L, M
      <3> QED
        BY <1>2, <2>3, <3>3 DEF Edited, new, L, M
    <2>4. CASE n # 0 /\ ~ (w.column_position > 0)
      <3>1. new.writer = w /\ new.count = n - 1
        BY <2>1, <2>4 DEF RawBackspace
      <3> HIDE DEF new
      <3>2. M = Tail(L)
        BY <1>1, <2>4, <3>1, ForgottenLine
      <3> HIDE DEF L, M
      <3> QED
        BY <1>2, <2>4, <3>2 DEF Edited, new, L, M
    <2> QED
      BY <2>2, <2>3, <2>4
  <1> QED
    BY <1>3, <1>4, <1>5, <1>6, <1>7 DEF DecodedKeys

\* So does every step of the shell.
LEMMA StepEdits ==
    ASSUME ShellInv, [Next]_vars
    PROVE  Edited(Line(writer, written_char_count), Line(writer', written_char_count'))
  <1> DEFINE L == Line(writer, written_char_count)
             M == Line(writer', written_char_count')
  <1>0. /\ writer \in Writers /\ written_char_count \in Nat /\ written_char_count <= Up(Bottom)
        /\ ShellTypeOK /\ Up(Bottom) \in Int
    <2>1. MaxTyped \in Nat /\ MaxTyped <= Up(Bottom) /\ Up(Bottom) \in Int
      BY ShellAssumption, LineAssumption, UpBy, Screen DEF Up
    <2> QED
      BY <2>1 DEF ShellInv, ShellTypeOK, Writers
  <1>1. ASSUME written_char_count' = 0 PROVE Edited(L, M)
    <2>1. M = <<>>
      BY <1>1, LineType
    <2> QED
      BY <2>1 DEF Edited
  <1>2. ASSUME UNCHANGED <<writer, written_char_count>> PROVE Edited(L, M)
    BY <1>2 DEF Edited
  <1>3. CASE ShellInit
    BY <1>1, <1>3 DEF ShellInit, ShellInv
  <1>4. CASE InitKbHandler
    BY <1>2, <1>4 DEF InitKbHandler
  <1>5. ASSUME NEW s \in Outputs,
               PrintWriter(s) \/ PrintlnWriter(s) \/ PrintlnShell(s) \/ WriteColored(s)
        PROVE  written_char_count' = 0
    BY <1>5, Zenon DEF PrintWriter, PrintlnWriter, PrintlnShell, WriteColored, Become, Newline,
                       ShellInv
  <1>6. ASSUME NEW s \in Outputs, PrintShell(s) PROVE Edited(L, M)
    <2>1. writer' = WriteBytes(writer, s) /\ written_char_count' = written_char_count
      BY <1>6 DEF PrintShell
    <2>2. s \in Seq(Cells) /\ Len(s) \in Nat
      BY Texts
    <2>3. /\ written_char_count <= written_char_count + Len(s)
          /\ written_char_count <= Up(Bottom) + 1
      BY <1>0, <2>2
    <2>4. M = Editor!Ending(L \o s, written_char_count)
      BY <1>0, <2>1, <2>2, <2>3, WrittenLine
    <2>5. Len(L) = written_char_count
      BY <1>0, LineType
    <2> HIDE DEF L, M
    <2> QED
      BY <2>4, <2>5 DEF Edited
  <1>7. ASSUME NEW enabled \in BOOLEAN, SetEnablePrompt(enabled)
        PROVE  UNCHANGED <<writer, written_char_count>>
    BY <1>7 DEF SetEnablePrompt
  <1>8. ASSUME NEW key \in DecodedKeys, KeyboardInterrupt(key) PROVE Edited(L, M)
    <2>1. Become(CallKeyboardEvent(key))
      BY <1>8 DEF KeyboardInterrupt
    <2>2. keyboard = <<>> \/ keyboard = <<"key_event">>
      BY <1>0 DEF ShellTypeOK
    <2>3. CASE CallKeyboardEvent(key) = State
      BY <1>2, <2>1, <2>3 DEF Become, State
    <2>4. CASE CallKeyboardEvent(key) # State
      <3>1. INITIALIZED /\ CallKeyboardEvent(key) = KeyEvent(State, key)
        BY <2>2, <2>4, CalledOnce
      <3>2. Sound(State) /\ State.count <= Up(Bottom)
        BY <1>0, <3>1, StateSound
      <3> DEFINE new == KeyEvent(State, key)
      <3>3. Edited(Line(State.writer, State.count), Line(new.writer, new.count))
        BY <3>2, KeyEventEdits
      <3>4. State.writer = writer /\ State.count = written_char_count
        BY DEF State
      <3>5. writer' = new.writer /\ written_char_count' = new.count
        BY <2>1, <3>1 DEF Become
      <3> HIDE DEF new
      <3> QED
        BY <3>3, <3>4, <3>5
    <2> QED
      BY <2>3, <2>4
  <1>9. CASE UNCHANGED vars
    BY <1>2, <1>9 DEF vars
  <1> QED
    BY <1>1, <1>2, <1>3, <1>4, <1>5, <1>6, <1>7, <1>8, <1>9, Zenon DEF Next

\* The shell implements the line editor (Shell::key_event, Shell::write,
\* Shell::write_colored and the writer below them): on a screen of any size, as
\* long as what is typed fits it, and whatever text is put out in between, the
\* cells before the cursor that written_char_count counts are its line.
THEOREM ShellEditsLine == Spec => ImplementsLineEditor
  <1> DEFINE edited == BeforeCursor(written_char_count)
  <1>1. ShellInv => edited = Line(writer, written_char_count)
    BY ShellAssumption, LineIs DEF ShellInv, ShellTypeOK, Writers
  <1>2. ShellInv' => (edited = Line(writer, written_char_count))'
    BY <1>1, PTL
  <1>3. Init => Editor!Init
    <2> SUFFICES ASSUME Init PROVE edited = <<>>
      BY DEF Editor!Init
    <2>1. Line(writer, written_char_count) = <<>>
      BY LineType DEF Init
    <2> HIDE DEF edited
    <2> QED
      BY <1>1, <2>1, ShellInitOK
  <1>4. ShellInv /\ ShellInv' /\ [Next]_vars => [Editor!Next]_edited
    <2> SUFFICES ASSUME ShellInv, ShellInv', [Next]_vars PROVE [Editor!Next]_edited
      OBVIOUS
    <2>1. /\ edited = Line(writer, written_char_count)
          /\ edited' = Line(writer', written_char_count')
      BY <1>1, <1>2
    <2>2. Edited(edited, edited')
      BY <2>1, StepEdits
    <2>3. ASSUME NEW char \in Keys, edited' = Append(edited, Shown(char)) PROVE Editor!Next
      BY <2>3 DEF Editor!Next, Editor!Type
    <2>4. ASSUME NEW length \in RawNames,
                 edited' = Editor!Ending(edited \o NameOf(length), Len(edited) + 1)
          PROVE  Editor!Next
      <3>1. NameOf(length) \in {NameOf(l) : l \in RawNames}
        BY <2>4
      <3> HIDE DEF edited
      <3> QED
        BY <2>4, <3>1, Zenon DEF Editor!Next, Editor!TypeRaw, edited
    <2>5. ASSUME NEW s \in Outputs, edited' = Editor!Ending(edited \o s, Len(edited))
          PROVE  Editor!Next
      BY <2>5, Zenon DEF Editor!Next, Editor!Output
    <2>6. ASSUME edited # <<>>, edited' = SubSeq(edited, 1, Len(edited) - 1) PROVE Editor!Next
      BY <2>6 DEF Editor!Next, Editor!Backspace
    <2>7. ASSUME edited # <<>>, edited' = Tail(edited) PROVE Editor!Next
      BY <2>7 DEF Editor!Next, Editor!Forget
    <2>8. ASSUME edited' = <<>> PROVE Editor!Next
      BY <2>8 DEF Editor!Next, Editor!Discard
    <2> HIDE DEF edited
    <2> QED
      BY <2>2, <2>3, <2>4, <2>5, <2>6, <2>7, <2>8 DEF Edited
  <1> QED
    BY <1>3, <1>4, ShellInvariant, PTL DEF Spec, ImplementsLineEditor, Editor!Spec
=============================================================================
